--------------------------- MODULE ShadowCampaign ---------------------------
(***************************************************************************)
(* The 90-day shadow campaign: observations of days, in order, counted     *)
(* until the campaign is complete, and a restart from what to_dict keeps.  *)
(***************************************************************************)
EXTENDS Integers, FiniteSets

CONSTANTS
  CampaignTicks,    \* bound: the clock, and the times of observations
  TicksPerDay,
  MinElapsed,       \* min_elapsed_days
  MinValidDays,     \* min_valid_observation_days
  DecisionIds,
  MaxRestarts       \* bound: restarts

ASSUME CampaignAssumption ==
  /\ {CampaignTicks, MinElapsed, MinValidDays, MaxRestarts} \subseteq Nat
  /\ TicksPerDay \in Nat \ {0}

VARIABLES
  campaign,       \* the fields that to_dict keeps
  _observations,  \* times of the valid ones, of this process
  _decisions,     \* ids, of this process
  now,            \* the clock, in ticks
  restarts,
  observed        \* history: times of the valid observations, of every process

campaignVars == <<campaign, _observations, _decisions, now, restarts, observed>>

Never == -1
Day(t) == t \div TicksPerDay
Days(times) == {Day(t) : t \in times}

-----------------------------------------------------------------------------
start ==
  /\ campaign' = [campaign EXCEPT
       !.start_time = IF campaign.status = "NOT_STARTED" THEN now ELSE @, !.status = "RUNNING"]
  /\ UNCHANGED <<_observations, _decisions, now, restarts, observed>>

pause ==
  /\ campaign.status = "RUNNING"
  /\ campaign' = [campaign EXCEPT !.status = "PAUSED"]
  /\ UNCHANGED <<_observations, _decisions, now, restarts, observed>>

resume ==
  /\ campaign.status = "PAUSED"
  /\ campaign' = [campaign EXCEPT !.status = "RUNNING"]
  /\ UNCHANGED <<_observations, _decisions, now, restarts, observed>>

valid_days(times) == Cardinality(Days(times))

valid_observation_days(times) == valid_days(times)

\* Only an observation later than the last is taken, whatever the status.
record_observation(timestamp, valid) ==
  LET times == IF valid THEN _observations \cup {timestamp} ELSE _observations
  IN  /\ timestamp > campaign.last_observation_time
      /\ _observations' = times
      /\ observed' = IF valid THEN observed \cup {timestamp} ELSE observed
      /\ campaign' = [campaign EXCEPT
           !.last_observation_time = timestamp,
           !.valid_observation_days = IF valid THEN valid_observation_days(times) ELSE @]
      /\ UNCHANGED <<_decisions, now, restarts>>

record_decision(id) ==
  /\ id \notin _decisions
  /\ _decisions' = _decisions \cup {id}
  /\ UNCHANGED <<campaign, _observations, now, restarts, observed>>

elapsed_real_calendar_days ==
  IF campaign.start_time = Never THEN 0 ELSE (now - campaign.start_time) \div TicksPerDay

maybe_complete ==
  /\ elapsed_real_calendar_days >= MinElapsed
  /\ campaign' = [campaign EXCEPT
       !.status = IF campaign.valid_observation_days >= MinValidDays
                  THEN "COMPLETED" ELSE "DEGRADED"]
  /\ UNCHANGED <<_observations, _decisions, now, restarts, observed>>

\* from_dict(to_dict()): the observations and the decisions are not kept.
from_dict ==
  /\ restarts < MaxRestarts
  /\ restarts' = restarts + 1
  /\ _observations' = {} /\ _decisions' = {}
  /\ UNCHANGED <<campaign, now, observed>>

CampaignTick ==
  /\ now < CampaignTicks
  /\ now' = now + 1
  /\ UNCHANGED <<campaign, _observations, _decisions, restarts, observed>>

-----------------------------------------------------------------------------
CampaignInit ==
  /\ campaign = [status |-> "NOT_STARTED", start_time |-> Never,
                 last_observation_time |-> Never, valid_observation_days |-> 0]
  /\ _observations = {} /\ _decisions = {} /\ now = 0 /\ restarts = 0 /\ observed = {}

CampaignNext ==
  \/ start \/ pause \/ resume \/ maybe_complete \/ from_dict \/ CampaignTick
  \/ \E t \in 0..CampaignTicks, valid \in BOOLEAN : record_observation(t, valid)
  \/ \E id \in DecisionIds : record_decision(id)

-----------------------------------------------------------------------------
(* Properties                                                              *)

\* This module's share of the type invariant.
CampaignTypeOK ==
  /\ campaign.status \in {"NOT_STARTED", "RUNNING", "PAUSED", "DEGRADED", "COMPLETED"}
  /\ {campaign.start_time, campaign.last_observation_time} \subseteq Never..CampaignTicks
  /\ campaign.valid_observation_days \in 0..CampaignTicks + 1
  /\ _observations \subseteq 0..CampaignTicks /\ observed \subseteq 0..CampaignTicks
  /\ _decisions \subseteq DecisionIds /\ now \in 0..CampaignTicks /\ restarts \in 0..MaxRestarts

\* A campaign that is COMPLETED has seen as many different days as it must
\* and has lasted as long as it must, whatever was paused, repeated, taken
\* out of order or lost at a restart (maybe_complete, record_observation).
CompletionIsEarned ==
  campaign.status = "COMPLETED" =>
    /\ Cardinality(Days(observed)) >= MinValidDays
    /\ now - campaign.start_time >= MinElapsed * TicksPerDay

\* The days that the campaign counts never become fewer (the module says
\* that its state persists across restarts).  The code breaks it: from_dict
\* begins with no observations, and the next one counts only itself.
DaysAreKept ==
  [][campaign'.valid_observation_days >= campaign.valid_observation_days]_campaignVars
=============================================================================
