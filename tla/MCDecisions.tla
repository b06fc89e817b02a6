----------------------------- MODULE MCDecisions -----------------------------
(* The way of a decision, for TLC: the connection to the venue, the        *)
(* evidence, the indicators and the factors, the gates, the venue's orders *)
(* and the report on them, the history that the operator reads and the shadow      *)
(* campaign.  The parts share no state: each behaviour exercises the part  *)
(* that topic selects.                                                     *)
EXTENDS VenueOrders, OKXConnection, ExplorationReport, FactorSnapshot,
        StrategyEvidence, ExecutionGate, TechnicalIndicators, MarketHistory,
        ShadowCampaign

CONSTANT Topics   \* the parts that a run exercises

VARIABLE topic

decisionVars == <<topic, venueVars, connectionVars, reportVars, factorVars,
                  evidenceVars, gateVars, indicatorVars, historyVars, campaignVars>>

\* Markets around the thresholds of the strategies, one family of features at a time.
Flat == [trend |-> 0, return_1 |-> 0, return_5 |-> 0, return_20 |-> 0, above_ema20 |-> 0,
         zscore |-> 0, above_high |-> -200, above_low |-> 200, volume_ratio |-> 100,
         funding |-> 0, basis |-> 0, derivatives |-> FALSE, volatility |-> 0]
TrendView ==
  {[Flat EXCEPT !.trend = t, !.return_5 = r5, !.return_20 = r20, !.above_ema20 = p, !.zscore = z] :
     t \in {-120, -45, -35, -20, 0, 20, 35, 45, 120}, r5 \in {-41, -1, 1, 41}, r20 \in {-1, 0, 1},
     p \in {-61, -60, 0, 60, 61}, z \in {-250, -75, 0, 75, 249}}
RangeView ==
  {[Flat EXCEPT !.above_high = d[1], !.above_low = d[2], !.zscore = z, !.return_1 = r1,
                !.return_20 = r20, !.volume_ratio = v] :
     d \in {<<-200, 200>>, <<-61, 60>>, <<-60, 61>>, <<-41, 40>>, <<-40, 41>>,
            <<2, 100>>, <<3, 100>>, <<-100, -3>>, <<-100, -2>>},
     z \in {-250, -151, -150, -75, 0, 75, 150, 151, 250}, r1 \in {-1, 0, 1}, r20 \in {-1, 1},
     v \in {79, 80, 119, 120}}
FundingView ==
  {[Flat EXCEPT !.funding = f, !.basis = b, !.derivatives = a, !.trend = t] :
     f \in {-6, -4, 0, 4, 6}, b \in {-6, -2, -1, 0, 1, 2, 6}, a \in BOOLEAN, t \in {-120, 0, 120}}
MCMarkets == TrendView \cup RangeView \cup FundingView

C(t, c) == [ts |-> t, close |-> c]
InOrder == <<C(1, 1), C(2, 1), C(3, 1)>>
\* For one market the exchange answers in every order; for the others in that of the time.
MCCandles(m) ==
  IF [m EXCEPT !.volatility = 0] # Flat THEN {InOrder}
  ELSE UNION {[1..n -> {C(t, c) : t \in 1..3, c \in {0, 1}}] : n \in 0..3}

\* Quiet, rising, falling and mixed candles, and one that cannot be read.
Bar(h, l, c, v) == [high |-> h, low |-> l, close |-> c, volume |-> v, readable |-> TRUE]
MCBars == {Bar(2, 2, 2, 1), Bar(2, 1, 1, 1), Bar(3, 1, 1, 0), Bar(3, 2, 3, 1), Bar(3, 1, 2, 2),
           [Bar(2, 2, 2, 1) EXCEPT !.readable = FALSE]}
MCMacd == <<1, 2, 2>>

AllTopics == {"venue", "connection", "report", "factors", "evidence", "gate", "indicators",
              "history", "campaign"}

\* A part that is not the topic is in one of its initial states.
Init ==
  /\ topic \in Topics
  /\ EvidenceInit /\ (topic # "evidence" => market = Flat)
  /\ GateInit
  /\ VenueInit    /\ (topic # "venue" => adapter = "okx")
  /\ ConnectionInit /\ (topic # "connection" => file = NoKeys /\ accepted = {})
  /\ ReportInit /\ FactorInit /\ IndicatorsInit /\ CampaignInit
  /\ HistoryInit  /\ (topic # "history" => newest = [d \in _DATASETS |-> 0] /\ dataset = "candles")

Venue ==
  topic = "venue" /\ VenueNext
  /\ UNCHANGED <<topic, connectionVars, reportVars, factorVars, evidenceVars,
                  gateVars, indicatorVars, historyVars, campaignVars>>
Connection ==
  topic = "connection" /\ ConnectionNext
  /\ UNCHANGED <<topic, venueVars, reportVars, factorVars, evidenceVars,
                  gateVars, indicatorVars, historyVars, campaignVars>>
Report ==
  topic = "report" /\ ReportNext
  /\ UNCHANGED <<topic, venueVars, connectionVars, factorVars, evidenceVars,
                  gateVars, indicatorVars, historyVars, campaignVars>>
Factors ==
  topic = "factors" /\ FactorNext
  /\ UNCHANGED <<topic, venueVars, connectionVars, reportVars, evidenceVars,
                  gateVars, indicatorVars, historyVars, campaignVars>>
Evidence ==
  topic = "evidence" /\ EvidenceNext
  /\ UNCHANGED <<topic, venueVars, connectionVars, reportVars, factorVars,
                  gateVars, indicatorVars, historyVars, campaignVars>>
Gates ==
  topic = "gate" /\ GateNext
  /\ UNCHANGED <<topic, venueVars, connectionVars, reportVars, factorVars,
                  evidenceVars, indicatorVars, historyVars, campaignVars>>
Indicators ==
  topic = "indicators" /\ calculate_technical_indicators
  /\ UNCHANGED <<topic, venueVars, connectionVars, reportVars, factorVars,
                  evidenceVars, gateVars, historyVars, campaignVars>>
History ==
  topic = "history" /\ HistoryNext
  /\ UNCHANGED <<topic, venueVars, connectionVars, reportVars, factorVars,
                  evidenceVars, gateVars, indicatorVars, campaignVars>>

Campaign ==
  topic = "campaign" /\ CampaignNext
  /\ UNCHANGED <<topic, venueVars, connectionVars, reportVars, factorVars,
                  evidenceVars, gateVars, indicatorVars, historyVars>>

\* A validation that has begun goes on, in the behaviours that exercise it.
Fairness == \A v \in Validator : WF_connectionVars(topic = "connection" /\ ValidatorStep(v))

Spec ==
  Init
  /\ [][\/ Venue \/ Connection \/ Report \/ Factors \/ Evidence \/ Gates
        \/ Indicators \/ History \/ Campaign]_decisionVars
  /\ Fairness

\* The parts' shares of the type invariant, together.
DecisionsTypeOK ==
  /\ topic \in Topics
  /\ VenueTypeOK /\ ConnectionTypeOK /\ ReportTypeOK /\ FactorTypeOK
  /\ EvidenceTypeOK /\ GateTypeOK /\ IndicatorsTypeOK /\ HistoryTypeOK
  /\ CampaignTypeOK

\* The liveness of the validations, in the behaviours that exercise them.
ValidationsAreAnswered == topic = "connection" => ValidationIsAnswered

\* What the process believes of the venue is what the venue said: of an order and
\* of the keys.
VenueAnswersAreTrue ==
  OneOrderPerId /\ FinalIsTheVenues /\ AsksOneAtATime /\ VerdictIsOfTheKeys

\* Long and short are symmetric (SPAC.md, line 159), in the strategies and in the
\* indicators they are shown with.
LongAndShortMirror == MirrorImage /\ TrendFamilyAgrees /\ DominantCandidateTrades /\ IndicatorsMirror

\* The evidence of a decision is complete, its failures are confined, and its id
\* resolves.
SnapshotIsTrue ==
  EveryFactorOnce /\ ErrorsStayInTheirGroup /\ SnapshotIdResolves /\ EveryCandleCounts /\ WindowedForget

\* Callers that share the limits exceed them by what is in flight, and no more.
LimitsAreBounded == OpenOrdersBounded /\ SpotOvershootBounded

\* What is reported happened, once, without a hole: round trips, pages of
\* history, days of a campaign.
RecordsAreWhole == TradesAreRoundTrips /\ RoundTripsAreReported /\ PagesMeet /\ CompletionIsEarned
=============================================================================
