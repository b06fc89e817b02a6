----------------------------- MODULE MCLearning -----------------------------
(* The learning side, for TLC: reviews, trade episodes, the daily review   *)
(* and the changes that come of them.  The parts share no state: each      *)
(* behaviour exercises the part that topic selects.                        *)
EXTENDS ReviewJobs, TradeEpisodes, DailyGovernance, ReleaseChange

VARIABLE topic

learningVars == <<topic, reviewVars, episodeVars, governanceVars, candidateVars, promotionVars>>

\* A week of two days, its month and its year; the first day has two reviews.
MCChildrenOf == [p \in Period |-> CASE p \in Week  -> <<1, 2>>
                                   [] p \in Month -> SetToSeq(Week)
                                   [] OTHER       -> SetToSeq(Month)]
MCEndOf == [p \in Period |-> 2]
MCDailyReviews == [x \in {<<1, 1>>, <<1, 2>>, <<2, 1>>} |-> "lesson"]

\* A detour is written like a factor and resolves to the engine's file.
MCFileOf == [p \in Path |-> CASE p = "factor" -> "factor.py"
                              [] p = "away"   -> Outside
                              [] OTHER        -> "engine.py"]
MCAsked == [r \in Runner |-> IF r = Coordinator THEN Period ELSE Week]

Init ==
  /\ topic \in {"reviews", "episodes", "governance", "candidates", "promotion"}
  /\ ReviewInit /\ EpisodeInit /\ GovernanceInit /\ CandidateInit /\ PromotionInit

Reviews ==
  topic = "reviews" /\ ReviewNext
  /\ UNCHANGED <<topic, episodeVars, governanceVars, candidateVars, promotionVars>>
Episodes ==
  topic = "episodes" /\ EpisodeNext
  /\ UNCHANGED <<topic, reviewVars, governanceVars, candidateVars, promotionVars>>
Governance ==
  topic = "governance" /\ GovernanceNext
  /\ UNCHANGED <<topic, reviewVars, episodeVars, candidateVars, promotionVars>>
Candidates ==
  topic = "candidates" /\ CandidateNext
  /\ UNCHANGED <<topic, reviewVars, episodeVars, governanceVars, promotionVars>>
Promotions ==
  topic = "promotion" /\ PromotionNext
  /\ UNCHANGED <<topic, reviewVars, episodeVars, governanceVars, candidateVars>>

\* The days pass, and each runner goes on as long as a review is due.
Fairness ==
  /\ WF_reviewVars(topic = "reviews" /\ Midnight)
  /\ \A r \in Runner :
       WF_reviewVars(topic = "reviews" /\ (\/ RunnerStep(r)
                                          \/ \E p \in PeriodFor \cap Asked[r] : Begin(r, p)))

Spec ==
  Init /\ [][Reviews \/ Episodes \/ Governance \/ Candidates \/ Promotions]_learningVars /\ Fairness

LearningTypeOK == ReviewTypeOK

\* The liveness of the reviews, in the behaviours that exercise them.
ReviewsComplete == topic = "reviews" => JobsComplete

\* What a review counts is what there was: each day once, no trade twice, nothing
\* confirmed by one day's repetition and nothing completed without its report.
CountsAreHonest == CompletedHasReport /\ CountedOnce /\ ConfirmedOnTwoDays /\ RowsAreOfTheirDate

\* Learning goes by whole trades: those that were made while the fills come in
\* order, and under any disturbance none that is unfinished or quarantined.
EpisodesAreSound == [](EpisodesAreTrades /\ EpisodesNetToZero) /\ QuarantineIsHonoured

\* Every review is completed, and a stored report is never changed.
ReviewsAreFinished == ReportsAreFinal /\ ReviewsComplete
=============================================================================
