------------------------------ MODULE MCMarket ------------------------------
(* The four parts of the market data, for TLC.  They share no state: each  *)
(* behaviour exercises the part that topic selects, and the others stay in *)
(* one of their initial states.                                            *)
EXTENDS MarketBook, MarketFeed, InstrumentRegistry, CandleBackfill

VARIABLE topic

marketVars == <<topic, bookVars, feedVars, registryVars, backfillVars>>

Init ==
  /\ topic \in {"book", "feed", "registry", "backfill"}
  /\ BookInit /\ (topic = "book" \/ provider = "none")
  /\ FeedInit /\ (topic = "feed" \/ feed = "OKX")
  /\ RegistryInit /\ (topic = "registry" \/ listing = [i \in Instrument |-> "absent"])
  /\ BackfillInit /\ (topic = "backfill" \/ (candles = 0 /\ maxPages = 0))

Book == topic = "book" /\ BookNext /\ UNCHANGED <<topic, feedVars, registryVars, backfillVars>>
Feed == topic = "feed" /\ FeedNext /\ UNCHANGED <<topic, bookVars, registryVars, backfillVars>>
Registry ==
  topic = "registry" /\ RegistryNext /\ UNCHANGED <<topic, bookVars, feedVars, backfillVars>>
Backfill ==
  topic = "backfill" /\ BackfillNext /\ UNCHANGED <<topic, bookVars, feedVars, registryVars>>

\* The tasks of the event loop and of the tick go on; every caller refreshes
\* again and again; the operator repeats the command.
Fairness ==
  /\ \A f \in Feeder : WF_bookVars(topic = "book" /\ FeederStep(f))
  /\ WF_bookVars(topic = "book" /\ TickStep)
  /\ \A c \in Caller : WF_feedVars(topic = "feed" /\ CallerStep(c))
  /\ \A c \in Command : WF_registryVars(topic = "registry" /\ CommandStep(c))

Spec == Init /\ [][Book \/ Feed \/ Registry \/ Backfill]_marketVars /\ Fairness

MarketTypeOK == BookTypeOK /\ FeedTypeOK /\ RegistryTypeOK

\* The liveness of each part, in the behaviours that exercise it.
BookSettles == topic = "book" => BookCatchesUp
FeedSettles == topic = "feed" => FeedRecovers
RegistrySettles == topic = "registry" => UniverseSettles

\* After failures and overlaps the market data comes right, and no row of the
\* registry is lost on the way.
MarketSettles == BookSettles /\ FeedSettles /\ RegistrySettles /\ HistoryIsKept
=============================================================================
