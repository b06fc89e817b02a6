---------------------------- MODULE MCChiefTrader ----------------------------
(* A small instance of ChiefTrader for TLC. *)
EXTENDS ChiefTrader

\* A perpetual, and a spot coin that the market page shows.
MCsymbols == <<"btc", "ltc">>

Spec == ChiefInit /\ [][ChiefNext]_chiefVars /\ ChiefFairness
=============================================================================
