---------------------------- MODULE MCEngineLease ----------------------------
(* Small instances of EngineLease for TLC. *)
EXTENDS EngineLease

CONSTANTS e1, e2

TwoEngines == {e1, e2}
=============================================================================
