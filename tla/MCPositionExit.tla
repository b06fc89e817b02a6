---------------------------- MODULE MCPositionExit ----------------------------
(* Small instances of PositionExit for TLC: a spot symbol that is bought, a    *)
(* perpetual one that is sold short.                                           *)
EXTENDS PositionExit

CONSTANTS spot, perp

OnePerp     == {perp}
SpotAndPerp == {spot, perp}
Buy         == {<<spot, 1>>}
Short       == {<<perp, -1>>}
BuyAndShort == Buy \cup Short
=============================================================================
