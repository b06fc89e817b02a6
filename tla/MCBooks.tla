------------------------------- MODULE MCBooks -------------------------------
(* Small instances of Books for TLC. *)
EXTENDS Books

TwoPrices   == {8, 16}
FundingRates == {1}

=============================================================================
