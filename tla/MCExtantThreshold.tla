-------------------------- MODULE MCExtantThreshold --------------------------
(* Every proportion of two decimals, and two outside the range. *)
EXTENDS ExtantThreshold

MCHundredths == -1..101
MCSizes == {0, 1, 7, 25}
==============================================================================
