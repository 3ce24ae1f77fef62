---------------------------- MODULE MCWingsRewards ----------------------------
(***************************************************************************)
(* Instances of WingsRewards for TLC.                                      *)
(***************************************************************************)
EXTENDS WingsRewards, TLC

AllEndpoints == {"checkout", "complete", "close", "issue", "grant", "crash"}

\* Two and a half pounds earn two stamps, or one when a pound of them was free;
\* two given by hand are too many for a card of three that has two.
Weights == {5}
Two == {2}

CardSymmetry == Permutations(Workers) \cup Permutations(Customers) \cup Permutations(Orders)
=============================================================================
