---------------------------- MODULE MCReplySending ----------------------------
(* Small instances of ReplySending for TLC.                                 *)
EXTENDS ReplySending, TLC

CONSTANTS m1, m2, s1, s2

TwoSenders == {s1, s2}
SenderSymmetry == Permutations(TwoSenders)
=============================================================================
