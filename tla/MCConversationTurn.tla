-------------------------- MODULE MCConversationTurn --------------------------
(* Small instances of ConversationTurn for TLC.                             *)
EXTENDS ConversationTurn, TLC

CONSTANTS m1, m2, w1, w2

NoMessages == {}
OneMessage == {m1}
TwoMessages == {m1, m2}
TwoWorkers == {w1, w2}
NoneNewer == {}
SecondIsNewer == {<<m1, m2>>}
Symmetry == Permutations(TwoWorkers)
=============================================================================
