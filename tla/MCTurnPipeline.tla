---------------------------- MODULE MCTurnPipeline ----------------------------
(* Small instances of TurnPipeline for TLC.                                 *)
EXTENDS TurnPipeline, TLC

CONSTANTS m1, w1, s1
=============================================================================
