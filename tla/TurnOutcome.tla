----------------------------- MODULE TurnOutcome -----------------------------
(***************************************************************************)
(* What the conversation worker promises about a turn, without saying how: *)
(* each inbound message is answered once, for good, and together with the  *)
(* answer the turn lists the work that follows from it (post the reply,    *)
(* extract memories, ...).  Only listed work is handed to a queue, and     *)
(* work counts as settled only after it was handed over.                   *)
(*                                                                         *)
(* ConversationTurn, ReplySending and TurnPipeline implement it.           *)
(***************************************************************************)
EXTENDS Naturals

CONSTANTS Messages, SideKinds

VARIABLES
    outcome,   \* the text a message was answered with, or "none"
    dispatch,  \* per message and kind of work: absent, pending, queued
    handed     \* the kinds of work handed to their queues

Kinds == {"message_send"} \union SideKinds

Init ==
    /\ outcome = [m \in Messages |-> "none"]
    /\ dispatch = [m \in Messages |-> [k \in Kinds |-> "absent"]]
    /\ handed = [m \in Messages |-> {}]

\* Only a model's reply is followed by other work than posting it.
Answer(m, text, side) ==
    /\ outcome[m] = "none"
    /\ text # "reply" => side = {}
    /\ outcome' = [outcome EXCEPT ![m] = text]
    /\ dispatch' = [dispatch EXCEPT ![m] =
            [k \in Kinds |-> IF k \in side \union {"message_send"} THEN "pending"
                                                                  ELSE "absent"]]
    /\ UNCHANGED handed

HandOver(m, k) ==
    /\ dispatch[m][k] # "absent"
    /\ handed' = [handed EXCEPT ![m] = @ \union {k}]
    /\ UNCHANGED <<outcome, dispatch>>

SettleWork(m, k) ==
    /\ k \in handed[m] /\ dispatch[m][k] = "pending"
    /\ dispatch' = [dispatch EXCEPT ![m][k] = "queued"]
    /\ UNCHANGED <<outcome, handed>>

Next ==
    \E m \in Messages :
        \/ \E text \in {"reply", "input_filtered", "processing_failed"},
              side \in SUBSET SideKinds : Answer(m, text, side)
        \/ \E k \in Kinds : HandOver(m, k) \/ SettleWork(m, k)

Spec == Init /\ [][Next]_<<outcome, dispatch, handed>>
=============================================================================
