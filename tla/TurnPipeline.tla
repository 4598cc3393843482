----------------------------- MODULE TurnPipeline -----------------------------
(***************************************************************************)
(* The conversation workers and the senders together, over one store: what *)
(* a turn's dispatch adds is what the senders fetch, and the two repair    *)
(* lists of the scanner work on the same intents.                          *)
(***************************************************************************)
EXTENDS ConversationTurn, MessageSend

pipelineVars == <<storeVars, ctVars, msVars>>

PipelineInit == Init /\ MSInit

PipelineNext ==
    \/ CTNext /\ UNCHANGED msVars
    \/ MSNext /\ UNCHANGED ctVars
    \/ FlipEligibility /\ UNCHANGED <<ctVars, msVars>>

PipelineSpec == PipelineInit /\ [][PipelineNext]_pipelineVars

-----------------------------------------------------------------------------
\* What reaches the employee is the one committed answer: nothing is claimed,
\* posted or recorded for a message whose turn is not committed.
OnlyAnswersAreSent ==
    \A m \in Messages :
        /\ wire[m] <= 1
        /\ attempt[m] => Committed(m) /\ intent[m]["message_send"] # "absent"

\* A receipted answer that no newer message supersedes is in the hands of the
\* senders, even if the scanner's recovery job overtook the worker between its commit
\* and its dispatch.
ReceiptedReplyIsSendable ==
    \A m \in Messages :
        receipt[m] /\ Committed(m) /\ flips = 0
            => "message_send" \in WorkHanded[m] \/ Superseded(m)

\* The whole pipeline implements TurnOutcome, although both the worker and the
\* reply scanner mark the intents of the same turn.
PipelineImplementsOutcome == SendOutcome!Spec
=============================================================================
