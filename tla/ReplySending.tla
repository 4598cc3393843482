----------------------------- MODULE ReplySending -----------------------------
(***************************************************************************)
(* MessageSend by itself, with the conversation worker reduced to what a   *)
(* sender sees of it: a turn is committed, later its send job is added,    *)
(* later the intent is marked; the worker may stop after any of these.     *)
(***************************************************************************)
EXTENDS MessageSend

sendVars == <<storeVars, msVars>>

CommitReply(m) ==
    /\ ~Committed(m)
    /\ RecordCommittedTurn(m, "reply", {"message_send"})
    /\ UNCHANGED <<added, eligible, faults, flips, msVars>>

QueueReply(m) ==
    /\ Committed(m) /\ "message_send" \notin added[m]
    /\ EnqueueDispatch(m, "message_send")
    /\ UNCHANGED <<effect, intent, eligible, faults, flips, msVars>>

MarkReplyQueued(m) ==
    /\ "message_send" \in added[m] /\ intent[m]["message_send"] = "pending"
    /\ MarkCommittedDispatchQueued(m, "message_send")
    /\ UNCHANGED <<effect, added, eligible, faults, flips, msVars>>

SendingInit == StoreInit /\ MSInit

SendingNext ==
    \/ MSNext
    \/ \E m \in Messages : CommitReply(m) \/ QueueReply(m) \/ MarkReplyQueued(m)
    \/ FlipEligibility /\ UNCHANGED msVars

SendingSpec == SendingInit /\ [][SendingNext]_sendVars

\* The turn rows and the delivery state of MessageSendProcessor keep their types.
SendingTypeOK == StoreTypeOK /\ MSTypeOK

\* A live sender finishes its calls, BullMQ hands out waiting jobs in order, dead
\* senders' jobs are reclaimed, and every scan walks its whole list.  The
\* conversation worker owes nothing: it may have died right after the commit.
SendingFairness ==
    /\ \A m \in Messages : SF_sendVars(PickRecoverable(m)) /\ WF_sendVars(SendScanActs(m))
    /\ \A j \in SendJobs :
        /\ SF_sendVars(\E s \in Senders : FetchSend(s, j))
        /\ WF_sendVars(StallOfDeadSender(j))
    /\ \A s \in Senders : WF_sendVars(SenderRuns(s))

FairSendingSpec == SendingSpec /\ SendingFairness

-----------------------------------------------------------------------------
\* Sending by itself implements TurnOutcome: the scanner marks a reply queued only
\* after it added a job that will send it.
SendingImplementsOutcome == SendOutcome!Spec

\* Once the employee stays eligible, every committed reply is claimed by some
\* sender, even if the conversation worker died right after the commit.
CommittedIsAttempted ==
    \A m \in Messages : Committed(m) ~> attempt[m] \/ ~eligible
=============================================================================
