----------------------------- MODULE MessageSend -----------------------------
(***************************************************************************)
(* Delivery of committed replies: the message-send queue, its workers, the *)
(* immutable send claim, and the part of the five-minute scanner that      *)
(* finds replies nobody started to send.                                   *)
(*                                                                         *)
(* The reply of inbound m is posted by job "original" (message-send-<id>), *)
(* which the turn's dispatch adds, or by job "recovery", the live          *)
(* generation of message-send-recovery-<id>-<generation>.                  *)
(***************************************************************************)
EXTENDS TurnStore

CONSTANTS
    Senders,          \* message-send worker processes
    NoSender,         \* the owner of a job nobody holds the lock of
    MaxSendAttempts,  \* BullMQ attempts of a send job
    MaxSendStalled,   \* BullMQ maxStalledCount
    MaxReplays        \* bound: manual retries from the dead-letter endpoint

ASSUME SendersAssumption == NoSender \notin Senders
ASSUME SendBoundsAssumption ==
    /\ MaxSendAttempts \in Nat \ {0}
    /\ MaxSendStalled \in Nat
    /\ MaxReplays \in Nat

VARIABLES
    attempt,    \* conversation_message_send_attempts: the claim, never removed
    recorded,   \* messages.sent_at is set
    activated,  \* the prompts this reply carries count as delivered
    wire,       \* how many times the channel accepted this reply
    sjob,       \* BullMQ job per reply and slot
    slock,      \* owner of each active send job's lock
    snd,        \* the local state of each sender
    sscan,      \* the scanner's item in progress
    replays     \* manual retries so far

msVars == <<attempt, recorded, activated, wire, sjob, slock, snd, sscan, replays>>
sendRows == <<attempt, recorded, activated, wire>>

SendJobs == Messages \X {"original", "recovery"}

SendJobStates == {"absent", "waiting", "active", "completed", "failed"}

NoSendJob == [st |-> "absent", made |-> 0, stalled |-> 0]

SendPhases == {"idle", "load", "eligible", "claim", "post", "record", "activate",
               "finish"}

SenderState == [pc : SendPhases, j : SendJobs \union {<<>>}, sent : BOOLEAN]

IdleSender == [pc |-> "idle", j |-> <<>>, sent |-> FALSE]

Reply(s) == snd[s].j[1]
SendAt(s, pc) == snd[s].pc = pc
SendGoto(s, pc) == snd' = [snd EXCEPT ![s].pc = pc]

\* Send claims, delivery marks, send jobs and senders have values the code can give
\* them; in particular a busy sender always knows its job.
MSTypeOK ==
    /\ attempt \in [Messages -> BOOLEAN]
    /\ recorded \in [Messages -> BOOLEAN]
    /\ activated \in [Messages -> BOOLEAN]
    /\ wire \in [Messages -> Nat]
    /\ sjob \in [SendJobs -> [st : SendJobStates, made : Nat, stalled : Nat]]
    /\ slock \in [SendJobs -> Senders \union {NoSender}]
    /\ snd \in [Senders -> SenderState]
    /\ \A s \in Senders : snd[s].pc # "idle" => snd[s].j \in SendJobs
    /\ sscan \in SUBSET ({"add", "mark"} \X Messages)
    /\ replays \in 0..MaxReplays

MSInit ==
    /\ attempt = [m \in Messages |-> FALSE]
    /\ recorded = [m \in Messages |-> FALSE]
    /\ activated = [m \in Messages |-> FALSE]
    /\ wire = [m \in Messages |-> 0]
    /\ sjob = [j \in SendJobs |-> NoSendJob]
    /\ slock = [j \in SendJobs |-> NoSender]
    /\ snd = [s \in Senders |-> IdleSender]
    /\ sscan = {}
    /\ replays = 0

-----------------------------------------------------------------------------
(* The queue.                                                               *)

\* The original job waits from the moment the dispatch adds it.
SendWaiting(j) ==
    \/ sjob[j].st = "waiting"
    \/ (j[2] = "original" /\ sjob[j].st = "absent" /\ "message_send" \in added[j[1]])

SendHeld(j) ==
    \E s \in Senders : slock[j] = s /\ snd[s].pc # "idle" /\ snd[s].j = j

FetchSend(s, j) ==
    /\ SendAt(s, "idle") /\ SendWaiting(j)
    /\ sjob' = [sjob EXCEPT ![j].st = "active"]
    /\ slock' = [slock EXCEPT ![j] = s]
    /\ snd' = [snd EXCEPT ![s] = [IdleSender EXCEPT !.pc = "load", !.j = j]]
    /\ UNCHANGED <<storeVars, sendRows, sscan, replays>>

FinishSend(s) ==
    /\ SendAt(s, "finish")
    /\ IF slock[snd[s].j] = s
       THEN /\ sjob' = [sjob EXCEPT ![snd[s].j].st = "completed"]
            /\ slock' = [slock EXCEPT ![snd[s].j] = NoSender]
       ELSE UNCHANGED <<sjob, slock>>
    /\ snd' = [snd EXCEPT ![s] = IdleSender]
    /\ UNCHANGED <<storeVars, sendRows, sscan, replays>>

\* The processor threw.
FailSend(s) ==
    LET j == snd[s].j
        n == sjob[j].made + 1
    IN  /\ IF slock[j] = s
           THEN /\ sjob' = [sjob EXCEPT
                      ![j].made = n,
                      ![j].st = IF n >= MaxSendAttempts THEN "failed" ELSE "waiting"]
                /\ slock' = [slock EXCEPT ![j] = NoSender]
           ELSE UNCHANGED <<sjob, slock>>
        /\ snd' = [snd EXCEPT ![s] = IdleSender]

StallSend(j) ==
    /\ sjob[j].st = "active"
    /\ sjob' = [sjob EXCEPT
          ![j].stalled = @ + 1,
          ![j].st = IF sjob[j].stalled >= MaxSendStalled THEN "failed" ELSE "waiting"]
    /\ slock' = [slock EXCEPT ![j] = NoSender]
    /\ UNCHANGED <<effect, intent, added, eligible, flips, sendRows, snd, sscan,
                   replays>>

StallOfDeadSender(j) == StallSend(j) /\ ~SendHeld(j) /\ UNCHANGED faults
StallOfLiveSender(j) == StallSend(j) /\ SendHeld(j) /\ Fault

CrashSender(s) ==
    /\ ~SendAt(s, "idle")
    /\ Fault
    /\ snd' = [snd EXCEPT ![s] = IdleSender]
    /\ UNCHANGED <<effect, intent, added, eligible, flips, sendRows, sjob, slock,
                   sscan, replays>>

\* Mutated ReplaySend: the job is put back with a delay.
ReplaySendDelayed(j) ==
    /\ sjob[j].st = "failed" /\ replays < MaxReplays
    /\ replays' = replays + 1
    /\ sjob' = [sjob EXCEPT ![j].st = "delayed"]
    /\ UNCHANGED <<storeVars, sendRows, slock, snd, sscan>>

\* A manual retry from the dead-letter endpoint.
ReplaySend(j) ==
    /\ sjob[j].st = "failed" /\ replays < MaxReplays
    /\ replays' = replays + 1
    /\ sjob' = [sjob EXCEPT ![j].st = "waiting"]
    /\ UNCHANGED <<storeVars, sendRows, slock, snd, sscan>>

-----------------------------------------------------------------------------
(* MessageSendProcessor.process for the reply of a committed turn.          *)

\* findOutboundMessageForDelivery: the row, with sent_at as it is now.
LoadReply(s) ==
    /\ SendAt(s, "load")
    /\ snd' = [snd EXCEPT ![s].pc = "eligible", ![s].sent = recorded[Reply(s)]]
    /\ UNCHANGED <<storeVars, sendRows, sjob, slock, sscan, replays>>

\* An inactive employee is skipped; a reply already recorded only needs its
\* prompts activated.
CheckRecipient(s) ==
    /\ SendAt(s, "eligible")
    /\ SendGoto(s, IF ~eligible THEN "finish"
                   ELSE IF snd[s].sent THEN "activate" ELSE "claim")
    /\ UNCHANGED <<storeVars, sendRows, sjob, slock, sscan, replays>>

\* Mutated ClaimSend: the row that was there already is not noticed.
ClaimSendAgain(s) ==
    /\ SendAt(s, "claim")
    /\ attempt' = [attempt EXCEPT ![Reply(s)] = TRUE]
    /\ SendGoto(s, "post")
    /\ UNCHANGED <<storeVars, recorded, activated, wire, sjob, slock, sscan, replays>>

\* claimCommittedMessageSendAttempt: insert ... on conflict do nothing.
ClaimSend(s) ==
    /\ SendAt(s, "claim")
    /\ attempt' = [attempt EXCEPT ![Reply(s)] = TRUE]
    /\ SendGoto(s, IF attempt[Reply(s)] THEN "finish" ELSE "post")
    /\ UNCHANGED <<storeVars, recorded, activated, wire, sjob, slock, sscan, replays>>

\* The insert took effect but its answer was lost; the second look finds the row
\* and reports already_started.
ClaimAnswerLost(s) ==
    /\ SendAt(s, "claim") /\ Fault
    /\ attempt' = [attempt EXCEPT ![Reply(s)] = TRUE]
    /\ SendGoto(s, "finish")
    /\ UNCHANGED <<effect, intent, added, eligible, flips, recorded, activated, wire,
                   sjob, slock, sscan, replays>>

\* adapter.sendMessage returns.
PostReply(s) ==
    /\ SendAt(s, "post")
    /\ wire' = [wire EXCEPT ![Reply(s)] = @ + 1]
    /\ SendGoto(s, "record")
    /\ UNCHANGED <<storeVars, attempt, recorded, activated, sjob, slock, sscan, replays>>

\* Mutated PostFails: an error answer of the channel is taken for success.
PostFailsUnnoticed(s) ==
    /\ SendAt(s, "post") /\ Fault
    /\ SendGoto(s, "record")
    /\ UNCHANGED <<effect, intent, added, eligible, flips, sendRows, sjob, slock, sscan,
                   replays>>

\* adapter.sendMessage throws; the channel may have accepted the reply anyway.
PostFails(s) ==
    /\ SendAt(s, "post") /\ Fault
    /\ \E n \in {0, 1} : wire' = [wire EXCEPT ![Reply(s)] = @ + n]
    /\ FailSend(s)
    /\ UNCHANGED <<effect, intent, added, eligible, flips, attempt, recorded,
                   activated, sscan, replays>>

\* updateMessageDelivery sets sent_at once.
RecordDelivery(s) ==
    /\ SendAt(s, "record")
    /\ recorded' = [recorded EXCEPT ![Reply(s)] = TRUE]
    /\ SendGoto(s, "activate")
    /\ UNCHANGED <<storeVars, attempt, activated, wire, sjob, slock, sscan, replays>>

ActivateDelivery(s) ==
    /\ SendAt(s, "activate")
    /\ activated' = [activated EXCEPT ![Reply(s)] = TRUE]
    /\ SendGoto(s, "finish")
    /\ UNCHANGED <<storeVars, attempt, recorded, wire, sjob, slock, sscan, replays>>

\* Any other call of the processor throws.
SendStepFails(s) ==
    /\ snd[s].pc \in {"load", "eligible", "claim", "record", "activate"}
    /\ Fault
    /\ FailSend(s)
    /\ UNCHANGED <<effect, intent, added, eligible, flips, sendRows, sscan, replays>>

-----------------------------------------------------------------------------
(* QuestionCutoffProcessor.process, the part about replies.                 *)

\* Mutated Recoverable: an intent marked queued is trusted to have a live job.
RecoverableUnqueued(m) == intent[m]["message_send"] = "pending" /\ ~attempt[m]

\* findRecoverableMessageSends: committed, not recorded, no claim.  An intent
\* queued long ago and one never queued are found alike.
Recoverable(m) ==
    /\ intent[m]["message_send"] # "absent"
    /\ ~recorded[m] /\ ~attempt[m]

PickRecoverable(m) ==
    /\ sscan = {} /\ Recoverable(m)
    /\ sscan' = {<<"add", m>>}
    /\ UNCHANGED <<storeVars, sendRows, sjob, slock, snd, replays>>

\* Mutated AddSendRecovery: the mark is not skipped with the add.
AddSendRecoveryAndMark(m) ==
    LET j == <<m, "recovery">>
    IN  /\ <<"add", m>> \in sscan
        /\ sjob' = IF ~eligible \/ sjob[j].st \in {"waiting", "active"} THEN sjob
                   ELSE [sjob EXCEPT ![j] = [NoSendJob EXCEPT !.st = "waiting"]]
        /\ sscan' = {<<"mark", m>>}
        /\ UNCHANGED <<storeVars, sendRows, slock, snd, replays>>

\* requeue of one reply: skipped for an inactive employee, else a job is added.
AddSendRecovery(m) ==
    LET j == <<m, "recovery">>
    IN  /\ <<"add", m>> \in sscan
        /\ IF eligible
           THEN /\ sjob' = IF sjob[j].st \in {"waiting", "active"} THEN sjob
                           ELSE [sjob EXCEPT ![j] = [NoSendJob EXCEPT !.st = "waiting"]]
                /\ sscan' = {<<"mark", m>>}
           ELSE sscan' = {} /\ UNCHANGED sjob
        /\ UNCHANGED <<storeVars, sendRows, slock, snd, replays>>

MarkSendRecovered(m) ==
    /\ <<"mark", m>> \in sscan
    /\ MarkCommittedDispatchQueued(m, "message_send")
    /\ sscan' = {}
    /\ UNCHANGED <<effect, added, eligible, faults, flips, sendRows, sjob, slock, snd,
                   replays>>

SendScanAborts ==
    /\ sscan # {} /\ Fault
    /\ sscan' = {}
    /\ UNCHANGED <<effect, intent, added, eligible, flips, sendRows, sjob, slock, snd,
                   replays>>

-----------------------------------------------------------------------------
SenderRuns(s) ==
    \/ LoadReply(s) \/ CheckRecipient(s) \/ ClaimSend(s) \/ PostReply(s)
    \/ RecordDelivery(s) \/ ActivateDelivery(s) \/ FinishSend(s)

SenderNext(s) ==
    \/ \E j \in SendJobs : FetchSend(s, j)
    \/ SenderRuns(s) \/ ClaimAnswerLost(s) \/ PostFails(s) \/ SendStepFails(s)
    \/ CrashSender(s)

SendScanActs(m) == AddSendRecovery(m) \/ MarkSendRecovered(m)

MSNext ==
    \/ \E s \in Senders : SenderNext(s)
    \/ \E j \in SendJobs :
        StallOfDeadSender(j) \/ StallOfLiveSender(j) \/ ReplaySend(j)
    \/ \E m \in Messages : PickRecoverable(m) \/ SendScanActs(m)
    \/ SendScanAborts

-----------------------------------------------------------------------------
(* Properties.                                                              *)

\* The work of a turn some queue has been given; a recovery job counts.
WorkHanded == [m \in Messages |->
    added[m] \union IF sjob[<<m, "recovery">>].st # "absent" THEN {"message_send"} ELSE {}]

\* Sending and the scanner implement TurnOutcome too: an intent is marked queued only
\* after a job that will do the work was added, a recovery job for the reply included.
SendOutcome == INSTANCE TurnOutcome
    WITH outcome <- effect, dispatch <- intent, handed <- WorkHanded

\* The employee never gets the same reply twice: not from a retry, not from the
\* original and a recovery job running side by side, not from a worker that lost
\* its lock, not after a replay, even when a failed call reached the channel.
SentAtMostOnce == \A m \in Messages : wire[m] <= 1

\* sent_at and activated prompts are never claimed for a reply the channel did not
\* accept, and prompts become answerable only after sent_at is stored.
DeliveryRecordIsTrue ==
    \A m \in Messages :
        /\ recorded[m] => wire[m] = 1 /\ attempt[m]
        /\ activated[m] => recorded[m]
=============================================================================
