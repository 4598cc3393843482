--------------------------- MODULE MessageSendProofs ---------------------------
(***************************************************************************)
(* Lemmas about MessageSend, whatever conversation worker is composed with *)
(* it: the senders keep their types, post no reply twice, record nothing   *)
(* that did not happen, and hand over and mark only listed work.  With the *)
(* minimal worker of ReplySending they give its theorems: its types, that  *)
(* no reply is posted twice and no delivery is recorded that did not       *)
(* happen, and that it implements TurnOutcome, for any number of replies,  *)
(* senders, attempts, stalls, replays and failures.                        *)
(***************************************************************************)
EXTENDS ReplySending, TurnStoreProofs

-----------------------------------------------------------------------------
(* Types.                                                                   *)

SendTyped == StoreTypeOK /\ MSTypeOK

LEMMA InitialSendTypes == StoreInit /\ MSInit => SendTyped
  <1>1. MSInit => MSTypeOK
    BY SendBoundsAssumption
    DEF MSInit, MSTypeOK, NoSendJob, SendJobStates, SenderState, SendPhases, IdleSender
  <1> QED BY <1>1, StoreInitTypes DEF SendTyped

SendJobRecord == [st : SendJobStates, made : Nat, stalled : Nat]

\* A queue that changes one job keeps the type of the table.
LEMMA JobUpdateTypes ==
  ASSUME sjob \in [SendJobs -> SendJobRecord], NEW j \in SendJobs, NEW r \in SendJobRecord,
         sjob' = [sjob EXCEPT ![j] = r]
  PROVE  sjob' \in [SendJobs -> SendJobRecord]
  OBVIOUS

\* So does a sender that goes back to being idle.
LEMMA IdleTypes ==
  ASSUME MSTypeOK, NEW s \in Senders, snd' = [snd EXCEPT ![s] = IdleSender]
  PROVE  /\ snd' \in [Senders -> SenderState]
         /\ \A t \in Senders : snd'[t].pc # "idle" => snd'[t].j \in SendJobs
  <1>1. IdleSender \in SenderState /\ IdleSender.pc = "idle"
    BY DEF IdleSender, SenderState, SendPhases
  <1> QED BY <1>1 DEF MSTypeOK

LEMMA WireTypes ==
  ASSUME wire \in [Messages -> Nat], NEW m \in Messages, NEW n \in Nat,
         wire' = [wire EXCEPT ![m] = wire[m] + n]
  PROVE  wire' \in [Messages -> Nat]
  OBVIOUS

\* A throwing sender gives its job back.
LEMMA FailSendTypes ==
  ASSUME MSTypeOK, NEW s \in Senders, snd[s].pc # "idle", FailSend(s)
  PROVE  /\ sjob' \in [SendJobs -> [st : SendJobStates, made : Nat, stalled : Nat]]
         /\ slock' \in [SendJobs -> Senders \union {NoSender}]
         /\ snd' \in [Senders -> SenderState]
         /\ \A t \in Senders : snd'[t].pc # "idle" => snd'[t].j \in SendJobs
  <1>1. snd[s].j \in SendJobs
    BY DEF MSTypeOK
  <1>2. /\ snd' \in [Senders -> SenderState]
        /\ \A t \in Senders : snd'[t].pc # "idle" => snd'[t].j \in SendJobs
    BY IdleTypes DEF FailSend
  <1>3. sjob' \in [SendJobs -> [st : SendJobStates, made : Nat, stalled : Nat]]
    BY <1>1 DEF MSTypeOK, FailSend, SendJobStates
  <1>4. slock' \in [SendJobs -> Senders \union {NoSender}]
    BY <1>1 DEF MSTypeOK, FailSend
  <1> QED BY <1>2, <1>3, <1>4

LEMMA SenderTypes ==
  ASSUME SendTyped, NEW s \in Senders, SenderNext(s)
  PROVE  SendTyped'
  <1> USE DEF SendTyped, StoreTypeOK, MSTypeOK, storeVars, sendRows, SendAt, SendGoto, Reply
  <1>1. CASE \E j \in SendJobs : FetchSend(s, j)
    <2> PICK j \in SendJobs : FetchSend(s, j)
      BY <1>1
    <2>1. [IdleSender EXCEPT !.pc = "load", !.j = j] \in SenderState
      BY DEF IdleSender, SenderState, SendPhases
    <2>2. /\ snd' \in [Senders -> SenderState]
          /\ \A t \in Senders : snd'[t].pc # "idle" => snd'[t].j \in SendJobs
      BY <2>1 DEF FetchSend, IdleSender
    <2>3. /\ sjob' \in [SendJobs -> [st : SendJobStates, made : Nat, stalled : Nat]]
          /\ slock' \in [SendJobs -> Senders \union {NoSender}]
      BY DEF FetchSend, SendJobStates
    <2> QED BY <2>2, <2>3 DEF FetchSend
  <1>2. CASE LoadReply(s)
    BY <1>2 DEF LoadReply, SenderState, SendPhases, SendJobs
  <1>3. CASE CheckRecipient(s)
    BY <1>3 DEF CheckRecipient, SenderState, SendPhases
  <1>4. CASE ClaimSend(s)
    BY <1>4 DEF ClaimSend, SenderState, SendPhases
  <1>5. CASE PostReply(s)
    <2>1. snd[s].j[1] \in Messages
      BY <1>5 DEF PostReply, SendJobs
    <2>2. wire' \in [Messages -> Nat]
      BY <1>5, <2>1, WireTypes DEF PostReply
    <2> QED BY <1>5, <2>2 DEF PostReply, SenderState, SendPhases
  <1>6. CASE RecordDelivery(s)
    BY <1>6 DEF RecordDelivery, SenderState, SendPhases
  <1>7. CASE ActivateDelivery(s)
    BY <1>7 DEF ActivateDelivery, SenderState, SendPhases
  <1>8. CASE FinishSend(s)
    <2>1. CASE slock[snd[s].j] = s
      <3>1. snd[s].j \in SendJobs
        BY <1>8 DEF FinishSend
      <3>2. sjob' \in [SendJobs -> [st : SendJobStates, made : Nat, stalled : Nat]]
        BY <1>8, <2>1, <3>1 DEF FinishSend, SendJobStates
      <3> QED BY <1>8, <2>1, <3>1, <3>2, IdleTypes DEF FinishSend
    <2>2. CASE slock[snd[s].j] # s
      BY <1>8, <2>2, IdleTypes DEF FinishSend
    <2> QED BY <2>1, <2>2
  <1>9. CASE ClaimAnswerLost(s)
    BY <1>9, FaultTypes DEF ClaimAnswerLost, SenderState, SendPhases
  <1>10. CASE PostFails(s)
    <2>1. snd[s].j[1] \in Messages
      BY <1>10 DEF PostFails, SendJobs
    <2>2. wire' \in [Messages -> Nat]
      BY <1>10, <2>1, WireTypes DEF PostFails
    <2> QED BY <1>10, <2>2, FailSendTypes, FaultTypes DEF PostFails
  <1>11. CASE SendStepFails(s)
    BY <1>11, FailSendTypes, FaultTypes DEF SendStepFails
  <1>12. CASE CrashSender(s)
    BY <1>12, FaultTypes DEF CrashSender, SenderState, SendPhases, IdleSender
  <1> QED
    BY <1>1, <1>2, <1>3, <1>4, <1>5, <1>6, <1>7, <1>8, <1>9, <1>10, <1>11, <1>12
    DEF SenderNext, SenderRuns

LEMMA SendQueueTypes ==
  ASSUME SendTyped, NEW j \in SendJobs,
         StallOfDeadSender(j) \/ StallOfLiveSender(j) \/ ReplaySend(j)
  PROVE  SendTyped'
  <1> USE DEF SendTyped, StoreTypeOK, MSTypeOK, storeVars, sendRows
  <1>1. ASSUME StallSend(j), faults' \in 0..MaxFaults PROVE SendTyped'
    BY <1>1 DEF StallSend, SendJobStates
  <1>2. CASE StallOfDeadSender(j) \/ StallOfLiveSender(j)
    BY <1>1, <1>2, FaultTypes DEF StallOfDeadSender, StallOfLiveSender
  <1>3. CASE ReplaySend(j)
    BY <1>3, SendBoundsAssumption DEF ReplaySend, SendJobStates
  <1> QED BY <1>2, <1>3

LEMMA SendScanTypes ==
  ASSUME SendTyped, \/ \E m \in Messages : PickRecoverable(m) \/ SendScanActs(m)
                 \/ SendScanAborts
  PROVE  SendTyped'
  <1> USE DEF SendTyped, StoreTypeOK, MSTypeOK, storeVars, sendRows
  <1> "message_send" \in Kinds
    BY DEF Kinds
  <1>1. ASSUME NEW m \in Messages, PickRecoverable(m) PROVE SendTyped'
    BY <1>1 DEF PickRecoverable
  <1>2. ASSUME NEW m \in Messages, AddSendRecovery(m) PROVE SendTyped'
    <2>1. /\ <<m, "recovery">> \in SendJobs
          /\ [NoSendJob EXCEPT !.st = "waiting"] \in SendJobRecord
      BY <1>2 DEF SendJobs, SendJobStates, NoSendJob, SendJobRecord
    <2>2. sjob' \in [SendJobs -> SendJobRecord]
      BY <1>2, <2>1, JobUpdateTypes DEF AddSendRecovery, SendJobRecord
    <2> QED BY <1>2, <2>2 DEF AddSendRecovery, SendJobRecord
  <1>3. ASSUME NEW m \in Messages, MarkSendRecovered(m) PROVE SendTyped'
    BY <1>3, MarkTypes DEF MarkSendRecovered
  <1>4. CASE SendScanAborts
    BY <1>4, FaultTypes DEF SendScanAborts
  <1> QED BY <1>1, <1>2, <1>3, <1>4 DEF SendScanActs

LEMMA SendTypes == SendTyped /\ MSNext => SendTyped'
  BY SenderTypes, SendQueueTypes, SendScanTypes DEF MSNext

-----------------------------------------------------------------------------
(* The claim makes sending exclusive.  Before it exists nothing was posted *)
(* and nobody is about to post; whoever inserted it is the only sender     *)
(* that will ever be at the post of this reply, so the reply is still      *)
(* unposted there; after the post, the sender knows it happened.           *)

Delivered(m) == wire[m] = 1 /\ attempt[m]

SenderKnows(s) ==
    CASE snd[s].pc = "post"     -> attempt[Reply(s)] /\ wire[Reply(s)] = 0
      [] snd[s].pc = "record"   -> Delivered(Reply(s))
      [] snd[s].pc = "activate" -> recorded[Reply(s)]
      [] snd[s].pc = "eligible" -> snd[s].sent => recorded[Reply(s)]
      [] OTHER                  -> TRUE

DeliveryInv ==
    /\ \A m \in Messages :
        /\ wire[m] <= 1
        /\ ~attempt[m] => wire[m] = 0
        /\ recorded[m] => Delivered(m)
        /\ activated[m] => recorded[m]
    /\ \A s \in Senders : SenderKnows(s)
    /\ \A s, t \in Senders :
        SendAt(s, "post") /\ SendAt(t, "post") /\ Reply(s) = Reply(t) => s = t

\* A sender that holds a job works on a reply of the conversation.
LEMMA ReplyIsMessage ==
  ASSUME SendTyped, NEW s \in Senders, snd[s].pc # "idle"
  PROVE  Reply(s) \in Messages
  BY DEF SendTyped, MSTypeOK, SendJobs, Reply

LEMMA InitialDelivery == MSInit => DeliveryInv
  BY DEF MSInit, DeliveryInv, SenderKnows, SendAt, IdleSender

\* A sender that only becomes idle or moves to a step where it need not know
\* anything disturbs no conjunct.
LEMMA SenderForgets ==
  ASSUME SendTyped, DeliveryInv, NEW s \in Senders, UNCHANGED sendRows,
         snd' \in [Senders -> SenderState],
         \A t \in Senders : t # s => snd'[t] = snd[t],
         snd'[s].pc \in {"idle", "load", "claim", "finish"}
  PROVE  DeliveryInv'
  BY DEF SendTyped, MSTypeOK, DeliveryInv, SenderKnows, Delivered, SendAt, Reply, sendRows

LEMMA SenderDelivery ==
  ASSUME SendTyped, SendTyped', DeliveryInv, NEW s \in Senders, SenderNext(s)
  PROVE  DeliveryInv'
  <1> USE DEF SendAt, SendGoto
  <1>1. CASE \E j \in SendJobs : FetchSend(s, j)
    BY <1>1, SenderForgets DEF FetchSend, IdleSender, SendTyped, MSTypeOK
  <1>2. CASE LoadReply(s)
    BY <1>2 DEF LoadReply, sendRows, SendTyped, MSTypeOK, DeliveryInv, SenderKnows,
                Delivered, Reply
  <1>3. CASE CheckRecipient(s)
    BY <1>3 DEF CheckRecipient, sendRows, SendTyped, MSTypeOK, DeliveryInv, SenderKnows,
                Delivered, Reply
  <1>4. CASE ClaimSend(s)
    BY <1>4, ReplyIsMessage DEF ClaimSend, SendTyped, MSTypeOK, DeliveryInv, SenderKnows,
                Delivered, Reply
  <1>5. CASE PostReply(s)
    BY <1>5, ReplyIsMessage DEF PostReply, SendTyped, MSTypeOK, DeliveryInv, SenderKnows,
                Delivered, Reply
  <1>6. CASE RecordDelivery(s)
    BY <1>6, ReplyIsMessage DEF RecordDelivery, SendTyped, MSTypeOK, DeliveryInv,
                SenderKnows, Delivered, Reply
  <1>7. CASE ActivateDelivery(s)
    BY <1>7, ReplyIsMessage DEF ActivateDelivery, SendTyped, MSTypeOK, DeliveryInv,
                SenderKnows, Delivered, Reply
  <1>8. CASE FinishSend(s) \/ SendStepFails(s) \/ CrashSender(s)
    <2>1. snd' = [snd EXCEPT ![s] = IdleSender] /\ UNCHANGED sendRows
      BY <1>8 DEF FinishSend, SendStepFails, FailSend, CrashSender
    <2> QED BY <2>1, SenderForgets DEF IdleSender, SendTyped, MSTypeOK
  <1>9. CASE ClaimAnswerLost(s)
    BY <1>9, ReplyIsMessage DEF ClaimAnswerLost, SendTyped, MSTypeOK, DeliveryInv,
                SenderKnows, Delivered, Reply
  <1>10. CASE PostFails(s)
    <2>1. PICK n \in {0, 1} : wire' = [wire EXCEPT ![Reply(s)] = wire[Reply(s)] + n]
      BY <1>10 DEF PostFails
    <2>2. snd' = [snd EXCEPT ![s] = IdleSender]
      BY <1>10 DEF PostFails, FailSend
    <2>3. /\ SendAt(s, "post") /\ Reply(s) \in Messages
          /\ wire[Reply(s)] = 0 /\ attempt[Reply(s)]
      BY <1>10, ReplyIsMessage DEF PostFails, DeliveryInv, SenderKnows
    <2>4. UNCHANGED <<attempt, recorded, activated>>
      BY <1>10 DEF PostFails
    <2>5. \A m \in Messages : m # Reply(s) => wire'[m] = wire[m]
      BY <2>1 DEF SendTyped, MSTypeOK
    <2>6. wire'[Reply(s)] = n
      BY <2>1, <2>3 DEF SendTyped, MSTypeOK
    <2>7. \A t \in Senders : t # s => snd'[t] = snd[t]
      BY <2>2 DEF SendTyped, MSTypeOK
    <2>8. snd'[s].pc = "idle"
      BY <2>2 DEF SendTyped, MSTypeOK, IdleSender
    <2>9. \A m \in Messages :
            /\ wire'[m] <= 1
            /\ ~attempt'[m] => wire'[m] = 0
            /\ recorded'[m] => wire'[m] = 1 /\ attempt'[m]
            /\ activated'[m] => recorded'[m]
      BY <2>3, <2>4, <2>5, <2>6 DEF DeliveryInv, Delivered
    <2>10. ASSUME NEW t \in Senders PROVE SenderKnows(t)'
      <3>1. CASE t = s
        BY <3>1, <2>8 DEF SenderKnows
      <3>2. CASE t # s /\ SendAt(t, "post")
        BY <3>2, <2>3, <2>4, <2>5, <2>7, ReplyIsMessage DEF DeliveryInv, SenderKnows, Reply
      <3>3. CASE t # s /\ SendAt(t, "record")
        BY <3>3, <2>3, <2>4, <2>5, <2>7, ReplyIsMessage
        DEF DeliveryInv, SenderKnows, Reply, Delivered
      <3>4. CASE t # s /\ ~SendAt(t, "post") /\ ~SendAt(t, "record")
        BY <3>4, <2>4, <2>7 DEF DeliveryInv, SenderKnows, Reply
      <3> QED BY <3>1, <3>2, <3>3, <3>4
    <2>11. \A r, t \in Senders :
             snd'[r].pc = "post" /\ snd'[t].pc = "post" /\ snd'[r].j[1] = snd'[t].j[1]
               => r = t
      BY <2>7, <2>8 DEF DeliveryInv, Reply
    <2> QED BY <2>9, <2>10, <2>11 DEF DeliveryInv, Delivered, Reply
  <1> QED
    BY <1>1, <1>2, <1>3, <1>4, <1>5, <1>6, <1>7, <1>8, <1>9, <1>10
    DEF SenderNext, SenderRuns

LEMMA DeliveryUnchanged ==
  ASSUME DeliveryInv, UNCHANGED <<sendRows, snd>> PROVE DeliveryInv'
  BY DEF DeliveryInv, SenderKnows, Delivered, SendAt, Reply, sendRows

LEMMA SendDelivery ==
  ASSUME SendTyped, SendTyped', DeliveryInv, MSNext PROVE DeliveryInv'
  <1>1. CASE \E s \in Senders : SenderNext(s)
    BY <1>1, SenderDelivery
  <1>2. CASE \E j \in SendJobs :
                StallOfDeadSender(j) \/ StallOfLiveSender(j) \/ ReplaySend(j)
    BY <1>2, DeliveryUnchanged
    DEF StallOfDeadSender, StallOfLiveSender, StallSend, ReplaySend
  <1>3. CASE \/ \E m \in Messages : PickRecoverable(m) \/ SendScanActs(m)
             \/ SendScanAborts
    BY <1>3, DeliveryUnchanged
    DEF PickRecoverable, SendScanActs, AddSendRecovery, MarkSendRecovered, SendScanAborts
  <1> QED BY <1>1, <1>2, <1>3 DEF MSNext

-----------------------------------------------------------------------------
(* Refinement.  Besides the relation of intents and jobs, the scanner's item *)
(* in progress must be remembered: an item to add belongs to a listed reply, *)
(* an item to mark has its recovery job.                                     *)

HandedInv ==
    /\ \A m \in Messages :
        /\ \A k \in Kinds : intent[m][k] # "absent" => Committed(m)
        /\ \A k \in WorkHanded[m] : k \in Kinds /\ intent[m][k] # "absent"
        /\ Committed(m) => intent[m]["message_send"] # "absent"
        /\ <<"add", m>> \in sscan => intent[m]["message_send"] # "absent"
        /\ <<"mark", m>> \in sscan => "message_send" \in WorkHanded[m]
    /\ \A j \in SendJobs : slock[j] # NoSender => sjob[j].st # "absent"

LEMMA SendKind == "message_send" \in Kinds
  BY DEF Kinds

LEMMA HandedMessage ==
  ASSUME NEW m \in Messages
  PROVE  WorkHanded[m] = added[m] \union
            IF sjob[<<m, "recovery">>].st # "absent" THEN {"message_send"} ELSE {}
  BY DEF WorkHanded

\* What a step of a sender or of the queue does to the jobs: none disappears, and
\* no recovery job comes from nothing.
JobsLast ==
    /\ \A j \in SendJobs :
        /\ sjob[j].st # "absent" => sjob'[j].st # "absent"
        /\ slock'[j] # NoSender => sjob'[j].st # "absent"
    /\ \A m \in Messages :
        sjob[<<m, "recovery">>].st = "absent" => sjob'[<<m, "recovery">>].st = "absent"

LEMMA ReplaceJob ==
  ASSUME MSTypeOK, HandedInv, NEW j \in SendJobs, NEW r \in SendJobRecord, NEW o,
         r.st # "absent", sjob[j].st # "absent" \/ j[2] # "recovery",
         sjob' = [sjob EXCEPT ![j] = r],
         slock' = [slock EXCEPT ![j] = o] \/ slock' = slock
  PROVE  JobsLast
  BY DEF MSTypeOK, HandedInv, JobsLast, SendJobs

LEMMA KeepJobs ==
  ASSUME HandedInv, UNCHANGED <<sjob, slock>> PROVE JobsLast
  BY DEF HandedInv, JobsLast

LEMMA FailSendLast ==
  ASSUME MSTypeOK, HandedInv, NEW s \in Senders, snd[s].pc # "idle", FailSend(s)
  PROVE  JobsLast
  <1> DEFINE j == snd[s].j
             r == [sjob[j] EXCEPT !.made = sjob[j].made + 1,
                                  !.st = IF sjob[j].made + 1 >= MaxSendAttempts
                                         THEN "failed" ELSE "waiting"]
  <1>1. CASE slock[j] = s
    <2>1. j \in SendJobs /\ sjob[j].st # "absent"
      BY <1>1, SendersAssumption DEF MSTypeOK, HandedInv
    <2>2. r \in SendJobRecord /\ r.st # "absent"
      <3>1. sjob[j] \in SendJobRecord
        BY <2>1 DEF MSTypeOK, SendJobRecord
      <3>2. sjob[j].made + 1 \in Nat
        BY <3>1 DEF SendJobRecord
      <3>3. (IF sjob[j].made + 1 >= MaxSendAttempts THEN "failed" ELSE "waiting")
              \in SendJobStates \ {"absent"}
        BY DEF SendJobStates
      <3>4. ASSUME NEW n \in Nat, NEW st \in SendJobStates \ {"absent"}
            PROVE  /\ [sjob[j] EXCEPT !.made = n, !.st = st] \in SendJobRecord
                   /\ [sjob[j] EXCEPT !.made = n, !.st = st].st # "absent"
        BY <3>1 DEF SendJobRecord
      <3> QED BY <3>2, <3>3, <3>4, Zenon
    <2>3. sjob' = [sjob EXCEPT ![j] = r] /\ slock' = [slock EXCEPT ![j] = NoSender]
      BY <1>1, <2>1 DEF FailSend, MSTypeOK
    <2> QED BY <2>1, <2>2, <2>3, ReplaceJob
  <1>2. CASE slock[j] # s
    BY <1>2, KeepJobs DEF FailSend
  <1> QED BY <1>1, <1>2

LEMMA SenderLast ==
  ASSUME SendTyped, HandedInv, NEW s \in Senders, SenderNext(s)
  PROVE  JobsLast /\ UNCHANGED <<effect, intent, added, sscan>>
  <1> MSTypeOK
    BY DEF SendTyped
  <1>1. UNCHANGED <<effect, intent, added, sscan>>
    BY DEF SenderNext, SenderRuns, FetchSend, LoadReply, CheckRecipient, ClaimSend,
           PostReply, RecordDelivery, ActivateDelivery, FinishSend, ClaimAnswerLost,
           PostFails, SendStepFails, CrashSender, storeVars
  <1>2. CASE \E j \in SendJobs : FetchSend(s, j)
    <2>1. PICK j \in SendJobs : FetchSend(s, j)
      BY <1>2
    <2>2. /\ [sjob[j] EXCEPT !.st = "active"] \in SendJobRecord
          /\ [sjob[j] EXCEPT !.st = "active"].st # "absent"
      BY DEF MSTypeOK, SendJobRecord, SendJobStates
    <2>3. /\ sjob' = [sjob EXCEPT ![j] = [sjob[j] EXCEPT !.st = "active"]]
          /\ slock' = [slock EXCEPT ![j] = s]
      BY <2>1 DEF FetchSend, MSTypeOK
    <2>4. sjob[j].st # "absent" \/ j[2] # "recovery"
      BY <2>1 DEF FetchSend, SendWaiting
    <2> QED BY <1>1, <2>2, <2>3, <2>4, ReplaceJob
  <1>3. CASE FinishSend(s)
    <2> DEFINE j == snd[s].j
    <2>1. CASE slock[j] = s
      <3>1. j \in SendJobs /\ sjob[j].st # "absent"
        BY <1>3, <2>1, SendersAssumption DEF FinishSend, SendAt, MSTypeOK, HandedInv
      <3>2. /\ [sjob[j] EXCEPT !.st = "completed"] \in SendJobRecord
            /\ [sjob[j] EXCEPT !.st = "completed"].st # "absent"
        BY <3>1 DEF MSTypeOK, SendJobRecord, SendJobStates
      <3>3. /\ sjob' = [sjob EXCEPT ![j] = [sjob[j] EXCEPT !.st = "completed"]]
            /\ slock' = [slock EXCEPT ![j] = NoSender]
        BY <1>3, <2>1, <3>1 DEF FinishSend, MSTypeOK
      <3> QED BY <1>1, <3>1, <3>2, <3>3, ReplaceJob
    <2>2. CASE slock[j] # s
      BY <1>1, <1>3, <2>2, KeepJobs DEF FinishSend
    <2> QED BY <2>1, <2>2
  <1>4. CASE PostFails(s) \/ SendStepFails(s)
    BY <1>1, <1>4, FailSendLast DEF PostFails, SendStepFails, SendAt
  <1>5. CASE \/ LoadReply(s) \/ CheckRecipient(s) \/ ClaimSend(s) \/ PostReply(s)
             \/ RecordDelivery(s) \/ ActivateDelivery(s) \/ ClaimAnswerLost(s)
             \/ CrashSender(s)
    BY <1>1, <1>5, KeepJobs
    DEF LoadReply, CheckRecipient, ClaimSend, PostReply, RecordDelivery, ActivateDelivery,
        ClaimAnswerLost, CrashSender
  <1> QED BY <1>2, <1>3, <1>4, <1>5 DEF SenderNext, SenderRuns

LEMMA QueueLast ==
  ASSUME SendTyped, HandedInv, NEW j \in SendJobs,
         StallOfDeadSender(j) \/ StallOfLiveSender(j) \/ ReplaySend(j)
  PROVE  JobsLast /\ UNCHANGED <<effect, intent, added, sscan>>
  <1> MSTypeOK
    BY DEF SendTyped
  <1>1. UNCHANGED <<effect, intent, added, sscan>>
    BY DEF StallOfDeadSender, StallOfLiveSender, StallSend, ReplaySend, storeVars
  <1>2. CASE StallSend(j)
    <2> DEFINE r == [sjob[j] EXCEPT !.stalled = sjob[j].stalled + 1,
                        !.st = IF sjob[j].stalled >= MaxSendStalled THEN "failed"
                                                                    ELSE "waiting"]
    <2>1. r \in SendJobRecord /\ r.st # "absent" /\ sjob[j].st # "absent"
      BY <1>2 DEF StallSend, MSTypeOK, SendJobRecord, SendJobStates
    <2>2. sjob' = [sjob EXCEPT ![j] = r] /\ slock' = [slock EXCEPT ![j] = NoSender]
      BY <1>2 DEF StallSend, MSTypeOK
    <2> QED BY <1>1, <2>1, <2>2, ReplaceJob
  <1>3. CASE ReplaySend(j)
    <2> DEFINE r == [sjob[j] EXCEPT !.st = "waiting"]
    <2>1. r \in SendJobRecord /\ r.st # "absent" /\ sjob[j].st # "absent"
      BY <1>3 DEF ReplaySend, MSTypeOK, SendJobRecord, SendJobStates
    <2>2. sjob' = [sjob EXCEPT ![j] = r] /\ slock' = slock
      BY <1>3 DEF ReplaySend, MSTypeOK
    <2> QED BY <1>1, <2>1, <2>2, ReplaceJob
  <1> QED BY <1>2, <1>3 DEF StallOfDeadSender, StallOfLiveSender

\* Steps of senders and of the queue hand nothing over.
LEMMA LastKeepsHanded ==
  ASSUME HandedInv, JobsLast, UNCHANGED <<effect, intent, added, sscan>>
  PROVE  HandedInv' /\ WorkHanded' = WorkHanded
  <1>1. \A m \in Messages : <<m, "recovery">> \in SendJobs
    BY DEF SendJobs
  <1>2. WorkHanded' = WorkHanded
    BY <1>1 DEF JobsLast, WorkHanded
  <1> QED BY <1>2 DEF HandedInv, JobsLast, Committed

LEMMA InitialHanded == StoreInit /\ MSInit => HandedInv /\ SendOutcome!Init
  BY DEF StoreInit, MSInit, NoSendJob, HandedInv, WorkHanded, SendOutcome!Init, Kinds,
         SendOutcome!Kinds, SendJobs, Committed

AbstractStep == [SendOutcome!Next]_<<effect, intent, WorkHanded>>

\* What a conversation worker does to the store, seen from the senders: it commits a
\* turn, adds a listed job, marks work that was handed over, or leaves it alone.
LEMMA AnswerHanded ==
  ASSUME SendTyped, HandedInv, NEW m \in Messages, ~Committed(m), NEW text \in Texts,
         NEW side \in SUBSET SideKinds, text # "reply" => side = {},
         RecordCommittedTurn(m, text, side \union {"message_send"}),
         UNCHANGED <<added, sjob, slock, sscan>>
  PROVE  HandedInv' /\ AbstractStep
  <1>1. /\ effect' = [effect EXCEPT ![m] = text]
        /\ intent' = [intent EXCEPT ![m] = [k \in Kinds |->
                IF k \in side \union {"message_send"} THEN "pending" ELSE "absent"]]
    BY DEF RecordCommittedTurn
  <1>2. WorkHanded' = WorkHanded
    BY DEF WorkHanded
  <1>3. WorkHanded[m] = {}
    BY DEF HandedInv
  <1>4. HandedInv'
    <2>1. /\ effect'[m] # "none" /\ intent'[m]["message_send"] = "pending"
          /\ \A n \in Messages : n # m => effect'[n] = effect[n] /\ intent'[n] = intent[n]
      BY <1>1, SendKind DEF SendTyped, StoreTypeOK, Texts
    <2> QED BY <1>2, <1>3, <2>1 DEF HandedInv, Committed
  <1>5. SendOutcome!Answer(m, text, side)
    BY <1>1, <1>2 DEF Committed, SendOutcome!Answer, Kinds, SendOutcome!Kinds
  <1> QED BY <1>4, <1>5 DEF AbstractStep, SendOutcome!Next, Texts

LEMMA EnqueueHanded ==
  ASSUME SendTyped, HandedInv, NEW m \in Messages, NEW k \in Kinds,
         intent[m][k] # "absent", EnqueueDispatch(m, k),
         UNCHANGED <<effect, intent, sjob, slock, sscan>>
  PROVE  HandedInv' /\ AbstractStep
  <1>1. added' = [added EXCEPT ![m] = added[m] \union {k}]
    BY DEF EnqueueDispatch
  <1>2. WorkHanded' = [WorkHanded EXCEPT ![m] = WorkHanded[m] \union {k}]
    BY <1>1 DEF WorkHanded, SendTyped, StoreTypeOK
  <1>3. HandedInv'
    <2>1. \A n \in Messages :
            WorkHanded'[n] = IF n = m THEN WorkHanded[n] \union {k} ELSE WorkHanded[n]
      BY <1>2 DEF WorkHanded
    <2> QED BY <2>1 DEF HandedInv, Committed
  <1>4. SendOutcome!HandOver(m, k)
    BY <1>2 DEF SendOutcome!HandOver
  <1> QED BY <1>3, <1>4 DEF AbstractStep, SendOutcome!Next, Kinds, SendOutcome!Kinds

LEMMA MarkHanded ==
  ASSUME SendTyped, HandedInv, NEW m \in Messages, NEW kind \in Kinds,
         kind \in WorkHanded[m], MarkCommittedDispatchQueued(m, kind),
         UNCHANGED <<effect, added, sjob, slock>>, sscan' \subseteq sscan
  PROVE  HandedInv' /\ AbstractStep
  <1>1. intent' = [intent EXCEPT ![m][kind] = "queued"]
    BY DEF MarkCommittedDispatchQueued
  <1>2. WorkHanded' = WorkHanded
    BY DEF WorkHanded
  <1>3. intent[m][kind] \in {"pending", "queued"}
    BY DEF HandedInv, SendTyped, StoreTypeOK
  <1>4. \A n \in Messages, k \in Kinds : intent'[n][k] =
          IF n = m /\ k = kind THEN "queued" ELSE intent[n][k]
    BY <1>1 DEF SendTyped, StoreTypeOK
  <1>5. HandedInv'
    BY <1>2, <1>3, <1>4, SendKind DEF HandedInv, Committed
  <1>6. CASE intent[m][kind] = "pending"
    <2>1. SendOutcome!SettleWork(m, kind)
      BY <1>1, <1>2, <1>6 DEF SendOutcome!SettleWork
    <2> QED BY <1>5, <2>1 DEF AbstractStep, SendOutcome!Next, Kinds, SendOutcome!Kinds
  <1>7. CASE intent[m][kind] = "queued"
    <2>1. intent' = intent
      BY <1>1, <1>7 DEF SendTyped, StoreTypeOK
    <2> QED BY <1>2, <1>5, <2>1 DEF AbstractStep
  <1> QED BY <1>3, <1>6, <1>7

LEMMA IdleHanded ==
  ASSUME HandedInv, UNCHANGED <<effect, intent, added, sjob, slock, sscan>>
  PROVE  HandedInv' /\ AbstractStep
  BY KeepJobs, LastKeepsHanded DEF AbstractStep

LEMMA AddSendRecoveryStep ==
  ASSUME SendTyped, HandedInv, NEW m \in Messages, AddSendRecovery(m)
  PROVE  HandedInv' /\ AbstractStep
  <1> DEFINE j == <<m, "recovery">>
             r == [NoSendJob EXCEPT !.st = "waiting"]
  <1>1. /\ UNCHANGED <<effect, intent, added, slock>>
        /\ intent[m]["message_send"] # "absent"
    BY DEF AddSendRecovery, storeVars, HandedInv
  <1>2. r.st = "waiting" /\ j \in SendJobs
    BY DEF NoSendJob, SendJobs
  <1>3. CASE ~eligible
    <2>1. sscan' = {} /\ UNCHANGED sjob
      BY <1>3 DEF AddSendRecovery
    <2>2. WorkHanded' = WorkHanded
      BY <1>1, <2>1 DEF WorkHanded
    <2> QED BY <1>1, <2>1, <2>2 DEF HandedInv, Committed, AbstractStep
  <1>4. CASE eligible
    <2>1. /\ sscan' = {<<"mark", m>>}
          /\ \/ sjob[j].st # "absent" /\ sjob' = sjob
             \/ sjob' = [sjob EXCEPT ![j] = r]
      BY <1>4 DEF AddSendRecovery
    <2>2. /\ sjob'[j].st # "absent"
          /\ \A i \in SendJobs : i # j => sjob'[i] = sjob[i]
      BY <2>1, <1>2 DEF SendTyped, MSTypeOK
    <2>3. \A n \in Messages :
            WorkHanded'[n] = IF n = m THEN WorkHanded[n] \union {"message_send"}
                                      ELSE WorkHanded[n]
      <3>1. \A n \in Messages : n # m => sjob'[<<n, "recovery">>] = sjob[<<n, "recovery">>]
        BY <2>2 DEF SendJobs
      <3> QED BY <1>1, <2>2, <3>1 DEF WorkHanded
    <2>4. HandedInv'
      <3>1. \A i \in SendJobs : slock'[i] # NoSender => sjob'[i].st # "absent"
        BY <1>1, <2>2 DEF HandedInv
      <3>2. \A n \in Messages : \A k \in WorkHanded'[n] : k \in Kinds /\ intent'[n][k] # "absent"
        BY <1>1, <2>3, SendKind DEF HandedInv
      <3>3. \A n \in Messages :
              /\ <<"add", n>> \notin sscan'
              /\ <<"mark", n>> \in sscan' => "message_send" \in WorkHanded'[n]
        BY <2>1, <2>3
      <3> QED BY <1>1, <3>1, <3>2, <3>3 DEF HandedInv, Committed
    <2>5. WorkHanded' = [WorkHanded EXCEPT ![m] = WorkHanded[m] \union {"message_send"}]
      BY <2>3 DEF WorkHanded
    <2>6. SendOutcome!HandOver(m, "message_send")
      BY <1>1, <2>5 DEF SendOutcome!HandOver
    <2> QED BY <2>4, <2>6 DEF AbstractStep, SendOutcome!Next, SendOutcome!Kinds
  <1> QED BY <1>3, <1>4

LEMMA SendHanded ==
  ASSUME SendTyped, HandedInv, MSNext
  PROVE  HandedInv' /\ AbstractStep
  <1>1. ASSUME JobsLast, UNCHANGED <<effect, intent, added, sscan>>
        PROVE  HandedInv' /\ AbstractStep
    BY <1>1, LastKeepsHanded DEF AbstractStep
  <1>2. CASE \E s \in Senders : SenderNext(s)
    BY <1>1, <1>2, SenderLast
  <1>3. CASE \E j \in SendJobs :
                StallOfDeadSender(j) \/ StallOfLiveSender(j) \/ ReplaySend(j)
    BY <1>1, <1>3, QueueLast
  <1>4. ASSUME NEW m \in Messages, PickRecoverable(m) PROVE HandedInv' /\ AbstractStep
    <2>1. /\ UNCHANGED <<effect, intent, added, sjob, slock>> /\ sscan' = {<<"add", m>>}
          /\ intent[m]["message_send"] # "absent"
      BY <1>4 DEF PickRecoverable, Recoverable, storeVars
    <2>2. WorkHanded' = WorkHanded
      BY <2>1 DEF WorkHanded
    <2> QED BY <2>1, <2>2 DEF HandedInv, Committed, AbstractStep
  <1>5. ASSUME NEW m \in Messages, MarkSendRecovered(m) PROVE HandedInv' /\ AbstractStep
    <2>1. "message_send" \in WorkHanded[m] /\ sscan' \subseteq sscan
      BY <1>5 DEF MarkSendRecovered, HandedInv
    <2> QED BY <1>5, <2>1, SendKind, MarkHanded DEF MarkSendRecovered
  <1>6. CASE SendScanAborts
    <2>1. /\ UNCHANGED <<effect, intent, added, sjob, slock>> /\ sscan' = {}
          /\ WorkHanded' = WorkHanded
      BY <1>6 DEF SendScanAborts, WorkHanded
    <2> QED BY <2>1 DEF HandedInv, Committed, AbstractStep
  <1> QED BY <1>2, <1>3, <1>4, <1>5, <1>6, AddSendRecoveryStep DEF MSNext, SendScanActs

-----------------------------------------------------------------------------
(* ReplySending: types, delivery, refinement.                               *)

\* The steps of the conversation worker, on the rows of the store.
LEMMA CommitReplyTypes ==
  ASSUME StoreTypeOK, NEW m \in Messages,
         CommitReply(m) \/ QueueReply(m) \/ MarkReplyQueued(m)
  PROVE  StoreTypeOK'
  <1> "message_send" \in Kinds /\ "reply" \in Texts
    BY DEF Kinds, Texts
  <1>1. CASE CommitReply(m)
    BY <1>1, RecordTypes DEF CommitReply, StoreTypeOK
  <1>2. CASE QueueReply(m)
    BY <1>2, EnqueueTypes DEF QueueReply, StoreTypeOK
  <1>3. CASE MarkReplyQueued(m)
    BY <1>3, MarkTypes DEF MarkReplyQueued, StoreTypeOK
  <1> QED BY <1>1, <1>2, <1>3

LEMMA SendingNextTypes == SendTyped /\ [SendingNext]_sendVars => SendTyped'
  <1> SUFFICES ASSUME SendTyped, [SendingNext]_sendVars PROVE SendTyped'
    OBVIOUS
  <1>1. CASE MSNext
    BY <1>1, SendTypes
  <1>2. CASE \E m \in Messages : CommitReply(m) \/ QueueReply(m) \/ MarkReplyQueued(m)
    <2>1. UNCHANGED msVars
      BY <1>2 DEF CommitReply, QueueReply, MarkReplyQueued
    <2> QED BY <1>2, <2>1, CommitReplyTypes DEF SendTyped, MSTypeOK, msVars
  <1>3. CASE FlipEligibility /\ UNCHANGED msVars
    BY <1>3, FlipTypes DEF SendTyped, MSTypeOK, msVars
  <1>4. CASE UNCHANGED sendVars
    BY <1>4 DEF sendVars, SendTyped, StoreTypeOK, MSTypeOK, storeVars, msVars
  <1> QED BY <1>1, <1>2, <1>3, <1>4 DEF SendingNext

LEMMA SendingTypesHold == SendingSpec => []SendTyped
  BY InitialSendTypes, SendingNextTypes, PTL DEF SendingSpec, SendingInit

\* Every reachable state of the sending model is well-typed.
THEOREM SendingTypes == SendingSpec => []SendingTypeOK
  <1>1. SendTyped => SendingTypeOK
    BY DEF SendTyped, SendingTypeOK
  <1> QED BY <1>1, SendingTypesHold, PTL


LEMMA SendingNextDelivery ==
  ASSUME SendTyped, DeliveryInv, [SendingNext]_sendVars PROVE DeliveryInv'
  <1>1. CASE MSNext
    BY <1>1, SendingNextTypes, SendDelivery
  <1>2. CASE ~MSNext
    BY <1>2, DeliveryUnchanged
    DEF SendingNext, CommitReply, QueueReply, MarkReplyQueued, msVars, sendRows, sendVars
  <1> QED BY <1>1, <1>2

LEMMA SendingDeliveryHolds == SendingSpec => []DeliveryInv
  <1>1. SendingInit => SendTyped /\ DeliveryInv
    BY InitialSendTypes, InitialDelivery DEF SendingInit
  <1>2. SendTyped /\ DeliveryInv /\ [SendingNext]_sendVars => (SendTyped /\ DeliveryInv)'
    BY SendingNextTypes, SendingNextDelivery
  <1> QED BY <1>1, <1>2, PTL DEF SendingSpec

\* The employee never gets a reply twice, whatever is retried, stalled, replayed
\* or run side by side.
THEOREM ReplySentAtMostOnce == SendingSpec => []SentAtMostOnce
  <1>1. DeliveryInv => SentAtMostOnce
    BY DEF DeliveryInv, SentAtMostOnce
  <1> QED BY <1>1, SendingDeliveryHolds, PTL

\* A reply marked as sent was accepted by the channel under its claim, and prompts
\* are activated only after that.
THEOREM RecordedReplyWasSent == SendingSpec => []DeliveryRecordIsTrue
  <1>1. DeliveryInv => DeliveryRecordIsTrue
    BY DEF DeliveryInv, DeliveryRecordIsTrue, Delivered
  <1> QED BY <1>1, SendingDeliveryHolds, PTL


LEMMA SendingNextHanded ==
  ASSUME SendTyped, HandedInv, [SendingNext]_sendVars
  PROVE  HandedInv' /\ AbstractStep
  <1> USE DEF msVars
  <1>1. CASE MSNext
    BY <1>1, SendHanded
  <1>2. ASSUME NEW m \in Messages, CommitReply(m) PROVE HandedInv' /\ AbstractStep
    <2>1. /\ ~Committed(m) /\ UNCHANGED <<added, sjob, slock, sscan>>
          /\ RecordCommittedTurn(m, "reply", {"message_send"})
      BY <1>2 DEF CommitReply
    <2>2. \E side \in SUBSET SideKinds : side = {}
      OBVIOUS
    <2>3. PICK side \in SUBSET SideKinds : side = {}
      BY <2>2
    <2>4. side \union {"message_send"} = {"message_send"}
      BY <2>3
    <2> QED BY <2>1, <2>3, <2>4, AnswerHanded DEF Texts
  <1>3. ASSUME NEW m \in Messages, QueueReply(m) PROVE HandedInv' /\ AbstractStep
    <2>1. intent[m]["message_send"] # "absent"
      BY <1>3 DEF QueueReply, HandedInv
    <2> QED BY <1>3, <2>1, SendKind, EnqueueHanded DEF QueueReply
  <1>4. ASSUME NEW m \in Messages, MarkReplyQueued(m) PROVE HandedInv' /\ AbstractStep
    <2>1. "message_send" \in WorkHanded[m]
      BY <1>4 DEF MarkReplyQueued, WorkHanded
    <2> QED BY <1>4, <2>1, SendKind, MarkHanded DEF MarkReplyQueued
  <1>5. CASE (FlipEligibility /\ UNCHANGED msVars) \/ UNCHANGED sendVars
    BY <1>5, IdleHanded DEF FlipEligibility, sendVars, storeVars
  <1> QED BY <1>1, <1>2, <1>3, <1>4, <1>5 DEF SendingNext

\* Sending, with its retries, recovery jobs and manual replays, implements
\* TurnOutcome: only listed replies are handed over, and no reply is marked queued
\* before a job for it exists.
THEOREM SendingRefinesOutcome == SendingSpec => SendingImplementsOutcome
  <1>1. SendingInit => SendTyped /\ HandedInv /\ SendOutcome!Init
    BY InitialSendTypes, InitialHanded DEF SendingInit
  <1>2. SendTyped /\ HandedInv /\ [SendingNext]_sendVars
          => /\ (SendTyped /\ HandedInv)'
             /\ [SendOutcome!Next]_<<effect, intent, WorkHanded>>
    BY SendingNextTypes, SendingNextHanded DEF AbstractStep
  <1> QED BY <1>1, <1>2, PTL DEF SendingSpec, SendingImplementsOutcome, SendOutcome!Spec
=============================================================================
