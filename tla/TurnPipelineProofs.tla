-------------------------- MODULE TurnPipelineProofs --------------------------
(***************************************************************************)
(* Theorems about TurnPipeline, for any number of messages, workers,       *)
(* senders, attempts, replays and failures: only committed answers are     *)
(* sent, a receipted answer is in the hands of the senders, and the whole  *)
(* pipeline implements TurnOutcome.                                        *)
(*                                                                         *)
(* Each part keeps its own invariant under its own steps (the lemmas of    *)
(* ConversationTurnProofs and MessageSendProofs).  What is left to show    *)
(* here is that it also keeps it under the steps of the other part.        *)
(***************************************************************************)
EXTENDS TurnPipeline, ConversationTurnProofs, MessageSendProofs

TurnInv == TypeOK /\ DispatchInv /\ SavedInv /\ ReceiptInv
SendInv == SendTyped /\ DeliveryInv /\ HandedInv

\* A mark of either part follows a job that will do the work.
QueuedHanded ==
    \A m \in Messages, k \in Kinds : intent[m][k] = "queued" => k \in WorkHanded[m]

Listed(m) == intent[m]["message_send"] # "absent"

\* Nobody works on a reply that no turn lists.
SendersCovered ==
    /\ \A m \in Messages : attempt[m] => Listed(m)
    /\ \A j \in SendJobs : sjob[j].st # "absent" => Listed(j[1])
    /\ \A s \in Senders : snd[s].pc # "idle" => Listed(Reply(s))

PipelineInv == TurnInv /\ SendInv /\ QueuedHanded /\ SendersCovered

LEMMA PipelineInitOK == PipelineInit => PipelineInv /\ SendOutcome!Init
  <1> SUFFICES ASSUME PipelineInit PROVE PipelineInv /\ SendOutcome!Init
    OBVIOUS
  <1>1. Init /\ StoreInit /\ MSInit
    BY DEF PipelineInit, Init
  <1>2. TurnInv
    BY <1>1, InitialTypes, InitialDispatch, InitialSaved, InitialReceipts DEF TurnInv
  <1>3. SendInv /\ SendOutcome!Init
    BY <1>1, InitialSendTypes, InitialDelivery, InitialHanded DEF SendInv
  <1>4. QueuedHanded
    BY <1>1 DEF StoreInit, QueuedHanded
  <1>5. SendersCovered
    BY <1>1 DEF MSInit, NoSendJob, IdleSender, SendersCovered
  <1> QED BY <1>2, <1>3, <1>4, <1>5 DEF PipelineInv

-----------------------------------------------------------------------------
(* Steps of the conversation workers, seen from the senders.                *)

LEMMA TurnStepHanded ==
  ASSUME TypeOK, DispatchInv, SendTyped, HandedInv, [Next]_vars, UNCHANGED msVars
  PROVE  HandedInv' /\ AbstractStep
  <1> WorkersTyped
    BY TypeParts
  <1> UNCHANGED <<sjob, slock, sscan>>
    BY DEF msVars
  <1>1. ASSUME NEW w \in Workers, CommitTurn(w) PROVE HandedInv' /\ AbstractStep
    <2>1. Msg(w) \in Messages /\ wk[w].text \in Texts /\ UNCHANGED added
      BY <1>1, MsgIsMessage DEF CommitTurn, At, WorkersTyped, WorkerState
    <2>2. CASE Committed(Msg(w))
      BY <1>1, <2>1, <2>2, IdleHanded DEF CommitTurn, PersistTurn
    <2>3. CASE ~Committed(Msg(w))
      <3>1. PICK side \in SUBSET SideKinds :
              /\ wk[w].text # "reply" => side = {}
              /\ RecordCommittedTurn(Msg(w), wk[w].text, side \union {"message_send"})
        BY <1>1, <2>3 DEF CommitTurn, PersistTurn
      <3> QED BY <2>1, <2>3, <3>1, AnswerHanded
    <2> QED BY <2>2, <2>3
  <1>2. ASSUME NEW w \in Workers, EnqueueNext(w) PROVE HandedInv' /\ AbstractStep
    <2>1. Msg(w) \in Messages /\ UNCHANGED <<effect, intent>>
      BY <1>2, MsgIsMessage DEF EnqueueNext, At
    <2>2. PICK k \in wk[w].todo : EnqueueDispatch(Msg(w), k)
      BY <1>2 DEF EnqueueNext
    <2>3. k \in Kinds /\ intent[Msg(w)][k] # "absent"
      BY <1>2 DEF EnqueueNext, At, DispatchInv, WorkerCovered, WorkersTyped, WorkerState
    <2> QED BY <2>1, <2>2, <2>3, EnqueueHanded
  <1>3. ASSUME NEW w \in Workers, MarkQueued(w) PROVE HandedInv' /\ AbstractStep
    <2>1. /\ Msg(w) \in Messages /\ wk[w].kind \in Kinds /\ UNCHANGED <<effect, added>>
          /\ wk[w].kind \in added[Msg(w)]
      BY <1>3, MsgIsMessage DEF MarkQueued, At, DispatchInv, WorkerCovered, WorkersTyped,
                                WorkerState
    <2>2. wk[w].kind \in WorkHanded[Msg(w)]
      BY <2>1 DEF WorkHanded
    <2> QED BY <1>3, <2>1, <2>2, MarkHanded DEF MarkQueued
  <1>4. ASSUME NEW w \in Workers, LoadDispatch(w) PROVE HandedInv' /\ AbstractStep
    BY <1>4, IdleHanded DEF LoadDispatch, storeVars
  <1>5. ASSUME NEW w \in Workers, WorkerNext(w) PROVE HandedInv' /\ AbstractStep
    BY <1>1, <1>2, <1>3, <1>4, <1>5, OtherWorkerSteps, IdleHanded
  <1>6. CASE ~\E w \in Workers : WorkerNext(w)
    BY <1>6, OtherSteps, IdleHanded
  <1> QED BY <1>5, <1>6

\* An implemented step keeps every mark behind its job, and unlists nothing.
LEMMA AbstractQueued ==
  ASSUME StoreTypeOK, QueuedHanded, AbstractStep
  PROVE  QueuedHanded'
  <1> Kinds = SendOutcome!Kinds
    BY DEF Kinds, SendOutcome!Kinds
  <1>1. ASSUME NEW m \in Messages, NEW text, NEW side, SendOutcome!Answer(m, text, side)
        PROVE  QueuedHanded'
    <2>1. \A n \in Messages, k \in Kinds :
            intent'[n][k] = "queued" => n # m /\ intent[n][k] = "queued"
      BY <1>1 DEF SendOutcome!Answer, StoreTypeOK
    <2> QED BY <1>1, <2>1 DEF SendOutcome!Answer, QueuedHanded
  <1>2. ASSUME NEW m \in Messages, NEW k \in Kinds, SendOutcome!HandOver(m, k)
        PROVE  QueuedHanded'
    <2>1. UNCHANGED intent
      BY <1>2 DEF SendOutcome!HandOver
    <2>2. WorkHanded' = [WorkHanded EXCEPT ![m] = WorkHanded[m] \union {k}]
      BY <1>2 DEF SendOutcome!HandOver
    <2>3. WorkHanded = [n \in Messages |-> WorkHanded[n]]
      BY DEF WorkHanded
    <2>4. \A n \in Messages : WorkHanded[n] \subseteq WorkHanded'[n]
      BY <2>2, <2>3
    <2> QED BY <2>1, <2>4 DEF QueuedHanded
  <1>3. ASSUME NEW m \in Messages, NEW k \in Kinds, SendOutcome!SettleWork(m, k)
        PROVE  QueuedHanded'
    <2>1. \A n \in Messages, i \in Kinds :
            intent'[n][i] = IF n = m /\ i = k THEN "queued" ELSE intent[n][i]
      BY <1>3 DEF SendOutcome!SettleWork, StoreTypeOK
    <2> QED BY <1>3, <2>1 DEF SendOutcome!SettleWork, QueuedHanded
  <1>4. CASE UNCHANGED <<effect, intent, WorkHanded>>
    BY <1>4 DEF QueuedHanded
  <1> QED BY <1>1, <1>2, <1>3, <1>4 DEF AbstractStep, SendOutcome!Next

LEMMA ListedStays ==
  ASSUME StoreTypeOK, AbstractStep, NEW n \in Messages, Listed(n)
  PROVE  Listed(n)'
  <1> Kinds = SendOutcome!Kinds /\ "message_send" \in Kinds
    BY DEF Kinds, SendOutcome!Kinds
  <1>1. ASSUME NEW m \in Messages, NEW text, NEW side, SendOutcome!Answer(m, text, side)
        PROVE  Listed(n)'
    BY <1>1 DEF SendOutcome!Answer, StoreTypeOK, Listed
  <1>2. ASSUME NEW m \in Messages, NEW k \in Kinds,
               SendOutcome!HandOver(m, k) \/ SendOutcome!SettleWork(m, k)
        PROVE  Listed(n)'
    BY <1>2 DEF SendOutcome!HandOver, SendOutcome!SettleWork, StoreTypeOK, Listed
  <1>3. CASE UNCHANGED <<effect, intent, WorkHanded>>
    BY <1>3 DEF Listed
  <1> QED BY <1>1, <1>2, <1>3 DEF AbstractStep, SendOutcome!Next

LEMMA TurnStepOK ==
  ASSUME PipelineInv, [Next]_vars, UNCHANGED msVars
  PROVE  PipelineInv' /\ AbstractStep
  <1> USE DEF PipelineInv, TurnInv, SendInv
  <1>1. TurnInv'
    BY NextTypes, NextDispatch, NextSaved, NextReceipts
  <1>2. HandedInv' /\ AbstractStep
    BY TurnStepHanded
  <1>3. SendTyped'
    BY <1>1 DEF SendTyped, TypeOK, MSTypeOK, msVars
  <1>4. DeliveryInv'
    BY DeliveryUnchanged DEF msVars, sendRows
  <1>5. QueuedHanded'
    BY <1>2, AbstractQueued DEF TypeOK
  <1>6. SendersCovered'
    <2>1. \A m \in Messages : Listed(m) => Listed(m)'
      BY <1>2, ListedStays DEF TypeOK
    <2>2. /\ \A j \in SendJobs : j[1] \in Messages
          /\ \A s \in Senders : snd[s].pc # "idle" => Reply(s) \in Messages
      BY ReplyIsMessage DEF SendJobs
    <2> QED BY <2>1, <2>2 DEF SendersCovered, msVars, Reply, Listed
  <1> QED BY <1>1, <1>2, <1>3, <1>4, <1>5, <1>6

-----------------------------------------------------------------------------
(* Steps of the senders and their scanner, seen from the workers.           *)

\* All they do to the store is to mark a listed reply.
LEMMA SendStepStore ==
  ASSUME SendTyped, HandedInv, MSNext
  PROVE  /\ UNCHANGED <<effect, added, eligible, flips>>
         /\ \A m \in Messages, k \in Kinds :
              intent'[m][k] = intent[m][k]
                \/ (intent[m][k] # "absent" /\ intent'[m][k] = "queued")
  <1> USE DEF storeVars
  <1>1. CASE \E s \in Senders : SenderNext(s)
    BY <1>1 DEF SenderNext, SenderRuns, FetchSend, LoadReply, CheckRecipient, ClaimSend,
           PostReply, RecordDelivery, ActivateDelivery, FinishSend, ClaimAnswerLost,
           PostFails, SendStepFails, CrashSender
  <1>2. CASE \E j \in SendJobs :
                StallOfDeadSender(j) \/ StallOfLiveSender(j) \/ ReplaySend(j)
    BY <1>2 DEF StallOfDeadSender, StallOfLiveSender, StallSend, ReplaySend
  <1>3. CASE \/ \E m \in Messages : PickRecoverable(m) \/ AddSendRecovery(m)
             \/ SendScanAborts
    BY <1>3 DEF PickRecoverable, AddSendRecovery, SendScanAborts
  <1>4. ASSUME NEW m \in Messages, MarkSendRecovered(m)
        PROVE  /\ UNCHANGED <<effect, added, eligible, flips>>
               /\ \A n \in Messages, k \in Kinds :
                    intent'[n][k] = intent[n][k]
                      \/ (intent[n][k] # "absent" /\ intent'[n][k] = "queued")
    <2>1. intent' = [intent EXCEPT ![m]["message_send"] = "queued"]
      BY <1>4 DEF MarkSendRecovered, MarkCommittedDispatchQueued
    <2>2. intent[m]["message_send"] # "absent"
      BY <1>4, SendKind DEF MarkSendRecovered, HandedInv
    <2>3. \A n \in Messages, k \in Kinds :
            intent'[n][k] = IF n = m /\ k = "message_send" THEN "queued" ELSE intent[n][k]
      BY <2>1, SendKind DEF SendTyped, StoreTypeOK
    <2> QED BY <1>4, <2>2, <2>3 DEF MarkSendRecovered
  <1> QED BY <1>1, <1>2, <1>3, <1>4 DEF MSNext, SendScanActs

LEMMA SendStepTurn ==
  ASSUME TurnInv, SendInv, MSNext, UNCHANGED ctVars
  PROVE  TurnInv'
  <1> USE DEF TurnInv, SendInv
  <1>1. /\ UNCHANGED <<effect, added, eligible, flips>>
        /\ \A m \in Messages, k \in Kinds :
              intent'[m][k] = intent[m][k]
                \/ (intent[m][k] # "absent" /\ intent'[m][k] = "queued")
    BY SendStepStore
  <1>2. /\ UNCHANGED <<ingest, admission, receipt, bundle, job, lock, wk, scan, manual>>
        /\ WorkersTyped
    BY TypeParts DEF ctVars
  <1>3. TypeOK'
    BY <1>2, SendTypes DEF SendTyped, TypeOK
  <1>4. DispatchInv'
    <2>1. IntentsCovered'
      BY <1>1 DEF DispatchInv, IntentsCovered, Committed
    <2>2. ASSUME NEW w \in Workers PROVE WorkerCovered(w)'
      <3>1. CASE wk[w].pc \in {"dispatch", "mark"}
        <4>1. Msg(w) \in Messages /\ wk[w].todo \subseteq Kinds
          BY <1>2, <3>1, MsgIsMessage DEF WorkersTyped, WorkerState
        <4> QED BY <1>1, <1>2, <4>1 DEF DispatchInv, WorkerCovered, Msg
      <3>2. CASE wk[w].pc \notin {"dispatch", "mark"}
        BY <1>2, <3>2 DEF WorkerCovered
      <3> QED BY <3>1, <3>2
    <2> QED BY <2>1, <2>2 DEF DispatchInv
  <1>5. SavedInv'
    BY <1>1, <1>2 DEF SavedInv, Committed, Saved, Msg
  <1>6. Grows
    BY <1>1, <1>2 DEF Grows, Saved, Committed, UnqueuedKinds
  <1>7. ReceiptInv'
    <2>1. \A w \in Workers : WorkerJustified(w)'
      BY <1>2, <1>6, StillJustified
    <2>2. /\ \A m \in Messages : receipt'[m] => Closed(m)'
          /\ \A j \in Jobs : Tells(j)' => Closed(j[1])'
      BY <1>2, <1>6, StillClosed DEF Tells
    <2> QED BY <1>1, <1>2, <2>1, <2>2 DEF ReceiptInv
  <1> QED BY <1>3, <1>4, <1>5, <1>7

\* A sender, a claim or a send job appears only for a listed reply.
LEMMA SendStepCovered ==
  ASSUME PipelineInv, MSNext
  PROVE  /\ \A m \in Messages : attempt'[m] => Listed(m)
         /\ \A j \in SendJobs : sjob'[j].st # "absent" => Listed(j[1])
         /\ \A s \in Senders : snd'[s].pc # "idle" => snd'[s].j \in SendJobs /\ Listed(snd'[s].j[1])
  <1> USE DEF PipelineInv, SendInv, SendTyped, MSTypeOK
  <1> DEFINE As == \A m \in Messages : attempt'[m] => Listed(m)
             Js == \A j \in SendJobs : sjob'[j].st # "absent" => Listed(j[1])
             Ss == \A s \in Senders :
                     snd'[s].pc # "idle" => snd'[s].j \in SendJobs /\ Listed(snd'[s].j[1])
  <1>0. /\ \A j \in SendJobs : sjob[j].st # "absent" => Listed(j[1])
        /\ \A s \in Senders : snd[s].pc # "idle" => snd[s].j \in SendJobs /\ Listed(snd[s].j[1])
        /\ \A m \in Messages : attempt[m] => Listed(m)
    BY DEF SendersCovered, Reply
  <1>a. UNCHANGED attempt => As
    BY <1>0
  <1>j. UNCHANGED sjob => Js
    BY <1>0
  <1>s. UNCHANGED snd => Ss
    BY <1>0
  \* One job changes, and it was there or its reply is listed.
  <1>b. ASSUME NEW j \in SendJobs, Listed(j[1]),
               \A i \in SendJobs : i # j => sjob'[i] = sjob[i]
        PROVE  Js
    BY <1>0, <1>b
  \* One sender moves: it keeps its job, becomes idle, or takes up a listed reply.
  <1>c. ASSUME NEW s \in Senders, \A t \in Senders : t # s => snd'[t] = snd[t],
               \/ snd'[s].pc = "idle"
               \/ snd[s].pc # "idle" /\ snd'[s].j = snd[s].j
               \/ snd'[s].j \in SendJobs /\ Listed(snd'[s].j[1])
        PROVE  Ss
    BY <1>0, <1>c
  <1>1. ASSUME NEW s \in Senders, NEW j \in SendJobs, FetchSend(s, j) PROVE As /\ Js /\ Ss
    <2>1. Listed(j[1])
      <3>1. CASE sjob[j].st = "waiting"
        BY <1>0, <3>1
      <3>2. CASE "message_send" \in added[j[1]]
        <4>1. j[1] \in Messages
          BY DEF SendJobs
        <4>2. "message_send" \in WorkHanded[j[1]]
          BY <3>2, <4>1 DEF WorkHanded
        <4> QED BY <4>1, <4>2 DEF HandedInv, Listed
      <3> QED BY <1>1, <3>1, <3>2 DEF FetchSend, SendWaiting
    <2>2. \A i \in SendJobs : i # j => sjob'[i] = sjob[i]
      BY <1>1 DEF FetchSend
    <2>3. /\ \A t \in Senders : t # s => snd'[t] = snd[t]
          /\ snd'[s].j = j
      BY <1>1 DEF FetchSend, IdleSender
    <2>4. UNCHANGED attempt
      BY <1>1 DEF FetchSend, sendRows
    <2> QED BY <1>a, <1>b, <1>c, <2>1, <2>2, <2>3, <2>4
  <1>2. ASSUME NEW s \in Senders, FailSend(s), snd[s].pc # "idle", UNCHANGED attempt
        PROVE  As /\ Js /\ Ss
    <2>1. /\ \A t \in Senders : t # s => snd'[t] = snd[t]
          /\ snd'[s].pc = "idle"
      BY <1>2 DEF FailSend, IdleSender
    <2>2. snd[s].j \in SendJobs /\ Listed(snd[s].j[1])
      BY <1>0, <1>2
    <2>3. \A i \in SendJobs : i # snd[s].j => sjob'[i] = sjob[i]
      BY <1>2, <2>2 DEF FailSend
    <2> QED BY <1>a, <1>b, <1>c, <1>2, <2>1, <2>2, <2>3
  <1>3. ASSUME NEW s \in Senders, FinishSend(s) PROVE As /\ Js /\ Ss
    <2>1. /\ \A t \in Senders : t # s => snd'[t] = snd[t]
          /\ snd'[s].pc = "idle" /\ UNCHANGED attempt
      BY <1>3 DEF FinishSend, IdleSender, sendRows
    <2>2. snd[s].j \in SendJobs /\ Listed(snd[s].j[1])
      BY <1>0, <1>3 DEF FinishSend, SendAt
    <2>3. \A i \in SendJobs : i # snd[s].j => sjob'[i] = sjob[i]
      BY <1>3, <2>2 DEF FinishSend
    <2> QED BY <1>a, <1>b, <1>c, <2>1, <2>2, <2>3
  <1>4. ASSUME NEW s \in Senders, ClaimSend(s) \/ ClaimAnswerLost(s) PROVE As /\ Js /\ Ss
    <2>1. /\ snd[s].pc # "idle" /\ UNCHANGED sjob
          /\ attempt' = [attempt EXCEPT ![Reply(s)] = TRUE]
      BY <1>4 DEF ClaimSend, ClaimAnswerLost, SendAt
    <2>2. Listed(Reply(s)) /\ Reply(s) \in Messages
      BY <1>0, <2>1 DEF Reply, SendJobs
    <2>3. As
      BY <1>0, <2>1, <2>2
    <2>4. /\ \A t \in Senders : t # s => snd'[t] = snd[t]
          /\ snd'[s].j = snd[s].j
      BY <1>4 DEF ClaimSend, ClaimAnswerLost, SendGoto, SenderState
    <2> QED BY <1>c, <1>j, <2>1, <2>3, <2>4
  <1>5. ASSUME NEW s \in Senders,
               \/ LoadReply(s) \/ CheckRecipient(s) \/ PostReply(s) \/ RecordDelivery(s)
               \/ ActivateDelivery(s)
        PROVE  As /\ Js /\ Ss
    <2>1. UNCHANGED <<attempt, sjob>> /\ snd[s].pc # "idle"
      BY <1>5 DEF LoadReply, CheckRecipient, PostReply, RecordDelivery, ActivateDelivery,
                  SendAt, sendRows
    <2>2. /\ \A t \in Senders : t # s => snd'[t] = snd[t]
          /\ snd'[s].j = snd[s].j
      BY <1>5 DEF LoadReply, CheckRecipient, PostReply, RecordDelivery, ActivateDelivery,
                  SendGoto, SenderState
    <2> QED BY <1>a, <1>j, <1>c, <2>1, <2>2
  <1>6. ASSUME NEW s \in Senders, CrashSender(s) PROVE As /\ Js /\ Ss
    <2>1. /\ \A t \in Senders : t # s => snd'[t] = snd[t]
          /\ snd'[s].pc = "idle" /\ UNCHANGED <<attempt, sjob>>
      BY <1>6 DEF CrashSender, IdleSender, sendRows
    <2> QED BY <1>a, <1>j, <1>c, <2>1
  <1>7. ASSUME NEW s \in Senders, PostFails(s) \/ SendStepFails(s) PROVE As /\ Js /\ Ss
    <2>1. FailSend(s) /\ snd[s].pc # "idle" /\ UNCHANGED attempt
      BY <1>7 DEF PostFails, SendStepFails, SendAt, sendRows
    <2> QED BY <1>2, <2>1
  <1>8. ASSUME NEW j \in SendJobs, StallSend(j) \/ ReplaySend(j) PROVE As /\ Js /\ Ss
    <2>1. /\ sjob[j].st # "absent" /\ UNCHANGED <<attempt, snd>>
          /\ \A i \in SendJobs : i # j => sjob'[i] = sjob[i]
      BY <1>8 DEF StallSend, ReplaySend, sendRows
    <2> QED BY <1>0, <1>a, <1>b, <1>s, <2>1
  <1>9. ASSUME NEW m \in Messages, AddSendRecovery(m) PROVE As /\ Js /\ Ss
    <2> DEFINE j == <<m, "recovery">>
    <2>1. /\ UNCHANGED <<attempt, snd>> /\ j \in SendJobs
          /\ \A i \in SendJobs : i # j => sjob'[i] = sjob[i]
      BY <1>9 DEF AddSendRecovery, sendRows, SendJobs
    <2>2. Listed(j[1])
      BY <1>9 DEF AddSendRecovery, HandedInv, Listed
    <2> HIDE DEF j
    <2> QED BY <1>a, <1>b, <1>s, <2>1, <2>2
  <1>10. ASSUME \/ \E m \in Messages : PickRecoverable(m) \/ MarkSendRecovered(m)
                \/ SendScanAborts
         PROVE  As /\ Js /\ Ss
    BY <1>a, <1>j, <1>s, <1>10
    DEF PickRecoverable, MarkSendRecovered, SendScanAborts, sendRows
  <1> QED BY <1>1, <1>3, <1>4, <1>5, <1>6, <1>7, <1>8, <1>9, <1>10
          DEF MSNext, SenderNext, SenderRuns, SendScanActs, StallOfDeadSender,
              StallOfLiveSender

LEMMA SendStepOK ==
  ASSUME PipelineInv, MSNext, UNCHANGED ctVars
  PROVE  PipelineInv' /\ AbstractStep
  <1> USE DEF PipelineInv, SendInv
  <1>1. TurnInv'
    BY SendStepTurn
  <1>2. HandedInv' /\ AbstractStep
    BY SendHanded
  <1>3. SendTyped' /\ DeliveryInv'
    BY SendTypes, SendDelivery
  <1>4. QueuedHanded'
    BY <1>2, AbstractQueued DEF SendTyped
  <1>5. SendersCovered'
    <2>1. \A m \in Messages : Listed(m) => Listed(m)'
      BY <1>2, ListedStays DEF SendTyped
    <2>2. \A j \in SendJobs : j[1] \in Messages
      BY DEF SendJobs
    <2>3. \A s \in Senders : snd'[s].pc # "idle" => Listed(Reply(s))'
      BY <2>1, <2>2, SendStepCovered DEF Listed, Reply
    <2> QED BY <2>1, <2>2, <2>3, SendStepCovered DEF SendersCovered
  <1> QED BY <1>1, <1>2, <1>3, <1>4, <1>5

-----------------------------------------------------------------------------
(* Theorems.                                                                *)

LEMMA PipelineStep ==
  PipelineInv /\ [PipelineNext]_pipelineVars
    => PipelineInv' /\ [SendOutcome!Next]_<<effect, intent, WorkHanded>>
  <1> SUFFICES ASSUME PipelineInv, [PipelineNext]_pipelineVars
               PROVE  PipelineInv' /\ AbstractStep
    BY DEF AbstractStep
  <1>1. CASE MSNext /\ UNCHANGED ctVars
    BY <1>1, SendStepOK
  <1>2. CASE \/ CTNext /\ UNCHANGED msVars
             \/ FlipEligibility /\ UNCHANGED <<ctVars, msVars>>
             \/ UNCHANGED pipelineVars
    <2>1. [Next]_vars /\ UNCHANGED msVars
      BY <1>2 DEF Next, vars, pipelineVars
    <2> QED BY <2>1, TurnStepOK
  <1> QED BY <1>1, <1>2 DEF PipelineNext

LEMMA PipelineHolds == PipelineSpec => []PipelineInv
  BY PipelineInitOK, PipelineStep, PTL DEF PipelineSpec

\* Workers and senders over one store keep their types.
THEOREM PipelineTypes == PipelineSpec => [](TypeOK /\ MSTypeOK)
  <1>1. PipelineInv => TypeOK /\ MSTypeOK
    BY DEF PipelineInv, TurnInv, SendInv, SendTyped
  <1> QED BY <1>1, PipelineHolds, PTL

\* The employee gets the committed answers, each at most once, and nothing else:
\* whoever claims a reply acts for a turn that is committed and lists it.
THEOREM OnlyCommittedAnswersAreSent == PipelineSpec => []OnlyAnswersAreSent
  <1>1. PipelineInv => OnlyAnswersAreSent
    BY SendKind DEF PipelineInv, SendInv, DeliveryInv, HandedInv, SendersCovered, Listed,
           OnlyAnswersAreSent
  <1> QED BY <1>1, PipelineHolds, PTL

\* A receipt never closes a message whose answer no send job will carry, although the
\* scanner of the senders may mark the intent before the worker does.
THEOREM ReceiptedRepliesAreSendable == PipelineSpec => []ReceiptedReplyIsSendable
  <1>1. ASSUME PipelineInv, NEW m \in Messages, receipt[m], Committed(m), flips = 0,
               ~Superseded(m)
        PROVE  "message_send" \in WorkHanded[m]
    <2>1. UnqueuedKinds(m) = {}
      BY <1>1 DEF PipelineInv, TurnInv, ReceiptInv, Closed, Settled
    <2>2. intent[m]["message_send"] # "pending"
      BY <2>1, SendKind DEF UnqueuedKinds
    <2>3. intent[m]["message_send"] # "absent"
      BY <1>1 DEF PipelineInv, SendInv, HandedInv
    <2>4. intent[m]["message_send"] \in {"absent", "pending", "queued"}
      BY <1>1, SendKind DEF PipelineInv, TurnInv, TypeOK, StoreTypeOK
    <2> QED BY <1>1, <2>2, <2>3, <2>4, SendKind DEF PipelineInv, QueuedHanded
  <1>2. PipelineInv => ReceiptedReplyIsSendable
    BY <1>1 DEF ReceiptedReplyIsSendable
  <1> QED BY <1>2, PipelineHolds, PTL

\* The pipeline implements TurnOutcome: one final answer per message, only listed work
\* is handed over, and nothing is marked queued before a job for it exists, whichever of
\* the worker, the senders and their scanner takes the step.
THEOREM PipelineRefinesOutcome == PipelineSpec => PipelineImplementsOutcome
  BY PipelineInitOK, PipelineStep, PipelineHolds, PTL
  DEF PipelineSpec, PipelineImplementsOutcome, SendOutcome!Spec
=============================================================================
