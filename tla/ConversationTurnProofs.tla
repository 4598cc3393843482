------------------------ MODULE ConversationTurnProofs ------------------------
(***************************************************************************)
(* Theorems about ConversationTurn: its types, that dispatches match the   *)
(* committed turn, that the worker implements TurnOutcome, and that no     *)
(* receipt and no purge of the question bundle is wrong about a message,   *)
(* for any number of messages, workers, attempts, retries and failures.    *)
(***************************************************************************)
EXTENDS ConversationTurn, TurnStoreProofs

-----------------------------------------------------------------------------
(* Types.                                                                   *)

JobRecord == [st : JobStates, made : Nat, stalled : Nat]

\* What TypeOK says of the workers.
WorkersTyped ==
    /\ wk \in [Workers -> WorkerState]
    /\ \A w \in Workers : wk[w].pc # "idle" => wk[w].j \in Jobs

\* What TypeOK says of the BullMQ jobs.
QueueTyped ==
    /\ job \in [Jobs -> JobRecord]
    /\ lock \in [Jobs -> Workers \union {NoWorker}]

\* What TypeOK says of the database rows of ingestion, receipts and windows.
RowsTyped ==
    /\ ingest \in [Messages -> {"none", "saved", "added", "done"}]
    /\ admission \in [Messages -> {"none", "saved", "queued"}]
    /\ receipt \in [Messages -> BOOLEAN]
    /\ bundle \in {"open", "closed", "purged"}
    /\ scan \in SUBSET (ScanTasks \X Messages)
    /\ manual \in 0..MaxManual

LEMMA TypeParts == TypeOK <=> StoreTypeOK /\ RowsTyped /\ QueueTyped /\ WorkersTyped
  BY DEF TypeOK, WorkersTyped, QueueTyped, RowsTyped, JobRecord

LEMMA TypePartsNext ==
  TypeOK' <=> StoreTypeOK' /\ RowsTyped' /\ QueueTyped' /\ WorkersTyped'
  BY DEF TypeOK, WorkersTyped, QueueTyped, RowsTyped, JobRecord

LEMMA RowsUnchanged ==
  ASSUME RowsTyped, UNCHANGED <<ingest, admission, receipt, bundle, scan, manual>>
  PROVE  RowsTyped'
  BY DEF RowsTyped

LEMMA QueueUnchanged ==
  ASSUME QueueTyped, UNCHANGED <<job, lock>> PROVE QueueTyped'
  BY DEF QueueTyped

LEMMA WorkersUnchanged ==
  ASSUME WorkersTyped, UNCHANGED wk PROVE WorkersTyped'
  BY DEF WorkersTyped

LEMMA StoreUnchanged ==
  ASSUME StoreTypeOK, UNCHANGED <<effect, intent, added, eligible, flips>>,
         faults' \in 0..MaxFaults
  PROVE  StoreTypeOK'
  BY DEF StoreTypeOK

\* Replacing one job, one worker state.
LEMMA JobUpdate ==
  ASSUME QueueTyped, NEW j \in Jobs, NEW r \in JobRecord, job' = [job EXCEPT ![j] = r]
  PROVE  job' \in [Jobs -> JobRecord]
  BY DEF QueueTyped

LEMMA WorkerUpdate ==
  ASSUME WorkersTyped, NEW w \in Workers, NEW v \in WorkerState,
         v.pc # "idle" => v.j \in Jobs, wk' = [wk EXCEPT ![w] = v]
  PROVE  WorkersTyped'
  BY DEF WorkersTyped

LEMMA IdleWorker == Idle \in WorkerState /\ Idle.pc = "idle"
  BY DEF Idle, WorkerState, Phases, Paths, Texts, Kinds

LEMMA InitialTypes == Init => TypeOK
  <1> SUFFICES ASSUME Init PROVE TypeOK
    OBVIOUS
  <1>1. RowsTyped
    BY AttemptsAssumption DEF Init, RowsTyped
  <1>2. QueueTyped
    BY DEF Init, QueueTyped, JobRecord, NoJob, JobStates
  <1>3. WorkersTyped
    BY IdleWorker DEF Init, WorkersTyped
  <1> QED BY <1>1, <1>2, <1>3, StoreInitTypes, TypeParts DEF Init

\* queue.add leaves a well-typed table.
LEMMA AddJobTypes ==
  ASSUME QueueTyped, NEW j \in Jobs, AddJob(j) PROVE job' \in [Jobs -> JobRecord]
  <1>1. FreshJob \in JobRecord
    BY DEF FreshJob, NoJob, JobRecord, JobStates
  <1> QED BY <1>1 DEF AddJob, QueueTyped

LEMMA AddRecoveryTypes ==
  ASSUME QueueTyped, NEW m \in Messages, AddRecoveryJob(m)
  PROVE  job' \in [Jobs -> JobRecord]
  <1>1. FreshJob \in JobRecord /\ <<m, "recovery">> \in Jobs
    BY DEF FreshJob, NoJob, JobRecord, JobStates, Jobs
  <1> QED BY <1>1 DEF AddRecoveryJob, QueueTyped

LEMMA IngestTypes ==
  ASSUME TypeOK, NEW m \in Messages, IngestNext(m) PROVE TypeOK'
  <1> StoreTypeOK /\ RowsTyped /\ QueueTyped /\ WorkersTyped
    BY TypeParts
  <1>1. CASE SaveInboundMessage(m)
    BY <1>1, TypePartsNext, QueueUnchanged, WorkersUnchanged
    DEF SaveInboundMessage, RowsTyped, StoreTypeOK, storeVars
  <1>2. CASE AddConversationJob(m)
    <2>1. job' \in [Jobs -> JobRecord]
      BY <1>2, AddJobTypes DEF AddConversationJob, Jobs
    <2> QED BY <1>2, <2>1, TypePartsNext, WorkersUnchanged
            DEF AddConversationJob, RowsTyped, StoreTypeOK, storeVars, QueueTyped
  <1>3. CASE MarkConversationJobQueued(m)
    BY <1>3, TypePartsNext, QueueUnchanged, WorkersUnchanged
    DEF MarkConversationJobQueued, RowsTyped, StoreTypeOK, storeVars
  <1>4. CASE IngestAborts(m)
    BY <1>4, TypePartsNext, QueueUnchanged, WorkersUnchanged, StoreUnchanged, FaultTypes
    DEF IngestAborts, RowsTyped, StoreTypeOK
  <1> QED BY <1>1, <1>2, <1>3, <1>4 DEF IngestNext

LEMMA QueueTypes ==
  ASSUME TypeOK, NEW j \in Jobs, QueueNext(j) PROVE TypeOK'
  <1> StoreTypeOK /\ RowsTyped /\ QueueTyped /\ WorkersTyped
    BY TypeParts
  <1>1. ASSUME Stall(j), faults' \in 0..MaxFaults PROVE TypeOK'
    <2>1. QueueTyped'
      BY <1>1 DEF Stall, QueueTyped, JobRecord, JobStates
    <2> QED BY <1>1, <2>1, TypePartsNext, WorkersUnchanged, RowsUnchanged, StoreUnchanged
            DEF Stall
  <1>2. CASE StallOfDeadWorker(j) \/ StallOfLiveWorker(j)
    BY <1>1, <1>2, FaultTypes DEF StallOfDeadWorker, StallOfLiveWorker, StoreTypeOK
  <1>3. CASE EvictJob(j)
    <2>1. QueueTyped'
      BY <1>3 DEF EvictJob, QueueTyped, JobRecord, JobStates, NoJob
    <2> QED BY <1>3, <2>1, TypePartsNext, WorkersUnchanged, RowsUnchanged
            DEF EvictJob, StoreTypeOK, storeVars
  <1>4. CASE RetryDeadLetter(j)
    <2>1. QueueTyped'
      BY <1>4 DEF RetryDeadLetter, QueueTyped, JobRecord, JobStates
    <2>2. manual' \in 0..MaxManual
      BY <1>4, AttemptsAssumption DEF RetryDeadLetter, RowsTyped
    <2> QED BY <1>4, <2>1, <2>2, TypePartsNext, WorkersUnchanged
            DEF RetryDeadLetter, StoreTypeOK, storeVars, RowsTyped
  <1> QED BY <1>2, <1>3, <1>4 DEF QueueNext

\* A worker that holds a job works on a message.
LEMMA MsgIsMessage ==
  ASSUME WorkersTyped, NEW w \in Workers, wk[w].pc # "idle"
  PROVE  Msg(w) \in Messages
  BY DEF WorkersTyped, Jobs, Msg

LEMMA GotoTypes ==
  ASSUME WorkersTyped, NEW w \in Workers, wk[w].pc # "idle", NEW pc \in Phases
  PROVE  /\ Goto(w, pc) => WorkersTyped'
         /\ \A path \in Paths : GotoOn(w, pc, path) => WorkersTyped'
  BY DEF WorkersTyped, WorkerState, Goto, GotoOn

\* Assigning some fields of a busy worker, its job not among them.
LEMMA WorkerFields ==
  ASSUME WorkersTyped, NEW w \in Workers, wk[w].pc # "idle"
  PROVE  /\ \A pc, q : /\ [wk[w] EXCEPT !.pc = pc, !.question = q] \in WorkerState
                       /\ wk' = [wk EXCEPT ![w].pc = pc, ![w].question = q]
                       => WorkersTyped'
         /\ \A pc, t, v : /\ [wk[w] EXCEPT !.pc = pc, !.text = t, !.verdict = v]
                                \in WorkerState
                          /\ wk' = [wk EXCEPT ![w].pc = pc, ![w].text = t, ![w].verdict = v]
                          => WorkersTyped'
         /\ \A pc, k : /\ [wk[w] EXCEPT !.pc = pc, !.kind = k] \in WorkerState
                       /\ wk' = [wk EXCEPT ![w].pc = pc, ![w].kind = k]
                       => WorkersTyped'
  <1>1. ASSUME NEW v \in WorkerState, v.j = wk[w].j, wk' = [wk EXCEPT ![w] = v]
        PROVE  WorkersTyped'
    BY <1>1, WorkerUpdate DEF WorkersTyped
  <1>2. ASSUME NEW pc, NEW q, [wk[w] EXCEPT !.pc = pc, !.question = q] \in WorkerState,
               wk' = [wk EXCEPT ![w].pc = pc, ![w].question = q]
        PROVE  WorkersTyped'
    <2>1. wk' = [wk EXCEPT ![w] = [wk[w] EXCEPT !.pc = pc, !.question = q]]
      BY <1>2 DEF WorkersTyped, WorkerState
    <2>2. [wk[w] EXCEPT !.pc = pc, !.question = q].j = wk[w].j
      BY DEF WorkersTyped, WorkerState
    <2> QED BY <1>1, <1>2, <2>1, <2>2
  <1>3. ASSUME NEW pc, NEW t, NEW v,
               [wk[w] EXCEPT !.pc = pc, !.text = t, !.verdict = v] \in WorkerState,
               wk' = [wk EXCEPT ![w].pc = pc, ![w].text = t, ![w].verdict = v]
        PROVE  WorkersTyped'
    <2>1. wk' = [wk EXCEPT ![w] = [wk[w] EXCEPT !.pc = pc, !.text = t, !.verdict = v]]
      BY <1>3 DEF WorkersTyped, WorkerState
    <2>2. [wk[w] EXCEPT !.pc = pc, !.text = t, !.verdict = v].j = wk[w].j
      BY DEF WorkersTyped, WorkerState
    <2> QED BY <1>1, <1>3, <2>1, <2>2
  <1>4. ASSUME NEW pc, NEW k, [wk[w] EXCEPT !.pc = pc, !.kind = k] \in WorkerState,
               wk' = [wk EXCEPT ![w].pc = pc, ![w].kind = k]
        PROVE  WorkersTyped'
    <2>1. wk' = [wk EXCEPT ![w] = [wk[w] EXCEPT !.pc = pc, !.kind = k]]
      BY <1>4 DEF WorkersTyped, WorkerState
    <2>2. [wk[w] EXCEPT !.pc = pc, !.kind = k].j = wk[w].j
      BY DEF WorkersTyped, WorkerState
    <2> QED BY <1>1, <1>4, <2>1, <2>2
  <1> QED BY <1>2, <1>3, <1>4, Zenon

\* Steps that change nothing but the worker.
LEMMA OnlyWorker ==
  ASSUME TypeOK, UNCHANGED <<storeVars, ctVarsButWk>>, WorkersTyped' PROVE TypeOK'
  BY TypeParts, TypePartsNext, RowsUnchanged, QueueUnchanged
  DEF ctVarsButWk, storeVars, StoreTypeOK

LEMMA FetchTypes ==
  ASSUME TypeOK, NEW w \in Workers, NEW j \in Jobs, FetchJob(w, j) PROVE TypeOK'
  <1> StoreTypeOK /\ RowsTyped /\ QueueTyped /\ WorkersTyped
    BY TypeParts
  <1> DEFINE v == [Idle EXCEPT
                !.j = j,
                !.pc = IF j[2] = "receipt" THEN "settle" ELSE "start",
                !.path = IF j[2] = "receipt" THEN "receipt" ELSE "enter",
                !.question = (j[2] = "receipt"),
                !.final = (job[j].made + 1 >= AttemptsOf(j))]
  <1>1. v \in WorkerState /\ v.j = j
    <2>1. ASSUME NEW pc \in Phases, NEW path \in Paths, NEW q \in BOOLEAN,
                 NEW f \in BOOLEAN
          PROVE  [Idle EXCEPT !.j = j, !.pc = pc, !.path = path, !.question = q,
                              !.final = f] \in WorkerState
      BY DEF Idle, WorkerState, Phases, Paths, Texts, Kinds
    <2>2. /\ (j[2] = "receipt") \in BOOLEAN
          /\ (job[j].made + 1 >= AttemptsOf(j)) \in BOOLEAN
      OBVIOUS
    <2>3. /\ (IF j[2] = "receipt" THEN "settle" ELSE "start") \in Phases
          /\ (IF j[2] = "receipt" THEN "receipt" ELSE "enter") \in Paths
      BY DEF Phases, Paths
    <2> QED BY <2>1, <2>2, <2>3, Zenon DEF Idle
  <1>2. wk' = [wk EXCEPT ![w] = v]
    BY DEF FetchJob
  <1>3. WorkersTyped'
    BY <1>1, <1>2, WorkerUpdate
  <1>4. QueueTyped'
    BY DEF FetchJob, QueueTyped, JobRecord, JobStates
  <1> QED BY <1>3, <1>4, TypePartsNext, RowsUnchanged
          DEF FetchJob, StoreTypeOK, storeVars

\* An attempt that failed.
LEMMA FailTypes ==
  ASSUME WorkersTyped, QueueTyped, NEW w \in Workers, wk[w].pc # "idle", FailAttempt(w)
  PROVE  QueueTyped' /\ WorkersTyped'
  <1>1. wk[w].j \in Jobs
    BY DEF WorkersTyped
  <1>2. WorkersTyped'
    BY IdleWorker, WorkerUpdate DEF FailAttempt
  <1>3. job' \in [Jobs -> JobRecord]
    BY <1>1 DEF FailAttempt, QueueTyped, JobRecord, JobStates
  <1>4. lock' \in [Jobs -> Workers \union {NoWorker}]
    BY <1>1 DEF FailAttempt, QueueTyped
  <1> QED BY <1>2, <1>3, <1>4 DEF QueueTyped

LEMMA ThrowTypes ==
  ASSUME WorkersTyped, QueueTyped, NEW w \in Workers, wk[w].pc # "idle", Throw(w)
  PROVE  QueueTyped' /\ WorkersTyped'
  <1>1. CASE Swallows(w)
    <2>1. Goto(w, "finish") /\ UNCHANGED <<job, lock>>
      BY <1>1 DEF Throw, Swallows, FallsBack, At
    <2> QED BY <2>1, GotoTypes, QueueUnchanged DEF Phases
  <1>2. CASE ~Swallows(w) /\ At(w, "settle") /\ wk[w].path = "turn"
    <2>1. Goto(w, "receiptRetry") /\ UNCHANGED <<job, lock>>
      BY <1>2 DEF Throw, FallsBack, At
    <2> QED BY <2>1, GotoTypes, QueueUnchanged DEF Phases
  <1>3. CASE ~Swallows(w) /\ FallsBack(w)
    <2>1. /\ wk' = [wk EXCEPT ![w].pc = "commit", ![w].path = "fallback",
                              ![w].text = "processing_failed", ![w].verdict = FALSE]
          /\ UNCHANGED <<job, lock>>
      BY <1>3 DEF Throw, FallsBack, At
    <2>2. [wk[w] EXCEPT !.pc = "commit", !.path = "fallback",
                        !.text = "processing_failed", !.verdict = FALSE] \in WorkerState
      BY DEF WorkersTyped, WorkerState, Phases, Paths, Texts
    <2>3. WorkersTyped'
      BY <2>1, <2>2 DEF WorkersTyped
    <2> QED BY <2>1, <2>3, QueueUnchanged
  <1>4. CASE ~Swallows(w) /\ ~(At(w, "settle") /\ wk[w].path = "turn") /\ ~FallsBack(w)
    BY <1>4, FailTypes DEF Throw
  <1> QED BY <1>1, <1>2, <1>3, <1>4

\* The steps that only move the worker, reading shared state.
LEMMA ReadingTypes ==
  ASSUME TypeOK, NEW w \in Workers,
         \/ ReadPendingQuestion(w) \/ ResumeCommittedTurn(w) \/ CheckEligible(w)
         \/ Coalesce(w) \/ Generate(w) \/ LoadDispatch(w) \/ DispatchDone(w)
  PROVE  TypeOK'
  <1> StoreTypeOK /\ RowsTyped /\ QueueTyped /\ WorkersTyped
    BY TypeParts
  <1> USE DEF At
  <1>1. CASE ReadPendingQuestion(w)
    <2>1. ASSUME NEW q \in BOOLEAN
          PROVE  [wk[w] EXCEPT !.pc = "resume", !.question = q] \in WorkerState
      BY DEF WorkersTyped, WorkerState, Phases
    <2>2. (Msg(w) \in QuestionReplies /\ bundle # "purged") \in BOOLEAN
      OBVIOUS
    <2>3. PICK q \in BOOLEAN : wk' = [wk EXCEPT ![w].pc = "resume", ![w].question = q]
      BY <1>1, <2>2, Zenon DEF ReadPendingQuestion
    <2>4. WorkersTyped'
      BY <1>1, <2>1, <2>3, WorkerFields DEF ReadPendingQuestion
    <2> QED BY <1>1, <2>4, OnlyWorker DEF ReadPendingQuestion
  <1>2. CASE ResumeCommittedTurn(w)
    BY <1>2, GotoTypes, OnlyWorker DEF ResumeCommittedTurn, Phases, Paths
  <1>3. CASE CheckEligible(w)
    BY <1>3, GotoTypes, OnlyWorker DEF CheckEligible, Phases, Paths
  <1>4. CASE Coalesce(w)
    BY <1>4, GotoTypes, OnlyWorker DEF Coalesce, Phases, Paths
  <1>5. CASE Generate(w)
    <2>1. PICK text \in {"reply", "input_filtered"}, verdict \in BOOLEAN :
            wk' = [wk EXCEPT ![w].pc = "commit", ![w].text = text, ![w].verdict = verdict]
      BY <1>5 DEF Generate
    <2>2. [wk[w] EXCEPT !.pc = "commit", !.text = text, !.verdict = verdict] \in WorkerState
      BY DEF WorkersTyped, WorkerState, Phases, Texts
    <2>3. WorkersTyped'
      BY <1>5, <2>1, <2>2, WorkerFields DEF Generate
    <2> QED BY <1>5, <2>3, OnlyWorker DEF Generate
  <1>6. CASE LoadDispatch(w)
    <2>1. UnqueuedKinds(Msg(w)) \in SUBSET Kinds
      BY DEF UnqueuedKinds
    <2>2. [wk[w] EXCEPT !.pc = "dispatch", !.todo = UnqueuedKinds(Msg(w))] \in WorkerState
      BY <2>1 DEF WorkersTyped, WorkerState, Phases
    <2>3. WorkersTyped'
      BY <1>6, <2>2 DEF LoadDispatch, WorkersTyped
    <2> QED BY <1>6, <2>3, OnlyWorker DEF LoadDispatch
  <1>7. CASE DispatchDone(w)
    BY <1>7, GotoTypes, OnlyWorker DEF DispatchDone, Phases
  <1> QED BY <1>1, <1>2, <1>3, <1>4, <1>5, <1>6, <1>7

\* The steps that write to the store or to the rows.
LEMMA CommitTypes ==
  ASSUME TypeOK, NEW w \in Workers, CommitTurn(w) PROVE TypeOK'
  <1> StoreTypeOK /\ RowsTyped /\ QueueTyped /\ WorkersTyped
    BY TypeParts
  <1>1. Msg(w) \in Messages /\ wk[w].text \in Texts
    BY MsgIsMessage DEF CommitTurn, At, WorkersTyped, WorkerState
  <1>2. /\ effect' \in [Messages -> Texts \union {"none"}]
        /\ intent' \in [Messages -> [Kinds -> {"absent", "pending", "queued"}]]
    BY <1>1, RecordTypes DEF CommitTurn, PersistTurn, StoreTypeOK
  <1>3. [wk[w] EXCEPT !.pc = "load", !.text = "reply", !.verdict = FALSE] \in WorkerState
    BY DEF WorkersTyped, WorkerState, Phases, Texts
  <1>4. WorkersTyped'
    BY <1>3 DEF CommitTurn, At, WorkersTyped
  <1> QED BY <1>2, <1>4, TypePartsNext, RowsUnchanged, QueueUnchanged
          DEF CommitTurn, ctVarsButWk, StoreTypeOK

LEMMA DispatchTypes ==
  ASSUME TypeOK, NEW w \in Workers, EnqueueNext(w) \/ MarkQueued(w) PROVE TypeOK'
  <1> StoreTypeOK /\ RowsTyped /\ QueueTyped /\ WorkersTyped
    BY TypeParts
  <1>1. Msg(w) \in Messages /\ wk[w].kind \in Kinds /\ wk[w].todo \in SUBSET Kinds
    BY MsgIsMessage DEF EnqueueNext, MarkQueued, At, WorkersTyped, WorkerState
  <1>2. CASE EnqueueNext(w)
    <2>1. PICK k \in wk[w].todo :
            /\ EnqueueDispatch(Msg(w), k)
            /\ wk' = [wk EXCEPT ![w].pc = "mark", ![w].kind = k]
      BY <1>2 DEF EnqueueNext
    <2>2. k \in Kinds
      BY <1>1
    <2>3. [wk[w] EXCEPT !.pc = "mark", !.kind = k] \in WorkerState
      BY <2>2 DEF WorkersTyped, WorkerState, Phases
    <2>4. WorkersTyped'
      BY <1>2, <2>1, <2>3, WorkerFields DEF EnqueueNext, At
    <2>5. added' \in [Messages -> SUBSET Kinds]
      BY <1>1, <2>1, <2>2, EnqueueTypes
    <2> QED BY <1>2, <2>4, <2>5, TypePartsNext, RowsUnchanged, QueueUnchanged
            DEF EnqueueNext, ctVarsButWk, StoreTypeOK
  <1>3. CASE MarkQueued(w)
    <2>1. "message_send" \in Kinds /\ wk[w].todo \ {wk[w].kind} \in SUBSET Kinds
      BY <1>1 DEF Kinds
    <2>2. [wk[w] EXCEPT !.pc = "dispatch", !.todo = wk[w].todo \ {wk[w].kind},
                        !.kind = "message_send"] \in WorkerState
      BY <2>1 DEF WorkersTyped, WorkerState, Phases
    <2>3. WorkersTyped'
      BY <1>3, <2>2 DEF MarkQueued, At, WorkersTyped
    <2>4. intent' \in [Messages -> [Kinds -> {"absent", "pending", "queued"}]]
      BY <1>1, <1>3, MarkTypes DEF MarkQueued
    <2> QED BY <1>3, <2>3, <2>4, TypePartsNext, RowsUnchanged, QueueUnchanged
            DEF MarkQueued, ctVarsButWk, StoreTypeOK
  <1> QED BY <1>2, <1>3

LEMMA SettleTypes ==
  ASSUME TypeOK, NEW w \in Workers,
         Settle(w) \/ ExpireInsights(w) \/ QueueReceiptRetry(w) \/ FinishJob(w)
  PROVE  TypeOK'
  <1> StoreTypeOK /\ RowsTyped /\ QueueTyped /\ WorkersTyped
    BY TypeParts
  <1> Msg(w) \in Messages
    BY MsgIsMessage DEF Settle, ExpireInsights, QueueReceiptRetry, FinishJob, At
  <1>1. CASE Settle(w)
    <2>1. WorkersTyped'
      BY <1>1, GotoTypes DEF Settle, At, Phases
    <2>2. RowsTyped'
      BY <1>1 DEF Settle, RowsTyped
    <2> QED BY <1>1, <2>1, <2>2, TypePartsNext, QueueUnchanged
            DEF Settle, storeVars, StoreTypeOK
  <1>2. CASE ExpireInsights(w)
    <2>1. WorkersTyped'
      BY <1>2, GotoTypes DEF ExpireInsights, At, Phases
    <2>2. RowsTyped'
      BY <1>2 DEF ExpireInsights, PurgeClosedWindow, RowsTyped
    <2> QED BY <1>2, <2>1, <2>2, TypePartsNext, QueueUnchanged
            DEF ExpireInsights, storeVars, StoreTypeOK
  <1>3. CASE QueueReceiptRetry(w)
    <2>1. WorkersTyped'
      BY <1>3, GotoTypes DEF QueueReceiptRetry, At, Phases
    <2>2. QueueTyped'
      BY <1>3, AddJobTypes DEF QueueReceiptRetry, QueueTyped, Jobs
    <2> QED BY <1>3, <2>1, <2>2, TypePartsNext, RowsUnchanged
            DEF QueueReceiptRetry, storeVars, StoreTypeOK
  <1>4. CASE FinishJob(w)
    <2>1. WorkersTyped'
      BY <1>4, IdleWorker, WorkerUpdate DEF FinishJob
    <2>2. wk[w].j \in Jobs
      BY <1>4 DEF FinishJob, At, WorkersTyped
    <2>3. job' \in [Jobs -> JobRecord]
      BY <1>4, <2>2 DEF FinishJob, QueueTyped, JobRecord, JobStates
    <2>4. lock' \in [Jobs -> Workers \union {NoWorker}]
      BY <1>4, <2>2 DEF FinishJob, QueueTyped
    <2> QED BY <1>4, <2>1, <2>3, <2>4, TypePartsNext, RowsUnchanged
            DEF FinishJob, storeVars, StoreTypeOK, QueueTyped
  <1> QED BY <1>1, <1>2, <1>3, <1>4

LEMMA FailureTypes ==
  ASSUME TypeOK, NEW w \in Workers,
         StepFails(w) \/ VerdictRejected(w) \/ CrashWorker(w)
  PROVE  TypeOK'
  <1> StoreTypeOK /\ RowsTyped /\ QueueTyped /\ WorkersTyped
    BY TypeParts
  <1>1. CASE StepFails(w)
    BY <1>1, ThrowTypes, TypePartsNext, RowsUnchanged, StoreUnchanged, FaultTypes
    DEF StepFails, StoreTypeOK
  <1>2. CASE VerdictRejected(w)
    BY <1>2, ThrowTypes, TypePartsNext, RowsUnchanged
    DEF VerdictRejected, StaleVerdict, At, storeVars, StoreTypeOK
  <1>3. CASE CrashWorker(w)
    BY <1>3, IdleWorker, WorkerUpdate, TypePartsNext, RowsUnchanged, QueueUnchanged,
       StoreUnchanged, FaultTypes
    DEF CrashWorker, ctVarsButWk, StoreTypeOK
  <1> QED BY <1>1, <1>2, <1>3

LEMMA WorkerTypes ==
  ASSUME TypeOK, NEW w \in Workers, WorkerNext(w) PROVE TypeOK'
  BY FetchTypes, ReadingTypes, CommitTypes, DispatchTypes, SettleTypes, FailureTypes
  DEF WorkerNext, WorkerRuns

LEMMA ScanTypes ==
  ASSUME TypeOK, ScanNext \/ CloseWindow PROVE TypeOK'
  <1> StoreTypeOK /\ RowsTyped /\ QueueTyped /\ WorkersTyped
    BY TypeParts
  <1> USE DEF ScanVars, storeVars
  <1>1. ASSUME NEW m \in Messages, NEW task \in ScanList, ScanPick(task, m)
        PROVE  TypeOK'
    <2>1. RowsTyped'
      BY <1>1 DEF ScanPick, RowsTyped, ScanList, ScanTasks
    <2> QED BY <1>1, <2>1, TypePartsNext, QueueUnchanged, WorkersUnchanged
            DEF ScanPick, StoreTypeOK
  <1>2. ASSUME NEW m \in Messages, ScanActs(m) PROVE TypeOK'
    <2>1. QueueTyped'
      BY <1>2, AddJobTypes, AddRecoveryTypes
      DEF ScanActs, ScanRequeue, ScanDispatch, ScanMarkQueued, ScanInspect, QueueTyped, Jobs
    <2>2. RowsTyped'
      BY <1>2 DEF ScanActs, ScanRequeue, ScanDispatch, ScanMarkQueued, ScanInspect,
                  RowsTyped, ScanTasks
    <2> QED BY <1>2, <2>1, <2>2, TypePartsNext, WorkersUnchanged
            DEF ScanActs, ScanRequeue, ScanDispatch, ScanMarkQueued, ScanInspect,
                StoreTypeOK
  <1>3. CASE ScanCutoff
    BY <1>3, TypePartsNext, QueueUnchanged, WorkersUnchanged
    DEF ScanCutoff, PurgeClosedWindow, RowsTyped, StoreTypeOK
  <1>4. CASE ScanAborts
    BY <1>4, TypePartsNext, QueueUnchanged, WorkersUnchanged, StoreUnchanged, FaultTypes
    DEF ScanAborts, RowsTyped, StoreTypeOK
  <1>5. CASE CloseWindow
    BY <1>5, TypePartsNext, QueueUnchanged, WorkersUnchanged
    DEF CloseWindow, RowsTyped, StoreTypeOK
  <1> QED BY <1>1, <1>2, <1>3, <1>4, <1>5 DEF ScanNext

LEMMA NextTypes == TypeOK /\ [Next]_vars => TypeOK'
  <1> SUFFICES ASSUME TypeOK, [Next]_vars PROVE TypeOK'
    OBVIOUS
  <1>1. CASE CTNext
    BY <1>1, IngestTypes, QueueTypes, WorkerTypes, ScanTypes DEF CTNext
  <1>2. CASE FlipEligibility /\ UNCHANGED ctVars
    BY <1>2, FlipTypes, TypeParts, TypePartsNext, RowsUnchanged, QueueUnchanged,
       WorkersUnchanged
    DEF ctVars
  <1>3. CASE UNCHANGED vars
    BY <1>3 DEF vars, ctVars, storeVars, TypeOK, StoreTypeOK
  <1> QED BY <1>1, <1>2, <1>3 DEF Next

\* Every reachable state of the conversation model is well-typed.
THEOREM TurnTypes == Spec => []TypeOK
  BY InitialTypes, NextTypes, PTL DEF Spec

-----------------------------------------------------------------------------
(* Dispatch.  DispatchMatchesCommit is not inductive: a worker carries a     *)
(* list of kinds, and a kind it has just enqueued, between its calls.  Those *)
(* must stay covered by the turn while other workers commit and mark.        *)

WorkerCovered(w) ==
    /\ wk[w].pc \in {"dispatch", "mark"} =>
            \A k \in wk[w].todo : intent[Msg(w)][k] # "absent"
    /\ wk[w].pc = "mark" => wk[w].kind \in added[Msg(w)]

IntentsCovered ==
    \A m \in Messages, k \in Kinds :
        /\ intent[m][k] # "absent" => Committed(m)
        /\ k \in added[m] => intent[m][k] # "absent"

DispatchInv == IntentsCovered /\ \A w \in Workers : WorkerCovered(w)

LEMMA InitialDispatch == Init => DispatchInv
  BY DEF Init, StoreInit, Idle, DispatchInv, IntentsCovered, WorkerCovered

\* Steps that leave the turn alone and start no dispatch.
LEMMA DispatchUnchanged ==
  ASSUME DispatchInv, UNCHANGED <<effect, intent, added>>,
         \A w \in Workers : wk'[w] = wk[w] \/ wk'[w].pc \notin {"dispatch", "mark"}
  PROVE  DispatchInv'
  BY DEF DispatchInv, IntentsCovered, WorkerCovered, Committed, Msg

\* What a throw leaves of the worker.
LEMMA ThrowPhase ==
  ASSUME WorkersTyped, NEW w \in Workers, Throw(w)
  PROVE  \A v \in Workers : wk'[v] = wk[v] \/ wk'[v].pc \notin {"dispatch", "mark"}
  <1>1. CASE Swallows(w)
    <2>1. Goto(w, "finish")
      BY <1>1 DEF Throw, Swallows, FallsBack, At
    <2> QED BY <2>1 DEF Goto, WorkersTyped, WorkerState
  <1>2. CASE ~Swallows(w) /\ At(w, "settle") /\ wk[w].path = "turn"
    <2>1. Goto(w, "receiptRetry")
      BY <1>2 DEF Throw, FallsBack, At
    <2> QED BY <2>1 DEF Goto, WorkersTyped, WorkerState
  <1>3. CASE ~Swallows(w) /\ FallsBack(w)
    <2>1. wk' = [wk EXCEPT ![w].pc = "commit", ![w].path = "fallback",
                          ![w].text = "processing_failed", ![w].verdict = FALSE]
      BY <1>3 DEF Throw, FallsBack, At
    <2> QED BY <2>1 DEF WorkersTyped, WorkerState
  <1>4. CASE ~Swallows(w) /\ ~(At(w, "settle") /\ wk[w].path = "turn") /\ ~FallsBack(w)
    <2>1. wk' = [wk EXCEPT ![w] = Idle]
      BY <1>4 DEF Throw, FailAttempt
    <2> QED BY <2>1 DEF Idle, WorkersTyped
  <1> QED BY <1>1, <1>2, <1>3, <1>4

\* Every step of a worker but the four that touch the turn or its dispatch.
LEMMA OtherWorkerSteps ==
  ASSUME WorkersTyped, NEW w \in Workers, WorkerNext(w), ~LoadDispatch(w),
         ~EnqueueNext(w), ~MarkQueued(w), ~CommitTurn(w)
  PROVE  /\ UNCHANGED <<effect, intent, added>>
         /\ \A v \in Workers : wk'[v] = wk[v] \/ wk'[v].pc \notin {"dispatch", "mark"}
  <1> USE DEF storeVars, ctVarsButWk, Goto, GotoOn, WorkersTyped, WorkerState
  <1>1. CASE \E j \in Jobs : FetchJob(w, j)
    BY <1>1 DEF FetchJob, Idle
  <1>2. CASE ReadPendingQuestion(w) \/ Generate(w)
    BY <1>2 DEF ReadPendingQuestion, Generate
  <1>3. CASE ResumeCommittedTurn(w) \/ CheckEligible(w) \/ Coalesce(w) \/ DispatchDone(w)
    BY <1>3 DEF ResumeCommittedTurn, CheckEligible, Coalesce, DispatchDone
  <1>4. CASE Settle(w) \/ ExpireInsights(w) \/ QueueReceiptRetry(w)
    BY <1>4 DEF Settle, ExpireInsights, QueueReceiptRetry
  <1>5. CASE FinishJob(w) \/ CrashWorker(w)
    BY <1>5 DEF FinishJob, CrashWorker, Idle
  <1>6. CASE StepFails(w) \/ VerdictRejected(w)
    BY <1>6, ThrowPhase DEF StepFails, VerdictRejected
  <1> QED BY <1>1, <1>2, <1>3, <1>4, <1>5, <1>6 DEF WorkerNext, WorkerRuns

LEMMA CommitDispatch ==
  ASSUME TypeOK, DispatchInv, NEW w \in Workers, CommitTurn(w)
  PROVE  DispatchInv'
  <1> WorkersTyped
    BY TypeParts
  <1>1. Msg(w) \in Messages
    BY MsgIsMessage DEF CommitTurn, At
  <1>2. /\ wk'[w].pc = "load" /\ UNCHANGED added
        /\ \A v \in Workers : v # w => wk'[v] = wk[v]
    BY DEF CommitTurn, WorkersTyped, WorkerState
  <1>3. CASE Committed(Msg(w))
    <2>1. UNCHANGED <<effect, intent, added>>
      BY <1>3 DEF CommitTurn, PersistTurn
    <2> QED BY <1>2, <2>1, DispatchUnchanged
  <1>4. CASE ~Committed(Msg(w))
    <2>1. PICK kinds : RecordCommittedTurn(Msg(w), wk[w].text, kinds)
      BY <1>4 DEF CommitTurn, PersistTurn
    <2>2. \A m \in Messages \ {Msg(w)} : effect'[m] = effect[m] /\ intent'[m] = intent[m]
      BY <2>1, <1>1 DEF RecordCommittedTurn, TypeOK, StoreTypeOK
    <2>3. /\ effect'[Msg(w)] # "none"
          /\ \A k \in Kinds : intent'[Msg(w)][k] # "queued"
      BY <2>1, <1>1 DEF RecordCommittedTurn, TypeOK, StoreTypeOK, WorkerState, Texts
    <2>4. \A k \in Kinds : intent[Msg(w)][k] = "absent" /\ k \notin added[Msg(w)]
      BY <1>1, <1>4 DEF DispatchInv, IntentsCovered
    <2>5. IntentsCovered'
      BY <1>2, <2>2, <2>3, <2>4 DEF DispatchInv, IntentsCovered, Committed
    <2>6. ASSUME NEW v \in Workers PROVE WorkerCovered(v)'
      <3>1. CASE v = w
        BY <3>1, <1>2 DEF WorkerCovered
      <3>2. CASE v # w /\ wk[v].pc \in {"dispatch", "mark"} /\ Msg(v) = Msg(w)
        <4>1. wk[v].todo \in SUBSET Kinds /\ wk[v].kind \in Kinds
          BY DEF WorkersTyped, WorkerState
        <4> QED BY <3>2, <4>1, <1>2, <2>4 DEF DispatchInv, WorkerCovered, Msg
      <3>3. CASE v # w /\ wk[v].pc \in {"dispatch", "mark"} /\ Msg(v) # Msg(w)
        <4>1. Msg(v) \in Messages
          BY <3>3, MsgIsMessage
        <4> QED BY <3>3, <4>1, <1>2, <2>2 DEF DispatchInv, WorkerCovered, Msg
      <3>4. CASE v # w /\ wk[v].pc \notin {"dispatch", "mark"}
        BY <3>4, <1>2 DEF WorkerCovered
      <3> QED BY <3>1, <3>2, <3>3, <3>4
    <2> QED BY <2>5, <2>6 DEF DispatchInv
  <1> QED BY <1>3, <1>4

LEMMA LoadDispatchKeeps ==
  ASSUME TypeOK, DispatchInv, NEW w \in Workers, LoadDispatch(w)
  PROVE  DispatchInv'
  <1> WorkersTyped
    BY TypeParts
  <1>1. UNCHANGED <<effect, intent, added>>
    BY DEF LoadDispatch, storeVars
  <1>2. /\ wk'[w].pc = "dispatch" /\ wk'[w].todo = UnqueuedKinds(Msg(w))
        /\ wk'[w].j = wk[w].j
        /\ \A v \in Workers : v # w => wk'[v] = wk[v]
    BY DEF LoadDispatch, WorkersTyped, WorkerState
  <1>3. IntentsCovered'
    BY <1>1 DEF DispatchInv, IntentsCovered, Committed
  <1>4. ASSUME NEW v \in Workers PROVE WorkerCovered(v)'
    BY <1>1, <1>2 DEF DispatchInv, WorkerCovered, Msg, UnqueuedKinds
  <1> QED BY <1>3, <1>4 DEF DispatchInv

LEMMA EnqueueKeeps ==
  ASSUME TypeOK, DispatchInv, NEW w \in Workers, EnqueueNext(w)
  PROVE  DispatchInv'
  <1> WorkersTyped
    BY TypeParts
  <1>1. Msg(w) \in Messages
    BY MsgIsMessage DEF EnqueueNext, At
  <1>2. PICK k \in wk[w].todo :
          /\ added' = [added EXCEPT ![Msg(w)] = added[Msg(w)] \union {k}]
          /\ wk' = [wk EXCEPT ![w].pc = "mark", ![w].kind = k]
    BY DEF EnqueueNext, EnqueueDispatch
  <1>3. k \in Kinds /\ intent[Msg(w)][k] # "absent"
    BY DEF EnqueueNext, At, DispatchInv, WorkerCovered, WorkersTyped, WorkerState
  <1>4. /\ wk'[w].pc = "mark" /\ wk'[w].kind = k /\ wk'[w].todo = wk[w].todo
        /\ wk'[w].j = wk[w].j
        /\ \A v \in Workers : v # w => wk'[v] = wk[v]
    BY <1>2 DEF WorkersTyped, WorkerState
  <1>5. /\ added'[Msg(w)] = added[Msg(w)] \union {k}
        /\ \A m \in Messages : m # Msg(w) => added'[m] = added[m]
    BY <1>1, <1>2 DEF TypeOK, StoreTypeOK
  <1>6. UNCHANGED <<effect, intent>>
    BY DEF EnqueueNext
  <1>7. IntentsCovered'
    BY <1>3, <1>5, <1>6 DEF DispatchInv, IntentsCovered, Committed
  <1>8. ASSUME NEW v \in Workers PROVE WorkerCovered(v)'
    <2>1. CASE v = w
      BY <2>1, <1>4, <1>5, <1>6 DEF EnqueueNext, At, DispatchInv, WorkerCovered, Msg
    <2>2. CASE v # w /\ wk[v].pc \in {"dispatch", "mark"}
      <3>1. Msg(v) \in Messages
        BY <2>2, MsgIsMessage
      <3> QED BY <2>2, <3>1, <1>4, <1>5, <1>6 DEF DispatchInv, WorkerCovered, Msg
    <2>3. CASE v # w /\ wk[v].pc \notin {"dispatch", "mark"}
      BY <2>3, <1>4 DEF WorkerCovered
    <2> QED BY <2>1, <2>2, <2>3
  <1> QED BY <1>7, <1>8 DEF DispatchInv

LEMMA MarkKeeps ==
  ASSUME TypeOK, DispatchInv, NEW w \in Workers, MarkQueued(w)
  PROVE  DispatchInv'
  <1> WorkersTyped
    BY TypeParts
  <1> DEFINE kind == wk[w].kind
  <1>1. Msg(w) \in Messages /\ kind \in Kinds /\ kind \in added[Msg(w)]
    BY MsgIsMessage DEF MarkQueued, At, DispatchInv, WorkerCovered, WorkersTyped,
                        WorkerState
  <1>2. /\ wk'[w].pc = "dispatch" /\ wk'[w].todo \subseteq wk[w].todo
        /\ wk'[w].j = wk[w].j
        /\ \A v \in Workers : v # w => wk'[v] = wk[v]
    BY DEF MarkQueued, WorkersTyped, WorkerState
  <1>3. UNCHANGED <<effect, added>>
    BY DEF MarkQueued
  <1>4. \A m \in Messages, k \in Kinds :
          intent'[m][k] = IF m = Msg(w) /\ k = kind THEN "queued" ELSE intent[m][k]
    BY <1>1 DEF MarkQueued, MarkCommittedDispatchQueued, TypeOK, StoreTypeOK
  <1>5. IntentsCovered'
    BY <1>1, <1>3, <1>4 DEF DispatchInv, IntentsCovered, Committed
  <1>6. ASSUME NEW v \in Workers PROVE WorkerCovered(v)'
    <2>1. wk[v].todo \in SUBSET Kinds
      BY DEF WorkersTyped, WorkerState
    <2>2. CASE v = w
      <3>1. \A k \in wk[w].todo : k \in Kinds /\ intent[Msg(w)][k] # "absent"
        BY <2>1, <2>2 DEF MarkQueued, At, DispatchInv, WorkerCovered
      <3>2. \A k \in wk'[w].todo : intent'[Msg(w)][k] # "absent"
        BY <3>1, <1>1, <1>2, <1>4
      <3> QED BY <2>2, <3>2, <1>2 DEF WorkerCovered, Msg
    <2>3. CASE v # w /\ wk[v].pc \in {"dispatch", "mark"}
      <3>1. Msg(v) \in Messages
        BY <2>3, MsgIsMessage
      <3> QED BY <2>1, <2>3, <3>1, <1>2, <1>3, <1>4 DEF DispatchInv, WorkerCovered, Msg
    <2>4. CASE v # w /\ wk[v].pc \notin {"dispatch", "mark"}
      BY <2>4, <1>2 DEF WorkerCovered
    <2> QED BY <2>2, <2>3, <2>4
  <1> QED BY <1>5, <1>6 DEF DispatchInv

\* The steps of the API, the queue and the scanner leave the turn alone.
LEMMA OtherSteps ==
  ASSUME TypeOK, [Next]_vars, ~\E w \in Workers : WorkerNext(w)
  PROVE  /\ UNCHANGED <<effect, intent, added>>
         /\ UNCHANGED wk
  <1> USE DEF storeVars, ScanVars
  <1>1. ASSUME NEW m \in Messages, IngestNext(m)
        PROVE  UNCHANGED <<effect, intent, added, wk>>
    BY <1>1 DEF IngestNext, SaveInboundMessage, AddConversationJob,
                MarkConversationJobQueued, IngestAborts
  <1>2. ASSUME NEW j \in Jobs, QueueNext(j)
        PROVE  UNCHANGED <<effect, intent, added, wk>>
    BY <1>2 DEF QueueNext, StallOfDeadWorker, StallOfLiveWorker, Stall, EvictJob,
                RetryDeadLetter
  <1>3. CASE ScanNext \/ CloseWindow
    <2>1. ASSUME NEW m \in Messages, NEW task, ScanPick(task, m) \/ ScanActs(m)
          PROVE  UNCHANGED <<effect, intent, added, wk>>
      BY <2>1 DEF ScanPick, ScanActs, ScanRequeue, ScanDispatch, ScanMarkQueued, ScanInspect
    <2>2. CASE ScanCutoff \/ ScanAborts \/ CloseWindow
      BY <2>2 DEF ScanCutoff, ScanAborts, CloseWindow
    <2> QED BY <1>3, <2>1, <2>2 DEF ScanNext
  <1>4. CASE (FlipEligibility /\ UNCHANGED ctVars) \/ UNCHANGED vars
    BY <1>4 DEF FlipEligibility, ctVars, vars
  <1> QED BY <1>1, <1>2, <1>3, <1>4 DEF Next, CTNext

LEMMA NextDispatch == TypeOK /\ DispatchInv /\ [Next]_vars => DispatchInv'
  <1> SUFFICES ASSUME TypeOK, DispatchInv, [Next]_vars PROVE DispatchInv'
    OBVIOUS
  <1>1. ASSUME NEW w \in Workers, WorkerNext(w) PROVE DispatchInv'
    <2>1. CASE LoadDispatch(w) \/ EnqueueNext(w) \/ MarkQueued(w) \/ CommitTurn(w)
      BY <2>1, LoadDispatchKeeps, EnqueueKeeps, MarkKeeps, CommitDispatch
    <2>2. CASE ~(LoadDispatch(w) \/ EnqueueNext(w) \/ MarkQueued(w) \/ CommitTurn(w))
      BY <1>1, <2>2, OtherWorkerSteps, DispatchUnchanged, TypeParts
    <2> QED BY <2>1, <2>2
  <1>2. CASE ~\E w \in Workers : WorkerNext(w)
    BY <1>2, OtherSteps, DispatchUnchanged
  <1> QED BY <1>1, <1>2

LEMMA DispatchHolds == Spec => [](TypeOK /\ DispatchInv)
  <1>1. Init => TypeOK /\ DispatchInv
    BY InitialTypes, InitialDispatch
  <1>2. TypeOK /\ DispatchInv /\ [Next]_vars => (TypeOK /\ DispatchInv)'
    BY NextTypes, NextDispatch
  <1> QED BY <1>1, <1>2, PTL DEF Spec

-----------------------------------------------------------------------------
(* Refinement.                                                              *)

LEMMA InitialOutcome == Init => Outcome!Init
  BY DEF Init, StoreInit, Outcome!Init, Kinds, Outcome!Kinds

LEMMA StepOutcome ==
  ASSUME TypeOK, DispatchInv, [Next]_vars
  PROVE  [Outcome!Next]_<<effect, intent, added>>
  <1> WorkersTyped
    BY TypeParts
  <1> Kinds = Outcome!Kinds
    BY DEF Kinds, Outcome!Kinds
  <1>1. ASSUME NEW w \in Workers, CommitTurn(w)
        PROVE  [Outcome!Next]_<<effect, intent, added>>
    <2>1. Msg(w) \in Messages /\ wk[w].text \in Texts
      BY <1>1, MsgIsMessage DEF CommitTurn, At, WorkersTyped, WorkerState
    <2>2. CASE Committed(Msg(w))
      BY <1>1, <2>2 DEF CommitTurn, PersistTurn
    <2>3. CASE ~Committed(Msg(w))
      <3>1. PICK side \in SUBSET SideKinds :
              /\ wk[w].text # "reply" => side = {}
              /\ RecordCommittedTurn(Msg(w), wk[w].text, side \union {"message_send"})
        BY <1>1, <2>3 DEF CommitTurn, PersistTurn
      <3>2. Outcome!Answer(Msg(w), wk[w].text, side)
        BY <1>1, <2>3, <3>1 DEF CommitTurn, Committed, RecordCommittedTurn, Outcome!Answer
      <3> QED BY <2>1, <3>2 DEF Outcome!Next, Texts
    <2> QED BY <2>2, <2>3
  <1>2. ASSUME NEW w \in Workers, EnqueueNext(w)
        PROVE  [Outcome!Next]_<<effect, intent, added>>
    <2>1. Msg(w) \in Messages
      BY <1>2, MsgIsMessage DEF EnqueueNext, At
    <2>2. PICK k \in wk[w].todo : EnqueueDispatch(Msg(w), k)
      BY <1>2 DEF EnqueueNext
    <2>3. k \in Kinds /\ intent[Msg(w)][k] # "absent"
      BY <1>2 DEF EnqueueNext, At, DispatchInv, WorkerCovered, WorkersTyped, WorkerState
    <2>4. Outcome!HandOver(Msg(w), k)
      BY <1>2, <2>2, <2>3 DEF EnqueueNext, EnqueueDispatch, Outcome!HandOver
    <2> QED BY <2>1, <2>3, <2>4 DEF Outcome!Next
  <1>3. ASSUME NEW w \in Workers, MarkQueued(w)
        PROVE  [Outcome!Next]_<<effect, intent, added>>
    <2>1. /\ Msg(w) \in Messages /\ wk[w].kind \in Kinds
          /\ wk[w].kind \in added[Msg(w)]
      BY <1>3, MsgIsMessage DEF MarkQueued, At, DispatchInv, WorkerCovered, WorkersTyped,
                                WorkerState
    <2>2. intent[Msg(w)][wk[w].kind] \in {"pending", "queued"}
      BY <2>1 DEF DispatchInv, IntentsCovered, TypeOK, StoreTypeOK
    <2>3. intent' = [intent EXCEPT ![Msg(w)][wk[w].kind] = "queued"]
      BY <1>3 DEF MarkQueued, MarkCommittedDispatchQueued
    <2>4. CASE intent[Msg(w)][wk[w].kind] = "pending"
      <3>1. Outcome!SettleWork(Msg(w), wk[w].kind)
        BY <1>3, <2>1, <2>3, <2>4 DEF MarkQueued, Outcome!SettleWork
      <3> QED BY <2>1, <3>1 DEF Outcome!Next
    <2>5. CASE intent[Msg(w)][wk[w].kind] = "queued"
      <3>1. intent' = intent
        BY <2>1, <2>3, <2>5 DEF TypeOK, StoreTypeOK
      <3> QED BY <1>3, <3>1 DEF MarkQueued
    <2> QED BY <2>2, <2>4, <2>5
  <1>4. ASSUME NEW w \in Workers, LoadDispatch(w)
        PROVE  [Outcome!Next]_<<effect, intent, added>>
    BY <1>4 DEF LoadDispatch, storeVars
  <1>5. ASSUME NEW w \in Workers, WorkerNext(w)
        PROVE  [Outcome!Next]_<<effect, intent, added>>
    BY <1>1, <1>2, <1>3, <1>4, <1>5, OtherWorkerSteps
  <1>6. CASE ~\E w \in Workers : WorkerNext(w)
    BY <1>6, OtherSteps
  <1> QED BY <1>5, <1>6

\* The conversation worker, with its retries, crashes, stolen jobs, scanner and
\* manual retries, implements TurnOutcome.
THEOREM TurnRefinesOutcome == Spec => TurnImplementsOutcome
  <1>1. TypeOK /\ DispatchInv /\ [Next]_vars => [Outcome!Next]_<<effect, intent, added>>
    BY StepOutcome
  <1> QED BY <1>1, InitialOutcome, DispatchHolds, PTL
          DEF Spec, TurnImplementsOutcome, Outcome!Spec

\* What the refinement says of marks: no intent looks queued before its job is added.
QueuedAdded == \A m \in Messages, k \in Kinds : intent[m][k] = "queued" => k \in added[m]

LEMMA OutcomeKeepsQueued ==
  ASSUME StoreTypeOK, QueuedAdded, [Outcome!Next]_<<effect, intent, added>>
  PROVE  QueuedAdded'
  <1> Kinds = Outcome!Kinds
    BY DEF Kinds, Outcome!Kinds
  <1>1. ASSUME NEW m \in Messages, NEW text, NEW side, Outcome!Answer(m, text, side)
        PROVE  QueuedAdded'
    <2>1. \A n \in Messages, k \in Kinds :
            intent'[n][k] = "queued" => n # m /\ intent[n][k] = "queued"
      BY <1>1 DEF Outcome!Answer, StoreTypeOK
    <2> QED BY <1>1, <2>1 DEF Outcome!Answer, QueuedAdded
  <1>2. ASSUME NEW m \in Messages, NEW k \in Kinds, Outcome!HandOver(m, k)
        PROVE  QueuedAdded'
    BY <1>2 DEF Outcome!HandOver, QueuedAdded, StoreTypeOK
  <1>3. ASSUME NEW m \in Messages, NEW k \in Kinds, Outcome!SettleWork(m, k)
        PROVE  QueuedAdded'
    <2>1. \A n \in Messages, i \in Kinds :
            intent'[n][i] = IF n = m /\ i = k THEN "queued" ELSE intent[n][i]
      BY <1>3 DEF Outcome!SettleWork, StoreTypeOK
    <2> QED BY <1>3, <2>1 DEF Outcome!SettleWork, QueuedAdded
  <1>4. CASE UNCHANGED <<effect, intent, added>>
    BY <1>4 DEF QueuedAdded
  <1> QED BY <1>1, <1>2, <1>3, <1>4 DEF Outcome!Next

\* Downstream jobs exist only for kinds of work a committed turn lists, and nothing
\* looks dispatched that was not.
THEOREM TurnDispatchMatchesCommit == Spec => []DispatchMatchesCommit
  <1>1. Init => TypeOK /\ DispatchInv /\ QueuedAdded
    BY InitialTypes, InitialDispatch DEF Init, StoreInit, QueuedAdded
  <1>2. TypeOK /\ DispatchInv /\ QueuedAdded /\ [Next]_vars
            => (TypeOK /\ DispatchInv /\ QueuedAdded)'
    BY NextTypes, NextDispatch, StepOutcome, OutcomeKeepsQueued DEF TypeOK
  <1>3. TypeOK /\ DispatchInv /\ QueuedAdded => DispatchMatchesCommit
    BY DEF TypeOK, StoreTypeOK, DispatchInv, IntentsCovered, QueuedAdded,
           DispatchMatchesCommit
  <1> QED BY <1>1, <1>2, <1>3, PTL DEF Spec

-----------------------------------------------------------------------------
(* Receipts.  Two theorems that cross every component of the model: a       *)
(* receipt or a completed job is never wrong about its message, and the     *)
(* cutoff never purges the bundle under a timely reply that is still being  *)
(* answered.  They share one inductive invariant.                           *)

Answered(m) == Committed(m) \/ flips > 0

\* Why a message may be receipted.  A timely reply whose bundle is still there was
\* never skipped for a newer message.
Closed(m) == Settled(m) /\ (m \in QuestionReplies /\ bundle # "purged" => Answered(m))

SavedInv ==
    /\ \A m \in Messages : ingest[m] # "none" \/ Committed(m) => Saved(m)
    /\ \A j \in Jobs : job[j].st # "absent" => Saved(j[1])
    /\ \A w \in Workers : wk[w].pc # "idle" => Saved(Msg(w))
    /\ \A t \in scan : Saved(t[2])

\* A job that tells that its message is done.
Tells(j) == job[j].st = "completed" \/ (j[2] = "receipt" /\ job[j].st # "absent")

WorkerJustified(w) ==
    /\ wk[w].pc \in {"load", "dispatch", "mark"} => Committed(Msg(w))
    /\ wk[w].pc \in {"dispatch", "mark"} => UnqueuedKinds(Msg(w)) \subseteq wk[w].todo
    /\ wk[w].pc \in {"settle", "expire", "receiptRetry", "finish"} => Closed(Msg(w))
    /\ wk[w].pc \in {"resume", "eligible", "coalesce"} =>
            wk[w].question \/ Msg(w) \notin QuestionReplies \/ bundle = "purged"
    /\ wk[w].pc = "commit" /\ wk[w].verdict =>
            /\ Msg(w) \in QuestionReplies
            /\ bundle = "purged" => receipt[Msg(w)] /\ Answered(Msg(w))

ReceiptInv ==
    /\ \A m \in Messages : receipt[m] => Closed(m)
    /\ \A j \in Jobs : Tells(j) => Closed(j[1])
    /\ \A j \in Jobs : lock[j] # NoWorker => job[j].st = "active"
    /\ \A w \in Workers : WorkerJustified(w)
    /\ eligible \/ flips > 0

-----------------------------------------------------------------------------
(* Nothing that settles a message is ever taken back.                       *)

Grows ==
    /\ flips > 0 => flips' > 0
    /\ bundle = "purged" => bundle' = "purged"
    /\ \A m \in Messages :
        /\ Saved(m) => Saved(m)'
        /\ receipt[m] => receipt'[m]
        /\ Committed(m) => Committed(m)'
        /\ Committed(m) => UnqueuedKinds(m)' \subseteq UnqueuedKinds(m)

\* Ingestion, the queue and the scanner.
LEMMA OthersGrow ==
  ASSUME TypeOK, [Next]_vars, ~\E w \in Workers : WorkerNext(w)
  PROVE  Grows
  <1> USE DEF storeVars, ScanVars
  <1>0. \A m \in Messages : /\ Committed(m) => Committed(m)'
                            /\ UnqueuedKinds(m)' = UnqueuedKinds(m)
    BY OtherSteps DEF Committed, UnqueuedKinds
  <1> DEFINE Rest == /\ flips > 0 => flips' > 0
                     /\ bundle = "purged" => bundle' = "purged"
                     /\ \A m \in Messages : /\ Saved(m) => Saved(m)'
                                            /\ receipt[m] => receipt'[m]
  <1>1. ASSUME NEW m \in Messages, IngestNext(m) PROVE Rest
    BY <1>1 DEF IngestNext, SaveInboundMessage, AddConversationJob,
                MarkConversationJobQueued, IngestAborts, TypeOK, Saved
  <1>2. ASSUME NEW j \in Jobs, QueueNext(j) PROVE Rest
    BY <1>2 DEF QueueNext, StallOfDeadWorker, StallOfLiveWorker, Stall, EvictJob,
                RetryDeadLetter, Saved
  <1>3. ASSUME ScanNext \/ CloseWindow PROVE Rest
    <2>1. ASSUME NEW m \in Messages, NEW task, ScanPick(task, m) \/ ScanActs(m) PROVE Rest
      BY <2>1 DEF ScanPick, ScanActs, ScanRequeue, ScanDispatch, ScanMarkQueued,
                  ScanInspect, TypeOK, Saved
    <2>2. ASSUME ScanCutoff \/ ScanAborts \/ CloseWindow PROVE Rest
      BY <2>2 DEF ScanCutoff, ScanAborts, CloseWindow, PurgeClosedWindow, Saved
    <2> QED BY <1>3, <2>1, <2>2 DEF ScanNext
  <1>4. ASSUME FlipEligibility /\ UNCHANGED ctVars PROVE Rest
    <2>1. flips \in Nat /\ flips' = flips + 1
      BY <1>4, BoundsAssumption DEF FlipEligibility, TypeOK, StoreTypeOK
    <2> QED BY <1>4, <2>1 DEF ctVars, Saved
  <1>5. ASSUME UNCHANGED vars PROVE Rest
    BY <1>5 DEF ctVars, vars, Saved
  <1>6. Rest
    BY <1>1, <1>2, <1>3, <1>4, <1>5 DEF Next, CTNext
  <1> QED BY <1>0, <1>6 DEF Grows

\* The rows a worker leaves alone.
LEMMA WorkerRows ==
  ASSUME NEW w \in Workers, WorkerNext(w)
  PROVE  /\ UNCHANGED <<ingest, admission, flips, eligible, scan>>
         /\ bundle = "purged" => bundle' = "purged"
         /\ receipt' = receipt \/ receipt' = [receipt EXCEPT ![Msg(w)] = TRUE]
  BY DEF WorkerNext, WorkerRuns, FetchJob, ReadPendingQuestion, ResumeCommittedTurn,
         CheckEligible, Coalesce, Generate, CommitTurn, VerdictRejected, LoadDispatch,
         EnqueueNext, MarkQueued, DispatchDone, Settle, ExpireInsights, PurgeClosedWindow,
         QueueReceiptRetry, FinishJob, StepFails, CrashWorker, storeVars, ctVarsButWk

LEMMA WorkersGrow ==
  ASSUME TypeOK, NEW w \in Workers, WorkerNext(w)
  PROVE  Grows
  <1> WorkersTyped
    BY TypeParts
  <1> DEFINE Turn == \A m \in Messages :
                       /\ Committed(m) => Committed(m)'
                       /\ Committed(m) => UnqueuedKinds(m)' \subseteq UnqueuedKinds(m)
  <1>1. ASSUME CommitTurn(w) PROVE Turn
    <2>1. Msg(w) \in Messages /\ wk[w].text # "none"
      BY <1>1, MsgIsMessage DEF CommitTurn, At, WorkersTyped, WorkerState, Texts
    <2>2. ASSUME Committed(Msg(w)) PROVE Turn
      BY <1>1, <2>2 DEF CommitTurn, PersistTurn, Committed, UnqueuedKinds
    <2>3. ASSUME ~Committed(Msg(w)) PROVE Turn
      <3>1. PICK kinds : RecordCommittedTurn(Msg(w), wk[w].text, kinds)
        BY <1>1, <2>3 DEF CommitTurn, PersistTurn
      <3>2. \A m \in Messages \ {Msg(w)} : effect'[m] = effect[m] /\ intent'[m] = intent[m]
        BY <2>1, <3>1 DEF RecordCommittedTurn, TypeOK, StoreTypeOK
      <3> QED BY <2>3, <3>2 DEF Committed, UnqueuedKinds
    <2> QED BY <2>2, <2>3
  <1>2. ASSUME MarkQueued(w) PROVE Turn
    <2>1. Msg(w) \in Messages /\ wk[w].kind \in Kinds
      BY <1>2, MsgIsMessage DEF MarkQueued, At, WorkersTyped, WorkerState
    <2>2. \A m \in Messages, k \in Kinds :
            intent'[m][k] = IF m = Msg(w) /\ k = wk[w].kind THEN "queued" ELSE intent[m][k]
      BY <1>2, <2>1 DEF MarkQueued, MarkCommittedDispatchQueued, TypeOK, StoreTypeOK
    <2> QED BY <1>2, <2>2 DEF MarkQueued, Committed, UnqueuedKinds
  <1>3. ASSUME LoadDispatch(w) \/ EnqueueNext(w) PROVE Turn
    BY <1>3 DEF LoadDispatch, EnqueueNext, Committed, UnqueuedKinds, storeVars
  <1>4. ASSUME ~(CommitTurn(w) \/ MarkQueued(w) \/ LoadDispatch(w) \/ EnqueueNext(w)) PROVE Turn
    BY <1>4, OtherWorkerSteps DEF Committed, UnqueuedKinds
  <1>5. Turn
    BY <1>1, <1>2, <1>3, <1>4
  <1>6. \A m \in Messages : receipt[m] => receipt'[m]
    BY WorkerRows DEF TypeOK
  <1> QED BY <1>5, <1>6, WorkerRows DEF Grows, Saved

LEMMA NextGrows == ASSUME TypeOK, [Next]_vars PROVE Grows
  BY OthersGrow, WorkersGrow

\* So a message that is closed stays closed.
LEMMA ClosedStays ==
  ASSUME Grows, NEW m \in Messages
  PROVE  /\ Answered(m) => Answered(m)'
         /\ Superseded(m) => Superseded(m)'
         /\ Settled(m) => Settled(m)'
         /\ Closed(m) => Closed(m)'
  BY DEF Grows, Answered, Superseded, Settled, Closed

-----------------------------------------------------------------------------
(* Whoever works on a message, and every job for it, was admitted first.    *)

LEMMA InitialSaved == Init => SavedInv
  BY DEF Init, StoreInit, Idle, NoJob, SavedInv, Committed

\* The four conjuncts, from what a step does to jobs, workers and the scan.
LEMMA SavedFrom ==
  ASSUME TypeOK, SavedInv, Grows,
         \A m \in Messages : ingest'[m] # "none" \/ Committed(m)'
                                => ingest[m] # "none" \/ Committed(m) \/ Saved(m)',
         \A j \in Jobs : job'[j].st # "absent" => job[j].st # "absent" \/ Saved(j[1]),
         \A w \in Workers : wk'[w].pc # "idle" =>
                (wk[w].pc # "idle" /\ wk'[w].j = wk[w].j)
                    \/ (wk'[w].j \in Jobs /\ Saved(wk'[w].j[1])),
         \A t \in scan' : Saved(t[2]) /\ t[2] \in Messages
  PROVE  SavedInv'
  <1>1. \A j \in Jobs : j[1] \in Messages
    BY DEF Jobs
  <1>2. \A m \in Messages : Saved(m) => Saved(m)'
    BY DEF Grows
  <1>3. \A w \in Workers : wk[w].pc # "idle" => wk[w].j[1] \in Messages
    BY <1>1 DEF TypeOK
  <1>4. \A m \in Messages : ingest'[m] # "none" \/ Committed(m)' => Saved(m)'
    BY <1>2 DEF SavedInv
  <1>5. \A j \in Jobs : job'[j].st # "absent" => Saved(j[1])'
    BY <1>1, <1>2 DEF SavedInv
  <1>6. \A w \in Workers : wk'[w].pc # "idle" => admission'[wk'[w].j[1]] # "none"
    <2> SUFFICES ASSUME NEW w \in Workers, wk'[w].pc # "idle"
                 PROVE  admission'[wk'[w].j[1]] # "none"
      OBVIOUS
    <2>1. wk'[w].j[1] \in Messages /\ Saved(wk'[w].j[1])
      BY <1>1, <1>3 DEF SavedInv, Msg
    <2> DEFINE m == wk'[w].j[1]
    <2>2. m \in Messages /\ admission[m] # "none"
      BY <2>1 DEF Saved
    <2>3. \A n \in Messages : admission[n] # "none" => admission'[n] # "none"
      BY <1>2 DEF Saved
    <2> QED BY <2>2, <2>3
  <1>7. \A t \in scan' : admission'[t[2]] # "none"
    BY <1>2 DEF Saved
  <1>8. \A w \in Workers : wk'[w].pc # "idle" => Saved(Msg(w))'
    BY <1>6 DEF Msg, Saved
  <1> QED BY <1>4, <1>5, <1>7, <1>8 DEF SavedInv, Saved

\* A worker that does not fetch keeps its job or becomes idle, alone.
LEMMA WorkerKeepsJob ==
  ASSUME WorkersTyped, NEW w \in Workers, WorkerNext(w), ~\E j \in Jobs : FetchJob(w, j)
  PROVE  /\ wk[w].pc # "idle" /\ (wk'[w] = Idle \/ wk'[w].j = wk[w].j)
         /\ \A v \in Workers : v # w => wk'[v] = wk[v]
  <1> USE DEF Goto, GotoOn, WorkersTyped, WorkerState, At
  <1>1. CASE ReadPendingQuestion(w)
    BY <1>1 DEF ReadPendingQuestion
  <1>2. CASE Generate(w)
    BY <1>2 DEF Generate
  <1>3. CASE ResumeCommittedTurn(w) \/ CheckEligible(w) \/ Coalesce(w) \/ DispatchDone(w)
    BY <1>3 DEF ResumeCommittedTurn, CheckEligible, Coalesce, DispatchDone
  <1>4. CASE CommitTurn(w)
    BY <1>4 DEF CommitTurn
  <1>5. CASE LoadDispatch(w)
    BY <1>5 DEF LoadDispatch
  <1>6. CASE EnqueueNext(w)
    BY <1>6 DEF EnqueueNext
  <1>7. CASE MarkQueued(w)
    BY <1>7 DEF MarkQueued
  <1>8. CASE Settle(w) \/ ExpireInsights(w) \/ QueueReceiptRetry(w)
    BY <1>8 DEF Settle, ExpireInsights, QueueReceiptRetry
  <1>9. CASE FinishJob(w) \/ CrashWorker(w)
    BY <1>9 DEF FinishJob, CrashWorker
  <1>10. CASE StepFails(w) \/ VerdictRejected(w)
    <2>1. Throw(w) /\ wk[w].pc # "idle"
      BY <1>10 DEF StepFails, VerdictRejected, StaleVerdict
    <2>2. CASE Swallows(w)
      <3>1. Goto(w, "finish")
        BY <2>1, <2>2 DEF Throw, Swallows, FallsBack
      <3> QED BY <2>1, <3>1
    <2>3. CASE ~Swallows(w) /\ At(w, "settle") /\ wk[w].path = "turn"
      <3>1. Goto(w, "receiptRetry")
        BY <2>1, <2>3 DEF Throw, FallsBack
      <3> QED BY <2>1, <3>1
    <2>4. CASE ~Swallows(w) /\ FallsBack(w)
      <3>1. wk' = [wk EXCEPT ![w].pc = "commit", ![w].path = "fallback",
                            ![w].text = "processing_failed", ![w].verdict = FALSE]
        BY <2>1, <2>4 DEF Throw, FallsBack
      <3> QED BY <2>1, <3>1
    <2>5. CASE ~Swallows(w) /\ ~(At(w, "settle") /\ wk[w].path = "turn") /\ ~FallsBack(w)
      BY <2>1, <2>5 DEF Throw, FailAttempt
    <2> QED BY <2>2, <2>3, <2>4, <2>5
  <1> QED BY <1>1, <1>2, <1>3, <1>4, <1>5, <1>6, <1>7, <1>8, <1>9, <1>10
          DEF WorkerNext, WorkerRuns

\* How a worker's step changes the jobs.
LEMMA WorkerJobs ==
  ASSUME NEW w \in Workers, WorkerNext(w), ~\E j \in Jobs : FetchJob(w, j)
  PROVE  \/ UNCHANGED <<job, lock>>
         \/ QueueReceiptRetry(w)
         \/ FinishJob(w)
         \/ FailAttempt(w)
  BY DEF WorkerNext, WorkerRuns, ReadPendingQuestion, ResumeCommittedTurn,
         CheckEligible, Coalesce, Generate, CommitTurn, VerdictRejected, LoadDispatch,
         EnqueueNext, MarkQueued, DispatchDone, Settle, ExpireInsights, StepFails, Throw,
         Swallows, FallsBack, At, CrashWorker, ctVarsButWk

LEMMA WorkerSaved ==
  ASSUME TypeOK, SavedInv, NEW w \in Workers, WorkerNext(w)
  PROVE  /\ \A j \in Jobs : job'[j].st # "absent" => job[j].st # "absent" \/ Saved(j[1])
         /\ \A v \in Workers : wk'[v].pc # "idle" =>
                (wk[v].pc # "idle" /\ wk'[v].j = wk[v].j)
                    \/ (wk'[v].j \in Jobs /\ Saved(wk'[v].j[1]))
  <1> WorkersTyped /\ QueueTyped
    BY TypeParts
  <1>1. ASSUME NEW j \in Jobs, FetchJob(w, j)
        PROVE  /\ \A i \in Jobs : job'[i].st # "absent" => job[i].st # "absent"
               /\ wk'[w].j = j /\ Saved(j[1])
               /\ \A v \in Workers : v # w => wk'[v] = wk[v]
    <2>1. Saved(j[1]) /\ job[j].st # "absent"
      BY <1>1 DEF FetchJob, SavedInv
    <2>2. wk'[w].j = j /\ \A v \in Workers : v # w => wk'[v] = wk[v]
      BY <1>1 DEF FetchJob, Idle, WorkersTyped
    <2>3. \A i \in Jobs : i # j => job'[i] = job[i]
      BY <1>1 DEF FetchJob, QueueTyped
    <2> QED BY <2>1, <2>2, <2>3
  <1>2. CASE \E j \in Jobs : FetchJob(w, j)
    BY <1>1, <1>2
  <1>3. CASE ~\E j \in Jobs : FetchJob(w, j)
    <2>1. /\ wk[w].pc # "idle" /\ (wk'[w] = Idle \/ wk'[w].j = wk[w].j)
          /\ \A v \in Workers : v # w => wk'[v] = wk[v]
      BY <1>3, WorkerKeepsJob
    <2>2. wk[w].j \in Jobs /\ Saved(wk[w].j[1])
      BY <2>1 DEF SavedInv, Msg, WorkersTyped
    <2>3. ASSUME NEW j \in Jobs PROVE job'[j].st # "absent" => job[j].st # "absent" \/ Saved(j[1])
      <3>1. CASE UNCHANGED <<job, lock>>
        BY <3>1
      <3>2. CASE QueueReceiptRetry(w)
        <4>1. j # <<Msg(w), "receipt">> => job'[j] = job[j]
          BY <3>2 DEF QueueReceiptRetry, AddJob, QueueTyped
        <4> QED BY <2>2, <4>1 DEF Msg
      <3>3. CASE FinishJob(w) \/ FailAttempt(w)
        <4>1. j # wk[w].j => job'[j] = job[j]
          BY <3>3 DEF FinishJob, FailAttempt, QueueTyped
        <4> QED BY <2>2, <4>1
      <3> QED BY <1>3, <3>1, <3>2, <3>3, WorkerJobs
    <2> QED BY <2>1, <2>3, IdleWorker
  <1> QED BY <1>2, <1>3

LEMMA WorkerStepSaved ==
  ASSUME TypeOK, SavedInv, NEW w \in Workers, WorkerNext(w)
  PROVE  SavedInv'
  <1> WorkersTyped
    BY TypeParts
  <1>1. UNCHANGED <<ingest, admission, scan>>
    BY WorkerRows
  <1>2. \A m \in Messages : Committed(m)' => Committed(m) \/ Saved(m)
    <2>1. CASE CommitTurn(w)
      <3>1. Saved(Msg(w)) /\ Msg(w) \in Messages
        BY <2>1, MsgIsMessage DEF CommitTurn, At, SavedInv
      <3>2. \A m \in Messages : m # Msg(w) => effect'[m] = effect[m]
        BY <2>1, <3>1 DEF CommitTurn, PersistTurn, RecordCommittedTurn, TypeOK, StoreTypeOK
      <3> QED BY <3>1, <3>2 DEF Committed
    <2>2. CASE LoadDispatch(w) \/ EnqueueNext(w) \/ MarkQueued(w)
      BY <2>2 DEF LoadDispatch, EnqueueNext, MarkQueued, Committed, storeVars
    <2>3. CASE ~(CommitTurn(w) \/ LoadDispatch(w) \/ EnqueueNext(w) \/ MarkQueued(w))
      BY <2>3, OtherWorkerSteps DEF Committed
    <2> QED BY <2>1, <2>2, <2>3
  <1>3. \A t \in scan' : Saved(t[2]) /\ t[2] \in Messages
    BY <1>1 DEF SavedInv, TypeOK
  <1>4. \A m \in Messages : ingest'[m] # "none" \/ Committed(m)'
                                => ingest[m] # "none" \/ Committed(m) \/ Saved(m)'
    BY <1>1, <1>2 DEF Saved
  <1>5. Grows
    BY WorkersGrow
  <1> QED BY <1>3, <1>4, <1>5, WorkerSaved, SavedFrom

LEMMA OtherStepSaved ==
  ASSUME TypeOK, DispatchInv, SavedInv, [Next]_vars, ~\E w \in Workers : WorkerNext(w)
  PROVE  SavedInv'
  <1> QueueTyped
    BY TypeParts
  <1> USE DEF storeVars, ScanVars
  <1>1. Grows /\ UNCHANGED wk /\ \A m \in Messages : Committed(m)' = Committed(m)
    BY OthersGrow, OtherSteps DEF Committed
  <1>2. \A t \in scan : Saved(t[2]) /\ t[2] \in Messages
    BY DEF SavedInv, TypeOK
  <1> DEFINE Js == \A j \in Jobs : job'[j].st # "absent" => job[j].st # "absent" \/ Saved(j[1])
             Is == \A m \in Messages : ingest'[m] # "none" => ingest[m] # "none" \/ Saved(m)'
             Ss == \A t \in scan' : Saved(t[2]) /\ t[2] \in Messages
  <1>3. ASSUME NEW m \in Messages, NEW j \in Jobs, AddJob(j) \/ AddRecoveryJob(m),
               AddRecoveryJob(m) \/ j[1] = m, Saved(m)
        PROVE  Js
    <2>1. CASE AddJob(j) /\ j[1] = m
      <3>1. \A i \in Jobs : i # j => job'[i] = job[i]
        BY <2>1 DEF AddJob, QueueTyped
      <3> QED BY <1>3, <2>1, <3>1
    <2>2. CASE AddRecoveryJob(m)
      <3>1. \A i \in Jobs : i # <<m, "recovery">> => job'[i] = job[i]
        BY <2>2 DEF AddRecoveryJob, QueueTyped
      <3> QED BY <1>3, <3>1
    <2> QED BY <1>3, <2>1, <2>2
  <1>4. ASSUME NEW m \in Messages, IngestNext(m) PROVE Js /\ Is /\ Ss
    <2>1. Js
      <3>1. CASE AddConversationJob(m)
        <4>1. Saved(m) /\ AddJob(<<m, "main">>) /\ <<m, "main">> \in Jobs
          BY <3>1 DEF AddConversationJob, SavedInv, Jobs
        <4> QED BY <1>3, <4>1
      <3>2. CASE ~AddConversationJob(m)
        BY <1>4, <3>2 DEF IngestNext, SaveInboundMessage, MarkConversationJobQueued,
                          IngestAborts
      <3> QED BY <3>1, <3>2
    <2>2. Is
      BY <1>4 DEF IngestNext, SaveInboundMessage, AddConversationJob,
                  MarkConversationJobQueued, IngestAborts, TypeOK, Saved
    <2>3. Ss
      BY <1>2, <1>4 DEF IngestNext, SaveInboundMessage, AddConversationJob,
                  MarkConversationJobQueued, IngestAborts
    <2> QED BY <2>1, <2>2, <2>3
  <1>5. ASSUME NEW j \in Jobs, QueueNext(j) PROVE Js /\ Is /\ Ss
    <2>1. \A i \in Jobs : job'[i].st # "absent" => job[i].st # "absent"
      BY <1>5 DEF QueueNext, StallOfDeadWorker, StallOfLiveWorker, Stall, EvictJob,
                  RetryDeadLetter, QueueTyped, JobRecord, NoJob
    <2>2. UNCHANGED <<ingest, scan>>
      BY <1>5 DEF QueueNext, StallOfDeadWorker, StallOfLiveWorker, Stall, EvictJob,
                  RetryDeadLetter
    <2> QED BY <1>2, <2>1, <2>2
  <1>6. ASSUME NEW m \in Messages, NEW task \in ScanList, ScanPick(task, m)
        PROVE  Js /\ Is /\ Ss
    <2>1. UNCHANGED <<job, ingest>> /\ scan' = {<<task, m>>}
      BY <1>6 DEF ScanPick
    <2>2. Saved(m)
      <3>1. task = "requeue" \/ task = "dispatch" \/ task = "inspect"
        BY DEF ScanList, ScanTasks
      <3>2. CASE task = "requeue"
        <4>1. PICK k \in Kinds : intent[m][k] = "pending"
          BY <1>6, <3>2 DEF ScanPick, ScanRows, UnqueuedKinds
        <4> QED BY <4>1 DEF DispatchInv, IntentsCovered, SavedInv
      <3>3. CASE task = "dispatch" \/ task = "inspect"
        <4>1. admission[m] \in {"saved", "queued"}
          BY <1>6, <3>3 DEF ScanPick, ScanRows, TimelyWithoutReceipt
        <4> QED BY <4>1 DEF Saved
      <3> QED BY <3>1, <3>2, <3>3
    <2> QED BY <2>1, <2>2
  <1>7. ASSUME NEW m \in Messages, ScanActs(m) PROVE Js /\ Is /\ Ss
    <2>1. Saved(m)
      BY <1>2, <1>7 DEF ScanActs, ScanRequeue, ScanDispatch, ScanMarkQueued, ScanInspect
    <2>2. /\ <<m, "main">> \in Jobs /\ <<m, "main">>[1] = m
          /\ <<m, "receipt">> \in Jobs /\ <<m, "receipt">>[1] = m
      BY DEF Jobs
    <2>3. \/ AddRecoveryJob(m) \/ AddJob(<<m, "main">>) \/ AddJob(<<m, "receipt">>)
          \/ UNCHANGED job
      BY <1>7 DEF ScanActs, ScanRequeue, ScanDispatch, ScanMarkQueued, ScanInspect
    <2>4. Js
      BY <1>3, <2>1, <2>2, <2>3
    <2>5. UNCHANGED ingest /\ scan' \subseteq {<<"markQueued", m>>}
      BY <1>7 DEF ScanActs, ScanRequeue, ScanDispatch, ScanMarkQueued, ScanInspect
    <2> QED BY <2>1, <2>4, <2>5
  <1>8. ASSUME ScanCutoff \/ ScanAborts \/ CloseWindow PROVE Js /\ Is /\ Ss
    BY <1>2, <1>8 DEF ScanCutoff, ScanAborts, CloseWindow
  <1>9. ASSUME (FlipEligibility /\ UNCHANGED ctVars) \/ UNCHANGED vars PROVE Js /\ Is /\ Ss
    BY <1>2, <1>9 DEF ctVars, vars
  <1>10. Js /\ Is /\ Ss
    BY <1>4, <1>5, <1>6, <1>7, <1>8, <1>9 DEF Next, CTNext, ScanNext
  <1> HIDE DEF Js, Is, Ss
  <1>11. \A w \in Workers : wk'[w].pc # "idle" => (wk[w].pc # "idle" /\ wk'[w].j = wk[w].j)
    BY <1>1
  <1> QED BY <1>1, <1>10, <1>11, SavedFrom DEF Js, Is, Ss

LEMMA NextSaved ==
  ASSUME TypeOK, DispatchInv, SavedInv, [Next]_vars PROVE SavedInv'
  BY WorkerStepSaved, OtherStepSaved

-----------------------------------------------------------------------------
(* Receipts, jobs and workers.                                               *)

LEMMA InitialReceipts == Init => ReceiptInv
  BY DEF Init, StoreInit, Idle, NoJob, ReceiptInv, WorkerJustified, Tells

\* The bundle goes away only when every stored timely reply has its receipt.
LEMMA PurgeGuard ==
  ASSUME [Next]_vars, bundle # "purged", bundle' = "purged"
  PROVE  NoUnprocessedTimelyReply
  <1> USE DEF storeVars, ScanVars, ctVarsButWk
  <1>1. ASSUME NEW w \in Workers, WorkerNext(w) PROVE NoUnprocessedTimelyReply
    BY <1>1 DEF WorkerNext, WorkerRuns, FetchJob, ReadPendingQuestion,
         ResumeCommittedTurn, CheckEligible, Coalesce, Generate, CommitTurn,
         VerdictRejected, LoadDispatch, EnqueueNext, MarkQueued, DispatchDone, Settle,
         ExpireInsights, PurgeClosedWindow, QueueReceiptRetry, FinishJob, StepFails,
         CrashWorker
  <1>2. ASSUME NEW m \in Messages, IngestNext(m) PROVE NoUnprocessedTimelyReply
    BY <1>2 DEF IngestNext, SaveInboundMessage, AddConversationJob,
                MarkConversationJobQueued, IngestAborts
  <1>3. ASSUME NEW j \in Jobs, QueueNext(j) PROVE NoUnprocessedTimelyReply
    BY <1>3 DEF QueueNext, StallOfDeadWorker, StallOfLiveWorker, Stall, EvictJob,
                RetryDeadLetter
  <1>4. ASSUME NEW m \in Messages, NEW task, ScanPick(task, m) \/ ScanActs(m)
        PROVE  NoUnprocessedTimelyReply
    BY <1>4 DEF ScanPick, ScanActs, ScanRequeue, ScanDispatch, ScanMarkQueued, ScanInspect
  <1>5. CASE ScanCutoff \/ ScanAborts \/ CloseWindow
    BY <1>5 DEF ScanCutoff, PurgeClosedWindow, ScanAborts, CloseWindow
  <1>6. CASE (FlipEligibility /\ UNCHANGED ctVars) \/ UNCHANGED vars
    BY <1>6 DEF ctVars, vars
  <1> QED BY <1>1, <1>2, <1>3, <1>4, <1>5, <1>6 DEF Next, CTNext, ScanNext

\* Workers that do not move.
LEMMA StillJustified ==
  ASSUME TypeOK, SavedInv, ReceiptInv, Grows,
         bundle # "purged" /\ bundle' = "purged" => NoUnprocessedTimelyReply,
         NEW v \in Workers, wk'[v] = wk[v]
  PROVE  WorkerJustified(v)'
  <1> WorkersTyped
    BY TypeParts
  <1>1. CASE wk[v].pc = "idle"
    BY <1>1 DEF WorkerJustified
  <1>2. CASE wk[v].pc # "idle"
    <2> DEFINE m == Msg(v)
    <2>1. m \in Messages /\ Msg(v)' = m /\ WorkerJustified(v)
      BY <1>2, MsgIsMessage DEF ReceiptInv, Msg
    <2>2. /\ wk'[v].pc \in {"load", "dispatch", "mark"} => Committed(m)'
          /\ wk'[v].pc \in {"dispatch", "mark"} => UnqueuedKinds(m)' \subseteq wk'[v].todo
          /\ wk'[v].pc \in {"settle", "expire", "receiptRetry", "finish"} => Closed(m)'
          /\ wk'[v].pc \in {"resume", "eligible", "coalesce"} =>
                wk'[v].question \/ m \notin QuestionReplies \/ bundle' = "purged"
      BY <2>1, ClosedStays DEF WorkerJustified, Grows
    <2>3. ASSUME wk'[v].pc = "commit", wk'[v].verdict
          PROVE  /\ m \in QuestionReplies
                 /\ bundle' = "purged" => receipt'[m] /\ Answered(m)'
      <3>1. m \in QuestionReplies
        BY <2>1, <2>3 DEF WorkerJustified
      <3>2. CASE bundle = "purged"
        BY <2>1, <2>3, <3>1, <3>2, ClosedStays DEF WorkerJustified, Grows
      <3>3. CASE bundle # "purged" /\ bundle' = "purged"
        <4>1. Saved(m) /\ receipt[m]
          BY <1>2, <3>1, <3>3 DEF SavedInv, NoUnprocessedTimelyReply
        <4>2. Answered(m)
          BY <2>1, <3>1, <3>3, <4>1 DEF ReceiptInv, Closed
        <4> QED BY <2>1, <3>1, <4>1, <4>2, ClosedStays DEF Grows
      <3> QED BY <3>1, <3>2, <3>3
    <2> QED BY <2>1, <2>2, <2>3 DEF WorkerJustified, Msg, Committed, UnqueuedKinds, Closed,
                                    Answered, Settled, Superseded, Saved
  <1> QED BY <1>1, <1>2

\* Receipts and telling jobs.
LEMMA StillClosed ==
  ASSUME TypeOK, ReceiptInv, Grows,
         \A m \in Messages : receipt'[m] => receipt[m] \/ Closed(m),
         \A j \in Jobs : Tells(j)' => Tells(j) \/ Closed(j[1])
  PROVE  /\ \A m \in Messages : receipt'[m] => Closed(m)'
         /\ \A j \in Jobs : Tells(j)' => Closed(j[1])'
  <1>1. \A j \in Jobs : j[1] \in Messages
    BY DEF Jobs
  <1>2. \A m \in Messages : Closed(m) => Closed(m)'
    BY ClosedStays
  <1> QED BY <1>1, <1>2 DEF ReceiptInv

\* The worker that moves, action by action.
LEMMA MovedJustified ==
  ASSUME TypeOK, SavedInv, ReceiptInv, Grows, NEW w \in Workers, WorkerNext(w)
  PROVE  WorkerJustified(w)'
  <1> WorkersTyped
    BY TypeParts
  <1> DEFINE m == Msg(w)
  <1> USE DEF At, Goto, GotoOn, storeVars, ctVarsButWk
  <1>1. wk[w] \in WorkerState /\ WorkerJustified(w)
    BY DEF WorkersTyped, ReceiptInv
  <1>2. ASSUME NEW pc, wk'[w].pc = pc, wk'[w].j = wk[w].j, wk[w].pc # "idle",
               pc \in {"settle", "expire", "receiptRetry", "finish"}, Closed(m)
        PROVE  WorkerJustified(w)'
    <2>1. m \in Messages
      BY <1>2, MsgIsMessage
    <2>2. Closed(m)' /\ Msg(w)' = m
      BY <1>2, <2>1, ClosedStays DEF Msg
    <2> QED BY <1>2, <2>2 DEF WorkerJustified
  <1>3. CASE \E j \in Jobs : FetchJob(w, j)
    <2>1. PICK j \in Jobs : FetchJob(w, j)
      BY <1>3
    <2>2. /\ wk'[w].j = j
          /\ wk'[w].pc = IF j[2] = "receipt" THEN "settle" ELSE "start"
      BY <2>1 DEF FetchJob, WorkersTyped, Idle
    <2>3. CASE j[2] = "receipt"
      <3>1. Closed(j[1]) /\ j[1] \in Messages
        BY <2>1, <2>3 DEF FetchJob, ReceiptInv, Tells, Jobs
      <3>2. Closed(j[1])'
        BY <3>1, ClosedStays
      <3>3. Msg(w)' = j[1]
        BY <2>2 DEF Msg
      <3> QED BY <2>2, <2>3, <3>2, <3>3 DEF WorkerJustified
    <2>4. CASE j[2] # "receipt"
      BY <2>2, <2>4 DEF WorkerJustified
    <2> QED BY <2>3, <2>4
  <1>4. CASE ReadPendingQuestion(w)
    <2>1. /\ wk'[w].pc = "resume" /\ wk'[w].j = wk[w].j /\ bundle' = bundle
          /\ wk'[w].question \/ m \notin QuestionReplies \/ bundle = "purged"
      BY <1>4 DEF ReadPendingQuestion, WorkersTyped, WorkerState
    <2> QED BY <2>1 DEF WorkerJustified, Msg
  <1>5. CASE ResumeCommittedTurn(w)
    <2>1. CASE Committed(m)
      <3>1. wk'[w].pc = "load" /\ wk'[w].j = wk[w].j /\ UNCHANGED effect
        BY <1>5, <2>1 DEF ResumeCommittedTurn, WorkersTyped, WorkerState
      <3> QED BY <2>1, <3>1 DEF WorkerJustified, Msg, Committed
    <2>2. CASE ~Committed(m)
      <3>1. /\ wk'[w].pc = "eligible" /\ wk'[w].j = wk[w].j /\ UNCHANGED bundle
            /\ wk'[w].question = wk[w].question
        BY <1>5, <2>2 DEF ResumeCommittedTurn, WorkersTyped, WorkerState
      <3> QED BY <1>1, <1>5, <3>1 DEF ResumeCommittedTurn, WorkerJustified, Msg
    <2> QED BY <2>1, <2>2
  <1>6. CASE CheckEligible(w)
    <2>1. CASE eligible
      <3>1. /\ wk'[w].pc = "coalesce" /\ wk'[w].j = wk[w].j /\ UNCHANGED bundle
            /\ wk'[w].question = wk[w].question
        BY <1>6, <2>1 DEF CheckEligible, WorkersTyped, WorkerState
      <3> QED BY <1>1, <1>6, <3>1 DEF CheckEligible, WorkerJustified, Msg
    <2>2. CASE ~eligible
      <3>1. wk'[w].pc = "settle" /\ wk'[w].j = wk[w].j
        BY <1>6, <2>2 DEF CheckEligible, WorkersTyped, WorkerState
      <3>2. Closed(m)
        BY <2>2 DEF ReceiptInv, Closed, Settled, Answered
      <3> QED BY <1>2, <1>6, <3>1, <3>2 DEF CheckEligible
    <2> QED BY <2>1, <2>2
  <1>7. CASE Coalesce(w)
    <2>1. CASE ~wk[w].question /\ Superseded(m)
      <3>1. wk'[w].pc = "settle" /\ wk'[w].j = wk[w].j
        BY <1>7, <2>1 DEF Coalesce, WorkersTyped, WorkerState
      <3>2. Closed(m)
        BY <1>1, <1>7, <2>1 DEF Coalesce, WorkerJustified, Closed, Settled
      <3> QED BY <1>2, <1>7, <3>1, <3>2 DEF Coalesce
    <2>2. CASE ~(~wk[w].question /\ Superseded(m))
      <3>1. wk'[w].pc = "generate"
        BY <1>7, <2>2 DEF Coalesce, WorkersTyped, WorkerState
      <3> QED BY <3>1 DEF WorkerJustified
    <2> QED BY <2>1, <2>2
  <1>8. CASE Generate(w)
    <2>1. PICK text \in {"reply", "input_filtered"}, verdict \in BOOLEAN :
            /\ verdict => m \in QuestionReplies /\ bundle # "purged"
            /\ wk' = [wk EXCEPT ![w].pc = "commit", ![w].text = text, ![w].verdict = verdict]
      BY <1>8 DEF Generate
    <2>2. /\ wk'[w].pc = "commit" /\ wk'[w].verdict = verdict /\ wk'[w].j = wk[w].j
          /\ UNCHANGED bundle
      BY <1>8, <2>1 DEF Generate, WorkersTyped, WorkerState
    <2> QED BY <2>1, <2>2 DEF WorkerJustified, Msg
  <1>9. CASE CommitTurn(w)
    <2>1. wk'[w].pc = "load" /\ wk'[w].j = wk[w].j
      BY <1>9 DEF CommitTurn, WorkersTyped, WorkerState
    <2>2. m \in Messages /\ wk[w].text # "none"
      BY <1>1, <1>9, MsgIsMessage DEF CommitTurn, WorkerState, Texts
    <2>3. effect'[m] # "none"
      BY <1>9, <2>2 DEF CommitTurn, PersistTurn, RecordCommittedTurn, Committed, TypeOK,
                        StoreTypeOK
    <2> QED BY <2>1, <2>3 DEF WorkerJustified, Msg, Committed
  <1>10. CASE LoadDispatch(w)
    <2>1. /\ wk'[w].pc = "dispatch" /\ wk'[w].j = wk[w].j
          /\ wk'[w].todo = UnqueuedKinds(m) /\ UNCHANGED <<effect, intent>>
      BY <1>10 DEF LoadDispatch, WorkersTyped, WorkerState
    <2> QED BY <1>1, <1>10, <2>1 DEF LoadDispatch, WorkerJustified, Msg, Committed,
                                     UnqueuedKinds
  <1>11. CASE EnqueueNext(w)
    <2>1. /\ wk'[w].pc = "mark" /\ wk'[w].j = wk[w].j /\ wk'[w].todo = wk[w].todo
          /\ UNCHANGED <<effect, intent>>
      BY <1>11 DEF EnqueueNext, WorkersTyped, WorkerState
    <2> QED BY <1>1, <1>11, <2>1 DEF EnqueueNext, WorkerJustified, Msg, Committed,
                                     UnqueuedKinds
  <1>12. CASE MarkQueued(w)
    <2>1. /\ wk'[w].pc = "dispatch" /\ wk'[w].j = wk[w].j
          /\ wk'[w].todo = wk[w].todo \ {wk[w].kind} /\ UNCHANGED effect
      BY <1>12 DEF MarkQueued, WorkersTyped, WorkerState
    <2>2. m \in Messages /\ wk[w].kind \in Kinds
      BY <1>1, <1>12, MsgIsMessage DEF MarkQueued, WorkerState
    <2>3. \A k \in Kinds : intent'[m][k] = IF k = wk[w].kind THEN "queued" ELSE intent[m][k]
      BY <1>12, <2>2 DEF MarkQueued, MarkCommittedDispatchQueued, TypeOK, StoreTypeOK
    <2>4. UnqueuedKinds(m)' \subseteq UnqueuedKinds(m) \ {wk[w].kind}
      <3>1. UnqueuedKinds(m)' = {k \in Kinds : intent'[m][k] = "pending"}
        BY <2>1 DEF UnqueuedKinds, Msg
      <3> QED BY <2>3, <3>1 DEF UnqueuedKinds
    <2> QED BY <1>1, <1>12, <2>1, <2>4 DEF MarkQueued, WorkerJustified, Msg, Committed,
                                           UnqueuedKinds
  <1>13. CASE DispatchDone(w)
    <2>1. wk'[w].pc = "settle" /\ wk'[w].j = wk[w].j
      BY <1>13 DEF DispatchDone, WorkersTyped, WorkerState
    <2>2. Closed(m)
      BY <1>1, <1>13 DEF DispatchDone, WorkerJustified, Closed, Settled, Answered
    <2> QED BY <1>2, <1>13, <2>1, <2>2 DEF DispatchDone
  <1>14. CASE Settle(w) \/ ExpireInsights(w) \/ QueueReceiptRetry(w)
    <2>1. /\ wk'[w].pc \in {"expire", "finish"} /\ wk'[w].j = wk[w].j
          /\ wk[w].pc \in {"settle", "expire", "receiptRetry"}
      BY <1>14 DEF Settle, ExpireInsights, QueueReceiptRetry, WorkersTyped, WorkerState
    <2> QED BY <1>1, <1>2, <2>1 DEF WorkerJustified
  <1>15. CASE FinishJob(w) \/ CrashWorker(w)
    BY <1>15 DEF FinishJob, CrashWorker, WorkersTyped, WorkerJustified, Idle
  <1>16. CASE StepFails(w) \/ VerdictRejected(w)
    <2>1. Throw(w) /\ wk[w].pc # "idle"
      BY <1>16 DEF StepFails, VerdictRejected, StaleVerdict
    <2>2. CASE Swallows(w)
      <3>1. wk'[w].pc = "finish" /\ wk'[w].j = wk[w].j
        BY <2>1, <2>2 DEF Throw, Swallows, FallsBack, WorkersTyped, WorkerState
      <3> QED BY <1>1, <1>2, <2>1, <2>2, <3>1 DEF Swallows, WorkerJustified
    <2>3. CASE ~Swallows(w) /\ wk[w].pc = "settle" /\ wk[w].path = "turn"
      <3>1. wk'[w].pc = "receiptRetry" /\ wk'[w].j = wk[w].j
        BY <2>1, <2>3 DEF Throw, FallsBack, WorkersTyped, WorkerState
      <3> QED BY <1>1, <1>2, <2>1, <2>3, <3>1 DEF WorkerJustified
    <2>4. CASE ~Swallows(w) /\ FallsBack(w)
      <3>1. wk' = [wk EXCEPT ![w].pc = "commit", ![w].path = "fallback",
                            ![w].text = "processing_failed", ![w].verdict = FALSE]
        BY <2>1, <2>4 DEF Throw, FallsBack
      <3>2. wk'[w].pc = "commit" /\ wk'[w].verdict = FALSE
        BY <3>1 DEF WorkersTyped, WorkerState
      <3> QED BY <3>2 DEF WorkerJustified
    <2>5. CASE ~Swallows(w) /\ ~(wk[w].pc = "settle" /\ wk[w].path = "turn") /\ ~FallsBack(w)
      BY <2>1, <2>5 DEF Throw, FailAttempt, WorkersTyped, WorkerJustified, Idle
    <2> QED BY <2>2, <2>3, <2>4, <2>5
  <1> QED BY <1>3, <1>4, <1>5, <1>6, <1>7, <1>8, <1>9, <1>10, <1>11, <1>12, <1>13, <1>14,
             <1>15, <1>16
          DEF WorkerNext, WorkerRuns

\* What a step may do to receipts and jobs.
JobsHonest ==
    /\ \A j \in Jobs : Tells(j)' => Tells(j) \/ Closed(j[1])
    /\ \A j \in Jobs : lock'[j] # NoWorker => job'[j].st = "active"
    /\ \A m \in Messages : receipt'[m] => receipt[m] \/ Closed(m)

LEMMA HonestUnchanged ==
  ASSUME ReceiptInv, UNCHANGED <<job, lock, receipt>> PROVE JobsHonest
  BY DEF ReceiptInv, JobsHonest, Tells

\* Only one job changes, and it tells nothing new.
LEMMA HonestJob ==
  ASSUME ReceiptInv, NEW j \in Jobs, \A i \in Jobs : i # j => job'[i] = job[i] /\ lock'[i] = lock[i],
         Tells(j)' => Tells(j) \/ Closed(j[1]), lock'[j] # NoWorker => job'[j].st = "active",
         UNCHANGED receipt
  PROVE  JobsHonest
  BY DEF ReceiptInv, JobsHonest, Tells

LEMMA AddHonest ==
  ASSUME QueueTyped, ReceiptInv, NEW m \in Messages, UNCHANGED <<lock, receipt>>,
         \/ AddRecoveryJob(m) \/ AddJob(<<m, "main">>)
         \/ AddJob(<<m, "receipt">>) /\ Closed(m)
  PROVE  JobsHonest
  <1>1. ASSUME NEW r \in {"main", "recovery", "receipt"}, job' # job,
               job' = [job EXCEPT ![<<m, r>>] = FreshJob], ~Live(<<m, r>>),
               r = "receipt" => Closed(m)
        PROVE  JobsHonest
    <2> DEFINE j == <<m, r>>
    <2>1. j \in Jobs /\ j[1] = m /\ j[2] = r
      BY DEF Jobs
    <2>2. \A i \in Jobs : i # j => job'[i] = job[i]
      BY <1>1, <2>1 DEF QueueTyped
    <2>3. job'[j].st = "waiting"
      BY <1>1, <2>1 DEF QueueTyped, FreshJob, NoJob
    <2>4. Tells(j)' => Closed(j[1])
      BY <1>1, <2>1, <2>3 DEF Tells
    <2>5. lock'[j] = NoWorker
      BY <1>1, <2>1 DEF ReceiptInv, Live
    <2> HIDE DEF j
    <2> QED BY <2>1, <2>2, <2>4, <2>5, HonestJob
  <1>2. CASE UNCHANGED job
    BY <1>2, HonestUnchanged
  <1>3. CASE job' # job /\ AddRecoveryJob(m)
    <2>1. job' = [job EXCEPT ![<<m, "recovery">>] = FreshJob] /\ ~Live(<<m, "recovery">>)
      BY <1>3 DEF AddRecoveryJob
    <2> QED BY <1>1, <1>3, <2>1
  <1>4. ASSUME NEW r \in {"main", "receipt"}, job' # job, AddJob(<<m, r>>),
               r = "receipt" => Closed(m)
        PROVE  JobsHonest
    <2>1. job' = [job EXCEPT ![<<m, r>>] = FreshJob] /\ ~Live(<<m, r>>)
      BY <1>4 DEF AddJob, Live
    <2> QED BY <1>1, <1>4, <2>1
  <1> QED BY <1>2, <1>3, <1>4

LEMMA WorkerHonest ==
  ASSUME TypeOK, ReceiptInv, NEW w \in Workers, WorkerNext(w)
  PROVE  JobsHonest
  <1> WorkersTyped /\ QueueTyped
    BY TypeParts
  <1>1. WorkerJustified(w)
    BY DEF ReceiptInv
  <1>2. CASE \E j \in Jobs : FetchJob(w, j)
    <2>1. PICK j \in Jobs : FetchJob(w, j)
      BY <1>2
    <2>2. \A i \in Jobs : i # j => job'[i] = job[i] /\ lock'[i] = lock[i]
      BY <2>1 DEF FetchJob, QueueTyped
    <2>3. job[j].st = "waiting" /\ job'[j].st = "active" /\ UNCHANGED receipt
      BY <2>1 DEF FetchJob, QueueTyped, JobRecord
    <2> QED BY <2>2, <2>3, HonestJob DEF Tells
  <1>3. CASE Settle(w)
    <2>1. wk[w].pc = "settle" /\ UNCHANGED <<job, lock>>
      BY <1>3 DEF Settle, At
    <2>2. Closed(Msg(w)) /\ Msg(w) \in Messages
      BY <1>1, <2>1, MsgIsMessage DEF WorkerJustified
    <2>3. \A m \in Messages : m # Msg(w) => receipt'[m] = receipt[m]
      BY <1>3, <2>2 DEF Settle, TypeOK
    <2> QED BY <2>1, <2>2, <2>3 DEF JobsHonest, ReceiptInv, Tells
  <1>4. CASE ~Settle(w) /\ ~\E j \in Jobs : FetchJob(w, j)
    <2>1. UNCHANGED receipt
      BY <1>4 DEF WorkerNext, WorkerRuns, ReadPendingQuestion, ResumeCommittedTurn,
         CheckEligible, Coalesce, Generate, CommitTurn, VerdictRejected, LoadDispatch,
         EnqueueNext, MarkQueued, DispatchDone, ExpireInsights, QueueReceiptRetry,
         FinishJob, StepFails, CrashWorker, ctVarsButWk
    <2>2. CASE UNCHANGED <<job, lock>>
      BY <2>1, <2>2, HonestUnchanged
    <2>3. CASE QueueReceiptRetry(w)
      <3>1. Closed(Msg(w)) /\ Msg(w) \in Messages
        BY <1>1, <2>3, MsgIsMessage DEF QueueReceiptRetry, At, WorkerJustified
      <3> QED BY <2>3, <3>1, AddHonest DEF QueueReceiptRetry
    <2>4. CASE (FinishJob(w) \/ FailAttempt(w)) /\ ~UNCHANGED <<job, lock>>
      <3>1. PICK j \in Jobs : j = wk[w].j
        BY <1>4, WorkerKeepsJob DEF WorkersTyped
      <3>2. lock[j] = w /\ lock' = [lock EXCEPT ![j] = NoWorker]
        BY <2>4, <3>1 DEF FinishJob, FailAttempt
      <3>3. job[j].st = "active"
        BY <3>2, <3>1, WorkersAssumption DEF ReceiptInv
      <3>4. \A i \in Jobs : i # j => job'[i] = job[i] /\ lock'[i] = lock[i]
        BY <2>4, <3>2, <3>1 DEF FinishJob, FailAttempt, QueueTyped
      <3>5. lock'[j] = NoWorker
        BY <3>2, <3>1 DEF QueueTyped
      <3>6. Tells(j)' => Tells(j) \/ Closed(j[1])
        <4>1. CASE FinishJob(w)
          <5>1. Closed(j[1])
            BY <1>1, <3>1, <4>1 DEF FinishJob, At, WorkerJustified, Msg
          <5> QED BY <5>1
        <4>2. CASE FailAttempt(w)
          <5>1. job'[j].st \in {"failed", "waiting"}
            BY <3>2, <3>1, <4>2 DEF FailAttempt, QueueTyped, JobRecord
          <5> QED BY <3>3, <5>1 DEF Tells
        <4> QED BY <2>4, <4>1, <4>2
      <3> QED BY <2>1, <3>1, <3>4, <3>5, <3>6, HonestJob
    <2> QED BY <1>4, <2>2, <2>3, <2>4, WorkerJobs
  <1> QED BY <1>2, <1>3, <1>4 DEF WorkerNext, WorkerRuns

LEMMA OthersHonest ==
  ASSUME TypeOK, ReceiptInv, [Next]_vars, ~\E w \in Workers : WorkerNext(w)
  PROVE  JobsHonest /\ (eligible' \/ flips' > 0)
  <1> QueueTyped
    BY TypeParts
  <1> USE DEF storeVars, ScanVars
  <1> DEFINE Flips == eligible' \/ flips' > 0
  <1>0. ASSUME UNCHANGED <<eligible, flips>> PROVE Flips
    BY <1>0 DEF ReceiptInv
  <1>1. ASSUME NEW m \in Messages, IngestNext(m) PROVE JobsHonest /\ Flips
    <2>1. UNCHANGED <<lock, receipt>> /\ (UNCHANGED job \/ AddJob(<<m, "main">>))
      BY <1>1 DEF IngestNext, SaveInboundMessage, AddConversationJob,
                  MarkConversationJobQueued, IngestAborts
    <2>2. UNCHANGED <<eligible, flips>>
      BY <1>1 DEF IngestNext, SaveInboundMessage, AddConversationJob,
                  MarkConversationJobQueued, IngestAborts
    <2> QED BY <1>0, <2>1, <2>2, AddHonest, HonestUnchanged
  <1>2. ASSUME NEW j \in Jobs, QueueNext(j) PROVE JobsHonest /\ Flips
    <2>1. UNCHANGED <<eligible, flips, receipt>>
      BY <1>2 DEF QueueNext, StallOfDeadWorker, StallOfLiveWorker, Stall, EvictJob,
                  RetryDeadLetter
    <2>2. ASSUME Stall(j) PROVE JobsHonest
      <3>1. \A i \in Jobs : i # j => job'[i] = job[i] /\ lock'[i] = lock[i]
        BY <2>2 DEF Stall, QueueTyped
      <3>2. /\ job[j].st = "active" /\ job'[j].st \in {"failed", "waiting"}
            /\ lock'[j] = NoWorker
        BY <2>2 DEF Stall, QueueTyped, JobRecord
      <3> QED BY <2>1, <3>1, <3>2, HonestJob DEF Tells
    <2>3. ASSUME EvictJob(j) \/ RetryDeadLetter(j) PROVE JobsHonest
      <3>1. /\ \A i \in Jobs : i # j => job'[i] = job[i]
            /\ UNCHANGED lock
        BY <2>3 DEF EvictJob, RetryDeadLetter, QueueTyped
      <3>2. /\ job[j].st \in {"completed", "failed"}
            /\ job'[j].st = "absent" \/ (job[j].st = "failed" /\ job'[j].st = "waiting")
        BY <2>3 DEF EvictJob, RetryDeadLetter, QueueTyped, JobRecord, NoJob
      <3>3. lock'[j] = NoWorker
        BY <3>1, <3>2 DEF ReceiptInv
      <3> QED BY <2>1, <3>1, <3>2, <3>3, HonestJob DEF Tells
    <2> QED BY <1>0, <1>2, <2>1, <2>2, <2>3
            DEF QueueNext, StallOfDeadWorker, StallOfLiveWorker
  <1>3. ASSUME NEW m \in Messages, ScanActs(m) PROVE JobsHonest /\ Flips
    <2>1. UNCHANGED <<eligible, flips, lock, receipt>>
      BY <1>3 DEF ScanActs, ScanRequeue, ScanDispatch, ScanMarkQueued, ScanInspect
    <2>2. CASE ScanInspect(m) /\ job[<<m, "main">>].st = "completed"
      <3>1. Closed(m)
        BY <2>2 DEF ReceiptInv, Tells, Jobs
      <3>2. AddJob(<<m, "receipt">>)
        BY <2>2 DEF ScanInspect
      <3> QED BY <1>0, <2>1, <3>1, <3>2, AddHonest
    <2>3. CASE ~(ScanInspect(m) /\ job[<<m, "main">>].st = "completed")
      <3>1. AddRecoveryJob(m) \/ AddJob(<<m, "main">>) \/ UNCHANGED job
        BY <1>3, <2>3 DEF ScanActs, ScanRequeue, ScanDispatch, ScanMarkQueued, ScanInspect
      <3> QED BY <1>0, <2>1, <3>1, AddHonest, HonestUnchanged
    <2> QED BY <2>2, <2>3
  <1>4. ASSUME NEW m \in Messages, NEW task \in ScanList, ScanPick(task, m)
        PROVE  JobsHonest /\ Flips
    BY <1>0, <1>4, HonestUnchanged DEF ScanPick
  <1>5. ASSUME ScanCutoff \/ ScanAborts \/ CloseWindow PROVE JobsHonest /\ Flips
    BY <1>0, <1>5, HonestUnchanged DEF ScanCutoff, ScanAborts, CloseWindow
  <1>6. ASSUME FlipEligibility /\ UNCHANGED ctVars PROVE JobsHonest /\ Flips
    <2>1. flips \in Nat /\ flips' = flips + 1
      BY <1>6, BoundsAssumption DEF FlipEligibility, TypeOK, StoreTypeOK
    <2> QED BY <1>6, <2>1, HonestUnchanged DEF ctVars
  <1>7. ASSUME UNCHANGED vars PROVE JobsHonest /\ Flips
    BY <1>0, <1>7, HonestUnchanged DEF ctVars, vars
  <1> QED BY <1>1, <1>2, <1>3, <1>4, <1>5, <1>6, <1>7 DEF Next, CTNext, ScanNext

LEMMA NextReceipts ==
  ASSUME TypeOK, SavedInv, ReceiptInv, [Next]_vars PROVE ReceiptInv'
  <1> WorkersTyped
    BY TypeParts
  <1>1. Grows /\ (bundle # "purged" /\ bundle' = "purged" => NoUnprocessedTimelyReply)
    BY NextGrows, PurgeGuard
  <1>2. JobsHonest /\ (eligible' \/ flips' > 0)
    <2>1. CASE \E w \in Workers : WorkerNext(w)
      BY <2>1, WorkerHonest, WorkerRows DEF ReceiptInv
    <2>2. CASE ~\E w \in Workers : WorkerNext(w)
      BY <2>2, OthersHonest
    <2> QED BY <2>1, <2>2
  <1>3. \A v \in Workers : WorkerJustified(v)'
    <2>1. ASSUME NEW w \in Workers, WorkerNext(w), NEW v \in Workers, v # w
          PROVE  wk'[v] = wk[v]
      <3>1. CASE \E j \in Jobs : FetchJob(w, j)
        BY <2>1, <3>1 DEF FetchJob, WorkersTyped
      <3>2. CASE ~\E j \in Jobs : FetchJob(w, j)
        BY <2>1, <3>2, WorkerKeepsJob
      <3> QED BY <3>1, <3>2
    <2>2. CASE \E w \in Workers : WorkerNext(w)
      <3>1. PICK w \in Workers : WorkerNext(w)
        BY <2>2
      <3>2. WorkerJustified(w)'
        BY <1>1, <3>1, MovedJustified
      <3>3. \A v \in Workers : v # w => WorkerJustified(v)'
        BY <1>1, <2>1, <3>1, StillJustified
      <3> QED BY <3>2, <3>3
    <2>3. CASE ~\E w \in Workers : WorkerNext(w)
      <3>1. \A v \in Workers : wk'[v] = wk[v]
        BY <2>3, OtherSteps
      <3> QED BY <1>1, <3>1, StillJustified
    <2> QED BY <2>2, <2>3
  <1>4. /\ \A m \in Messages : receipt'[m] => Closed(m)'
        /\ \A j \in Jobs : Tells(j)' => Closed(j[1])'
    BY <1>1, <1>2, StillClosed DEF JobsHonest
  <1> QED BY <1>2, <1>3, <1>4 DEF ReceiptInv, JobsHonest

LEMMA ReceiptsHold == Spec => [](TypeOK /\ ReceiptInv)
  <1> DEFINE Inv == TypeOK /\ DispatchInv /\ SavedInv /\ ReceiptInv
  <1>1. Init => Inv
    BY InitialTypes, InitialDispatch, InitialSaved, InitialReceipts
  <1>2. Inv /\ [Next]_vars => Inv'
    BY NextTypes, NextDispatch, NextSaved, NextReceipts
  <1> QED BY <1>1, <1>2, PTL DEF Spec

\* No receipt and no completed conversation job is wrong about its message, for any
\* number of workers, retries, stolen locks and crashes.
THEOREM ReceiptsAreJustified == Spec => []ReceiptJustified
  <1>1. ReceiptInv => ReceiptJustified
    BY DEF ReceiptInv, ReceiptJustified, Tells, Closed, Jobs
  <1> QED BY <1>1, ReceiptsHold, PTL

\* The cutoff never takes the bundle from under a timely reply in the works, whoever
\* runs it and however long the model takes.
THEOREM VerdictsFindTheirBundle == Spec => []VerdictFindsBundle
  <1>1. TypeOK /\ ReceiptInv => VerdictFindsBundle
    BY DEF ReceiptInv, WorkerJustified, VerdictFindsBundle, StaleVerdict, At, Answered
  <1> QED BY <1>1, ReceiptsHold, PTL
=============================================================================
