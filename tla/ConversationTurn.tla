--------------------------- MODULE ConversationTurn ---------------------------
(***************************************************************************)
(* From an admitted inbound message to a committed, dispatched and         *)
(* receipted turn: the tail of the ingestion handler, the BullMQ           *)
(* conversation queue, the conversation workers, and the part of the       *)
(* five-minute scanner that repairs conversation jobs.                     *)
(*                                                                         *)
(* Every database or queue call of a worker is a step of its own: other    *)
(* workers, the scanner, a crash or an expired job lock may come between   *)
(* any two of them.                                                        *)
(***************************************************************************)
EXTENDS TurnStore

CONSTANTS
    Workers,             \* conversation worker processes (concurrency 1 each)
    NoWorker,            \* the owner of a job nobody holds the lock of
    QuestionReplies,     \* messages that answer a question confirmation in time
    Newer,               \* <<a, c>>: c supersedes a (isNewerInboundWithinWindow)
    MaxAttempts,         \* BullMQ attempts of a conversation job
    MaxReceiptAttempts,  \* BullMQ attempts of a receipt-retry job
    MaxStalled,          \* BullMQ maxStalledCount
    MaxManual            \* bound: manual retries from the dead-letter endpoint

ASSUME WorkersAssumption == NoWorker \notin Workers
ASSUME MessagesAssumption ==
    QuestionReplies \subseteq Messages /\ Newer \subseteq Messages \X Messages
ASSUME AttemptsAssumption ==
    /\ MaxAttempts \in Nat \ {0}
    /\ MaxReceiptAttempts \in Nat \ {0}
    /\ MaxStalled \in Nat
    /\ MaxManual \in Nat

VARIABLES
    ingest,     \* progress of the API handler of each message
    admission,  \* conversation_job_admissions: none, saved, queued
    receipt,    \* conversation_job_receipts
    bundle,     \* the question confirmation bundle: open, closed, purged
    job,        \* BullMQ job of each message and role
    lock,       \* owner of each active job's lock
    wk,         \* the local state of each worker
    scan,       \* what the scanner is in the middle of
    manual      \* manual retries so far

ctVars == <<ingest, admission, receipt, bundle, job, lock, wk, scan, manual>>
ctVarsButWk == <<ingest, admission, receipt, bundle, job, lock, scan, manual>>
vars == <<storeVars, ctVars>>

-----------------------------------------------------------------------------
(* Jobs.  "main" is conversation-<id>, "recovery" the live generation of    *)
(* conversation-recovery-<id>-<generation>, "receipt" is receipt-<id>.      *)

Jobs == Messages \X {"main", "recovery", "receipt"}

JobStates == {"absent", "waiting", "active", "completed", "failed"}

NoJob == [st |-> "absent", made |-> 0, stalled |-> 0]
DelayedJob == [NoJob EXCEPT !.st = "delayed"]     \* mutated FreshJob
FreshJob == [NoJob EXCEPT !.st = "waiting"]

AttemptsOf(j) == IF j[2] = "receipt" THEN MaxReceiptAttempts ELSE MaxAttempts

Live(j) == job[j].st \in {"waiting", "active"}

\* queue.add: an id BullMQ still holds, finished or not, is left alone.
AddJob(j) ==
    job' = IF job[j].st = "absent" THEN [job EXCEPT ![j] = FreshJob] ELSE job

\* Mutated AddRecoveryJob: the id has no generation, so a failed job blocks it.
AddRecoveryJobOnce(m) == AddJob(<<m, "recovery">>)

\* A recovery id contains the generation of the scan, so only a live job of this
\* generation makes the add a no-op.  One live generation per message is kept.
AddRecoveryJob(m) ==
    LET j == <<m, "recovery">>
    IN  job' = IF Live(j) THEN job ELSE [job EXCEPT ![j] = FreshJob]

-----------------------------------------------------------------------------
(* Workers.                                                                 *)

Phases == {"idle", "start", "resume", "eligible", "coalesce", "generate",
           "commit", "load", "dispatch", "mark", "settle", "expire",
           "receiptRetry", "finish"}

\* Which of processInbound's paths the worker is on; it decides what a throw does.
Paths == {"enter", "resumed", "skipped", "turn", "fallback", "receipt"}

WorkerState ==
    [pc : Phases, path : Paths, j : Jobs \union {<<>>}, final : BOOLEAN,
     question : BOOLEAN, verdict : BOOLEAN, text : Texts,
     todo : SUBSET Kinds, kind : Kinds]

Idle == [pc |-> "idle", path |-> "enter", j |-> <<>>, final |-> FALSE,
         question |-> FALSE, verdict |-> FALSE, text |-> "reply",
         todo |-> {}, kind |-> "message_send"]

\* An item the scanner read from the database and has not finished with.
ScanTasks == {"requeue", "dispatch", "markQueued", "inspect"}

Msg(w) == wk[w].j[1]

At(w, pc) == wk[w].pc = pc
Goto(w, pc) == wk' = [wk EXCEPT ![w].pc = pc]
GotoOn(w, pc, path) == wk' = [wk EXCEPT ![w].pc = pc, ![w].path = path]

Saved(m) == admission[m] # "none"
Superseded(m) == \E n \in Messages : <<m, n>> \in Newer /\ Saved(n)

\* Mutated NoUnprocessedTimelyReply: it looks at queued admissions only.
NoQueuedTimelyReply == \A m \in QuestionReplies : admission[m] = "queued" => receipt[m]

\* noUnprocessedTimelyReply: every timely reply that is stored has a receipt.
NoUnprocessedTimelyReply == \A m \in QuestionReplies : Saved(m) => receipt[m]

\* Every row, job, lock and worker of processInbound has a value the code can give it;
\* in particular a worker in the middle of a run always holds the id of its job.
TypeOK ==
    /\ StoreTypeOK
    /\ ingest \in [Messages -> {"none", "saved", "added", "done"}]
    /\ admission \in [Messages -> {"none", "saved", "queued"}]
    /\ receipt \in [Messages -> BOOLEAN]
    /\ bundle \in {"open", "closed", "purged"}
    /\ job \in [Jobs -> [st : JobStates, made : Nat, stalled : Nat]]
    /\ lock \in [Jobs -> Workers \union {NoWorker}]
    /\ wk \in [Workers -> WorkerState]
    /\ \A w \in Workers : wk[w].pc # "idle" => wk[w].j \in Jobs
    /\ scan \in SUBSET (ScanTasks \X Messages)
    /\ manual \in 0..MaxManual

Init ==
    /\ StoreInit
    /\ ingest = [m \in Messages |-> "none"]
    /\ admission = [m \in Messages |-> "none"]
    /\ receipt = [m \in Messages |-> FALSE]
    /\ bundle = "open"
    /\ job = [j \in Jobs |-> NoJob]
    /\ lock = [j \in Jobs |-> NoWorker]
    /\ wk = [w \in Workers |-> Idle]
    /\ scan = {}
    /\ manual = 0

-----------------------------------------------------------------------------
(* The tail of SlackIngestService.processBody, past the event-id claim.     *)

\* findOrCreateUser found the employee eligible; message and admission rows are
\* written in one transaction.
SaveInboundMessage(m) ==
    /\ ingest[m] = "none"
    /\ eligible
    /\ ingest' = [ingest EXCEPT ![m] = "saved"]
    /\ admission' = [admission EXCEPT ![m] = "saved"]
    /\ UNCHANGED <<storeVars, receipt, bundle, job, lock, wk, scan, manual>>

AddConversationJob(m) ==
    /\ ingest[m] = "saved"
    /\ ingest' = [ingest EXCEPT ![m] = "added"]
    /\ AddJob(<<m, "main">>)
    /\ UNCHANGED <<storeVars, admission, receipt, bundle, lock, wk, scan, manual>>

MarkConversationJobQueued(m) ==
    /\ ingest[m] = "added"
    /\ ingest' = [ingest EXCEPT ![m] = "done"]
    /\ admission' = [admission EXCEPT ![m] = "queued"]
    /\ UNCHANGED <<storeVars, receipt, bundle, job, lock, wk, scan, manual>>

\* The API process dies, or a call throws and the controller swallows it.
IngestAborts(m) ==
    /\ ingest[m] \in {"saved", "added"}
    /\ Fault
    /\ ingest' = [ingest EXCEPT ![m] = "done"]
    /\ UNCHANGED <<effect, intent, added, eligible, flips, admission, receipt,
                   bundle, job, lock, wk, scan, manual>>

-----------------------------------------------------------------------------
(* BullMQ, as the repository configures it.                                 *)

\* A worker takes a waiting job.  receipt-retry goes straight to settleInbound
\* with pendingQuestionReply = true.
FetchJob(w, j) ==
    /\ At(w, "idle")
    /\ job[j].st = "waiting"
    /\ job' = [job EXCEPT ![j].st = "active"]
    /\ lock' = [lock EXCEPT ![j] = w]
    /\ wk' = [wk EXCEPT ![w] = [Idle EXCEPT
                !.j = j,
                !.pc = IF j[2] = "receipt" THEN "settle" ELSE "start",
                !.path = IF j[2] = "receipt" THEN "receipt" ELSE "enter",
                !.question = (j[2] = "receipt"),
                !.final = (job[j].made + 1 >= AttemptsOf(j))]]
    /\ UNCHANGED <<storeVars, ingest, admission, receipt, bundle, scan, manual>>

\* The processor returned.  A worker that lost its lock cannot move the job.
FinishJob(w) ==
    /\ At(w, "finish")
    /\ IF lock[wk[w].j] = w
       THEN /\ job' = [job EXCEPT ![wk[w].j].st = "completed"]
            /\ lock' = [lock EXCEPT ![wk[w].j] = NoWorker]
       ELSE UNCHANGED <<job, lock>>
    /\ wk' = [wk EXCEPT ![w] = Idle]
    /\ UNCHANGED <<storeVars, ingest, admission, receipt, bundle, scan, manual>>

\* The processor threw: back to waiting, or failed when the attempts are used up.
FailAttempt(w) ==
    LET j == wk[w].j
        n == job[j].made + 1
    IN  /\ IF lock[j] = w
           THEN /\ job' = [job EXCEPT
                      ![j].made = n,
                      ![j].st = IF n >= AttemptsOf(j) THEN "failed" ELSE "waiting"]
                /\ lock' = [lock EXCEPT ![j] = NoWorker]
           ELSE UNCHANGED <<job, lock>>
        /\ wk' = [wk EXCEPT ![w] = Idle]

\* The lock of an active job expires.  A job that stalls too often is failed by
\* BullMQ without another run.
Holds(j) == \E w \in Workers : lock[j] = w /\ wk[w].pc # "idle" /\ wk[w].j = j

Stall(j) ==
    /\ job[j].st = "active"
    /\ job' = [job EXCEPT
          ![j].stalled = @ + 1,
          ![j].st = IF job[j].stalled >= MaxStalled THEN "failed" ELSE "waiting"]
    /\ lock' = [lock EXCEPT ![j] = NoWorker]
    /\ UNCHANGED <<effect, intent, added, eligible, flips, ingest, admission,
                   receipt, bundle, wk, scan, manual>>

\* Its worker is gone.
StallOfDeadWorker(j) == Stall(j) /\ ~Holds(j) /\ UNCHANGED faults

\* Its worker could not renew the lock, and keeps running beside the next one.
StallOfLiveWorker(j) == Stall(j) /\ Holds(j) /\ Fault

\* removeOnComplete / removeOnFail keep a bounded number of finished jobs.
EvictJob(j) ==
    /\ job[j].st \in {"completed", "failed"}
    /\ job' = [job EXCEPT ![j] = NoJob]
    /\ UNCHANGED <<storeVars, ingest, admission, receipt, bundle, lock, wk, scan,
                   manual>>

\* POST /admin/queues/dead-letter/:jobId/retry on a failed job.
RetryDeadLetter(j) ==
    /\ job[j].st = "failed"
    /\ manual < MaxManual
    /\ manual' = manual + 1
    /\ job' = [job EXCEPT ![j].st = "waiting"]
    /\ UNCHANGED <<storeVars, ingest, admission, receipt, bundle, lock, wk, scan>>

\* The worker process dies.  Its job stays active until the lock expires.
CrashWorker(w) ==
    /\ ~At(w, "idle")
    /\ Fault
    /\ wk' = [wk EXCEPT ![w] = Idle]
    /\ UNCHANGED <<effect, intent, added, eligible, flips, ctVarsButWk>>

-----------------------------------------------------------------------------
(* ConversationProcessor.processInbound and the orchestrator calls it makes. *)

\* hasUnresolvedQuestionConfirmationForInbound.
ReadPendingQuestion(w) ==
    /\ At(w, "start")
    /\ wk' = [wk EXCEPT ![w].pc = "resume",
                        ![w].question = Msg(w) \in QuestionReplies /\ bundle # "purged"]
    /\ UNCHANGED <<storeVars, ctVarsButWk>>

\* Mutated ResumeCommittedTurn: a committed turn counts as finished.
ResumeWithoutDispatch(w) ==
    /\ At(w, "resume")
    /\ IF Committed(Msg(w)) THEN GotoOn(w, "settle", "resumed")
                            ELSE Goto(w, "eligible")
    /\ UNCHANGED <<storeVars, ctVarsButWk>>

\* resumeCommittedTurn: a committed turn only needs the rest of its dispatch.
ResumeCommittedTurn(w) ==
    /\ At(w, "resume")
    /\ IF Committed(Msg(w)) THEN GotoOn(w, "load", "resumed")
                            ELSE Goto(w, "eligible")
    /\ UNCHANGED <<storeVars, ctVarsButWk>>

CheckEligible(w) ==
    /\ At(w, "eligible")
    /\ IF eligible THEN Goto(w, "coalesce") ELSE GotoOn(w, "settle", "skipped")
    /\ UNCHANGED <<storeVars, ctVarsButWk>>

\* Mutated Coalesce: any other stored message supersedes this one.
CoalesceEither(w) ==
    /\ At(w, "coalesce")
    /\ IF \E n \in Messages \ {Msg(w)} : Saved(n)
       THEN GotoOn(w, "settle", "skipped")
       ELSE GotoOn(w, "generate", "turn")
    /\ UNCHANGED <<storeVars, ctVarsButWk>>

\* shouldSkipInboundMessage, which a pending question reply bypasses.
Coalesce(w) ==
    /\ At(w, "coalesce")
    /\ IF ~wk[w].question /\ Superseded(Msg(w))
       THEN GotoOn(w, "settle", "skipped")
       ELSE GotoOn(w, "generate", "turn")
    /\ UNCHANGED <<storeVars, ctVarsButWk>>

\* The model calls of orchestrateModelTurn.  They run outside any transaction; a
\* verdict on the question bundle can come only from a bundle that was readable.
Generate(w) ==
    /\ At(w, "generate")
    /\ \E text \in {"reply", "input_filtered"}, verdict \in BOOLEAN :
        /\ verdict => /\ text = "reply"
                      /\ Msg(w) \in QuestionReplies
                      /\ bundle # "purged"
        /\ wk' = [wk EXCEPT ![w].pc = "commit", ![w].text = text,
                            ![w].verdict = verdict]
    /\ UNCHANGED <<storeVars, ctVarsButWk>>

\* applyQuestionBundleVerdict finds no bundle: v2_confirmation_bundle_stale.
StaleVerdict(w) ==
    /\ At(w, "commit")
    /\ ~Committed(Msg(w)) /\ wk[w].verdict /\ bundle = "purged"

\* Mutated PersistTurn: the earlier commit is not looked up.
PersistTurnAgain(m, text) ==
    \E kinds \in SUBSET SideKinds :
        /\ text # "reply" => kinds = {}
        /\ RecordCommittedTurn(m, text, kinds \union {"message_send"})

\* What persistPreparedTurn (or commitOutcomeTurn) leaves in the database: under
\* the admission's row lock, an earlier commit wins, otherwise everything is
\* written.  Only a model turn has dispatch kinds besides the reply.
PersistTurn(m, text) ==
    IF Committed(m)
    THEN UNCHANGED <<effect, intent>>
    ELSE \E kinds \in SUBSET SideKinds :
            /\ text # "reply" => kinds = {}
            /\ RecordCommittedTurn(m, text, kinds \union {"message_send"})

CommitTurn(w) ==
    /\ At(w, "commit") /\ ~StaleVerdict(w)
    /\ PersistTurn(Msg(w), wk[w].text)
    /\ wk' = [wk EXCEPT ![w].pc = "load", ![w].text = "reply", ![w].verdict = FALSE]
    /\ UNCHANGED <<added, eligible, faults, flips, ctVarsButWk>>

\* dispatchCommittedTurn: read the kinds nobody has queued, then add and mark
\* each of them.
LoadDispatch(w) ==
    /\ At(w, "load")
    /\ wk' = [wk EXCEPT ![w].pc = "dispatch", ![w].todo = UnqueuedKinds(Msg(w))]
    /\ UNCHANGED <<storeVars, ctVarsButWk>>

EnqueueNext(w) ==
    /\ At(w, "dispatch")
    /\ \E k \in wk[w].todo :
        /\ EnqueueDispatch(Msg(w), k)
        /\ wk' = [wk EXCEPT ![w].pc = "mark", ![w].kind = k]
    /\ UNCHANGED <<effect, intent, eligible, faults, flips, ctVarsButWk>>

MarkQueued(w) ==
    /\ At(w, "mark")
    /\ MarkCommittedDispatchQueued(Msg(w), wk[w].kind)
    /\ wk' = [wk EXCEPT ![w].pc = "dispatch", ![w].todo = @ \ {wk[w].kind},
                        ![w].kind = "message_send"]
    /\ UNCHANGED <<effect, added, eligible, faults, flips, ctVarsButWk>>

DispatchDone(w) ==
    /\ At(w, "dispatch") /\ wk[w].todo = {}
    /\ Goto(w, "settle")
    /\ UNCHANGED <<storeVars, ctVarsButWk>>

\* settleInbound: the receipt, then the cleanup of closed question windows.
Settle(w) ==
    /\ At(w, "settle")
    /\ receipt' = [receipt EXCEPT ![Msg(w)] = TRUE]
    /\ Goto(w, IF wk[w].question THEN "expire" ELSE "finish")
    /\ UNCHANGED <<storeVars, ingest, admission, bundle, job, lock, scan, manual>>

\* expireTemporaryQuestionInsightsForClosedWindows, one transaction.
PurgeClosedWindow ==
    bundle' = IF bundle = "closed" /\ NoUnprocessedTimelyReply THEN "purged" ELSE bundle

ExpireInsights(w) ==
    /\ At(w, "expire")
    /\ PurgeClosedWindow
    /\ Goto(w, "finish")
    /\ UNCHANGED <<storeVars, ingest, admission, receipt, job, lock, scan, manual>>

\* The receipt could not be stored after a committed turn: only it is retried.
QueueReceiptRetry(w) ==
    /\ At(w, "receiptRetry")
    /\ AddJob(<<Msg(w), "receipt">>)
    /\ Goto(w, "finish")
    /\ UNCHANGED <<storeVars, ingest, admission, receipt, bundle, lock, scan, manual>>

\* Failures processInbound swallows: cleanup, the receipt of a fallback turn, and
\* the enqueueing of a receipt retry (the scanner finds the missing receipt).
Swallows(w) ==
    \/ wk[w].pc \in {"expire", "receiptRetry"}
    \/ (At(w, "settle") /\ wk[w].path = "fallback")

\* The last attempt of a model turn ends in one fallback reply.
FallsBack(w) ==
    /\ wk[w].path = "turn" /\ wk[w].final
    /\ wk[w].pc \in {"generate", "commit", "load", "dispatch", "mark"}

\* What an exception does at each place of processInbound.
Throw(w) ==
    CASE Swallows(w) -> Goto(w, "finish") /\ UNCHANGED <<job, lock>>
      [] At(w, "settle") /\ wk[w].path = "turn" ->
            Goto(w, "receiptRetry") /\ UNCHANGED <<job, lock>>
      [] FallsBack(w) ->
            /\ wk' = [wk EXCEPT ![w].pc = "commit", ![w].path = "fallback",
                                ![w].text = "processing_failed", ![w].verdict = FALSE]
            /\ UNCHANGED <<job, lock>>
      [] OTHER -> FailAttempt(w)

\* A database, Redis or model call fails.
StepFails(w) ==
    /\ wk[w].pc \notin {"idle", "finish"}
    /\ Fault
    /\ Throw(w)
    /\ UNCHANGED <<effect, intent, added, eligible, flips, ingest, admission,
                   receipt, bundle, scan, manual>>

VerdictRejected(w) ==
    /\ StaleVerdict(w)
    /\ Throw(w)
    /\ UNCHANGED <<storeVars, ingest, admission, receipt, bundle, scan, manual>>

-----------------------------------------------------------------------------
(* QuestionCutoffProcessor.process, the parts about conversation jobs.  The  *)
(* scan reads lists, then acts on each row later.  It runs over and over, so *)
(* the order of its parts inside one scan is left open.                     *)

\* The period of the question window ends.
CloseWindow ==
    /\ bundle = "open"
    /\ bundle' = "closed"
    /\ UNCHANGED <<storeVars, ingest, admission, receipt, job, lock, wk, scan, manual>>

\* findTimelyQuestionReplyAdmissions.  The cutoff leaves the bundle in a status that is not
\* listed; the query's clause on purged bundles is for those a verdict resolved, and whether
\* one did is not part of bundle here.
TimelyWithoutReceipt(m, state) ==
    /\ m \in QuestionReplies /\ admission[m] = state /\ ~receipt[m]
    /\ bundle = "closed"

ScanRows(task) ==
    CASE task = "requeue"  -> {m \in Messages : UnqueuedKinds(m) # {}}
      [] task = "dispatch" -> {m \in Messages : TimelyWithoutReceipt(m, "saved")}
      [] task = "inspect"  -> {m \in Messages : TimelyWithoutReceipt(m, "queued")}

ScanPick(task, m) ==
    /\ scan = {} /\ m \in ScanRows(task)
    /\ scan' = {<<task, m>>}
    /\ UNCHANGED <<storeVars, ingest, admission, receipt, bundle, job, lock, wk, manual>>

ScanVars == <<storeVars, ingest, receipt, bundle, lock, wk, manual>>

\* requeueCommittedTurn for a turn with unqueued dispatches, if still eligible.
ScanRequeue(m) ==
    /\ <<"requeue", m>> \in scan
    /\ IF eligible /\ Committed(m) THEN AddRecoveryJob(m) ELSE UNCHANGED job
    /\ scan' = {}
    /\ UNCHANGED <<ScanVars, admission>>

\* An admission whose handler died before queueing: add the job, then mark it.
ScanDispatch(m) ==
    /\ <<"dispatch", m>> \in scan
    /\ AddJob(<<m, "main">>)
    /\ scan' = {<<"markQueued", m>>}
    /\ UNCHANGED <<ScanVars, admission>>

ScanMarkQueued(m) ==
    /\ <<"markQueued", m>> \in scan
    /\ admission' = [admission EXCEPT ![m] = "queued"]
    /\ scan' = {}
    /\ UNCHANGED <<ScanVars, job>>

\* Mutated ScanInspect: a completed job is left alone.
ScanInspectFailed(m) ==
    /\ <<"inspect", m>> \in scan
    /\ IF job[<<m, "main">>].st \in {"absent", "failed"} /\ Committed(m)
       THEN AddRecoveryJob(m) ELSE UNCHANGED job
    /\ scan' = {}
    /\ UNCHANGED <<ScanVars, admission>>

\* The job is gone or failed: requeue a committed turn, leave the rest to a
\* person.  The job completed: only the receipt is missing.
ScanInspect(m) ==
    /\ <<"inspect", m>> \in scan
    /\ CASE job[<<m, "main">>].st \in {"absent", "failed"} /\ Committed(m) ->
               AddRecoveryJob(m)
         [] job[<<m, "main">>].st = "completed" -> AddJob(<<m, "receipt">>)
         [] OTHER -> UNCHANGED job
    /\ scan' = {}
    /\ UNCHANGED <<ScanVars, admission>>

\* cutoff.execute.
ScanCutoff ==
    /\ PurgeClosedWindow /\ bundle' # bundle
    /\ UNCHANGED <<storeVars, ingest, admission, receipt, job, lock, wk, scan, manual>>

\* A call of the scan throws, or its process dies: the row waits for the next scan.
ScanAborts ==
    /\ scan # {}
    /\ Fault
    /\ scan' = {}
    /\ UNCHANGED <<effect, intent, added, eligible, flips, ingest, admission,
                   receipt, bundle, job, lock, wk, manual>>

-----------------------------------------------------------------------------
IngestNext(m) ==
    \/ SaveInboundMessage(m) \/ AddConversationJob(m)
    \/ MarkConversationJobQueued(m) \/ IngestAborts(m)

QueueNext(j) ==
    \/ StallOfDeadWorker(j) \/ StallOfLiveWorker(j)
    \/ EvictJob(j) \/ RetryDeadLetter(j)

\* The steps a live worker keeps taking once it holds a job.
WorkerRuns(w) ==
    \/ ReadPendingQuestion(w) \/ ResumeCommittedTurn(w) \/ CheckEligible(w)
    \/ Coalesce(w) \/ Generate(w) \/ CommitTurn(w) \/ VerdictRejected(w)
    \/ LoadDispatch(w) \/ EnqueueNext(w) \/ MarkQueued(w) \/ DispatchDone(w)
    \/ Settle(w) \/ ExpireInsights(w) \/ QueueReceiptRetry(w) \/ FinishJob(w)

WorkerNext(w) ==
    \/ \E j \in Jobs : FetchJob(w, j)
    \/ WorkerRuns(w) \/ StepFails(w) \/ CrashWorker(w)

ScanActs(m) ==
    ScanRequeue(m) \/ ScanDispatch(m) \/ ScanMarkQueued(m) \/ ScanInspect(m)

ScanList == ScanTasks \ {"markQueued"}

ScanNext ==
    \/ \E m \in Messages, task \in ScanList : ScanPick(task, m)
    \/ \E m \in Messages : ScanActs(m)
    \/ ScanCutoff \/ ScanAborts

CTNext ==
    \/ \E m \in Messages : IngestNext(m)
    \/ \E j \in Jobs : QueueNext(j)
    \/ \E w \in Workers : WorkerNext(w)
    \/ ScanNext \/ CloseWindow

Next == CTNext \/ (FlipEligibility /\ UNCHANGED ctVars)

Spec == Init /\ [][Next]_vars

(***************************************************************************)
(* Fairness.  A live API handler and a live worker finish the calls they   *)
(* started (each call returns or throws); BullMQ hands out waiting jobs in *)
(* order, so none waits forever while workers keep coming back; the        *)
(* stalled-job check runs periodically; every scan walks its whole list;   *)
(* the window's period ends.  Nothing is assumed of failures, of the       *)
(* administrator, or of an employee's eligibility.                         *)
(***************************************************************************)
Fairness ==
    /\ \A m \in Messages :
        /\ WF_vars(AddConversationJob(m) \/ MarkConversationJobQueued(m))
        /\ \A task \in ScanList : SF_vars(ScanPick(task, m))
        /\ WF_vars(ScanActs(m))
    /\ \A j \in Jobs :
        /\ SF_vars(\E w \in Workers : FetchJob(w, j))
        /\ WF_vars(StallOfDeadWorker(j))
    /\ \A w \in Workers : WF_vars(WorkerRuns(w))
    /\ WF_vars(CloseWindow)

FairSpec == Spec /\ Fairness

-----------------------------------------------------------------------------
(* Properties.                                                              *)

\* A receipt or a completed conversation job tells the scanner and the question
\* cutoff that the message needs nothing more.  That is true only if its turn is
\* committed with all of its work handed over, a newer message supersedes it, or
\* the employee was inactive.
Settled(m) ==
    \/ Committed(m) /\ UnqueuedKinds(m) = {}
    \/ Superseded(m)
    \/ flips > 0

ReceiptJustified ==
    \A m \in Messages :
        receipt[m] \/ (\E r \in {"main", "recovery"} : job[<<m, r>>].st = "completed")
            => Settled(m)

\* Downstream jobs exist only for committed turns, and an intent is marked queued
\* only after its job was added: a crash in between leaves work to redo, never
\* work that looks done.
DispatchMatchesCommit ==
    \A m \in Messages, k \in Kinds :
        /\ k \in added[m] => Committed(m) /\ intent[m][k] # "absent"
        /\ intent[m][k] = "queued" => k \in added[m]

\* An answer to a question confirmation that arrived in time finds its bundle
\* when its verdict is committed, however late the model answers: the cutoff
\* purges a closed window only after every stored timely reply has a receipt.
\* (It misses it only if the employee was inactive meanwhile and another run of the
\* message, which stored the receipt, had given the reply up.)
VerdictFindsBundle ==
    \A w \in Workers : StaleVerdict(w) => receipt[Msg(w)] /\ flips > 0

\* The worker implements TurnOutcome, whatever is retried, crashes or runs twice:
\* a committed turn is final (no second worker, retry or fallback replaces its text
\* or re-opens its intents), only its own kinds are enqueued, and an intent is
\* marked queued only after its job was added.
Outcome == INSTANCE TurnOutcome
    WITH outcome <- effect, dispatch <- intent, handed <- added

TurnImplementsOutcome == Outcome!Spec

\* Every dispatch of a committed turn is handed to its queue in the end, whatever
\* failed in between, once the employee stays eligible: the job's own retries or
\* a requeue by the scanner finish what was started.
CommittedTurnIsDispatched ==
    \A m \in Messages :
        Committed(m) ~> UnqueuedKinds(m) = {} \/ ~eligible

\* The scanner's manual_recovery_count: nothing is committed and no job is left.
NeedsManualRecovery(m) ==
    /\ Saved(m) /\ ~Committed(m)
    /\ \A r \in {"main", "recovery"} : job[<<m, r>>].st \in {"absent", "failed"}

\* A receipt retry that failed for good: BullMQ keeps its id, see README.
ReceiptRetryIsDead(m) == job[<<m, "receipt">>].st = "failed"

\* A timely answer to a question confirmation is receipted in the end, so that its
\* window can be cut off, unless it is reported for manual recovery or the last
\* attempt of its receipt retry failed.
TimelyReplyIsReceipted ==
    \A m \in QuestionReplies :
        Saved(m) /\ bundle # "purged"
            ~> receipt[m] \/ NeedsManualRecovery(m) \/ ReceiptRetryIsDead(m)
=============================================================================
