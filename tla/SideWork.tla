------------------------------- MODULE SideWork -------------------------------
(***************************************************************************)
(* What follows a committed turn besides its reply: memory extraction,     *)
(* style analysis, survey evidence and profile hydration.  Each is a row   *)
(* of conversation_dispatch_intents, a job a dispatcher adds for it, a     *)
(* consumer that calls a model and then applies the result together with   *)
(* the row's completed_at, and a list of the five-minute scanner.          *)
(*                                                                         *)
(* The turn worker is reduced to its dispatch loop, which retries and      *)
(* scanner requeues start again at any time (ConversationTurn has the      *)
(* detail), and to the rows of one loop being handled in any order.  The   *)
(* age limits of the scanner's queries are left out: a row may be old      *)
(* enough at any time.  follow_up_execution rows are created by memory     *)
(* extraction; what their jobs do is outside this module.  Consumers are   *)
(* not told apart by queue: any of them may take any job.                  *)
(***************************************************************************)
EXTENDS Naturals, FiniteSets

CONSTANTS
    Messages,         \* inbound messages with a turn, numbered in order of arrival
    Asks,             \* the kinds of side work the turns may ask for, taken together
    Consumers,        \* consumer processes
    MaxWorkAttempts,  \* BullMQ attempts of a side-work job
    MaxFaults,        \* bound: failed steps, crashes and lost locks
    MaxFlips          \* bound: changes of the employee's runtime eligibility

SourceKinds ==
    {"memory_extraction", "style_analysis", "survey_evidence", "profile_hydration"}

ASSUME SideMessagesAssumption == Messages \subseteq Nat \ {0}
ASSUME AsksAssumption == Asks \subseteq [Messages -> SUBSET SourceKinds]
ASSUME SideBoundsAssumption ==
    MaxWorkAttempts \in Nat \ {0} /\ MaxFaults \in Nat /\ MaxFlips \in Nat

VARIABLES
    rows,       \* conversation_dispatch_intents, as <<message, kind>>
    queued,     \* rows with last_queued_at
    completed,  \* rows with completed_at
    applied,    \* how often the result of a row was written to its domain tables
    style,      \* the message whose analysis was merged last into the profile, or 0
    job,        \* BullMQ job per row and slot
    consumer,   \* the local state of each consumer
    dispatch,   \* rows some dispatch loop is about to add or to mark
    scan,       \* the row the scanner is in the middle of
    eligible,   \* isUserRuntimeEligible
    faults,     \* failures injected so far
    flips       \* eligibility changes so far

vars == <<rows, queued, completed, applied, style, job, consumer, dispatch, scan,
          eligible, faults, flips>>
table == <<rows, queued, completed, applied, style>>
budget == <<eligible, faults, flips>>

FollowUp(m) == <<m, "follow_up_execution">>
Items == {i \in Messages \X SourceKinds : \E ask \in Asks : i[2] \in ask[i[1]]}
         \union {FollowUp(m) : m \in Messages}

Jobs == Items \X {"original", "recovery"}
NoJob == [st |-> "absent", made |-> 0]
FreshJob == [st |-> "waiting", made |-> 0]

\* A row, what to do with it next.
DispatchSteps == {"add", "mark"}
ScanSteps == {"inspect", "add", "mark"}

Phases == {"idle", "status", "prepare", "complete", "followUps", "addFollowUp",
           "markFollowUp", "finish"}

\* owns: the lock of the job is still this consumer's.
\* result: the model proposed something to apply.
ConsumerState ==
    [pc : Phases, j : Jobs \union {<<>>}, owns : BOOLEAN, result : BOOLEAN]

Idle == [pc |-> "idle", j |-> <<>>, owns |-> FALSE, result |-> FALSE]

Item(c) == consumer[c].j[1]
Source(c) == Item(c)[1]
Kind(c) == Item(c)[2]
At(c, pc) == consumer[c].pc = pc
Goto(c, pc) == consumer' = [consumer EXCEPT ![c].pc = pc]

\* Rows, jobs and consumers have values the code can give them: only rows that were
\* queued are complete, and a busy consumer knows its job.
TypeOK ==
    /\ rows \subseteq Items
    /\ completed \subseteq queued /\ queued \subseteq rows
    /\ applied \in [Items -> Nat]
    /\ style \in Messages \union {0}
    /\ job \in [Jobs -> [st : {"absent", "waiting", "active", "completed", "failed"},
                         made : Nat]]
    /\ consumer \in [Consumers -> ConsumerState]
    /\ \A c \in Consumers :
        consumer[c].pc # "idle" => consumer[c].j \in Jobs /\ Item(c) \in rows
    /\ dispatch \subseteq rows \X DispatchSteps
    /\ scan \subseteq rows \X ScanSteps
    /\ eligible \in BOOLEAN /\ faults \in 0..MaxFaults /\ flips \in 0..MaxFlips

Init ==
    /\ rows = {} /\ queued = {} /\ completed = {}
    /\ applied = [i \in Items |-> 0]
    /\ style = 0
    /\ job = [j \in Jobs |-> NoJob]
    /\ consumer = [c \in Consumers |-> Idle]
    /\ dispatch = {} /\ scan = {}
    /\ eligible = TRUE /\ faults = 0 /\ flips = 0

Fault == faults < MaxFaults /\ faults' = faults + 1 /\ UNCHANGED <<eligible, flips>>

-----------------------------------------------------------------------------
(* The turn's dispatch loop.                                                *)

\* recordCommittedTurn: the rows of the turn, in a combination with those before it.
CommitTurn(m) ==
    /\ ~ \E i \in rows : i[1] = m
    /\ \E ask \in Asks :
          /\ \A i \in rows : i[2] \in SourceKinds => i[2] \in ask[i[1]]
          /\ rows' = rows \union ({m} \X ask[m])
    /\ UNCHANGED <<queued, completed, applied, style, job, consumer, dispatch, scan, budget>>

\* findUnqueuedCommittedDispatchKinds and -FollowUps, which ask for last_queued_at only.
Unqueued(m) == {i \in rows \ queued : i[1] = m}

\* One loop of a turn at a time: two of them are in ConversationTurn.
LoadDispatch(m) ==
    /\ Unqueued(m) # {}
    /\ ~ \E d \in dispatch : d[1][1] = m
    /\ dispatch' = dispatch \union (Unqueued(m) \X {"add"})
    /\ UNCHANGED <<table, job, consumer, scan, budget>>

\* queue.add with the stable id of the row.
AddOriginal(i) ==
    LET j == <<i, "original">>
    IN  job' = IF job[j].st = "absent" THEN [job EXCEPT ![j] = FreshJob] ELSE job

\* markCommittedDispatchQueued.  A completed row keeps its mark: the guard below
\* lets no row be complete without one.
MarkQueued(i) == queued' = queued \union {i}

DispatchAdd(i) ==
    /\ <<i, "add">> \in dispatch
    /\ AddOriginal(i)
    /\ dispatch' = (dispatch \ {<<i, "add">>}) \union {<<i, "mark">>}
    /\ UNCHANGED <<table, consumer, scan, budget>>

DispatchMark(i) ==
    /\ <<i, "mark">> \in dispatch
    /\ MarkQueued(i)
    /\ dispatch' = dispatch \ {<<i, "mark">>}
    /\ UNCHANGED <<rows, completed, applied, style, job, consumer, scan, budget>>

\* The mark of completed survey evidence has no condition on completed_at, and the
\* guard of the table refuses a mark later than the completion: the loop is aborted.
DispatchMarkRefused(i) ==
    /\ <<i, "mark">> \in dispatch
    /\ i[2] = "survey_evidence" /\ i \in completed
    /\ dispatch' = {d \in dispatch : d[1][1] # i[1]}
    /\ UNCHANGED <<table, job, consumer, scan, budget>>

\* The worker dies or a call throws: the rest of the loop is not run.
DispatchAborts(m) ==
    /\ \E d \in dispatch : d[1][1] = m
    /\ Fault
    /\ dispatch' = {d \in dispatch : d[1][1] # m}
    /\ UNCHANGED <<table, job, consumer, scan>>

-----------------------------------------------------------------------------
(* The queues.                                                              *)

Fetch(c, j) ==
    /\ At(c, "idle")
    /\ job[j].st = "waiting" /\ j[1][2] \in SourceKinds
    /\ job' = [job EXCEPT ![j].st = "active"]
    /\ consumer' = [consumer EXCEPT ![c] =
            [pc |-> "status", j |-> j, owns |-> TRUE, result |-> FALSE]]
    /\ UNCHANGED <<table, dispatch, scan, budget>>

\* Mutated Finished: a recovery job that used up its attempts is kept.
FinishedKept(j, st) == [job[j] EXCEPT !.st = st]

\* Recovery jobs are removed when they complete or fail for good, originals are kept.
Finished(j, st) == IF j[2] = "recovery" THEN NoJob ELSE [job[j] EXCEPT !.st = st]

FinishJob(c) ==
    LET j == consumer[c].j
    IN  /\ At(c, "finish")
        /\ job' = IF consumer[c].owns
                  THEN [job EXCEPT ![j] = Finished(j, "completed")] ELSE job
        /\ consumer' = [consumer EXCEPT ![c] = Idle]
        /\ UNCHANGED <<table, dispatch, scan, budget>>

\* The processor threw: back to waiting, or failed when the attempts are used up.
FailAttempt(c) ==
    LET j == consumer[c].j
        n == job[j].made + 1
    IN  /\ job' = IF ~consumer[c].owns THEN job
                  ELSE [job EXCEPT ![j] =
                        IF n >= MaxWorkAttempts THEN Finished(j, "failed")
                        ELSE [st |-> "waiting", made |-> n]]
        /\ consumer' = [consumer EXCEPT ![c] = Idle]

\* A call of the consumer throws.
AttemptFails(c) ==
    /\ consumer[c].pc \notin {"idle", "finish"}
    /\ Fault
    /\ FailAttempt(c)
    /\ UNCHANGED <<table, dispatch, scan>>

CrashConsumer(c) ==
    /\ ~At(c, "idle")
    /\ Fault
    /\ consumer' = [consumer EXCEPT ![c] = Idle]
    /\ UNCHANGED <<table, job, dispatch, scan>>

\* The stalled-job check gives the job of a dead consumer to the next one, or fails it
\* when it stalled too often; the count is left out, so any stall may be the last.
ReclaimJob(j) ==
    /\ job[j].st = "active"
    /\ ~ \E c \in Consumers : consumer[c].j = j /\ consumer[c].owns
    /\ \/ job' = [job EXCEPT ![j].st = "waiting"]
       \/ job' = [job EXCEPT ![j] = Finished(j, "failed")]
    /\ UNCHANGED <<table, consumer, dispatch, scan, budget>>

\* A consumer could not renew its lock in time: it runs on without the job.
LoseLock(c) ==
    /\ consumer[c].owns
    /\ Fault
    /\ consumer' = [consumer EXCEPT ![c].owns = FALSE]
    /\ UNCHANGED <<table, job, dispatch, scan>>

EvictJob(j) ==
    /\ job[j].st \in {"completed", "failed"}
    /\ job' = [job EXCEPT ![j] = NoJob]
    /\ UNCHANGED <<table, consumer, dispatch, scan, budget>>

-----------------------------------------------------------------------------
(* The consumers.                                                           *)

AfterWork(c) == IF Kind(c) = "memory_extraction" THEN "followUps" ELSE "finish"

\* status / isCommitted...Complete: the first look at the row, without a lock.
ReadStatus(c) ==
    /\ At(c, "status")
    /\ Goto(c, IF Item(c) \in completed THEN AfterWork(c) ELSE "prepare")
    /\ UNCHANGED <<table, job, dispatch, scan, budget>>

\* The model or profile lookup, outside any transaction; it may find nothing to apply.
Prepare(c) ==
    /\ At(c, "prepare")
    /\ \E found \in BOOLEAN :
        consumer' = [consumer EXCEPT ![c].pc = "complete", ![c].result = found]
    /\ UNCHANGED <<table, job, dispatch, scan, budget>>

\* Mutated NewerStyleCompleted: the order of the messages is not looked at.
NewerStyleIgnored(m) == FALSE

NewerStyleCompleted(m) ==
    \E n \in Messages : n > m /\ <<n, "style_analysis">> \in completed

SetsMark(kind) == kind \in {"memory_extraction", "survey_evidence"}

\* Mutated Refused: the guard does not look at last_queued_at.
NeverRefused(i) == FALSE

\* conversation_dispatch_intent_guard refuses every update that leaves last_queued_at
\* empty, so a row whose job ran ahead of its mark cannot be completed yet.
Refused(i) == i \notin queued /\ ~SetsMark(i[2])

\* complete / completeCommitted...: one transaction under the row lock (style adds a
\* lock per employee).  Memory and evidence also set an empty last_queued_at; memory
\* stages the follow-ups it found.
CompleteWork(c) ==
    LET i == Item(c)
        writes == consumer[c].result
                  /\ (Kind(c) = "style_analysis" => ~NewerStyleCompleted(Source(c)))
    IN  /\ At(c, "complete")
        /\ i \in completed \/ ~Refused(i)
        /\ IF i \in completed
           THEN UNCHANGED table
           ELSE /\ completed' = completed \union {i}
                /\ applied' = IF writes THEN [applied EXCEPT ![i] = @ + 1] ELSE applied
                /\ style' = IF writes /\ Kind(c) = "style_analysis" THEN Source(c) ELSE style
                /\ queued' = IF SetsMark(Kind(c)) THEN queued \union {i} ELSE queued
                /\ \E staged \in {{}, {FollowUp(Source(c))}} :
                    /\ staged # {} => writes /\ Kind(c) = "memory_extraction"
                    /\ rows' = rows \union staged
        /\ Goto(c, AfterWork(c))
        /\ UNCHANGED <<job, dispatch, scan, budget>>

\* Mutated CompleteRefused: the result is written outside the transaction.
CompleteRefusedLate(c) ==
    /\ At(c, "complete")
    /\ Item(c) \notin completed /\ Refused(Item(c))
    /\ applied' = IF consumer[c].result THEN [applied EXCEPT ![Item(c)] = @ + 1] ELSE applied
    /\ FailAttempt(c)
    /\ UNCHANGED <<rows, queued, completed, style, dispatch, scan, budget>>

\* The guard refuses the update: the transaction is rolled back, the attempt fails.
CompleteRefused(c) ==
    /\ At(c, "complete")
    /\ Item(c) \notin completed /\ Refused(Item(c))
    /\ FailAttempt(c)
    /\ UNCHANGED <<table, dispatch, scan, budget>>

\* MemoryExtractionProcessor hands over the follow-ups nobody has queued, those of an
\* earlier attempt included.
LoadFollowUps(c) ==
    /\ At(c, "followUps")
    /\ Goto(c, IF FollowUp(Source(c)) \in rows \ queued THEN "addFollowUp" ELSE "finish")
    /\ UNCHANGED <<table, job, dispatch, scan, budget>>

AddFollowUp(c) ==
    /\ At(c, "addFollowUp")
    /\ AddOriginal(FollowUp(Source(c)))
    /\ Goto(c, "markFollowUp")
    /\ UNCHANGED <<table, dispatch, scan, budget>>

MarkFollowUp(c) ==
    /\ At(c, "markFollowUp")
    /\ MarkQueued(FollowUp(Source(c)))
    /\ Goto(c, "finish")
    /\ UNCHANGED <<rows, completed, applied, style, job, dispatch, scan, budget>>

-----------------------------------------------------------------------------
(* The scanner's lists of side work.                                        *)

\* findRecoverableSourceIntents.
Recoverable(i) == i[2] \in SourceKinds /\ i \in queued \ completed

ScanPick(i) ==
    /\ scan = {} /\ Recoverable(i)
    /\ scan' = {<<i, "inspect">>}
    /\ UNCHANGED <<table, job, consumer, dispatch, budget>>

\* An inactive employee's row is left for a later scan, and so is one whose original
\* job may still run.
ScanInspect(i) ==
    /\ <<i, "inspect">> \in scan
    /\ scan' = IF eligible /\ job[<<i, "original">>].st \notin {"waiting", "active"}
               THEN {<<i, "add">>} ELSE {}
    /\ UNCHANGED <<table, job, consumer, dispatch, budget>>

ScanAdd(i) ==
    LET j == <<i, "recovery">>
    IN  /\ <<i, "add">> \in scan
        /\ job' = IF job[j].st = "absent" THEN [job EXCEPT ![j] = FreshJob] ELSE job
        /\ scan' = {<<i, "mark">>}
        /\ UNCHANGED <<table, consumer, dispatch, budget>>

ScanMark(i) ==
    /\ <<i, "mark">> \in scan
    /\ MarkQueued(i)
    /\ scan' = {}
    /\ UNCHANGED <<rows, completed, applied, style, job, consumer, dispatch, budget>>

ScanAborts ==
    /\ scan # {}
    /\ Fault
    /\ scan' = {}
    /\ UNCHANGED <<table, job, consumer, dispatch>>

FlipEligibility ==
    /\ flips < MaxFlips
    /\ flips' = flips + 1 /\ eligible' = ~eligible
    /\ UNCHANGED <<table, job, consumer, dispatch, scan, faults>>

-----------------------------------------------------------------------------
DispatchRuns(i) == DispatchAdd(i) \/ DispatchMark(i) \/ DispatchMarkRefused(i)
ScanActs(i) == ScanInspect(i) \/ ScanAdd(i) \/ ScanMark(i)

ConsumerRuns(c) ==
    \/ ReadStatus(c) \/ Prepare(c) \/ CompleteWork(c) \/ CompleteRefused(c)
    \/ LoadFollowUps(c) \/ AddFollowUp(c) \/ MarkFollowUp(c) \/ FinishJob(c)

Next ==
    \/ \E m \in Messages : CommitTurn(m) \/ LoadDispatch(m) \/ DispatchAborts(m)
    \/ \E i \in Items : DispatchRuns(i) \/ ScanPick(i) \/ ScanActs(i)
    \/ \E c \in Consumers :
        \/ \E j \in Jobs : Fetch(c, j)
        \/ ConsumerRuns(c) \/ AttemptFails(c) \/ CrashConsumer(c) \/ LoseLock(c)
    \/ \E j \in Jobs : ReclaimJob(j) \/ EvictJob(j)
    \/ ScanAborts \/ FlipEligibility

Spec == Init /\ [][Next]_vars

\* A dispatch loop and a consumer finish the calls they started; the scanner comes
\* back to every row it lists, and to every turn with an unqueued row while the
\* employee is eligible; BullMQ hands out waiting jobs and reclaims those of the dead.
Fairness ==
    /\ \A m \in Messages : SF_vars(eligible /\ LoadDispatch(m))
    /\ \A i \in Items :
        WF_vars(DispatchRuns(i)) /\ SF_vars(ScanPick(i)) /\ WF_vars(ScanActs(i))
    /\ \A j \in Jobs :
        SF_vars(\E c \in Consumers : Fetch(c, j)) /\ WF_vars(ReclaimJob(j))
    /\ \A c \in Consumers : WF_vars(ConsumerRuns(c))

FairSpec == Spec /\ Fairness

-----------------------------------------------------------------------------
(* Properties.                                                              *)

\* The result of a turn is applied to its domain tables at most once, although the
\* original and a recovery job, or a consumer without its lock, may all have a result
\* for the same row in hand.
WorkAppliedOnce ==
    \A i \in Items : applied[i] <= 1 /\ (applied[i] = 1 => i \in completed)

\* The style profile never takes in an older message after a newer one, in whatever
\* order the analyses finish.
StyleMovesForward == [][style' >= style]_style

RowSettled(i) == i \in IF i[2] \in SourceKinds THEN completed ELSE queued

\* Side work of a committed turn is completed in the end, and a follow-up that memory
\* extraction staged is handed to its queue, although the job, its consumer or the
\* dispatcher may be lost in between, unless the employee is inactive.
WorkIsSettled == \A i \in Items : i \in rows ~> RowSettled(i) \/ ~eligible
=============================================================================
