---------------------------- MODULE SideWorkProofs ----------------------------
(***************************************************************************)
(* Theorems about SideWork: its types, that the result of a turn is        *)
(* applied once, and that a style profile never goes back to an older      *)
(* message, for any number of turns, consumers, attempts and failures.     *)
(***************************************************************************)
EXTENDS SideWork, TLAPS

JobRecord == [st : {"absent", "waiting", "active", "completed", "failed"}, made : Nat]

\* The types, in the parts the actions touch, and what keeps them: only rows have jobs,
\* and a consumer hands over only follow-ups that have a row.
RowInv ==
    /\ rows \subseteq Items
    /\ completed \subseteq queued /\ queued \subseteq rows
    /\ applied \in [Items -> Nat]
    /\ style \in Messages \union {0}

JobInv ==
    /\ job \in [Jobs -> JobRecord]
    /\ \A j \in Jobs : job[j].st # "absent" => j[1] \in rows

ConsumerInv ==
    /\ consumer \in [Consumers -> ConsumerState]
    /\ \A c \in Consumers :
        /\ consumer[c].pc # "idle" => consumer[c].j \in Jobs /\ Item(c) \in rows
        /\ consumer[c].pc \in {"addFollowUp", "markFollowUp"} => FollowUp(Source(c)) \in rows

LoopInv ==
    /\ dispatch \subseteq rows \X DispatchSteps
    /\ scan \subseteq rows \X ScanSteps
    /\ eligible \in BOOLEAN /\ faults \in 0..MaxFaults /\ flips \in 0..MaxFlips

Types == RowInv /\ JobInv /\ ConsumerInv /\ LoopInv

\* The profile holds a completed analysis.
StyleIsDone == style # 0 => <<style, "style_analysis">> \in completed

ResultInv == WorkAppliedOnce /\ StyleIsDone

-----------------------------------------------------------------------------
(* What the building blocks of the actions keep.                            *)

LEMMA ItemParts ==
  ASSUME NEW i \in Items
  PROVE  /\ i[1] \in Messages
         /\ i = <<i[1], i[2]>>
         /\ FollowUp(i[1]) \in Items
  BY DEF Items, FollowUp

LEMMA JobUpdate ==
  ASSUME JobInv, rows \subseteq rows', NEW j \in Jobs, NEW r \in JobRecord,
         job' = [job EXCEPT ![j] = r],
         r.st # "absent" => j[1] \in rows'
  PROVE  JobInv'
  BY DEF JobInv

LEMMA JobsKept == ASSUME JobInv, rows \subseteq rows', job' = job PROVE JobInv'
  BY DEF JobInv

LEMMA JobValues ==
  /\ NoJob \in JobRecord /\ NoJob.st = "absent"
  /\ FreshJob \in JobRecord
  BY DEF NoJob, FreshJob, JobRecord

LEMMA AddKeepsJobs ==
  ASSUME JobInv, rows \subseteq rows', NEW j \in Jobs, j[1] \in rows',
         job' = IF job[j].st = "absent" THEN [job EXCEPT ![j] = FreshJob] ELSE job
  PROVE  JobInv'
  BY JobUpdate, JobsKept, JobValues

\* A job that is there changes its state.
LEMMA StateUpdate ==
  ASSUME JobInv, rows \subseteq rows', NEW j \in Jobs, job[j].st # "absent",
         NEW st \in {"waiting", "active", "completed", "failed"},
         \/ job' = [job EXCEPT ![j].st = st]
         \/ job' = [job EXCEPT ![j] = Finished(j, st)]
  PROVE  JobInv'
  <1>1. j[1] \in rows'
    BY DEF JobInv
  <1>2. [job[j] EXCEPT !.st = st] \in JobRecord
    BY DEF JobInv, JobRecord
  <1>3. Finished(j, st) \in JobRecord
    BY <1>2, JobValues DEF Finished
  <1>4. job' = [job EXCEPT ![j] = [job[j] EXCEPT !.st = st]]
        \/ job' = [job EXCEPT ![j] = Finished(j, st)]
    OBVIOUS
  <1> QED BY <1>1, <1>2, <1>3, <1>4, JobUpdate

LEMMA ConsumersKept ==
  ASSUME ConsumerInv, rows \subseteq rows', consumer' = consumer
  PROVE  ConsumerInv'
  BY DEF ConsumerInv, Item, Source

LEMMA GotoKeepsConsumers ==
  ASSUME ConsumerInv, rows \subseteq rows', NEW c \in Consumers, consumer[c].pc # "idle",
         NEW pc \in Phases, Goto(c, pc),
         pc \in {"addFollowUp", "markFollowUp"} => FollowUp(Source(c)) \in rows'
  PROVE  ConsumerInv'
  <1>1. /\ consumer' \in [Consumers -> ConsumerState]
        /\ \A d \in Consumers : consumer'[d].j = consumer[d].j
        /\ \A d \in Consumers \ {c} : consumer'[d] = consumer[d]
        /\ consumer'[c].pc = pc
    BY DEF ConsumerInv, Goto, ConsumerState
  <1> QED BY <1>1 DEF ConsumerInv, Item, Source

LEMMA IdleKeepsConsumers ==
  ASSUME ConsumerInv, rows \subseteq rows', NEW c \in Consumers,
         consumer' = [consumer EXCEPT ![c] = Idle]
  PROVE  ConsumerInv'
  <1>1. Idle \in ConsumerState /\ Idle.pc = "idle"
    BY DEF Idle, ConsumerState, Phases
  <1> QED BY <1>1 DEF ConsumerInv, Item, Source

\* A throwing consumer gives its job back.
LEMMA FailKeepsTypes ==
  ASSUME JobInv, ConsumerInv, UNCHANGED rows, NEW c \in Consumers,
         consumer[c].pc # "idle", FailAttempt(c)
  PROVE  JobInv' /\ ConsumerInv'
  <1> DEFINE j == consumer[c].j
  <1> DEFINE n == job[j].made + 1
  <1> DEFINE r == IF n >= MaxWorkAttempts THEN Finished(j, "failed")
                  ELSE [st |-> "waiting", made |-> n]
  <1>1. j \in Jobs /\ j[1] \in rows'
    BY DEF ConsumerInv, Item
  <1>2. job[j].made \in Nat /\ [job[j] EXCEPT !.st = "failed"] \in JobRecord
    BY <1>1 DEF JobInv, JobRecord
  <1>3. r \in JobRecord
    BY <1>2, JobValues DEF Finished, JobRecord
  <1>4. job' = job \/ job' = [job EXCEPT ![j] = r]
    BY DEF FailAttempt
  <1>5. JobInv'
    BY <1>1, <1>3, <1>4, JobUpdate, JobsKept
  <1> QED BY <1>5, IdleKeepsConsumers DEF FailAttempt

LEMMA LoopsKept ==
  ASSUME LoopInv, rows \subseteq rows', dispatch' \subseteq dispatch, scan' \subseteq scan,
         Fault \/ UNCHANGED budget
  PROVE  LoopInv'
  BY SideBoundsAssumption DEF LoopInv, Fault, budget

-----------------------------------------------------------------------------
(* Types.                                                                   *)

LEMMA InitialTypes == Init => Types
  <1> SUFFICES ASSUME Init PROVE Types
    OBVIOUS
  <1>1. RowInv /\ LoopInv
    BY SideBoundsAssumption DEF Init, RowInv, LoopInv
  <1>2. JobInv
    BY JobValues DEF Init, JobInv
  <1>3. ConsumerInv
    BY DEF Init, ConsumerInv, Idle, ConsumerState, Phases
  <1> QED BY <1>1, <1>2, <1>3 DEF Types

LEMMA DispatchTypes ==
  ASSUME Types, NEW m \in Messages,
         CommitTurn(m) \/ LoadDispatch(m) \/ DispatchAborts(m)
  PROVE  Types'
  <1>1. CASE CommitTurn(m)
    <2>1. PICK ask \in Asks : rows' = rows \union ({m} \X ask[m])
      BY <1>1 DEF CommitTurn
    <2>2. \A k \in ask[m] : <<m, k>> \in Items
      BY AsksAssumption DEF Items
    <2>3. rows \subseteq rows' /\ rows' \subseteq Items
      BY <2>1, <2>2 DEF Types, RowInv
    <2>4. RowInv'
      BY <1>1, <2>3 DEF CommitTurn, Types, RowInv
    <2> QED BY <1>1, <2>3, <2>4, JobsKept, ConsumersKept, LoopsKept DEF CommitTurn, Types
  <1>2. CASE LoadDispatch(m)
    <2>1. Unqueued(m) \X {"add"} \subseteq rows \X DispatchSteps
      BY DEF Unqueued, DispatchSteps
    <2>2. UNCHANGED rows /\ LoopInv'
      BY <1>2, <2>1 DEF LoadDispatch, Types, LoopInv, table, budget
    <2> QED BY <1>2, <2>2, JobsKept, ConsumersKept DEF LoadDispatch, table, Types, RowInv
  <1>3. CASE DispatchAborts(m)
    <2>1. UNCHANGED table /\ dispatch' \subseteq dispatch /\ scan' = scan
      BY <1>3 DEF DispatchAborts
    <2>2. UNCHANGED rows
      BY <2>1 DEF table
    <2> QED BY <1>3, <2>1, <2>2, JobsKept, ConsumersKept, LoopsKept
            DEF DispatchAborts, table, Types, RowInv
  <1> QED BY <1>1, <1>2, <1>3

\* The loops of a dispatcher and of the scanner over one row.
LEMMA LoopTypes ==
  ASSUME Types, NEW i \in Items, DispatchRuns(i) \/ ScanPick(i) \/ ScanActs(i)
  PROVE  Types'
  <1> <<i, "original">> \in Jobs /\ <<i, "recovery">> \in Jobs
    BY DEF Jobs
  <1>1. CASE DispatchAdd(i)
    <2>1. i \in rows /\ UNCHANGED rows /\ <<i, "original">>[1] = i
      BY <1>1 DEF DispatchAdd, Types, LoopInv, table
    <2>2. JobInv'
      BY <1>1, <2>1, AddKeepsJobs DEF DispatchAdd, AddOriginal, Types
    <2>3. LoopInv'
      BY <1>1, <2>1 DEF DispatchAdd, Types, LoopInv, DispatchSteps, budget
    <2> QED BY <1>1, <2>1, <2>2, <2>3, ConsumersKept DEF DispatchAdd, table, Types, RowInv
  <1>2. CASE DispatchMark(i)
    <2>1. i \in rows
      BY <1>2 DEF DispatchMark, Types, LoopInv
    <2>2. RowInv'
      BY <1>2, <2>1 DEF DispatchMark, MarkQueued, Types, RowInv
    <2> QED BY <1>2, <2>2, JobsKept, ConsumersKept, LoopsKept DEF DispatchMark, Types
  <1>3. CASE DispatchMarkRefused(i)
    <2>1. UNCHANGED rows /\ dispatch' \subseteq dispatch
      BY <1>3 DEF DispatchMarkRefused, table
    <2> QED BY <1>3, <2>1, JobsKept, ConsumersKept, LoopsKept
            DEF DispatchMarkRefused, table, Types, RowInv
  <1>4. CASE ScanPick(i)
    <2>1. i \in rows
      BY <1>4 DEF ScanPick, Recoverable, Types, RowInv
    <2>2. UNCHANGED rows /\ LoopInv'
      BY <1>4, <2>1 DEF ScanPick, Types, LoopInv, ScanSteps, table, budget
    <2> QED BY <1>4, <2>2, JobsKept, ConsumersKept DEF ScanPick, table, Types, RowInv
  <1>5. CASE ScanInspect(i)
    <2>1. i \in rows
      BY <1>5 DEF ScanInspect, Types, LoopInv
    <2>2. UNCHANGED rows /\ LoopInv'
      BY <1>5, <2>1 DEF ScanInspect, Types, LoopInv, ScanSteps, table, budget
    <2> QED BY <1>5, <2>2, JobsKept, ConsumersKept DEF ScanInspect, table, Types, RowInv
  <1>6. CASE ScanAdd(i)
    <2>1. i \in rows /\ UNCHANGED rows /\ <<i, "recovery">>[1] = i
      BY <1>6 DEF ScanAdd, Types, LoopInv, table
    <2>2. JobInv'
      BY <1>6, <2>1, AddKeepsJobs DEF ScanAdd, Types
    <2>3. LoopInv'
      BY <1>6, <2>1 DEF ScanAdd, Types, LoopInv, ScanSteps, budget
    <2> QED BY <1>6, <2>1, <2>2, <2>3, ConsumersKept DEF ScanAdd, table, Types, RowInv
  <1>7. CASE ScanMark(i)
    <2>1. i \in rows
      BY <1>7 DEF ScanMark, Types, LoopInv
    <2>2. RowInv'
      BY <1>7, <2>1 DEF ScanMark, MarkQueued, Types, RowInv
    <2> QED BY <1>7, <2>2, JobsKept, ConsumersKept, LoopsKept DEF ScanMark, Types
  <1> QED BY <1>1, <1>2, <1>3, <1>4, <1>5, <1>6, <1>7 DEF DispatchRuns, ScanActs

LEMMA QueueTypes ==
  ASSUME Types, NEW j \in Jobs, ReclaimJob(j) \/ EvictJob(j)
  PROVE  Types'
  <1>1. UNCHANGED table /\ UNCHANGED rows /\ UNCHANGED <<consumer, dispatch, scan, budget>>
    BY DEF ReclaimJob, EvictJob, table
  <1>2. CASE ReclaimJob(j)
    BY <1>1, <1>2, StateUpdate, ConsumersKept, LoopsKept
    DEF ReclaimJob, table, Types, RowInv
  <1>3. CASE EvictJob(j)
    BY <1>1, <1>3, JobUpdate, JobValues, ConsumersKept, LoopsKept
    DEF EvictJob, table, Types, RowInv
  <1> QED BY <1>2, <1>3

LEMMA FetchTypes ==
  ASSUME Types, NEW c \in Consumers, NEW j \in Jobs, Fetch(c, j)
  PROVE  Types'
  <1>1. UNCHANGED table /\ UNCHANGED rows /\ UNCHANGED <<dispatch, scan, budget>>
    BY DEF Fetch, table
  <1>2. JobInv'
    BY <1>1, StateUpdate DEF Fetch, Types
  <1>3. j[1] \in rows
    BY DEF Fetch, Types, JobInv
  <1>4. ConsumerInv'
    BY <1>1, <1>3 DEF Fetch, Types, ConsumerInv, ConsumerState, Phases, Item, Source
  <1> QED BY <1>1, <1>2, <1>4, LoopsKept DEF table, Types, RowInv

LEMMA FaultTypes ==
  ASSUME Types, NEW c \in Consumers,
         AttemptFails(c) \/ CrashConsumer(c) \/ LoseLock(c) \/ CompleteRefused(c)
  PROVE  Types'
  <1>1. /\ UNCHANGED table /\ UNCHANGED rows /\ UNCHANGED <<dispatch, scan>>
        /\ Fault \/ UNCHANGED budget
    BY DEF AttemptFails, CrashConsumer, LoseLock, CompleteRefused, table
  <1>2. JobInv' /\ ConsumerInv'
    <2>1. CASE AttemptFails(c) \/ CompleteRefused(c)
      BY <1>1, <2>1, FailKeepsTypes DEF AttemptFails, CompleteRefused, At, Types
    <2>2. CASE CrashConsumer(c)
      BY <1>1, <2>2, JobsKept, IdleKeepsConsumers DEF CrashConsumer, Types
    <2>3. CASE LoseLock(c)
      <3>1. ConsumerInv'
        BY <1>1, <2>3 DEF LoseLock, Types, ConsumerInv, ConsumerState, Item, Source
      <3> QED BY <1>1, <2>3, <3>1, JobsKept DEF LoseLock, Types
    <2> QED BY <2>1, <2>2, <2>3
  <1> QED BY <1>1, <1>2, LoopsKept DEF table, Types, RowInv

\* What the completion of a row does to the tables.
LEMMA CompleteTables ==
  ASSUME Types, NEW c \in Consumers, CompleteWork(c)
  PROVE  RowInv' /\ rows \subseteq rows'
  <1> DEFINE i == Item(c)
  <1>1. i \in rows /\ i \in Items /\ Source(c) = i[1] /\ Kind(c) = i[2]
    BY DEF CompleteWork, At, Types, ConsumerInv, RowInv, Source, Kind
  <1>2. Source(c) \in Messages /\ FollowUp(Source(c)) \in Items
    BY <1>1, ItemParts
  <1>3. CASE i \in completed
    BY <1>3 DEF CompleteWork, table, Types, RowInv
  <1>4. CASE i \notin completed
    <2>1. completed' = completed \union {i} /\ ~Refused(i)
      BY <1>4 DEF CompleteWork
    <2>2. queued' = IF SetsMark(i[2]) THEN queued \union {i} ELSE queued
      BY <1>1, <1>4 DEF CompleteWork
    <2>3. rows' = rows \/ rows' = rows \union {FollowUp(Source(c))}
      BY <1>4 DEF CompleteWork
    <2>4. completed' \subseteq queued' /\ queued' \subseteq rows'
      BY <1>1, <2>1, <2>2, <2>3 DEF Refused, Types, RowInv
    <2>5. applied' = applied \/ applied' = [applied EXCEPT ![i] = applied[i] + 1]
      BY <1>4 DEF CompleteWork
    <2>6. applied' \in [Items -> Nat]
      BY <1>1, <2>5 DEF Types, RowInv
    <2>7. style' = style \/ style' = Source(c)
      BY <1>4 DEF CompleteWork
    <2> QED BY <1>2, <2>3, <2>4, <2>6, <2>7 DEF Types, RowInv
  <1> QED BY <1>3, <1>4

LEMMA ConsumerTypes ==
  ASSUME Types, NEW c \in Consumers, ConsumerRuns(c)
  PROVE  Types'
  <1> SUFFICES ASSUME ~CompleteRefused(c) PROVE Types'
    BY FaultTypes
  <1>1. UNCHANGED <<dispatch, scan, budget>>
    BY DEF ConsumerRuns, ReadStatus, Prepare, CompleteWork, LoadFollowUps, AddFollowUp,
           MarkFollowUp, FinishJob
  <1>2. AfterWork(c) \in {"followUps", "finish"}
    BY DEF AfterWork
  <1>3. CASE ReadStatus(c)
    <2>1. UNCHANGED table /\ UNCHANGED rows
      BY <1>3 DEF ReadStatus, table
    <2>2. ConsumerInv'
      BY <1>2, <1>3, <2>1, GotoKeepsConsumers DEF ReadStatus, At, Types, Phases
    <2> QED BY <1>1, <1>3, <2>1, <2>2, JobsKept, LoopsKept
            DEF ReadStatus, table, Types, RowInv
  <1>4. CASE Prepare(c)
    <2>1. UNCHANGED table /\ UNCHANGED rows
      BY <1>4 DEF Prepare, table
    <2>2. ConsumerInv'
      <3> PICK found \in BOOLEAN :
            consumer' = [consumer EXCEPT ![c].pc = "complete", ![c].result = found]
        BY <1>4 DEF Prepare
      <3>1. consumer[c] \in ConsumerState /\ consumer[c].pc = "prepare"
        BY <1>4 DEF Prepare, At, Types, ConsumerInv
      <3>2. [consumer[c] EXCEPT !.pc = "complete", !.result = found] \in ConsumerState
        BY <3>1 DEF ConsumerState, Phases
      <3>3. /\ consumer' \in [Consumers -> ConsumerState]
            /\ \A d \in Consumers : consumer'[d].j = consumer[d].j
            /\ \A d \in Consumers \ {c} : consumer'[d] = consumer[d]
            /\ consumer'[c].pc = "complete"
        BY <3>2 DEF Types, ConsumerInv, ConsumerState
      <3> QED BY <2>1, <3>1, <3>3 DEF Types, ConsumerInv, Item, Source
    <2> QED BY <1>1, <1>4, <2>1, <2>2, JobsKept, LoopsKept
            DEF Prepare, table, Types, RowInv
  <1>5. CASE CompleteWork(c)
    <2>1. RowInv' /\ rows \subseteq rows'
      BY <1>5, CompleteTables
    <2>2. ConsumerInv'
      BY <1>2, <1>5, <2>1, GotoKeepsConsumers DEF CompleteWork, At, Types, Phases
    <2> QED BY <1>1, <1>5, <2>1, <2>2, JobsKept, LoopsKept DEF CompleteWork, Types
  <1>6. CASE LoadFollowUps(c)
    <2>1. UNCHANGED table /\ UNCHANGED rows
      BY <1>6 DEF LoadFollowUps, table
    <2>2. ConsumerInv'
      BY <1>6, <2>1, GotoKeepsConsumers DEF LoadFollowUps, At, Types, Phases
    <2> QED BY <1>1, <1>6, <2>1, <2>2, JobsKept, LoopsKept
            DEF LoadFollowUps, table, Types, RowInv
  <1>7. CASE AddFollowUp(c)
    <2> DEFINE i == FollowUp(Source(c))
    <2>1. UNCHANGED table /\ UNCHANGED rows /\ i \in rows /\ i \in Items
      BY <1>7 DEF AddFollowUp, At, table, Types, ConsumerInv, RowInv
    <2>2. JobInv'
      BY <1>7, <2>1, AddKeepsJobs DEF AddFollowUp, AddOriginal, Types, Jobs
    <2>3. ConsumerInv'
      BY <1>7, <2>1, GotoKeepsConsumers DEF AddFollowUp, At, Types, Phases
    <2> QED BY <1>1, <2>1, <2>2, <2>3, LoopsKept DEF table, Types, RowInv
  <1>8. CASE MarkFollowUp(c)
    <2>1. UNCHANGED rows /\ FollowUp(Source(c)) \in rows
      BY <1>8 DEF MarkFollowUp, At, Types, ConsumerInv
    <2>2. RowInv'
      BY <1>8, <2>1 DEF MarkFollowUp, MarkQueued, Types, RowInv
    <2>3. ConsumerInv'
      BY <1>8, <2>1, GotoKeepsConsumers DEF MarkFollowUp, At, Types, Phases
    <2> QED BY <1>1, <1>8, <2>1, <2>2, <2>3, JobsKept, LoopsKept DEF MarkFollowUp, Types
  <1>9. CASE FinishJob(c)
    <2>1. UNCHANGED table /\ UNCHANGED rows
      BY <1>9 DEF FinishJob, table
    <2>2. ConsumerInv'
      BY <1>9, <2>1, IdleKeepsConsumers DEF FinishJob, Types
    <2>3. JobInv'
      <3> DEFINE j == consumer[c].j
      <3>1. j \in Jobs /\ j[1] \in rows'
        BY <1>9, <2>1 DEF FinishJob, At, Types, ConsumerInv, Item
      <3>2. [job[j] EXCEPT !.st = "completed"] \in JobRecord
        BY <3>1 DEF Types, JobInv, JobRecord
      <3>3. Finished(j, "completed") \in JobRecord
        BY <3>2, JobValues DEF Finished
      <3> QED BY <1>9, <2>1, <3>1, <3>3, JobUpdate, JobsKept DEF FinishJob, Types
    <2> QED BY <1>1, <2>1, <2>2, <2>3, LoopsKept DEF table, Types, RowInv
  <1> QED BY <1>3, <1>4, <1>5, <1>6, <1>7, <1>8, <1>9 DEF ConsumerRuns

LEMMA NextTypes == ASSUME Types, [Next]_vars PROVE Types'
  <1>1. CASE ScanAborts
    <2>1. UNCHANGED table /\ UNCHANGED rows /\ scan' \subseteq scan
      BY <1>1 DEF ScanAborts, table
    <2> QED BY <1>1, <2>1, JobsKept, ConsumersKept, LoopsKept
            DEF ScanAborts, table, Types, RowInv
  <1>2. CASE FlipEligibility
    <2>1. UNCHANGED table /\ UNCHANGED rows
      BY <1>2 DEF FlipEligibility, table
    <2>2. LoopInv'
      BY <1>2, <2>1, SideBoundsAssumption DEF FlipEligibility, Types, LoopInv
    <2> QED BY <1>2, <2>1, <2>2, JobsKept, ConsumersKept
            DEF FlipEligibility, table, Types, RowInv
  <1>3. CASE UNCHANGED vars
    BY <1>3, JobsKept, ConsumersKept, LoopsKept
    DEF vars, table, budget, Types, RowInv
  <1> QED BY <1>1, <1>2, <1>3, DispatchTypes, LoopTypes, QueueTypes, FetchTypes,
             ConsumerTypes, FaultTypes DEF Next

LEMMA TypesImplyTypeOK == Types => TypeOK
  BY DEF Types, RowInv, JobInv, JobRecord, ConsumerInv, LoopInv, TypeOK

\* The side work keeps its types; in particular only rows that were queued are complete.
THEOREM SideWorkTypes == Spec => []TypeOK
  <1>1. Spec => []Types
    BY InitialTypes, NextTypes, PTL DEF Spec
  <1> QED BY <1>1, TypesImplyTypeOK, PTL

-----------------------------------------------------------------------------
(* Results.                                                                 *)

\* Only the completion of a row writes a result.
LEMMA CompleteResults ==
  ASSUME Types, ResultInv, NEW c \in Consumers, CompleteWork(c)
  PROVE  ResultInv' /\ style' >= style
  <1> DEFINE i == Item(c)
  <1>1. i \in Items /\ Source(c) = i[1] /\ Kind(c) = i[2]
    BY DEF CompleteWork, At, Types, ConsumerInv, RowInv, Source, Kind
  <1>2. Source(c) \in Messages /\ i = <<i[1], i[2]>>
    BY <1>1, ItemParts
  <1>3. style \in Nat
    BY SideMessagesAssumption DEF Types, RowInv
  <1>4. CASE i \in completed
    <2>1. UNCHANGED <<applied, completed, style>>
      BY <1>4 DEF CompleteWork, table
    <2> QED BY <1>3, <2>1 DEF ResultInv, WorkAppliedOnce, StyleIsDone
  <1>5. CASE i \notin completed
    <2>1. completed' = completed \union {i}
      BY <1>5 DEF CompleteWork
    <2>2. applied[i] = 0
      BY <1>1, <1>5 DEF Types, RowInv, ResultInv, WorkAppliedOnce
    <2>3. applied' = applied \/ applied' = [applied EXCEPT ![i] = applied[i] + 1]
      BY <1>5 DEF CompleteWork
    <2>4. WorkAppliedOnce'
      BY <1>1, <2>1, <2>2, <2>3 DEF Types, RowInv, ResultInv, WorkAppliedOnce
    <2>5. CASE style' = style
      BY <1>3, <2>1, <2>4, <2>5 DEF ResultInv, StyleIsDone
    <2>6. CASE style' # style
      <3>1. /\ style' = Source(c) /\ Kind(c) = "style_analysis"
            /\ ~NewerStyleCompleted(Source(c))
        BY <1>5, <2>6 DEF CompleteWork
      <3>2. StyleIsDone'
        BY <1>1, <1>2, <2>1, <3>1 DEF StyleIsDone
      <3>3. Source(c) \in Nat
        BY <1>2, SideMessagesAssumption
      <3>4. style # 0 => style \in Messages /\ ~(style > Source(c))
        BY <3>1 DEF NewerStyleCompleted, Types, RowInv, ResultInv, StyleIsDone
      <3>5. style' >= style
        BY <1>3, <3>1, <3>3, <3>4
      <3> QED BY <2>4, <3>2, <3>5 DEF ResultInv
    <2> QED BY <2>5, <2>6
  <1> QED BY <1>4, <1>5

LEMMA NextResults ==
  ASSUME Types, ResultInv, [Next]_vars
  PROVE  ResultInv' /\ [style' >= style]_style
  <1>1. ASSUME UNCHANGED <<applied, completed, style>>
        PROVE  ResultInv' /\ [style' >= style]_style
    BY <1>1 DEF ResultInv, WorkAppliedOnce, StyleIsDone
  <1>2. ASSUME NEW m \in Messages, CommitTurn(m) \/ LoadDispatch(m) \/ DispatchAborts(m)
        PROVE  UNCHANGED <<applied, completed, style>>
    BY <1>2 DEF CommitTurn, LoadDispatch, DispatchAborts, table
  <1>3. ASSUME NEW i \in Items, DispatchRuns(i) \/ ScanPick(i) \/ ScanActs(i)
        PROVE  UNCHANGED <<applied, completed, style>>
    BY <1>3 DEF DispatchRuns, DispatchAdd, DispatchMark, DispatchMarkRefused, ScanPick,
                ScanActs, ScanInspect, ScanAdd, ScanMark, table
  <1>4. ASSUME NEW c \in Consumers, NEW j \in Jobs, Fetch(c, j)
        PROVE  UNCHANGED <<applied, completed, style>>
    BY <1>4 DEF Fetch, table
  <1>5. ASSUME NEW c \in Consumers, ConsumerRuns(c), ~CompleteWork(c)
        PROVE  UNCHANGED <<applied, completed, style>>
    BY <1>5 DEF ConsumerRuns, ReadStatus, Prepare, CompleteRefused, LoadFollowUps,
                AddFollowUp, MarkFollowUp, FinishJob, table
  <1>6. ASSUME NEW c \in Consumers, AttemptFails(c) \/ CrashConsumer(c) \/ LoseLock(c)
        PROVE  UNCHANGED <<applied, completed, style>>
    BY <1>6 DEF AttemptFails, CrashConsumer, LoseLock, table
  <1>7. ASSUME NEW j \in Jobs, ReclaimJob(j) \/ EvictJob(j)
        PROVE  UNCHANGED <<applied, completed, style>>
    BY <1>7 DEF ReclaimJob, EvictJob, table
  <1>8. CASE ScanAborts \/ FlipEligibility \/ UNCHANGED vars
    <2>1. UNCHANGED <<applied, completed, style>>
      BY <1>8 DEF ScanAborts, FlipEligibility, vars, table
    <2> QED BY <1>1, <2>1
  <1>9. ASSUME NEW c \in Consumers, CompleteWork(c)
        PROVE  ResultInv' /\ [style' >= style]_style
    BY <1>9, CompleteResults
  <1> QED BY <1>1, <1>2, <1>3, <1>4, <1>5, <1>6, <1>7, <1>8, <1>9 DEF Next

LEMMA InitialResults == Init => ResultInv
  BY DEF Init, ResultInv, WorkAppliedOnce, StyleIsDone

\* The result of a turn is applied once, whatever jobs, retries and consumers without
\* their lock have it in hand.
THEOREM WorkIsAppliedOnce == Spec => []WorkAppliedOnce
  <1>1. ResultInv => WorkAppliedOnce
    BY DEF ResultInv
  <1> QED BY <1>1, InitialTypes, NextTypes, InitialResults, NextResults, PTL DEF Spec

\* A style profile never takes in an older message after a newer one.
THEOREM StyleNeverGoesBack == Spec => StyleMovesForward
  BY InitialTypes, NextTypes, InitialResults, NextResults, PTL DEF Spec, StyleMovesForward
=============================================================================
