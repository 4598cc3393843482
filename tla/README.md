# Verification of the conversation pipeline, onboarding, question insights and the hierarchy

entallent-v2 talks to employees over Slack: an API process admits inbound
messages, BullMQ workers answer them with a model, post the answers and do the
work that follows from a turn, and a five-minute scanner repairs what crashed.
Everything that must survive is a row in PostgreSQL; everything that moves is a
BullMQ job that may run twice, late, or never. Whom it talks to comes from a
company hierarchy that administrators draft, roll out and change; a person is
onboarded by messages with buttons; and what employees answer about a topic is
collected, shown back, confirmed and reported.

The project models these four: what a turn promises, how the conversation worker
keeps the promise, how a reply is posted once and side work done once; the
onboarding of one person; the life of the insights of one topic; and the company
structure from its first draft to its last change.

Contents: [inventory](#inventory), [modules](#modules-and-the-code),
[runs](#runs), [fairness](#fairness), [findings](#findings), [proofs](#proofs),
[abstractions](#abstractions), [not modelled](#not-modelled), [plan](#plan).

## Inventory

Paths are relative to `src/`. "Hard" says what a test would hardly reach.

| component | state | operations | interacts with | hard |
|---|---|---|---|---|
| Slack ingestion (`apps/api/src/channel`) | Redis event ids, `messages`, `conversation_job_admissions` | claim event id, save message and admission in one transaction, add conversation job, mark admission queued | Slack (redelivers), conversation queue | dies between the four steps; the controller swallows errors, so Slack does not redeliver |
| Conversation queue and worker (`apps/worker/src/conversation/conversation.processor.ts`) | BullMQ jobs `conversation-<id>`, `conversation-recovery-<id>-<gen>`, `receipt-<id>`; `conversation_job_receipts` | read pending question, resume a committed turn, skip an inactive employee, coalesce with a newer message, run the model turn, fall back on the last attempt, store the receipt, expire insights | store, scanner, model, senders | two workers on one message, lost locks, stalls, exhausted attempts |
| Turn commit and dispatch (`conversation-orchestrator.ts`, `conversation.repository.ts`, `outbox.service.ts`) | `conversation_turn_effects`, `conversation_dispatch_intents` | commit turn and intents in one transaction; add a job per intent and mark it queued | all queues | crash between commit, add and mark; database guards that refuse updates |
| Reply delivery (`message-send.processor.ts`) | `conversation_message_send_attempts`, `messages.sent_at`, prompt activation | claim, post, record, activate | Slack, scanner, dead-letter endpoint | Slack accepts and the call fails; crash after the claim |
| Recovery scanner (`question-cutoff.processor.ts`) | none of its own | requeue turns with unqueued intents, recover unstarted sends and unfinished side work, finish timely question replies, cut off question windows | every queue and table above | races with the worker it repairs |
| Side-work consumers (`memory`, `style`, `profile`, `survey`) | `completed_at` of an intent, memory, style profile, evidence, profile | look up, call a model, apply the result and complete the intent in one transaction; memory stages follow-ups | scanner, dispatcher | results out of order, consumer faster than the dispatcher's mark |
| Dead-letter endpoints (`admin/queues.controller.ts`) | failed jobs | retry | all queues | replay of what was already done |
| Question insight lifecycle (`question-insight.repository.ts`, `survey-evidence.use-case.ts`, `finalize-question-insight.use-case.ts`) | working rows per question, confirmation bundles, verdict receipts, insights | capture evidence, show a bundle, take a verdict, clarify a disputed statement, finalize, cut off | conversation worker, evidence consumer, senders, scanner | a turn acts on meanings read minutes ago; evidence jobs out of order; two finalizers; the end of the window |
| Survey and reporting cycles | cycles, windows, scores | open, close, report | question insights | run by operators, one at a time |
| Group reports, follow-up execution, proactive scheduler, check-ins, Pulse backlog | scheduled actions, group states, reports | claim, execute, reschedule | untracked sends | resends after a partial failure |
| Onboarding (`onboarding-state.ts`, `apps/worker/src/onboarding`) | `onboarding_states` (track, participation, intro, buttons, reminder), reminder and action jobs | clicks, turns, role changes, deactivation, delivered intros, reminders, two sweeps, restart by an administrator | Slack interactions, conversation turns, hierarchy events, senders | effects that run after the commit are lost in a crash; stale reminders; role events out of order; old buttons; a restart under what waits for the row |
| Company hierarchy (`apps/api/src/hierarchy`, `packages/application/src/hierarchy`) | people, units, teams, placements, advisory scopes, Slack links, first contacts | draft, import, link, scope, roll out, move, promote, close, transfer, deactivate | users, onboarding | drafts refer to rows that changed since; one operation changes eight tables; unit and team creation run outside serializable isolation |
| Runtime ledger, fallback barrier, MAF client | attempts and phases | transition, seal | no module registers them | nothing reaches them |
| Company auth, admin, retention, audit, dashboard, feature flags, AI providers, adapters, contracts | rows of their own | CRUD, OIDC, circuit breaker | - | mostly single-row writes |

What makes each of the modelled ones correct:

- *Turn*: one final answer per admitted message; work is handed over only if the
  turn lists it, and marked only after it was handed over; a receipt means nothing
  is left to do; a timely answer to a confirmation finds its bundle.
- *Reply*: posted at most once; `sent_at` and activation tell the truth; a
  committed reply is attempted in the end.
- *Side work*: a result is applied once and together with `completed_at`; a style
  profile never goes back; work is completed in the end.
- *Onboarding*: the row stays within the database's CHECK constraints; proactive
  contact follows the person's choice; no reminder after it; answered buttons stay
  answered; track and reminder catch up after a loss.
- *Question insight*: one bundle waits at a time and shows what its rows say; only
  what was shown is confirmed and reported; a confirmed statement is not lost; a
  closed question is reopened only by a newer message; copies of private text go
  with their last use.
- *Hierarchy*: the active structure is one the planners accept after every
  operation; advisory scopes and first contacts follow the people and units they
  are about; who left does not come back.

## Modules and the code

```
TurnOutcome                      what a turn promises (abstract)
TurnStore                        rows shared by the three processes, faults
  ConversationTurn               ingestion tail, queue, workers, scanner's repairs
  MessageSend                    send queue, senders, scanner's send recovery
    ReplySending                 MessageSend with a minimal conversation worker
  TurnPipeline                   ConversationTurn and MessageSend over one store
SideWork                         side-work rows, consumers, scanner's four lists
OnboardingState                  decisions of onboarding-state.ts as operators
  Onboarding                     the row, its jobs, senders, sweeps
QuestionInsight                  one topic: rows, bundles, turns, finalizers, cutoff
HierarchyGraph                   planners over a snapshot, as operators
  Hierarchy                      drafts, rollout and changes as transactions
TurnStoreProofs, ConversationTurnProofs, MessageSendProofs,
TurnPipelineProofs, SideWorkProofs, OnboardingProofs,
QuestionInsightProofs, HierarchyProofs                   theorems
MCConversationTurn, MCReplySending, MCTurnPipeline, MCSideWork,
MCOnboarding, MCQuestionInsight, MCHierarchy             instances
```

**TurnOutcome** is the abstract specification: `Answer` once per message, `HandOver`
only listed work, `SettleWork` only handed-over work. `ConversationTurn` (with
`handed <- added`), `ReplySending` and `TurnPipeline` (with `WorkHanded`, where a
recovery job counts) implement it.

**TurnStore**. `effect[m]` is the row of `conversation_turn_effects` (the text that
was committed), `intent[m][k]` a row of `conversation_dispatch_intents` (absent,
`last_queued_at` null, set), `added[m]` the downstream jobs ever added,
`eligible` what `isUserRuntimeEligible` reads. Failures of any call, crashes and
missed lock renewals draw on one budget, `faults`.

**ConversationTurn**. `wk[w]` is the local state of one run of
`ConversationProcessor.process`: its program counter, the job, what it read
(`question`, `final`), the intents its dispatch loop loaded. Each database or
queue call is an action, in the order of the code: `ReadPendingQuestion`
(l.129), `ResumeCommittedTurn`, `CheckEligible`, `Coalesce`, `Generate`,
`CommitTurn`/`VerdictRejected`, `LoadDispatch`, `EnqueueNext`, `MarkQueued`,
`DispatchDone`, `Settle`, `ExpireInsights`, `QueueReceiptRetry`, `FinishJob`;
`StepFails` takes the path of the surrounding `try`, which is the fallback turn
on a last attempt inside it and a failed attempt outside it. `job`/`lock` are
BullMQ: `FetchJob`, `FailAttempt`, `StallOfDeadWorker`, `StallOfLiveWorker` (the
lock of a running worker expires and a second one starts), `EvictJob`,
`RetryDeadLetter`. `ingest` and `admission` are the tail of
`SlackIngestService`. The scanner is one process with one item in hand
(`scan`): `ScanPick`, `ScanRequeue`, `ScanDispatch`, `ScanMarkQueued`,
`ScanInspect`, `ScanCutoff`.

**MessageSend**. `snd[s]` runs `MessageSendProcessor.process`: `LoadReply`,
`CheckRecipient`, `ClaimSend` (or `ClaimAnswerLost`: the insert took effect and its
answer did not arrive), `PostReply`/`PostFails` (rejected, or accepted by the
channel and failed all the same), `RecordDelivery`, `ActivateDelivery`,
`FinishSend`. `wire[m]` counts what the channel accepted. The scanner's
`PickRecoverable`, `AddSendRecovery`, `MarkSendRecovered` run beside the
conversation worker.

**ReplySending** closes MessageSend with the three steps of the conversation worker
it depends on (commit, add, mark); they are the steps TurnOutcome allows, and
ConversationTurn is proved to take no others. **TurnPipeline** composes both
modules in full.

**SideWork**. `rows`, `queued`, `completed` are the intents of the four kinds of
side work (and the follow-ups memory extraction stages; `Asks` says what the turn of
each message asks for), `applied` counts how
often a row's result was written, `style` is the message merged last into the
profile. A consumer reads the row (`ReadStatus`), calls the model (`Prepare`) and
completes under the row lock (`CompleteWork`). The guard trigger
`conversation_dispatch_intent_guard` (migration 0046) is part of the model: it
refuses any update that leaves `last_queued_at` null, so `CompleteRefused` rolls
back style and profile results that run ahead of the dispatcher's mark, and any
mark later than a completion, so `DispatchMarkRefused` aborts the dispatch loop
when survey evidence was faster. `Finished` says which jobs BullMQ keeps;
`ScanPick`, `ScanInspect`, `ScanAdd`, `ScanMark` are the scanner's loops.

**OnboardingState** has one operator per decision of `decideOnboarding`: from the
decided part of the row (`st`) and an event to the next one and its effects.
**Onboarding** is everything that leads to a decision. `Apply` is
`OnboardingService.apply`, one transaction under the row lock; the effects it leaves
for after the commit are in `effects` until a step runs them or `LoseEffects` drops
them. `Click`, `ChangeRole` and `FlipAlive` put jobs into `inbox`, which `RunJob`
(or `RunJobAgain`, a redelivery) takes in any order. `ReadTurn`/`ApplyTurn` are a
conversation turn, which chooses its event from the row it read and applies it to
the row as it is at commit. `PostTrust`/`RecordIntro` deliver an intro with buttons
and record it, possibly twice. A reminder worker goes through `TakesRemind`,
`MoveDue`, `AddMoved` (postponed or moved by the calendar), `CommitReminder`,
`EnqueueReminder`. `SweepReminder` and `ReadReconcile`/`ApplyReconcile` are the
sweeps of the proactive scan: the event of a reconcile is built from the track and
role its query read (`query`), the re-check under the lock looks at the row and person
as they are. `LoseReminds` is a flushed queue. `ReadRestart`/`ApplyRestart` are the
administrator's restart: the role is read without a lock, the row is deleted and made
anew for that role, a transaction that waited for the old row finds none (its event is
dropped), and the message on record is forgotten, so the buttons of any posted message
count as new again. `DispatchIntro` makes the first contact once more.

**QuestionInsight** follows one topic of three questions. `row[q]` is the working
row, `bundle[b]` the bundle that the prompt of turn `b` shows, `receipt[m]` the
verdict of message `m`, `insight` the reported ones. A turn prepares on what it reads
(`Prepare`: the awaiting bundle, a pending clarification or a ready topic) and writes
later (`Commit`: verdict, clarification, staged bundle, staged question, in the
orchestrator's order, each with the conditions its statement rechecks; any refused
one aborts the transaction, `CommitRefused`). `ApplyEvidence` is the transaction of the evidence
consumer. `Deliver` and `Activate` are the sender's, `FinLoad`, `Persist`, `FinFails`
the finalizer's, `EndWindow` and `Cutoff` the end of the window.

**HierarchyGraph** holds the pure functions of `packages/application/src/hierarchy`
over a record of four tables: `ValidActive` is `validateActiveHierarchy`, `Moved`,
`LeadPromoted`, `ManagerPromoted`, `TeamClosed`, `Transferred` the proposed graphs
and `Can...` the checks of the typed mutations, `UnitReady` and `Activated`
`planUnitActivation`. **Hierarchy** adds the other tables and one action per
operation of the services. All of them are serializable transactions, so one action
each, but `createUnit` and `createTeam`, whose checks and insert are
`CreateUnitCheck`/`CreateTeamCheck` and `CreateInsert`. `ActivateAdopting` is a
rollout that adopts a user from before the hierarchy. `EmployeesOnly` leaves the
wrongly revived placements of finding 2 out of `ActiveStructureHolds`, so that the
invariant still says what holds besides; its second part, `IndexesHold`, counts them
again. Only the rollout of the model is guarded by the unique indexes: that no other
operation needs the guard is what that part says.

Operators with a comment "Mutated ..." are used by no specification; each
is a plausible bug of the definition it names, kept to show that a property
notices it.

## Runs

Names in a cfg that are bounds: `MaxAttempts`, `MaxReceiptAttempts`,
`MaxSendAttempts`, `MaxWorkAttempts` (the code uses 3), `MaxStalled`,
`MaxSendStalled` (BullMQ's default is 1), `MaxManual`, `MaxReplays` (operator
retries), `MaxFaults` (failures), `MaxFlips` (deactivations and reactivations),
`MaxMessages`, `MaxHomes` (placement rows of a person), `MaxPostponements` (the
code's constant, smaller), and `Budgets` or `Mixes`: a behaviour chooses one member
in `Init` and may have as many events of each kind as it says (and, in Onboarding, as
many due times, reminder workers and posted messages). A mix stands for one
family of stories; together they cost a fraction of one bound for all of them.

| run | instance | what it shows |
|---|---|---|
| `turn_race` | 1 timely question reply, 2 workers, 2 attempts, 1 stall, 2 faults, 1 deactivation | `ReceiptJustified`, `TurnImplementsOutcome` while the main and the recovery job, or one job after a lost lock, run side by side; `VerdictFindsBundle`: the bundle is purged under a worker's verdict only after another run gave the reply up for an inactive employee |
| `turn_coalesce` | 2 messages in a window with memory extraction, 1 worker, 1 attempt, 1 fault, 1 deactivation, 1 dead-letter retry | `ReceiptJustified`: only a superseded message, or one of an inactive employee, is receipted without a turn; `DispatchMatchesCommit` with two kinds of intent per turn |
| `turn_live` | 1 question reply, 1 worker, 1 attempt everywhere, 2 faults | `CommittedTurnIsDispatched`, `TimelyReplyIsReceipted`: with one attempt the job's own retries cannot help, only the scanner can |
| `send` | 1 reply, 2 senders, 2 attempts, 1 stall, 2 faults, 1 replay, 1 deactivation | `SentAtMostOnce`, `DeliveryRecordIsTrue`, `SendingImplementsOutcome`, `CommittedIsAttempted` |
| `pipeline` | 1 message, 1 worker, 1 sender, 1 fault, 1 deactivation | `OnlyAnswersAreSent`, `ReceiptedReplyIsSendable`, `PipelineImplementsOutcome` over the composition |
| `side_work` | style analysis of 2 messages, or survey evidence and profile hydration of 1, 2 consumers, 2 attempts, 2 faults | `StyleMovesForward`, `WorkAppliedOnce`, `TypeOK` (only queued rows are complete) |
| `side_live` | 1 message, 1 consumer, 1 attempt: memory extraction with 2 faults and 2 eligibility changes, or survey evidence and memory extraction in one dispatch loop without any | `WorkIsSettled`: after lost jobs, and after the loop was aborted by the refused mark of evidence |
| `onboarding` | 1 person, 11 mixes: clicks, turns, one or two role changes, (de)activations, 1 or 2 moves of a due time, a loss, a repeated post, a restart; 1 postponement, 2 due times and 1 reminder worker, or 2 in the mix of two moves, where reminders are the question, 1 due time elsewhere | `ChecksHold`, `ProactiveFollowsChoice`, `NoReminderAfterChoice`, `ButtonsNeedNewerIntro`, and in the end `TrackFollowsRole` (after events that are lost, repeated or overtake each other, and a restart that read the older role) and `ReminderSettles` (after losses, and two moves of one due time that raced) |
| `insight` | 3 questions, up to 5 messages, 2 finalizers, 4 mixes | `OneUnresolvedBundle`, `BundleMatchesRows`, `ConfirmedWasShown`, `ConfirmedNeverLost`, `LatestInsightIsCurrent`, `ClosedReopensForward`, `StatementCopiesNeeded` |
| `hierarchy` | 6 people (one from before the hierarchy), 2 units, 1 team, 4 files; 5 changes, or 3 and a draft edit, or 1 and two | `ActiveStructureHolds`, `AdvisoryScopeIsLive`, `ContactsFollowPeople`, `ExitIsFinal` |
| `insight_disputes`, `hierarchy_rerollout` | the same modules | the [findings](#findings) |

Why the bounds are enough. Messages interact only through coalescing (two
suffice: the decision compares a message with one newer one), through the style
profile (two) and through the question bundle (one reply and the cutoff). Jobs of
one message interact through at most two concurrent runs plus the scanner; a third
run meets the same rows. Two faults let a step fail and its repair fail too. With
one attempt an exhausted job is reached at once, and with two a retry that
succeeds. Reminders of a person differ in their due time, and a worker compares its
job with the row: two due times make a stale and a current one. The track depends on
the last two role changes, for an event carries the role before and the role after;
one due time is enough where no reminder is asked about. Questions of a topic
interact through their bundle; three are the most a bundle shows, and a verdict may
then be partial in every way that matters (one settled, two disputed; all disputed).
Five messages let two statements be disputed, corrected and confirmed one after the
other, and a question be reported and told anew. In the hierarchy the smallest
structures in which each planner can accept and refuse are those of the files: a
unit with a team of two (one may leave or be promoted), two units (a transfer), an
advised unit with leadership. Whether a planner accepts depends on one unit, its
teams and their members, or on two units. Five changes reach a promoted lead who is
replaced, deactivated and rolled out again. The theorems below do not depend on any
of these numbers.

In `turn_live` nobody is deactivated, so the arm `~eligible` of
`CommittedTurnIsDispatched` never helps; in `send` and `side_live` it excuses only
work of an employee who is inactive at that moment, as the code does. Deadlock is
not checked: once all work is done and the budgets are spent, the system rests.
Symmetry over workers or consumers is used in runs without liveness properties.

## Fairness

Stated beside each specification that has a liveness property; `QuestionInsight` and
`Hierarchy` are checked for safety only and assume none. A live worker, sender, consumer or dispatch
loop finishes the calls it started (weak fairness: every awaited call returns or
throws; that it throws is a fault and never assumed). BullMQ serves a queue in
order, so a waiting job is fetched again and again (strong fairness of the fetch:
workers become idle and busy repeatedly) and its stalled check reclaims the job
of a dead worker. The scanner is a repeatable job that walks every list to its
end, so an item that stays on a list, or comes back to it, is picked (strong
fairness of the pick, because a single scan works on other items in between).
The API handler finishes unless it dies. In Onboarding a reminder worker finishes
the calls it started, the queue keeps handing out jobs (strong fairness of taking
one, for a postponed job comes and goes), and the proactive scan, a repeatable job,
comes back to every scheduled reminder and every stale track (weak fairness of the
sweeps: the condition persists until somebody repairs it). The
run `side_live` leaves steps out with an action constraint, `RaceAlone`: the faults and
eligibility changes that would come on top of the refused mark. None of them is among
the fair steps.
Nothing is assumed of faults,
administrators, eligibility or the model's answers. Faults and eligibility changes
are bounded, so eventually they stop: liveness says what happens after the last
failure, not during an outage that never ends.

## Findings

Each is a violated property that states what a specification of the repository says.

1. `insight_disputes`, `DisputesCanBeClarified`. "The agent shall ask natural
   follow-up questions for the disputed meaning"
   (`_bmad-output/specs/spec-insight-analysis-v2/SPEC.md:165`). A partial verdict that
   disputes all three statements keeps three components in the bundle, and
   `parseBundleComponents` accepts one or two in mode `clarification`
   (`question-insight.repository.ts:1849`): `findPendingQuestionClarification` throws
   in every later turn of the employee until the cutoff, and nothing is ever asked.
2. `hierarchy_rerollout`, `LeadIsNotMember`. "A Team Lead is not an Employee member of
   the Team they lead" (`_bmad-output/specs/spec-company-hierarchy-mvp/SPEC.md:147`).
   A rollout takes every placement of an activated person in the unit, ended ones too
   (`hierarchy-rollout.service.ts:143`), and the routes accept a unit that is already
   active. After a promotion it makes the new lead an active member again, and
   `validateActiveHierarchy` refuses every later move, promotion and deactivation of
   the tenant.

Seen while modelling, without a run of their own:

- `conversation.processor.ts:210` promises one explicit fallback "on the last attempt
  ... instead of silence". Lines 129-154 (pending question, committed turn,
  eligibility, coalescing) run before the `try`, so a database error there on the last
  attempt fails the job without any answer, and nothing scans for it.
- The GC testing specification says "Every admitted inbound gets a reply or an
  explicit localized fallback". When the API dies after `saveInboundMessage` and
  before `conversationQueue.add`, the scanner recovers the admission only if it is a
  timely answer to a question confirmation (`survey.repository.ts:315-368`).
- "The cutoff scanner will enqueue the receipt-only retry later"
  (`conversation.processor.ts:181`): the id `receipt-<messageId>` is fixed and BullMQ
  keeps a failed job, so after one exhausted retry every later add is a no-op
  (`TimelyReplyIsReceipted` names that case).
- `RUNBOOK.md:49` and `:226` let an operator or a job retry a failed send. Its claim
  is never removed, so the replay finds `already_started` and completes without
  posting. `RUNBOOK.md:46-48` relies on the Redis event id to make redelivery safe,
  while the id is claimed before anything is saved; `RUNBOOK.md:244` names a unique
  constraint where `messages.ts:39` declares a plain index.
- After an administrator's restart (`onboarding-restart.service.ts:30`) the record of
  the message that carried the buttons is gone: a send job of an older intro that is
  retried then is recorded as the newest one and its buttons count
  (`ButtonsNeedNewerIntro` says what is left of the promise).
- Hierarchy: a draft employee taken out of a unit and put into it again has two rows
  there, and the unit's rollout then always meets the unique index. The previous owner
  of a promotion can be deactivated without the self-deactivation check that
  `deactivatePerson` has. `importCsv` accepts an existing inactive unit or team that
  `createTeam` and `replaceDraftPlacement` refuse. A `createTeam` that races with a
  transfer leaves a draft team under an inactive unit.
- Question insight: when two clarified statements of a topic are waiting to be shown
  again, `findReadyQuestionBundle` returns both and
  `stageQuestionConfirmationBundle` refuses more than one corrected statement; a prompt
  whose send is lost blocks its topic until the cutoff.

## Proofs

`tlapm` checks every proof to its leaves, for every set of messages, workers,
senders, consumers, reminders and role moves and every value of the bounds, under the assumptions named
in the modules (attempt bounds positive, other bounds natural, the placeholders
`NoWorker`/`NoSender` not members of their sets, `message_send` not a side kind,
messages numbered from 1 in SideWork, due times and reminder workers in Onboarding, the budgets of QuestionInsight and Hierarchy
records of naturals, `Files` sets of CSV rows, `Legacy` a set of persons, finitely many
units and teams, without which a count of one would not mean one).

| theorem | of | rests on |
|---|---|---|
| `TurnTypes`, `SendingTypes`, `SideWorkTypes` | the type invariants | one lemma per group of actions; SideWork's types need two more facts: only rows have jobs, and a consumer in `addFollowUp`/`markFollowUp` has the follow-up's row |
| `TurnDispatchMatchesCommit` | `DispatchMatchesCommit` | `DispatchInv`: what a worker's dispatch loop holds belongs to a committed turn, and its `mark` step follows an add |
| `TurnRefinesOutcome` | `TurnImplementsOutcome` | the same invariant; every action maps to `Answer`, `HandOver`, `SettleWork` or a stutter |
| `ReceiptsAreJustified` | `ReceiptJustified` | `ReceiptInv`: each program counter past a decision knows why the message is settled (dispatch done, superseded, or employee inactive), and a completed job or receipt inherits it |
| `VerdictsFindTheirBundle` | `VerdictFindsBundle` | `SavedInv` with `ReceiptInv`: a worker about to commit a verdict has a stored reply, which holds the purge back until it is receipted; a receipt for it without a turn means an inactive employee |
| `ReplySentAtMostOnce` | `SentAtMostOnce` | at most one sender between `claim` and the end owns the claim; `wire` is 0 until it posts |
| `RecordedReplyWasSent` | `DeliveryRecordIsTrue` | the same, carried through `record` and `activate` |
| `SendingRefinesOutcome` | `SendingImplementsOutcome` | `HandedInv`: a mark in hand of the scanner follows its job |
| `OnlyCommittedAnswersAreSent`, `ReceiptedRepliesAreSendable`, `PipelineRefinesOutcome`, `PipelineTypes` | the properties of `TurnPipeline` | the invariants of both parts (`DispatchInv`, `SavedInv`, `ReceiptInv`; `DeliveryInv`, `HandedInv`), each kept under the steps of the other part because those only mark a listed reply; `QueuedHanded`: a mark follows a job of either kind; `SendersCovered`: claims, jobs and busy senders belong to listed replies |
| `WorkIsAppliedOnce` | `WorkAppliedOnce` | `ResultInv`: a written result implies `completed_at`; only `CompleteWork` on an incomplete row writes |
| `StyleNeverGoesBack` | `StyleMovesForward` | `StyleIsDone`: the message merged last is completed, so an older one meets it in `NewerStyleCompleted` |
| `OnboardingTypes`, `OnboardingChecksHold`, `OnboardingProactive` | `TypeOK`, `ChecksHold`, `ProactiveFollowsChoice` | `IInv`, one lemma per decision of OnboardingState: each keeps the three facts together with the due time of a scheduled reminder |
| `OnboardingReminderInTime` | `NoReminderAfterChoice` | the same invariant; only `CommitReminder` writes, under the guards it reads again |
| `OnboardingButtons` | `ButtonsNeedNewerIntro` | the same invariant; only a recorded newer intro sets the buttons |
| `Types`, `OneBundleWaits`, `BundlesMatch`, `CopiesOnlyWhileNeeded` | `TypeOK`, `OneUnresolvedBundle`, `BundleMatchesRows`, `StatementCopiesNeeded` of QuestionInsight | `StoreSound`: rows and bundles point at each other (`LinkSound`), copies belong to pending rows (`CopiesNeeded`), one bundle is open (`OneOpen`) |
| `OnlyShownIsConfirmed`, `ConfirmedIsReported` | `ConfirmedWasShown`, `ConfirmedNeverLost` | `RowShown`, `CopiesShown`, `WorkSound`: a copy in a bundle, a confirmed row and what a finalizer has in hand say what was shown to the author |
| `LastConfirmedIsCurrent`, `ClosedStaysClosed` | `LatestInsightIsCurrent`, `ClosedReopensForward` | `InsightSound` and `RowOrdered`: what a row was made of is older than the reply to it, and newer than what was reported of the question before |
| `HierarchyTypes`, `ExitsAreFinal`, `ContactsFollow` | `TypeOK`, `ExitIsFinal`, `ContactsFollowPeople` | `IInv`: an exit closes the account, a waiting contact has its unit; three classes of step: drafts, people leaving, a rollout |
| `AdvisersAreLive` | `AdvisoryScopeIsLive` | the same invariant, person by person (`Advises`): a rollout activates an adviser only with a unit of the scope |
| `StructureStaysValid` | `ActiveStructureHolds` | `Rows` (no active row of one who never went out, every row in the unit of its team), and a graph the planners accept breaks no index (`ValidIndexes`), see below |

None of the safety properties is inductive by itself: `ReceiptJustified`, for
instance, says nothing of a worker that is about to store a receipt. The inductive
invariants add exactly what such a worker has seen. `DispatchMatchesCommit` does not
hold in the composition (the reply scanner marks after its own recovery job), so its
last part is proved apart, from the refinement, and `DispatchInv` without it serves
both. `MessageSendProofs` holds the lemmas of the senders for any conversation worker
that answers, adds, marks or leaves the store alone; `ReplySending` and `TurnPipeline`
are two of them.

The structure of the hierarchy is kept in three ways. A draft touches no active row
(`DraftGraph`): that needs `Rows`, for a draft person with an active placement, or a
placement outside the unit of its team, would become part of the structure when
somebody else's rollout meets it. A change of the live structure is validated by its
planner as a whole, so that only `Rows` has to be shown of it, and that validation of
the whole implies that of `EmployeesOnly` (`AcceptedHolds`). A rollout is validated by
nobody: `UnitReady` is local to each unit of the batch. `Structure` is
`validateActiveHierarchy` without its counts; `RolledOutStructure` derives it for the
result from the readiness of the units and the structure before, and
`StructureHolds` gets "exactly one" from "at least one" and the unique indexes of the
tables, which is where the code gets it from: without them two drafted units of one manager
could go out together.

A turn of QuestionInsight commits up to four writes in one transaction, each with the
conditions its statement rechecks on what the previous ones left. `StoreSound` is stated
of any state of the tables, and holds between any two of the writes (`Txn`); each write
is shown to keep it, so that the proof of `Commit` is their composition, and a refused
write anywhere leaves the tables as they were. What a plan made minutes ago says of them
is only `PlanSound`: it answers what its bundle shows, as long as the bundle waits.

Only model-checked: the liveness properties (`CommittedTurnIsDispatched`,
`TimelyReplyIsReceipted`, `CommittedIsAttempted`, `WorkIsSettled`, `TrackFollowsRole`,
`ReminderSettles`), because fairness and ENABLED are outside the prover's reach. Every
invariant and action property of a passing run is a theorem. Nothing here recurses
over data, so no theorem needed induction over a data structure, and no module
declares a RECURSIVE operator.

## Abstractions

- One employee and conversation. The id of an outbound message is computed from
  the inbound one, so one name serves for both.
- Content is reduced to what control depends on: the committed text is `reply`,
  `input_filtered` or `processing_failed`; a model result is there or not. The
  branch of the processor for a non-retryable input-filter error is unreachable
  in the live worker, because the orchestrator turns it into a committed
  `input_filtered` turn first; it is not modelled separately.
- Ages (`last_queued_at` five minutes ago, `available_at` one minute ago) are
  left out: a row may be old enough at any time, which allows more scans than
  happen.
- A delayed job (backoff) is `waiting`. BullMQ's bounded history is `EvictJob`,
  which may drop any finished job; send jobs are not evicted, since a send job
  that is added again only meets its own claim.
- A recovery id contains a generation, so an old failed one never blocks a new
  one; one live generation per message is kept. Recovery jobs of side work have a
  fixed id and are removed when they finish.
- The scanner is one process. Inside a scan the order of its lists and items is
  left open, and it forgets its list between items.
- The guard on `conversation_dispatch_intents` also refuses a mark older than the
  one there (two dispatchers racing). ConversationTurn and MessageSend count a
  refused mark among the failed steps; SideWork models refusals that no failure
  causes. Clock differences between processes are not modelled.
- ConversationTurn does not know `completed_at`. Follow-ups and group reports
  follow the loop of the other kinds there, with the same add-then-mark order.
- Messages are not deleted while their job runs (retention and the data-deletion use
  case). `UserDataController`, which would delete an employee's data on request, belongs
  to no module (`users.module.ts:7`), so the hierarchy has no such action.
- In SideWork one dispatch loop per turn runs at a time (two are in
  ConversationTurn), how often a job stalled is not counted (any stall may be the
  last), and question finalization by the evidence consumer is part of `Prepare`.
- Onboarding: one person, no clock. A reminder job may run at any time, and a due
  time only tells reminders apart. The work calendar exists. Acknowledgements, the
  edit that removes buttons, development commands, the claim of the first delivery
  row and its retries are left out; that the same role change sends one intro only is
  not stated. Waiting jobs with the same data are one.
- QuestionInsight: one topic of three questions of one employee. A text is the set of
  messages whose meaning it carries. What a turn reads, it reads at one instant; a
  committed turn counts as receipted; the comparison of `updatedAt` is folded into
  that of `confirmedAt`. The disclosure receipt, message deletion, the pulse backlog
  and the first-generation group confirmation are left out, as are wall-clock purge
  times. That finalization happens in the end is not checked.
- Hierarchy: one tenant and workspace. Authorisation, the self-deactivation check,
  audit rows, the work calendar, CSV syntax and names, delivery and retry of first
  contacts are left out; a rollout adopts at most one legacy user. A person with
  `MaxHomes` placement rows gets no further one.

## Not modelled

The event-id claim and redelivery of Slack; sends without a committed turn
(proactive check-ins, follow-ups); group reports; the runtime ledger and second
runtime (no module registers them); survey cycles; scoring, quiet hours and session
policies (pure functions on clocks and scores); company authentication, admin and
read models (single-row writes and reads); provider clients and channel adapters
(external calls that return, throw, or throw after taking effect). `PROJECT.json`
lists each with its sources and reason.

## Plan

What would come next, in order of weight.

1. `FollowUp` and group reports: scheduled actions claimed, executed and
   rescheduled, with the untracked sends they use; completion of
   `follow_up_execution` rows that SideWork leaves open.
2. `SlackIngest`: event-id claim, transaction, enqueue, Slack's redelivery and a
   flushed Redis, composed with the admission rows of ConversationTurn.
3. `Proactive`: the scheduler's claims, check-ins and the pulse backlog.
4. `CircuitBreaker` of the AI provider router, with its half-open probe.
5. Pure policies against reference definitions over bounded inputs: quiet hours
   (windows over midnight), session boundaries, group scoring.
