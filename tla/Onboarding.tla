------------------------------ MODULE Onboarding ------------------------------
(***************************************************************************)
(* One person's onboarding: the row of onboarding_states and everything    *)
(* that changes it.  Button clicks and hierarchy events arrive as jobs,    *)
(* conversation turns call in directly, delivered intros and reminders     *)
(* come from the senders, and the sweeps of the proactive scan repair lost *)
(* reminders and lost role changes.  Every change is one transaction under *)
(* the row lock; what follows the commit is lost when the process dies.    *)
(* An administrator may restart a person: the row is made anew.            *)
(*                                                                         *)
(* There is no clock: a reminder job may run at any time, and a due time   *)
(* is a number that only tells reminders apart.  Job ids and the row's     *)
(* version, which keys the ids of role-change intros, are reduced to the   *)
(* sets the jobs are in: equal waiting jobs are one.  Acknowledgements, the *)
(* edit that takes buttons off a message and the job that opens a          *)
(* conversation are not followed any further.  The work calendar exists.   *)
(***************************************************************************)
EXTENDS OnboardingState, Naturals, Sequences

CONSTANTS
    Dues,              \* due times of reminders, other than 0
    Reminders,         \* onboarding-reminder worker processes, numbered
    MaxPostponements,  \* MAX_REMINDER_POSTPONEMENTS
    StartRoles,        \* roles a person may start with
    RoleMoves,         \* the role changes hierarchy mutations make
    Budgets            \* bounds: the mixes of events and failures to be looked at

\* clicks: button clicks; turns: conversation turns that mean something; roles: role
\* changes; flips: deactivations and reactivations; moves: postponements and calendar
\* moves of a reminder; faults: crashes, lost and repeated jobs; reposts: senders
\* that die between a post and its record; restarts: restarts by an administrator; posts:
\* trust messages that are posted at all.  Two are not used up: dues: due times that come
\* up; workers: reminder workers that run.
Bounds == {"clicks", "turns", "roles", "flips", "moves", "faults", "reposts", "restarts",
           "posts", "dues", "workers"}

ASSUME OnboardingDuesAssumption == Dues \subseteq Nat \ {0}
ASSUME OnboardingRemindersAssumption == Reminders \subseteq Nat \ {0}
ASSUME OnboardingRolesAssumption ==
    StartRoles \subseteq Roles /\ RoleMoves \subseteq Roles \X Roles
ASSUME OnboardingBoundsAssumption ==
    /\ MaxPostponements \in Nat
    /\ Budgets \subseteq [Bounds -> Nat]

VARIABLES
    role,       \* people.primary_role
    alive,      \* the person and the user are active
    st,         \* the decided part of the row
    due,        \* reminder_due_at, or 0
    shown,      \* intro_actions_message_ts: index in posted, or 0
    proactive,  \* users.proactive_messaging_enabled
    outbox,     \* trust messages with buttons that are not posted yet
    posted,     \* the trust messages in Slack, oldest first
    inbox,      \* jobs of the onboarding-action queue
    effects,    \* effects of committed decisions that were not run yet
    turn,       \* the event of the turn in progress
    query,      \* the track and role the reconcile sweep read for this person, or none
    restarting, \* the role a restart read, or none
    firstContact, \* the rollout delivery waits for its dispatch again
    reminds,    \* jobs of the onboarding-reminder queue
    reminder,   \* the local state of each reminder worker
    written,    \* reminder messages that exist, by the intro they belong to
    sends,      \* their message-send jobs
    left        \* what is left of each bound

state == <<role, alive, st, due, shown, proactive>>
intros == <<outbox, posted>>
restart == <<restarting, firstContact>>
queues == <<inbox, effects, turn, query, restart>>
sending == <<written, sends>>
vars == <<state, intros, queues, reminds, reminder, sending, left>>

NoRole == "none"
Reads == [track : Tracks, role : Roles]
NoRead == [track |-> "none", role |-> NoRole]

\* The trust half of an intro: whose buttons it carries and whether a role change sent it.
Intros == [track : Tracks, roleChange : BOOLEAN]

Clicks == [kind : {"click"}, action : Actions, id : Nat]
RoleEvents == [kind : {"role"}, from : Roles, to : Roles, id : Nat]
Deactivations == [kind : {"deactivated"}, id : Nat]
Jobs == Clicks \union RoleEvents \union Deactivations

RoleIntros == [do : {"intro"}, role : Roles]
Schedules == [do : {"remind"}, due : Dues]

\* sweep: the recovery job, whose id differs from the canonical one.
RemindJobs == [due : Dues, count : 0..MaxPostponements, sweep : BOOLEAN]
NoRemind == [due |-> 0, count |-> 0, sweep |-> FALSE]

RemindSteps == {"idle", "move", "add", "commit", "enqueue"}
ReminderState ==
    [pc : RemindSteps, job : RemindJobs \union {NoRemind}, count : 0..MaxPostponements,
     due : Dues \union {0}, key : Nat]
IdleReminder == [pc |-> "idle", job |-> NoRemind, count |-> 0, due |-> 0, key |-> 0]

Use(b) == left[b] > 0 /\ left' = [left EXCEPT ![b] = @ - 1]
Fault == Use("faults")

\* The row holds what decideOnboarding can produce; queues hold well-formed jobs; the
\* recorded intro and every reminder belong to a message that was posted.
TypeOK ==
    /\ role \in Roles /\ alive \in BOOLEAN /\ proactive \in BOOLEAN
    /\ st \in OnboardingStates
    /\ due \in Dues \union {0}
    /\ outbox \subseteq Intros
    /\ posted \in Seq(Intros)
    /\ shown \in 0..Len(posted)
    /\ inbox \subseteq Jobs
    /\ effects \subseteq RoleIntros \union Schedules
    /\ turn \in TurnEvents
    /\ query \in Reads \union {NoRead}
    /\ restarting \in Roles \union {NoRole} /\ firstContact \in BOOLEAN
    /\ reminds \subseteq RemindJobs
    /\ reminder \in [Reminders -> ReminderState]
    /\ \A w \in Reminders :
        /\ reminder[w].pc = "add" => reminder[w].due # 0
        /\ reminder[w].pc = "enqueue" => reminder[w].key \in written
    /\ written \subseteq 0..Len(posted) /\ sends \subseteq written
    /\ left \in [Bounds -> Nat]

Init ==
    /\ role \in StartRoles /\ alive = TRUE
    /\ st = Initial(role) /\ due = 0 /\ shown = 0
    /\ proactive = FALSE  \* HierarchyDraftService creates people with the flag off
    /\ outbox = {[track |-> TrackOf(role), roleChange |-> FALSE]}
    /\ posted = <<>>
    /\ inbox = {} /\ effects = {} /\ turn = NoEvent /\ query = NoRead
    /\ restarting = NoRole /\ firstContact = FALSE
    /\ reminds = {} /\ reminder = [w \in Reminders |-> IdleReminder]
    /\ written = {} /\ sends = {}
    /\ left \in Budgets

-----------------------------------------------------------------------------
(* OnboardingService.apply: one transaction under the row lock.             *)

ProactiveAfter(d) ==
    IF "proactive_on" \in d.effects THEN TRUE
    ELSE IF "proactive_off" \in d.effects THEN FALSE ELSE proactive

RoleIntro == [do |-> "intro", role |-> role]
ComingDues == {d \in Dues : d <= left["dues"]}

\* What the process still has to do after the commit.
PostCommit(d, newDue) ==
    {e \in {RoleIntro} : "send_intro" \in d.effects}
    \union {e \in {[do |-> "remind", due |-> newDue]} : "schedule_reminder" \in d.effects}

\* A decision that changes nothing and asks for nothing leaves the row alone.
Apply(d) ==
    IF d.effects = {} /\ d.next = st
    THEN UNCHANGED <<st, due, proactive, effects>>
    ELSE /\ st' = d.next
         /\ due' \in IF "schedule_reminder" \in d.effects THEN ComingDues ELSE {due}
         /\ proactive' = ProactiveAfter(d)
         /\ effects' = effects \union PostCommit(d, due')

\* The other path (queued job or reconcile sweep) applied this role change already.
AppliedAlready(from, to) == TrackOf(from) # TrackOf(to) /\ st.track = TrackOf(to)

RoleDecision(from, to) ==
    IF AppliedAlready(from, to) THEN Keep(st) ELSE RoleChanged(st, from, to)

\* runEffects, one effect at a time.
ScheduleReminder(e) ==
    /\ e \in effects /\ e.do = "remind"
    /\ effects' = effects \ {e}
    /\ reminds' = reminds \union {[due |-> e.due, count |-> 0, sweep |-> FALSE]}
    /\ UNCHANGED <<state, intros, inbox, turn, query, restart, reminder, sending, left>>

\* sendRoleIntro: the person has a conversation to send into.
SendRoleIntro(e) ==
    /\ e \in effects /\ e.do = "intro"
    /\ effects' = effects \ {e}
    /\ outbox' = outbox \union
            {[track |-> TrackOf(e.role), roleChange |-> TRUE]}
    /\ UNCHANGED <<state, posted, inbox, turn, query, restart, reminds, reminder, sending, left>>

\* The process dies, or Redis refuses: the effects are not durable.
LoseEffects ==
    /\ effects # {}
    /\ Fault
    /\ effects' = {}
    /\ UNCHANGED <<state, intros, inbox, turn, query, restart, reminds, reminder, sending>>

-----------------------------------------------------------------------------
(* Clicks, turns and hierarchy events.                                      *)

ButtonsOf(track) ==
    CASE track = "employee" -> {"start", "later", "decline"}
      [] track = "team_lead" -> {"start", "got_it", "later", "decline"}
      [] track = "management" -> {"got_it"}

\* handleSlackInteraction: a click on any other message is dropped.
Click(action) ==
    /\ shown # 0 /\ action \in ButtonsOf(posted[shown].track)
    /\ Use("clicks")
    /\ inbox' = inbox \union {[kind |-> "click", action |-> action, id |-> left["clicks"]]}
    /\ UNCHANGED <<state, intros, effects, turn, query, restart, reminds, reminder, sending>>

JobDecision(j) ==
    CASE j.kind = "click" -> ChooseAction(st, j.action, TRUE)
      [] j.kind = "role" -> RoleDecision(j.from, j.to)
      [] j.kind = "deactivated" -> Deactivated(st)

\* OnboardingActionProcessor.
RunJob(j) ==
    /\ j \in inbox
    /\ Apply(JobDecision(j))
    /\ inbox' = inbox \ {j}
    /\ UNCHANGED <<role, alive, shown, intros, turn, query, restart, reminds, reminder, sending, left>>

\* The worker dies after the commit: the job runs again, the effects of this run are lost.
RunJobAgain(j) ==
    /\ j \in inbox
    /\ Fault
    /\ Apply(JobDecision(j)) /\ effects' = effects
    /\ UNCHANGED <<role, alive, shown, intros, inbox, turn, query, restart, reminds, reminder, sending>>

\* contextFor and the classifier: the event is chosen from a state read without the lock.
ReadTurn(intent, substantive) ==
    LET event == Interpret(st, intent, substantive)
    IN  /\ turn = NoEvent /\ event # NoEvent
        /\ Use("turns")
        /\ turn' = event
        /\ UNCHANGED <<state, intros, inbox, effects, query, restart, reminds, reminder, sending>>

\* applyTurnEvent.
ApplyTurn ==
    /\ turn # NoEvent
    /\ Apply(DecideTurn(st, turn))
    /\ turn' = NoEvent
    /\ UNCHANGED <<role, alive, shown, intros, inbox, query, restart, reminds, reminder, sending, left>>

\* The hierarchy mutation commits, then publishes the event, which may fail.
ChangeRole(to) ==
    LET j == [kind |-> "role", from |-> role, to |-> to, id |-> left["roles"]]
    IN  /\ alive /\ <<role, to>> \in RoleMoves
        /\ left["roles"] > 0
        /\ role' = to
        /\ \/ /\ inbox' = inbox \union {j}
              /\ left' = [left EXCEPT !["roles"] = @ - 1]
           \/ /\ left["faults"] > 0
              /\ inbox' = inbox
              /\ left' = [left EXCEPT !["roles"] = @ - 1, !["faults"] = @ - 1]
        /\ UNCHANGED <<alive, st, due, shown, proactive, intros, effects, turn,
                       query, restart, reminds, reminder, sending>>

\* Deactivation publishes an event, reactivation none.
FlipAlive ==
    /\ Use("flips")
    /\ alive' = ~alive
    /\ inbox' = IF alive THEN inbox \union {[kind |-> "deactivated", id |-> left["flips"]]}
                ELSE inbox
    /\ UNCHANGED <<role, st, due, shown, proactive, intros, effects, turn, query, restart,
                   reminds, reminder, sending>>

-----------------------------------------------------------------------------
(* Intros: the trust half, which carries the buttons.                       *)

\* The channel takes the message; the sender may die before it records that, and post
\* it again.
PostTrust(i) ==
    /\ i \in outbox /\ alive /\ left["posts"] > 0
    /\ posted' = Append(posted, i)
    /\ \/ /\ outbox' = outbox \ {i}
          /\ left' = [left EXCEPT !["posts"] = @ - 1]
       \/ /\ outbox' = outbox /\ left["reposts"] > 0
          /\ left' = [left EXCEPT !["posts"] = @ - 1, !["reposts"] = @ - 1]
    /\ UNCHANGED <<state, queues, reminds, reminder, sending>>

\* Mutated RecordIntro: a retried job records its message again.
RecordIntroAgain(t) ==
    /\ t \in DOMAIN posted
    /\ shown' = t
    /\ Apply(IntroDelivered(st, posted[t].roleChange))
    /\ UNCHANGED <<role, alive, intros, inbox, turn, query, restart, reminds, reminder, sending, left>>

\* recordIntroDelivered, on delivery and again by every retried send job: a replay of
\* the recorded message or an older one is ignored.
RecordIntro(t) ==
    /\ t \in DOMAIN posted /\ t > shown
    /\ shown' = t
    /\ Apply(IntroDelivered(st, posted[t].roleChange))
    /\ UNCHANGED <<role, alive, intros, inbox, turn, query, restart, reminds, reminder, sending, left>>

-----------------------------------------------------------------------------
(* The reminder worker.                                                     *)

Scheduled(d) == st.rem = "scheduled" /\ due = d
Remindable == st.part \in Open /\ Personal(st)

Goto(w, s) == reminder' = [reminder EXCEPT ![w] = s]
Finish(w) == Goto(w, IdleReminder)
Ready(w) == reminder[w].pc = "idle" /\ w <= left["workers"]
Running(j) == \E w \in Reminders : reminder[w].job = j

\* remind, on the row as it is read without the lock.
DropRemind(w, j) ==
    /\ Ready(w) /\ j \in reminds /\ ~Running(j)
    /\ ~(Scheduled(j.due) /\ alive /\ Remindable)
    /\ reminds' = reminds \ {j}
    /\ UNCHANGED <<state, intros, queues, reminder, sending, left>>

StartRemind(w, j) ==
    /\ Ready(w) /\ j \in reminds /\ ~Running(j)
    /\ Scheduled(j.due) /\ alive /\ Remindable
    /\ Goto(w, [IdleReminder EXCEPT !.pc = "commit", !.job = j])
    /\ UNCHANGED <<state, intros, queues, reminds, sending, left>>

\* The person is talking to Emma, or it is not working time any more.
Postpone(w, j, count) ==
    /\ Ready(w) /\ j \in reminds /\ ~Running(j)
    /\ Scheduled(j.due) /\ alive /\ Remindable
    /\ count = j.count \/ (j.count < MaxPostponements /\ count = j.count + 1)
    /\ Use("moves")
    /\ Goto(w, [pc |-> "move", job |-> j, count |-> count, due |-> j.due, key |-> 0])
    /\ UNCHANGED <<state, intros, queues, reminds, sending>>

\* The company calendar changed: recalculate reads the scheduled rows.
Recalculate(w) ==
    /\ Ready(w) /\ st.rem = "scheduled" /\ due # 0
    /\ Use("moves")
    /\ Goto(w, [IdleReminder EXCEPT !.pc = "move", !.due = due])
    /\ UNCHANGED <<state, intros, queues, reminds, sending>>

\* updateScheduledDue: only if the reminder is still the one that was read.
MoveDue(w) ==
    /\ reminder[w].pc = "move"
    /\ IF Scheduled(reminder[w].due)
       THEN \E d \in ComingDues \ {due} :
                /\ due' = d
                /\ Goto(w, [reminder[w] EXCEPT !.pc = "add", !.due = d])
                /\ UNCHANGED reminds
       ELSE /\ Finish(w)
            /\ reminds' = reminds \ {reminder[w].job}
            /\ UNCHANGED due
    /\ UNCHANGED <<role, alive, st, shown, proactive, intros, queues, sending, left>>

AddMoved(w) ==
    /\ reminder[w].pc = "add"
    /\ reminds' = (reminds \ {reminder[w].job}) \union
            {[due |-> reminder[w].due, count |-> reminder[w].count, sweep |-> FALSE]}
    /\ Finish(w)
    /\ UNCHANGED <<state, intros, queues, sending, left>>

\* Mutated ReminderStands: the transaction trusts what was read before it.
ReminderStood(w) == TRUE

\* The guards, checked again under the row lock.
ReminderStands(w) == Scheduled(reminder[w].job.due) /\ Remindable

\* Decision and message in one transaction; the message id is fixed by the intro.
CommitReminder(w) ==
    /\ reminder[w].pc = "commit"
    /\ IF ReminderStands(w)
       THEN /\ Apply(ReminderSent(st))
            /\ written' = written \union {shown}
            /\ Goto(w, [reminder[w] EXCEPT !.pc = "enqueue", !.key = shown])
            /\ UNCHANGED reminds
       ELSE /\ Finish(w)
            /\ reminds' = reminds \ {reminder[w].job}
            /\ UNCHANGED <<st, due, proactive, effects, written>>
    /\ UNCHANGED <<role, alive, shown, intros, inbox, turn, query, restart, sends, left>>

\* Mutated EnqueueReminder: the send is built for the intro that is current by now.
EnqueueCurrent(w) ==
    /\ reminder[w].pc = "enqueue"
    /\ sends' = sends \union {shown}
    /\ reminds' = reminds \ {reminder[w].job}
    /\ Finish(w)
    /\ UNCHANGED <<state, intros, queues, written, left>>

\* enqueueMessageSend, for the intro that was current in the transaction.
EnqueueReminder(w) ==
    /\ reminder[w].pc = "enqueue"
    /\ sends' = sends \union {reminder[w].key}
    /\ reminds' = reminds \ {reminder[w].job}
    /\ Finish(w)
    /\ UNCHANGED <<state, intros, queues, written, left>>

\* The job of a dead worker runs again.
ReminderCrash(w) ==
    /\ reminder[w].pc # "idle"
    /\ Fault
    /\ Finish(w)
    /\ UNCHANGED <<state, intros, queues, reminds, sending>>

\* A flush of Redis.
LoseReminds ==
    /\ reminds # {} /\ \A w \in Reminders : reminder[w].pc = "idle"
    /\ Fault
    /\ reminds' = {}
    /\ UNCHANGED <<state, intros, queues, reminder, sending>>

-----------------------------------------------------------------------------
(* The sweeps of the proactive scan.                                        *)

\* Mutated SweepReminder: whoever answered "later" is left out.
SweepUndecided ==
    /\ st.rem = "scheduled" /\ due # 0 /\ st.part = "undecided"
    /\ reminds' = reminds \union {[due |-> due, count |-> 0, sweep |-> TRUE]}
    /\ UNCHANGED <<state, intros, queues, reminder, sending, left>>

\* OnboardingReminderSweepService: any scheduled reminder may be overdue.
SweepReminder ==
    /\ st.rem = "scheduled" /\ due # 0
    /\ reminds' = reminds \union {[due |-> due, count |-> 0, sweep |-> TRUE]}
    /\ UNCHANGED <<state, intros, queues, reminder, sending, left>>

\* Mutated ReadReconcile: only people who got their intro are looked at.
ReadReconcileDelivered ==
    /\ query = NoRead /\ alive /\ st.track # TrackOf(role) /\ st.intro # "pending"
    /\ query' = [track |-> st.track, role |-> role]
    /\ UNCHANGED <<state, intros, inbox, effects, turn, restart, reminds, reminder, sending, left>>

\* OnboardingRoleReconcileService: the query, then one transaction per person.
ReadReconcile ==
    /\ query = NoRead /\ alive /\ st.track # TrackOf(role)
    /\ query' = [track |-> st.track, role |-> role]
    /\ UNCHANGED <<state, intros, inbox, effects, turn, restart, reminds, reminder, sending, left>>

Representative(track) == IF track = "management" THEN "manager" ELSE track

\* The event is built from what the query read; the re-check under the row lock looks at
\* the row and the person as they are.
ApplyReconcile ==
    /\ query # NoRead
    /\ IF st.track = TrackOf(role)
       THEN UNCHANGED <<st, due, proactive, effects>>
       ELSE Apply(RoleDecision(Representative(query.track), query.role))
    /\ query' = NoRead
    /\ UNCHANGED <<role, alive, shown, intros, inbox, turn, restart, reminds, reminder, sending, left>>

-----------------------------------------------------------------------------
(* The restart of a person by an administrator.                             *)

\* The role is read first, and nothing holds it until the row is written.
ReadRestart ==
    /\ restarting = NoRole
    /\ Use("restarts")
    /\ restarting' = role
    /\ UNCHANGED <<state, intros, inbox, effects, turn, query, firstContact, reminds, reminder,
                   sending>>

\* A transaction that waits for the lock of the deleted row finds none when it gets it, and
\* its event is over.  The role that is read is the one the new row is for; the message
\* that carried buttons is forgotten, and the first contact has to be made again.
ApplyRestart ==
    /\ restarting # NoRole
    /\ st' = Initial(restarting) /\ due' = 0 /\ shown' = 0
    /\ firstContact' = TRUE /\ restarting' = NoRole
    /\ inbox' \in {inbox} \union {inbox \ {j} : j \in inbox}
    /\ turn' \in {turn, NoEvent}
    /\ query' \in {query, NoRead}
    /\ UNCHANGED <<role, alive, proactive, intros, effects, reminds, reminder, sending, left>>

\* OnboardingDispatchService: a person who is not active is tried again later.
DispatchIntro ==
    /\ firstContact /\ alive
    /\ firstContact' = FALSE
    /\ outbox' = outbox \union {[track |-> TrackOf(role), roleChange |-> FALSE]}
    /\ UNCHANGED <<state, posted, inbox, effects, turn, query, restarting, reminds, reminder,
                   sending, left>>

-----------------------------------------------------------------------------
ReminderRuns(w) == MoveDue(w) \/ AddMoved(w) \/ CommitReminder(w) \/ EnqueueReminder(w)
TakesRemind(w, j) == DropRemind(w, j) \/ StartRemind(w, j)

Next ==
    \/ \E e \in effects : ScheduleReminder(e) \/ SendRoleIntro(e)
    \/ \E a \in Actions : Click(a)
    \/ \E j \in inbox : RunJob(j) \/ RunJobAgain(j)
    \/ \E intent \in Intents, substantive \in BOOLEAN : ReadTurn(intent, substantive)
    \/ \E to \in Roles : ChangeRole(to)
    \/ \E i \in outbox : PostTrust(i)
    \/ \E t \in DOMAIN posted : RecordIntro(t)
    \/ \E w \in Reminders :
        \/ \E j \in reminds : TakesRemind(w, j) \/ \E n \in 0..MaxPostponements : Postpone(w, j, n)
        \/ Recalculate(w) \/ ReminderRuns(w) \/ ReminderCrash(w)
    \/ LoseEffects \/ ApplyTurn \/ FlipAlive \/ LoseReminds
    \/ SweepReminder \/ ReadReconcile \/ ApplyReconcile
    \/ ReadRestart \/ ApplyRestart \/ DispatchIntro

Spec == Init /\ [][Next]_vars

\* Workers finish what they started and BullMQ keeps handing out jobs; the proactive
\* scan comes back to every overdue reminder and every stale track.
Fairness ==
    /\ \A w \in Reminders : WF_vars(ReminderRuns(w))
    /\ SF_vars(\E w \in Reminders, j \in reminds : TakesRemind(w, j))
    /\ WF_vars(SweepReminder)
    /\ WF_vars(ReadReconcile) /\ WF_vars(ApplyReconcile)

FairSpec == Spec /\ Fairness

-----------------------------------------------------------------------------
(* Properties.                                                              *)

\* The CHECK constraints of onboarding_states hold after every decision, so no event,
\* in whatever order clicks, turns, role changes and deliveries arrive, is refused by
\* the database.
ChecksHold ==
    /\ (st.track = "management") = (st.part = "not_applicable")
    /\ st.rem = "scheduled" => due # 0
    /\ st.track = "management" => st.rem \in {"none", "cancelled"}

\* Whoever declined gets no proactive contact and whoever takes part does, although
\* choices, returns and role changes may follow each other in any order.
ProactiveFollowsChoice ==
    /\ st.part = "declined" => ~proactive
    /\ st.part = "active" => proactive

\* A reminder message is written only for a person who is still undecided, however old
\* the job and the row it was checked on are.
NoReminderAfterChoice ==
    [][written' # written => st.part \in Open /\ Personal(st) /\ st'.rem = "sent"]_vars

\* Buttons come back only with a message newer than the one on record: a replayed delivery
\* or an older one never re-arms what was answered.  A restart takes the buttons away and
\* forgets the record, so after it any message that was posted counts as newer, the retried
\* send of an old one too.
ButtonsNeedNewerIntro == [][~st.buttons /\ st'.buttons => shown' > shown]_vars

\* An active person's track agrees with the role in the end, although the event of a
\* role change may be lost and events may be applied in the wrong order.
TrackFollowsRole == []<>(st.track = TrackOf(role) \/ ~alive)

\* A scheduled reminder is sent, cancelled or out of date in the end, although its job
\* or its worker may be lost.
ReminderSettles ==
    st.rem = "scheduled" ~> (st.rem # "scheduled" \/ ~alive \/ ~Remindable)
=============================================================================
