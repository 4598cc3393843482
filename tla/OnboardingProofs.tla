--------------------------- MODULE OnboardingProofs ---------------------------
(***************************************************************************)
(* Proofs about Onboarding.  Everything about the row rests on what the    *)
(* decisions do, whatever the event: Sound says it once for a state and a  *)
(* decision, and one lemma per event shows it.  ApplySound carries it over *)
(* the transaction that applies a decision.                                *)
(***************************************************************************)
EXTENDS Onboarding, TLAPS

\* A state the CHECK constraints accept.
Checked(s) ==
    /\ s \in OnboardingStates
    /\ (s.track = "management") = (s.part = "not_applicable")
    /\ s.track = "management" => s.rem \in {"none", "cancelled"}

\* The decision keeps the constraints, schedules no reminder silently and moves
\* proactive messaging along with the participation.
Sound(s, d) ==
    /\ Checked(d.next)
    /\ d.next.rem = "scheduled" =>
        s.rem = "scheduled" \/ "schedule_reminder" \in d.effects
    /\ d.next.part = "declined" =>
        /\ "proactive_on" \notin d.effects
        /\ s.part = "declined" \/ "proactive_off" \in d.effects
    /\ d.next.part = "active" =>
        \/ "proactive_on" \in d.effects
        \/ s.part = "active" /\ "proactive_off" \notin d.effects

\* No decision but that about a delivered intro brings buttons.
NoNewButtons(s, d) == d.next.buttons => s.buttons

USE DEF Decision, Keep, Personal, Roles, Tracks, Actions

LEMMA CheckedInitial == ASSUME NEW r \in Roles PROVE Checked(Initial(r)) /\ ~Initial(r).buttons
BY DEF Checked, Initial, TrackOf, OnboardingStates, Participations, Open

LEMMA KeepSound == ASSUME NEW s, Checked(s) PROVE Sound(s, Keep(s)) /\ NoNewButtons(s, Keep(s))
BY DEF Checked, Sound, NoNewButtons

LEMMA ActivateSound ==
    ASSUME NEW s, Checked(s), Personal(s), NEW b \in BOOLEAN, NEW e, "proactive_off" \notin e
    PROVE  Sound(s, Activate(s, b, e)) /\ NoNewButtons(s, Activate(s, b, e))
BY DEF Checked, Sound, NoNewButtons, Activate, Cancelled, Removal, OnboardingStates,
       Participations, Open

LEMMA DeclineSound ==
    ASSUME NEW s, Checked(s), Personal(s)
    PROVE  Sound(s, Decline(s)) /\ NoNewButtons(s, Decline(s))
BY DEF Checked, Sound, NoNewButtons, Decline, Cancelled, Removal, OnboardingStates,
       Participations, Open

LEMMA IntroSound ==
    ASSUME NEW s, Checked(s), NEW b \in BOOLEAN
    PROVE  Sound(s, IntroDelivered(s, b))
BY DEF Checked, Sound, IntroDelivered, OnboardingStates, Participations, Open

LEMMA SubstantiveSound ==
    ASSUME NEW s, Checked(s)
    PROVE  Sound(s, SubstantiveTurn(s)) /\ NoNewButtons(s, SubstantiveTurn(s))
<1>1. CASE ~Personal(s) \/ s.part = "active"
  BY <1>1, KeepSound DEF SubstantiveTurn
<1>2. CASE Personal(s) /\ s.part = "declined"
  BY <1>2 DEF Checked, Sound, NoNewButtons, SubstantiveTurn, OnboardingStates, Participations, Open
<1>3. CASE Personal(s) /\ s.part # "declined" /\ s.part # "active"
  BY <1>3, ActivateSound DEF SubstantiveTurn
<1> QED BY <1>1, <1>2, <1>3

LEMMA ManagementSound ==
    ASSUME NEW s, Checked(s), NEW a, ~Personal(s)
    PROVE  Sound(s, ManagementAction(s, a)) /\ NoNewButtons(s, ManagementAction(s, a))
BY DEF Checked, Sound, NoNewButtons, ManagementAction, Removal, OnboardingStates,
       Participations, Open

LEMMA StartSound ==
    ASSUME NEW s, Checked(s), Personal(s)
    PROVE  Sound(s, StartAction(s)) /\ NoNewButtons(s, StartAction(s))
<1>1. CASE s.part # "active"
  BY <1>1, ActivateSound DEF StartAction
<1>2. CASE s.part = "active"
  BY <1>2 DEF Checked, Sound, NoNewButtons, StartAction, TakeButtons, OnboardingStates,
              Participations, Open
<1> QED BY <1>1, <1>2

LEMMA GotItSound ==
    ASSUME NEW s, Checked(s), Personal(s), NEW b \in BOOLEAN
    PROVE  Sound(s, GotItAction(s, b)) /\ NoNewButtons(s, GotItAction(s, b))
<1>1. CASE s.track = "team_lead" /\ ~b /\ s.part \notin {"active", "declined"}
  BY <1>1, ActivateSound DEF GotItAction
<1>2. CASE ~(s.track = "team_lead" /\ ~b /\ s.part \notin {"active", "declined"})
  BY <1>2 DEF Checked, Sound, NoNewButtons, GotItAction, TakeButtons, OnboardingStates,
              Participations, Open
<1> QED BY <1>1, <1>2

LEMMA LaterSound ==
    ASSUME NEW s, Checked(s), Personal(s), NEW b \in BOOLEAN
    PROVE  Sound(s, LaterAction(s, b)) /\ NoNewButtons(s, LaterAction(s, b))
<1> USE DEF Checked, Sound, NoNewButtons, LaterAction, TakeButtons, Removal,
            OnboardingStates, Participations, Open
<1>1. CASE s.part = "active" \/ b \/ s.part = "declined"
  BY <1>1
<1>2. CASE s.part # "active" /\ ~b /\ s.part # "declined" /\ s.rem = "sent"
  BY <1>2
<1>3. CASE s.part # "active" /\ ~b /\ s.part # "declined" /\ s.rem # "sent"
  BY <1>3
<1> QED BY <1>1, <1>2, <1>3

LEMMA ChooseSound ==
    ASSUME NEW s, Checked(s), NEW a \in Actions, NEW b \in BOOLEAN
    PROVE  Sound(s, ChooseAction(s, a, b)) /\ NoNewButtons(s, ChooseAction(s, a, b))
<1> DEFINE stale == b /\ ~s.buttons
<1>1. CASE ~Personal(s)
  BY <1>1, ManagementSound DEF ChooseAction
<1>2. CASE Personal(s)
  <2>0. stale \in BOOLEAN
    OBVIOUS
  <2>1. CASE a = "start"
    BY <1>2, <2>1, StartSound DEF ChooseAction
  <2>2. CASE a = "got_it"
    BY <1>2, <2>0, <2>2, GotItSound DEF ChooseAction
  <2>3. CASE a = "decline"
    BY <1>2, <2>3, DeclineSound DEF ChooseAction
  <2>4. CASE a = "later"
    BY <1>2, <2>0, <2>4, LaterSound DEF ChooseAction
  <2> QED BY <2>1, <2>2, <2>3, <2>4
<1> QED BY <1>1, <1>2

LEMMA RoleSound ==
    ASSUME NEW s, Checked(s), NEW from \in Roles, NEW to \in Roles
    PROVE  Sound(s, RoleChanged(s, from, to)) /\ NoNewButtons(s, RoleChanged(s, from, to))
<1>1. CASE TrackOf(to) = s.track
  BY <1>1 DEF Checked, Sound, NoNewButtons, RoleChanged
<1>2. CASE TrackOf(to) # s.track /\ TrackOf(to) = "management"
  BY <1>2 DEF Checked, Sound, NoNewButtons, RoleChanged, Initial, OnboardingStates,
              Participations, Open
<1>3. CASE TrackOf(to) # s.track /\ TrackOf(to) # "management" /\ ~Personal(s)
  BY <1>3, CheckedInitial DEF Checked, Sound, NoNewButtons, RoleChanged, Initial
<1>4. CASE TrackOf(to) # s.track /\ TrackOf(to) # "management" /\ Personal(s)
  BY <1>4 DEF Checked, Sound, NoNewButtons, RoleChanged, TrackOf, OnboardingStates,
              Participations, Open
<1> QED BY <1>1, <1>2, <1>3, <1>4

LEMMA RoleDecisionSound ==
    ASSUME Checked(st), NEW from \in Roles, NEW to \in Roles
    PROVE  Sound(st, RoleDecision(from, to)) /\ NoNewButtons(st, RoleDecision(from, to))
BY RoleSound, KeepSound DEF RoleDecision

LEMMA DeactivatedSound ==
    ASSUME NEW s, Checked(s)
    PROVE  Sound(s, Deactivated(s)) /\ NoNewButtons(s, Deactivated(s))
BY DEF Checked, Sound, NoNewButtons, Deactivated, Cancelled, OnboardingStates,
       Participations, Open

LEMMA JobSound ==
    ASSUME Checked(st), NEW j \in Jobs
    PROVE  Sound(st, JobDecision(j)) /\ NoNewButtons(st, JobDecision(j))
<1>1. CASE j \in Clicks
  BY <1>1, ChooseSound DEF Clicks, JobDecision
<1>2. CASE j \in RoleEvents
  BY <1>2, RoleDecisionSound DEF RoleEvents, JobDecision
<1>3. CASE j \in Deactivations
  BY <1>3, DeactivatedSound DEF Deactivations, JobDecision
<1> QED BY <1>1, <1>2, <1>3 DEF Jobs

LEMMA TurnSound ==
    ASSUME Checked(st), NEW e \in TurnEvents
    PROVE  Sound(st, DecideTurn(st, e)) /\ NoNewButtons(st, DecideTurn(st, e))
<1>1. CASE e = NoEvent
  BY <1>1, KeepSound DEF DecideTurn, NoEvent
<1>2. CASE e = Substantive
  BY <1>2, SubstantiveSound DEF DecideTurn, Substantive
<1>3. CASE e = Stop
  BY <1>3, DeclineSound, KeepSound DEF DecideTurn, Stop, StopRequested
<1>4. ASSUME NEW a \in Actions, e = TextAction(a)
      PROVE  Sound(st, DecideTurn(st, e)) /\ NoNewButtons(st, DecideTurn(st, e))
  BY <1>4, ChooseSound DEF DecideTurn, TextAction
<1> QED BY <1>1, <1>2, <1>3, <1>4 DEF TurnEvents

LEMMA ReminderSound ==
    ASSUME Checked(st), Remindable
    PROVE  Sound(st, ReminderSent(st)) /\ NoNewButtons(st, ReminderSent(st))
BY DEF Checked, Sound, NoNewButtons, ReminderSent, Remindable, OnboardingStates,
       Participations, Open

-----------------------------------------------------------------------------
(* The row under every transaction.                                         *)

RowOK ==
    /\ Checked(st) /\ proactive \in BOOLEAN /\ due \in Dues \union {0}
    /\ role \in Roles
    /\ st.rem = "scheduled" => due # 0
    /\ ProactiveFollowsChoice
    /\ effects \subseteq RoleIntros \union Schedules

LEMMA ApplySound ==
    ASSUME RowOK, role' = role, NEW d, Sound(st, d), Apply(d)
    PROVE  RowOK'
<1>1. CASE d.effects = {} /\ d.next = st
  BY <1>1 DEF RowOK, Apply, Checked, ProactiveFollowsChoice, RoleIntros, Schedules
<1>2. CASE ~(d.effects = {} /\ d.next = st)
  <2>0. /\ st' = d.next
        /\ due' \in IF "schedule_reminder" \in d.effects THEN Dues ELSE {due}
        /\ proactive' = ProactiveAfter(d)
        /\ effects' = effects \union PostCommit(d, due')
    BY <1>2 DEF Apply, ComingDues
  <2>1. Checked(st')
    BY <2>0 DEF Sound
  <2>2. due' \in Dues \union {0} /\ (st'.rem = "scheduled" => due' # 0)
    BY <2>0, OnboardingDuesAssumption DEF RowOK, Sound
  <2>3. proactive' \in BOOLEAN
    BY <2>0 DEF ProactiveAfter, RowOK
  <2>4. ProactiveFollowsChoice'
    BY <2>0 DEF ProactiveAfter, RowOK, Sound, ProactiveFollowsChoice
  <2>5. effects' \subseteq RoleIntros \union Schedules
    BY <2>0 DEF RowOK, PostCommit, RoleIntro, RoleIntros, Schedules
  <2> QED BY <2>1, <2>2, <2>3, <2>4, <2>5 DEF RowOK, Checked
<1> QED BY <1>1, <1>2

-----------------------------------------------------------------------------
(* The inductive invariant.                                                 *)

IInv == TypeOK /\ ChecksHold /\ ProactiveFollowsChoice

LEMMA RowOfInv == ASSUME IInv PROVE RowOK
BY DEF IInv, TypeOK, ChecksHold, ProactiveFollowsChoice, RowOK, Checked

\* The parts of TypeOK no transaction on the row touches.
QueuesOK ==
    /\ alive \in BOOLEAN
    /\ outbox \subseteq Intros /\ posted \in Seq(Intros)
    /\ shown \in 0..Len(posted)
    /\ inbox \subseteq Jobs
    /\ turn \in TurnEvents /\ query \in Reads \union {NoRead}
    /\ restarting \in Roles \union {NoRole} /\ firstContact \in BOOLEAN
    /\ reminds \subseteq RemindJobs
    /\ reminder \in [Reminders -> ReminderState]
    /\ \A w \in Reminders :
        /\ reminder[w].pc = "add" => reminder[w].due # 0
        /\ reminder[w].pc = "enqueue" => reminder[w].key \in written
    /\ written \subseteq 0..Len(posted) /\ sends \subseteq written
    /\ left \in [Bounds -> Nat]

LEMMA InvIsRowAndQueues == IInv <=> RowOK /\ QueuesOK
BY DEF IInv, TypeOK, ChecksHold, ProactiveFollowsChoice, RowOK, Checked, QueuesOK,
       OnboardingStates

LEMMA InitInv == Init => IInv
<1> SUFFICES ASSUME Init PROVE RowOK /\ QueuesOK
  BY InvIsRowAndQueues
<1>1. role \in Roles
  BY OnboardingRolesAssumption DEF Init
<1>2. RowOK
  BY <1>1, CheckedInitial DEF Init, RowOK, ProactiveFollowsChoice, Initial, Open
<1>3. outbox \subseteq Intros
  BY <1>1 DEF Init, Intros, TrackOf
<1>4. IdleReminder \in ReminderState
  BY OnboardingBoundsAssumption DEF IdleReminder, ReminderState, RemindSteps, NoRemind
<1>5. /\ reminder \in [Reminders -> ReminderState]
      /\ \A w \in Reminders : reminder[w].pc = "idle"
  BY <1>4 DEF Init, IdleReminder
<1>6. left \in [Bounds -> Nat]
  BY OnboardingBoundsAssumption DEF Init
<1>7. turn \in TurnEvents
  BY DEF Init, TurnEvents
<1>8. posted \in Seq(Intros) /\ shown \in 0..Len(posted) /\ written \subseteq 0..Len(posted)
  BY DEF Init
<1>9. /\ alive \in BOOLEAN /\ firstContact \in BOOLEAN
      /\ query \in Reads \union {NoRead} /\ restarting \in Roles \union {NoRole}
      /\ inbox \subseteq Jobs /\ reminds \subseteq RemindJobs /\ sends \subseteq written
  BY DEF Init
<1>10. QueuesOK
  BY <1>3, <1>5, <1>6, <1>7, <1>8, <1>9 DEF QueuesOK
<1> QED BY <1>2, <1>10

\* A step that leaves the row and its effects alone.
LEMMA RowKept ==
    ASSUME RowOK, UNCHANGED <<st, due, proactive, effects, role>>
    PROVE  RowOK'
BY DEF RowOK, Checked, ProactiveFollowsChoice

LEMMA NewRoleKept ==
    ASSUME RowOK, UNCHANGED <<st, due, proactive, effects>>, role' \in Roles
    PROVE  RowOK'
BY DEF RowOK, Checked, ProactiveFollowsChoice

LEMMA EffectRun ==
    ASSUME RowOK, UNCHANGED <<st, due, proactive, role>>, effects' \subseteq effects
    PROVE  RowOK'
BY DEF RowOK, Checked, ProactiveFollowsChoice

LEMMA IdleOK == IdleReminder \in ReminderState
BY OnboardingBoundsAssumption DEF IdleReminder, ReminderState, RemindSteps, NoRemind

\* What a decision keeps together: the invariant after any transaction that applies one.
LEMMA AppliedInv ==
    ASSUME RowOK, NEW d, Sound(st, d), Apply(d), role' = role, QueuesOK'
    PROVE  IInv'
<1>1. RowOK'
  BY ApplySound
<1> QED BY <1>1, InvIsRowAndQueues DEF IInv, TypeOK, ChecksHold, ProactiveFollowsChoice, RowOK,
        Checked, QueuesOK, OnboardingStates

LEMMA KeptInv ==
    ASSUME RowOK', QueuesOK' PROVE IInv'
BY DEF IInv, TypeOK, ChecksHold, ProactiveFollowsChoice, RowOK, Checked, QueuesOK

LEMMA EffectsStep ==
    ASSUME IInv,
           \/ \E e \in effects : ScheduleReminder(e) \/ SendRoleIntro(e)
           \/ LoseEffects
    PROVE  IInv'
<1> USE RowOfInv, InvIsRowAndQueues
<1>1. ASSUME NEW e \in effects, ScheduleReminder(e) PROVE IInv'
  <2>1. RowOK'
    BY <1>1, EffectRun DEF ScheduleReminder, state
  <2>2. [due |-> e.due, count |-> 0, sweep |-> FALSE] \in RemindJobs
    BY <1>1, OnboardingBoundsAssumption
    DEF ScheduleReminder, RowOK, RoleIntros, Schedules, RemindJobs
  <2>3. QueuesOK'
    BY <1>1, <2>2 DEF ScheduleReminder, QueuesOK, state, intros, restart, sending
  <2> QED BY <2>1, <2>3, KeptInv
<1>2. ASSUME NEW e \in effects, SendRoleIntro(e) PROVE IInv'
  <2>1. RowOK'
    BY <1>2, EffectRun DEF SendRoleIntro, state
  <2>2. [track |-> TrackOf(e.role), roleChange |-> TRUE] \in Intros
    BY <1>2 DEF SendRoleIntro, RowOK, RoleIntros, Schedules, Intros, TrackOf
  <2>3. QueuesOK'
    BY <1>2, <2>2 DEF SendRoleIntro, QueuesOK, state, restart, sending
  <2> QED BY <2>1, <2>3, KeptInv
<1>3. ASSUME LoseEffects PROVE IInv'
  <2>1. RowOK'
    BY <1>3, EffectRun DEF LoseEffects, state
  <2>2. QueuesOK'
    BY <1>3 DEF LoseEffects, Fault, Use, QueuesOK, state, intros, restart, sending, Bounds
  <2> QED BY <2>1, <2>2, KeptInv
<1> QED BY <1>1, <1>2, <1>3

LEMMA InboxStep ==
    ASSUME IInv,
           \/ \E a \in Actions : Click(a)
           \/ \E j \in inbox : RunJob(j) \/ RunJobAgain(j)
    PROVE  IInv'
<1> USE RowOfInv, InvIsRowAndQueues
<1>1. ASSUME NEW a \in Actions, Click(a) PROVE IInv'
  <2>1. RowOK'
    BY <1>1, RowKept DEF Click, state
  <2>2. [kind |-> "click", action |-> a, id |-> left["clicks"]] \in Jobs
    BY DEF Jobs, Clicks, QueuesOK, Bounds
  <2>3. QueuesOK'
    BY <1>1, <2>2 DEF Click, Use, QueuesOK, state, intros, restart, sending, Bounds
  <2> QED BY <2>1, <2>3, KeptInv
<1>2. ASSUME NEW j \in inbox, RunJob(j) PROVE IInv'
  <2>1. QueuesOK'
    BY <1>2 DEF RunJob, QueuesOK, intros, restart, sending
  <2> QED BY <1>2, <2>1, JobSound, AppliedInv DEF RunJob, RowOK, QueuesOK
<1>3. ASSUME NEW j \in inbox, RunJobAgain(j) PROVE IInv'
  <2>1. QueuesOK'
    BY <1>3 DEF RunJobAgain, Fault, Use, QueuesOK, intros, restart, sending, Bounds
  <2> QED BY <1>3, <2>1, JobSound, AppliedInv DEF RunJobAgain, RowOK, QueuesOK
<1> QED BY <1>1, <1>2, <1>3

LEMMA TurnStep ==
    ASSUME IInv,
           \/ \E intent \in Intents, substantive \in BOOLEAN : ReadTurn(intent, substantive)
           \/ ApplyTurn
    PROVE  IInv'
<1> USE RowOfInv, InvIsRowAndQueues
<1>1. ASSUME NEW intent \in Intents, NEW substantive \in BOOLEAN, ReadTurn(intent, substantive)
      PROVE  IInv'
  <2>1. RowOK'
    BY <1>1, RowKept DEF ReadTurn, state
  <2>2. Interpret(st, intent, substantive) \in TurnEvents
    BY DEF Interpret, TurnEvents
  <2>3. QueuesOK'
    BY <1>1, <2>2 DEF ReadTurn, Use, QueuesOK, state, intros, restart, sending, Bounds
  <2> QED BY <2>1, <2>3, KeptInv
<1>2. ASSUME ApplyTurn PROVE IInv'
  <2>1. QueuesOK'
    BY <1>2 DEF ApplyTurn, QueuesOK, intros, restart, sending, TurnEvents
  <2> QED BY <1>2, <2>1, TurnSound, AppliedInv DEF ApplyTurn, RowOK, QueuesOK
<1> QED BY <1>1, <1>2

LEMMA HierarchyStep ==
    ASSUME IInv,
           \/ \E to \in Roles : ChangeRole(to)
           \/ FlipAlive \/ ReadReconcile \/ ApplyReconcile
    PROVE  IInv'
<1> USE RowOfInv, InvIsRowAndQueues
<1>1. ASSUME NEW to \in Roles, ChangeRole(to) PROVE IInv'
  <2>1. RowOK'
    BY <1>1, NewRoleKept DEF ChangeRole
  <2>2. [kind |-> "role", from |-> role, to |-> to, id |-> left["roles"]] \in Jobs
    BY DEF Jobs, RoleEvents, QueuesOK, RowOK, Bounds
  <2>3. inbox' \subseteq Jobs
    BY <1>1, <2>2 DEF ChangeRole, QueuesOK
  <2>4. left' \in [Bounds -> Nat]
    <3>1. CASE left' = [left EXCEPT !["roles"] = @ - 1]
      BY <1>1, <3>1 DEF ChangeRole, QueuesOK, Bounds
    <3>2. CASE /\ left["faults"] > 0
               /\ left' = [left EXCEPT !["roles"] = @ - 1, !["faults"] = @ - 1]
      <4> DEFINE roled == [left EXCEPT !["roles"] = @ - 1]
      <4>1. roled \in [Bounds -> Nat] /\ roled["faults"] > 0
        BY <1>1, <3>2 DEF ChangeRole, QueuesOK, Bounds
      <4>2. left' = [roled EXCEPT !["faults"] = @ - 1]
        BY <3>2
      <4> HIDE DEF roled
      <4> QED BY <4>1, <4>2 DEF Bounds
    <3> QED BY <1>1, <3>1, <3>2 DEF ChangeRole
  <2>5. QueuesOK'
    BY <1>1, <2>3, <2>4 DEF ChangeRole, QueuesOK, intros, restart, sending
  <2> QED BY <2>1, <2>5, KeptInv
<1>2. ASSUME FlipAlive PROVE IInv'
  <2>1. RowOK'
    BY <1>2, RowKept DEF FlipAlive
  <2>2. [kind |-> "deactivated", id |-> left["flips"]] \in Jobs
    BY DEF Jobs, Deactivations, QueuesOK, Bounds
  <2>3. QueuesOK'
    BY <1>2, <2>2 DEF FlipAlive, Use, QueuesOK, intros, restart, sending, Bounds
  <2> QED BY <2>1, <2>3, KeptInv
<1>3. ASSUME ReadReconcile PROVE IInv'
  <2>1. RowOK'
    BY <1>3, RowKept DEF ReadReconcile, state
  <2>2. query' \in Reads
    BY <1>3 DEF ReadReconcile, RowOK, Checked, OnboardingStates, Reads
  <2>3. QueuesOK'
    BY <1>3, <2>2 DEF ReadReconcile, QueuesOK, state, intros, restart, sending
  <2> QED BY <2>1, <2>3, KeptInv
<1>4. ASSUME ApplyReconcile PROVE IInv'
  <2>1. QueuesOK'
    BY <1>4 DEF ApplyReconcile, QueuesOK, intros, restart, sending
  <2>2. CASE st.track = TrackOf(role)
    BY <1>4, <2>1, <2>2, RowKept, KeptInv DEF ApplyReconcile
  <2>3. CASE st.track # TrackOf(role)
    <3>1. query \in Reads
      BY <1>4 DEF ApplyReconcile, QueuesOK
    <3>2. Representative(query.track) \in Roles /\ query.role \in Roles
      BY <3>1 DEF Representative, Reads
    <3>3. Sound(st, RoleDecision(Representative(query.track), query.role))
      BY <3>2, RoleDecisionSound DEF RowOK
    <3> QED BY <1>4, <2>1, <2>3, <3>3, AppliedInv DEF ApplyReconcile
  <2> QED BY <2>2, <2>3
<1> QED BY <1>1, <1>2, <1>3, <1>4

LEMMA IntroStep ==
    ASSUME IInv,
           \/ \E i \in outbox : PostTrust(i)
           \/ \E t \in DOMAIN posted : RecordIntro(t)
    PROVE  IInv'
<1> USE RowOfInv, InvIsRowAndQueues
<1>1. ASSUME NEW i \in outbox, PostTrust(i) PROVE IInv'
  <2>1. RowOK'
    BY <1>1, RowKept DEF PostTrust, state, queues
  <2>2. posted' \in Seq(Intros) /\ Len(posted') = Len(posted) + 1
    BY <1>1 DEF PostTrust, QueuesOK
  <2>3. left' \in [Bounds -> Nat] /\ outbox' \subseteq Intros
    <3>1. CASE outbox' = outbox \ {i} /\ left' = [left EXCEPT !["posts"] = @ - 1]
      BY <1>1, <3>1 DEF PostTrust, QueuesOK, Bounds
    <3>2. CASE /\ outbox' = outbox /\ left["reposts"] > 0
               /\ left' = [left EXCEPT !["posts"] = @ - 1, !["reposts"] = @ - 1]
      <4> DEFINE used == [left EXCEPT !["posts"] = @ - 1]
      <4>1. used \in [Bounds -> Nat] /\ used["reposts"] > 0
        BY <1>1, <3>2 DEF PostTrust, QueuesOK, Bounds
      <4>2. left' = [used EXCEPT !["reposts"] = @ - 1]
        BY <3>2
      <4> HIDE DEF used
      <4>3. left' \in [Bounds -> Nat]
        BY <4>1, <4>2 DEF Bounds
      <4> QED BY <3>2, <4>3 DEF QueuesOK
    <3> QED BY <1>1, <3>1, <3>2 DEF PostTrust
  <2>4. QueuesOK'
    <3>1. \A n \in 0..Len(posted) : n \in 0..Len(posted')
      BY <2>2 DEF QueuesOK
    <3> QED BY <1>1, <2>2, <2>3, <3>1 DEF PostTrust, QueuesOK, state, queues, restart, sending
  <2> QED BY <2>1, <2>4, KeptInv
<1>2. ASSUME NEW t \in DOMAIN posted, RecordIntro(t) PROVE IInv'
  <2>1. posted[t].roleChange \in BOOLEAN /\ t \in 0..Len(posted)
    <3>1. DOMAIN posted = 1..Len(posted) /\ posted[t] \in Intros /\ Len(posted) \in Nat
      BY DEF QueuesOK
    <3> QED BY <3>1 DEF Intros
  <2>2. QueuesOK'
    BY <1>2, <2>1 DEF RecordIntro, QueuesOK, intros, restart, sending
  <2> QED BY <1>2, <2>1, <2>2, IntroSound, AppliedInv DEF RecordIntro, RowOK
<1> QED BY <1>1, <1>2

LEMMA ReminderStep ==
    ASSUME IInv, NEW w \in Reminders,
           \/ \E j \in reminds :
                TakesRemind(w, j) \/ \E n \in 0..MaxPostponements : Postpone(w, j, n)
           \/ Recalculate(w) \/ ReminderRuns(w) \/ ReminderCrash(w)
    PROVE  IInv'
<1> USE RowOfInv, InvIsRowAndQueues, IdleOK
<1> USE DEF Goto, Finish
<1>0. IdleReminder.pc = "idle"
  BY DEF IdleReminder
<1>1. ASSUME NEW j \in reminds, DropRemind(w, j) PROVE IInv'
  <2>1. RowOK'
    BY <1>1, RowKept DEF DropRemind, state, queues
  <2>2. QueuesOK'
    BY <1>1 DEF DropRemind, QueuesOK, state, intros, queues, restart, sending
  <2> QED BY <2>1, <2>2, KeptInv
<1>2. ASSUME NEW j \in reminds, StartRemind(w, j) PROVE IInv'
  <2>1. RowOK'
    BY <1>2, RowKept DEF StartRemind, state, queues
  <2>2. [IdleReminder EXCEPT !.pc = "commit", !.job = j] \in ReminderState
    BY OnboardingBoundsAssumption DEF IdleReminder, ReminderState, RemindSteps, QueuesOK
  <2>3. QueuesOK'
    BY <1>2, <2>2 DEF StartRemind, QueuesOK, state, intros, queues, restart, sending, IdleReminder
  <2> QED BY <2>1, <2>3, KeptInv
<1>3. ASSUME NEW j \in reminds, NEW n \in 0..MaxPostponements, Postpone(w, j, n) PROVE IInv'
  <2>1. RowOK'
    BY <1>3, RowKept DEF Postpone, state, queues
  <2>2. [pc |-> "move", job |-> j, count |-> n, due |-> j.due, key |-> 0] \in ReminderState
    BY DEF ReminderState, RemindSteps, RemindJobs, QueuesOK
  <2>3. QueuesOK'
    BY <1>3, <2>2 DEF Postpone, Use, QueuesOK, state, intros, queues, restart, sending, Bounds
  <2> QED BY <2>1, <2>3, KeptInv
<1>4. ASSUME Recalculate(w) PROVE IInv'
  <2>1. RowOK'
    BY <1>4, RowKept DEF Recalculate, state, queues
  <2>2. [IdleReminder EXCEPT !.pc = "move", !.due = due] \in ReminderState
    BY OnboardingBoundsAssumption DEF IdleReminder, ReminderState, RemindSteps, NoRemind, RowOK
  <2>3. QueuesOK'
    BY <1>4, <2>2 DEF Recalculate, Use, QueuesOK, state, intros, queues, restart, sending, Bounds,
                      IdleReminder
  <2> QED BY <2>1, <2>3, KeptInv
<1>5. ASSUME MoveDue(w) PROVE IInv'
  <2>1. CASE Scheduled(reminder[w].due)
    <3>1. PICK d \in Dues \ {due} :
              /\ due' = d
              /\ reminder' = [reminder EXCEPT ![w] = [reminder[w] EXCEPT !.pc = "add", !.due = d]]
              /\ UNCHANGED reminds
      BY <1>5, <2>1 DEF MoveDue, ComingDues, Goto
    <3>2. d # 0 /\ d \in Dues
      BY OnboardingDuesAssumption
    <3>3. RowOK'
      BY <1>5, <3>1, <3>2 DEF MoveDue, RowOK, Checked, ProactiveFollowsChoice, queues
    <3>4. [reminder[w] EXCEPT !.pc = "add", !.due = d] \in ReminderState
      BY <3>2 DEF QueuesOK, ReminderState, RemindSteps
    <3>5. QueuesOK'
      BY <1>5, <3>1, <3>2, <3>4 DEF MoveDue, QueuesOK, intros, queues, restart, sending, ReminderState
    <3> QED BY <3>3, <3>5, KeptInv
  <2>2. CASE ~Scheduled(reminder[w].due)
    <3>1. RowOK'
      BY <1>5, <2>2, RowKept DEF MoveDue, queues
    <3>2. QueuesOK'
      BY <1>0, <1>5, <2>2 DEF MoveDue, QueuesOK, intros, queues, restart, sending
    <3> QED BY <3>1, <3>2, KeptInv
  <2> QED BY <2>1, <2>2
<1>6. ASSUME AddMoved(w) PROVE IInv'
  <2>1. RowOK'
    BY <1>6, RowKept DEF AddMoved, state, queues
  <2>2. [due |-> reminder[w].due, count |-> reminder[w].count, sweep |-> FALSE] \in RemindJobs
    BY <1>6 DEF AddMoved, QueuesOK, ReminderState, RemindJobs
  <2>3. QueuesOK'
    BY <1>0, <1>6, <2>2 DEF AddMoved, QueuesOK, state, intros, queues, restart, sending
  <2> QED BY <2>1, <2>3, KeptInv
<1>7. ASSUME CommitReminder(w) PROVE IInv'
  <2>1. CASE ReminderStands(w)
    <3>1. /\ Apply(ReminderSent(st))
          /\ written' = written \union {shown}
          /\ reminder' = [reminder EXCEPT ![w] = [reminder[w] EXCEPT !.pc = "enqueue", !.key = shown]]
          /\ UNCHANGED reminds
      BY <1>7, <2>1 DEF CommitReminder
    <3>2. Sound(st, ReminderSent(st))
      BY <2>1, ReminderSound DEF ReminderStands, RowOK
    <3>3. [reminder[w] EXCEPT !.pc = "enqueue", !.key = shown] \in ReminderState
      <4>1. shown \in Nat
        BY DEF QueuesOK
      <4> QED BY <4>1 DEF QueuesOK, ReminderState, RemindSteps
    <3>4. QueuesOK'
      BY <1>7, <3>1, <3>3 DEF CommitReminder, QueuesOK, restart, intros, ReminderState
    <3> QED BY <1>7, <3>1, <3>2, <3>4, AppliedInv DEF CommitReminder
  <2>2. CASE ~ReminderStands(w)
    <3>1. RowOK'
      BY <1>7, <2>2, RowKept DEF CommitReminder
    <3>2. QueuesOK'
      BY <1>0, <1>7, <2>2 DEF CommitReminder, QueuesOK, restart, intros
    <3> QED BY <3>1, <3>2, KeptInv
  <2> QED BY <2>1, <2>2
<1>8. ASSUME EnqueueReminder(w) PROVE IInv'
  <2>1. RowOK'
    BY <1>8, RowKept DEF EnqueueReminder, state, queues
  <2>2. QueuesOK'
    BY <1>0, <1>8 DEF EnqueueReminder, QueuesOK, state, intros, queues, restart
  <2> QED BY <2>1, <2>2, KeptInv
<1>9. ASSUME ReminderCrash(w) PROVE IInv'
  <2>1. RowOK'
    BY <1>9, RowKept DEF ReminderCrash, state, queues
  <2>2. QueuesOK'
    BY <1>0, <1>9 DEF ReminderCrash, Fault, Use, QueuesOK, state, intros, queues, restart, sending, Bounds
  <2> QED BY <2>1, <2>2, KeptInv
<1> QED BY <1>1, <1>2, <1>3, <1>4, <1>5, <1>6, <1>7, <1>8, <1>9 DEF TakesRemind, ReminderRuns

LEMMA SweepStep ==
    ASSUME IInv, LoseReminds \/ SweepReminder PROVE IInv'
<1> USE RowOfInv, InvIsRowAndQueues
<1>1. ASSUME LoseReminds PROVE IInv'
  <2>1. RowOK'
    BY <1>1, RowKept DEF LoseReminds, state, queues
  <2>2. QueuesOK'
    BY <1>1 DEF LoseReminds, Fault, Use, QueuesOK, state, intros, queues, restart, sending, Bounds
  <2> QED BY <2>1, <2>2, KeptInv
<1>2. ASSUME SweepReminder PROVE IInv'
  <2>1. RowOK'
    BY <1>2, RowKept DEF SweepReminder, state, queues
  <2>2. [due |-> due, count |-> 0, sweep |-> TRUE] \in RemindJobs
    BY <1>2, OnboardingBoundsAssumption DEF SweepReminder, RowOK, RemindJobs
  <2>3. QueuesOK'
    BY <1>2, <2>2 DEF SweepReminder, QueuesOK, state, intros, queues, restart, sending
  <2> QED BY <2>1, <2>3, KeptInv
<1> QED BY <1>1, <1>2

LEMMA RestartStep ==
    ASSUME IInv, ReadRestart \/ ApplyRestart \/ DispatchIntro PROVE IInv'
<1> USE RowOfInv, InvIsRowAndQueues
<1>1. ASSUME ReadRestart PROVE IInv'
  <2>1. RowOK'
    BY <1>1, RowKept DEF ReadRestart, state
  <2>2. QueuesOK'
    BY <1>1 DEF ReadRestart, Use, QueuesOK, RowOK, state, intros, sending, Bounds
  <2> QED BY <2>1, <2>2, KeptInv
<1>2. ASSUME ApplyRestart PROVE IInv'
  <2>1. restarting \in Roles
    BY <1>2 DEF ApplyRestart, QueuesOK
  <2>2. RowOK'
    BY <1>2, <2>1, CheckedInitial
    DEF ApplyRestart, RowOK, ProactiveFollowsChoice, Initial, Open
  <2>3. inbox' \subseteq Jobs /\ turn' \in TurnEvents /\ query' \in Reads \union {NoRead}
    BY <1>2 DEF ApplyRestart, QueuesOK, TurnEvents
  <2>4. QueuesOK'
    BY <1>2, <2>3 DEF ApplyRestart, QueuesOK, intros, sending
  <2> QED BY <2>2, <2>4, KeptInv
<1>3. ASSUME DispatchIntro PROVE IInv'
  <2>1. RowOK'
    BY <1>3, RowKept DEF DispatchIntro, state
  <2>2. [track |-> TrackOf(role), roleChange |-> FALSE] \in Intros
    BY DEF RowOK, Intros, TrackOf
  <2>3. QueuesOK'
    BY <1>3, <2>2 DEF DispatchIntro, QueuesOK, state, sending
  <2> QED BY <2>1, <2>3, KeptInv
<1> QED BY <1>1, <1>2, <1>3

LEMMA StutterInv == ASSUME IInv, UNCHANGED vars PROVE IInv'
<1>1. RowOK'
  BY RowOfInv, RowKept DEF vars, state, queues
<1>2. QueuesOK'
  BY InvIsRowAndQueues DEF vars, state, intros, queues, restart, sending, QueuesOK
<1> QED BY <1>1, <1>2, KeptInv

LEMMA NextInv == ASSUME IInv, [Next]_vars PROVE IInv'
BY EffectsStep, InboxStep, TurnStep, HierarchyStep, IntroStep, ReminderStep, SweepStep,
   RestartStep, StutterInv DEF Next

-----------------------------------------------------------------------------
(* What a step may never do.                                                *)

LEMMA OneReminder ==
    ASSUME IInv, [Next]_vars
    PROVE  written' # written => st.part \in Open /\ Personal(st) /\ st'.rem = "sent"
<1>1. ASSUME NEW w \in Reminders, CommitReminder(w), ReminderStands(w)
      PROVE  st.part \in Open /\ Personal(st) /\ st'.rem = "sent"
  <2>1. st' = [st EXCEPT !.rem = "sent"]
    BY <1>1 DEF CommitReminder, Apply, ReminderSent
  <2> QED BY <1>1, <2>1 DEF ReminderStands, Remindable, IInv, TypeOK, OnboardingStates
<1>2. ASSUME NEW w \in Reminders, CommitReminder(w), ~ReminderStands(w)
      PROVE  written' = written
  BY <1>2 DEF CommitReminder
<1>3. ASSUME written' # written
      PROVE  \E w \in Reminders : CommitReminder(w)
  BY <1>3 DEF Next, vars, sending, state, queues, intros, ScheduleReminder, SendRoleIntro,
     Click, RunJob, RunJobAgain, ReadTurn, ChangeRole, PostTrust, RecordIntro, TakesRemind,
     DropRemind, StartRemind, Postpone, Recalculate, ReminderRuns, MoveDue, AddMoved,
     EnqueueReminder, ReminderCrash, LoseEffects, ApplyTurn, FlipAlive, LoseReminds,
     SweepReminder, ReadReconcile, ApplyReconcile, ReadRestart, ApplyRestart, DispatchIntro
<1> QED BY <1>1, <1>2, <1>3

LEMMA ButtonsStep ==
    ASSUME IInv, [Next]_vars, ~st.buttons, st'.buttons
    PROVE  shown' > shown
<1> USE RowOfInv, InvIsRowAndQueues
<1>1. ASSUME NEW t \in DOMAIN posted, RecordIntro(t) PROVE shown' > shown
  BY <1>1 DEF RecordIntro
<1>2. ASSUME NEW j \in inbox, RunJob(j) \/ RunJobAgain(j) PROVE FALSE
  BY <1>2, JobSound DEF RunJob, RunJobAgain, Apply, NoNewButtons, RowOK, QueuesOK
<1>3. ASSUME ApplyTurn PROVE FALSE
  BY <1>3, TurnSound DEF ApplyTurn, Apply, NoNewButtons, RowOK, QueuesOK
<1>4. ASSUME ApplyReconcile PROVE FALSE
  <2>1. query \in Reads
    BY <1>4 DEF ApplyReconcile, QueuesOK
  <2>2. Representative(query.track) \in Roles /\ query.role \in Roles
    BY <2>1 DEF Representative, Reads
  <2> QED BY <1>4, <2>2, RoleDecisionSound
          DEF ApplyReconcile, Apply, NoNewButtons, RowOK
<1>5. ASSUME NEW w \in Reminders, CommitReminder(w) PROVE FALSE
  BY <1>5, ReminderSound DEF CommitReminder, Apply, NoNewButtons, ReminderStands, RowOK
<1>6. \/ \E t \in DOMAIN posted : RecordIntro(t)
      \/ \E j \in inbox : RunJob(j) \/ RunJobAgain(j)
      \/ ApplyTurn \/ ApplyReconcile \/ ApplyRestart
      \/ \E w \in Reminders : CommitReminder(w)
  BY DEF Next, vars, state, queues, intros, ScheduleReminder, SendRoleIntro,
     Click, ReadTurn, ChangeRole, PostTrust, TakesRemind, DropRemind, StartRemind, Postpone,
     Recalculate, ReminderRuns, MoveDue, AddMoved, EnqueueReminder, ReminderCrash,
     LoseEffects, FlipAlive, LoseReminds, SweepReminder, ReadReconcile,
     ReadRestart, DispatchIntro
<1>7. ASSUME ApplyRestart PROVE FALSE
  BY <1>7, CheckedInitial DEF ApplyRestart, QueuesOK
<1> QED BY <1>1, <1>2, <1>3, <1>4, <1>5, <1>6, <1>7

-----------------------------------------------------------------------------
(* The theorems.                                                            *)

\* The invariant holds in every reachable state.
LEMMA SpecInv == Spec => []IInv
BY InitInv, NextInv, PTL DEF Spec

\* The row, the queues and the workers keep their types: a recorded intro was posted, and
\* every reminder belongs to one.
THEOREM OnboardingTypes == Spec => []TypeOK
BY SpecInv, PTL DEF IInv

\* No event, in whatever order, is refused by the CHECK constraints of the row.
THEOREM OnboardingChecksHold == Spec => []ChecksHold
BY SpecInv, PTL DEF IInv

\* Proactive contact is off for whoever declined and on for whoever takes part.
THEOREM OnboardingProactive == Spec => []ProactiveFollowsChoice
BY SpecInv, PTL DEF IInv

\* A reminder is written only for a person who is still undecided when it is.
THEOREM OnboardingReminderInTime == Spec => NoReminderAfterChoice
BY SpecInv, NextInv, OneReminder, PTL DEF Spec, NoReminderAfterChoice

\* Buttons come back only with a newer message that carries them.
THEOREM OnboardingButtons == Spec => ButtonsNeedNewerIntro
BY SpecInv, ButtonsStep, PTL DEF Spec, ButtonsNeedNewerIntro
=============================================================================
