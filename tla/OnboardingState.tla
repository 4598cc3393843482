---------------------------- MODULE OnboardingState ----------------------------
(***************************************************************************)
(* The onboarding decisions: what an event makes of one person's state and *)
(* which effects it asks for (decideOnboarding), and which event a turn of *)
(* the conversation stands for (interpretOnboardingSignal).                *)
(*                                                                         *)
(* Dates are left out where only their presence is looked at; wording is   *)
(* left out, so all acknowledgements are one effect.                       *)
(***************************************************************************)

\* hr stands for hr, hrbp and leadership.
Roles == {"employee", "team_lead", "manager", "hr"}
Tracks == {"employee", "team_lead", "management"}
TrackOf(role) == IF role \in {"employee", "team_lead"} THEN role ELSE "management"

Open == {"undecided", "deferred"}
Participations == Open \union {"active", "declined", "not_applicable"}
Actions == {"start", "later", "decline", "got_it"}

\* ack: managementAckAt is set.
OnboardingStates ==
    [track : Tracks, intro : {"pending", "delivered", "completed"},
     part : Participations, ack : BOOLEAN,
     rem : {"none", "scheduled", "sent", "cancelled"}, buttons : BOOLEAN]

Effects == {"schedule_reminder", "proactive_on", "proactive_off", "acknowledge",
            "start_conversation", "remove_buttons", "send_intro"}

Initial(role) ==
    [track |-> TrackOf(role), intro |-> "pending",
     part |-> IF TrackOf(role) = "management" THEN "not_applicable" ELSE "undecided",
     ack |-> FALSE, rem |-> "none", buttons |-> FALSE]

Personal(s) == s.track # "management"

Decision(next, effects) == [next |-> next, effects |-> effects]
Keep(s) == Decision(s, {})

\* cancel_reminder has no effect of its own: the reminder job looks at the row.
Cancelled(s) == IF s.rem = "scheduled" THEN "cancelled" ELSE s.rem
Removal(s) == IF s.buttons THEN {"remove_buttons"} ELSE {}

Activate(s, acknowledges, effects) ==
    Decision([s EXCEPT !.part = "active", !.intro = "completed", !.rem = Cancelled(s),
                       !.buttons = FALSE, !.ack = @ \/ acknowledges],
             {"proactive_on"} \union Removal(s) \union effects)

Decline(s) ==
    IF s.part = "declined" THEN Keep(s)
    ELSE Decision([s EXCEPT !.part = "declined", !.rem = Cancelled(s), !.buttons = FALSE,
                            !.ack = @ \/ s.track = "team_lead"],
                  {"proactive_off", "acknowledge"} \union Removal(s))

\* Only a role-change intro arms the buttons of a state whose intro is not pending.
IntroDelivered(s, roleChange) ==
    IF s.intro # "pending" THEN Keep([s EXCEPT !.buttons = @ \/ roleChange])
    ELSE IF ~Personal(s) THEN Keep([s EXCEPT !.intro = "delivered", !.buttons = TRUE])
    ELSE Decision([s EXCEPT !.intro = "delivered", !.buttons = TRUE, !.rem = "scheduled"],
                  {"schedule_reminder"})

\* Mutated SubstantiveTurn: coming back after a refusal leaves contact switched off.
SubstantiveTurnSilent(s) ==
    IF ~Personal(s) \/ s.part = "active" THEN Keep(s)
    ELSE IF s.part = "declined" THEN Keep([s EXCEPT !.part = "active", !.intro = "completed"])
    ELSE Activate(s, FALSE, {})

SubstantiveTurn(s) ==
    IF ~Personal(s) \/ s.part = "active" THEN Keep(s)
    ELSE IF s.part = "declined"
         THEN Decision([s EXCEPT !.part = "active", !.intro = "completed"], {"proactive_on"})
         ELSE Activate(s, FALSE, {})

\* A choice that only takes the buttons away, or says something when they are gone.
TakeButtons(s, effects) ==
    Decision([s EXCEPT !.buttons = FALSE], {"remove_buttons"} \union effects)

ManagementAction(s, action) ==
    IF action # "got_it" \/ (s.intro = "completed" /\ ~s.buttons) THEN Keep(s)
    ELSE Decision([s EXCEPT !.intro = "completed", !.ack = TRUE, !.buttons = FALSE],
                  {"acknowledge"} \union Removal(s))

StartAction(s) ==
    IF s.part # "active" THEN Activate(s, FALSE, {"start_conversation"})
    ELSE IF s.buttons THEN TakeButtons(s, {"start_conversation"}) ELSE Keep(s)

GotItAction(s, stale) ==
    IF s.track # "team_lead" \/ stale THEN Keep(s)
    ELSE IF s.part = "active"
         THEN IF s.ack \/ ~s.buttons THEN Keep(s)
              ELSE LET d == TakeButtons(s, {"acknowledge"})
                   IN  [d EXCEPT !.next.ack = TRUE]
         ELSE IF s.part = "declined" THEN Keep([s EXCEPT !.ack = TRUE])
              ELSE Activate(s, TRUE, {"acknowledge"})

LaterAction(s, stale) ==
    IF s.part = "active"
    THEN IF s.buttons THEN TakeButtons(s, {"acknowledge"}) ELSE Decision(s, {"acknowledge"})
    ELSE IF stale THEN Keep(s)
    ELSE IF s.part = "declined" THEN Decision(s, {"acknowledge"})
    ELSE IF s.rem = "sent"
         THEN Decision([s EXCEPT !.part = "deferred", !.buttons = FALSE],
                       {"acknowledge"} \union Removal(s))
         ELSE Decision([s EXCEPT !.part = "deferred", !.rem = "scheduled", !.buttons = FALSE],
                       {"schedule_reminder", "acknowledge"} \union Removal(s))

\* A click on buttons that are gone is stale; text never is.
ChooseAction(s, action, button) ==
    LET stale == button /\ ~s.buttons
    IN  IF ~Personal(s) THEN ManagementAction(s, action)
        ELSE CASE action = "start" -> StartAction(s)
               [] action = "got_it" -> GotItAction(s, stale)
               [] action = "decline" -> Decline(s)
               [] action = "later" -> LaterAction(s, stale)

\* Mutated RoleChanged: the reminder of a person who becomes a manager is kept.
RoleChangedReminded(s, from, to) ==
    LET track == TrackOf(to)
    IN  IF track = s.track THEN Keep(s)
        ELSE IF track = "management" \/ ~Personal(s)
        THEN Decision([Initial(to) EXCEPT !.rem = s.rem], {"send_intro"})
        ELSE Keep([s EXCEPT !.track = track])

RoleChanged(s, from, to) ==
    LET track == TrackOf(to)
    IN  IF track = s.track
        THEN Decision(s, IF from # to /\ track = "management" THEN {"send_intro"} ELSE {})
        ELSE IF track = "management"
        THEN Decision([Initial(to) EXCEPT !.rem = IF s.rem = "scheduled" THEN "cancelled"
                                                  ELSE "none"],
                      {"send_intro"} \union
                      IF s.part = "active" THEN {"proactive_off"} ELSE {})
        ELSE IF ~Personal(s) THEN Decision(Initial(to), {"send_intro"})
        ELSE IF track = "team_lead"
             THEN Decision([s EXCEPT !.track = track, !.ack = FALSE], {"send_intro"})
             ELSE Keep([s EXCEPT !.track = track])

ReminderSent(s) == Keep([s EXCEPT !.rem = "sent"])
Deactivated(s) == Keep([s EXCEPT !.rem = Cancelled(s)])
StopRequested(s) == IF Personal(s) THEN Decline(s) ELSE Keep(s)

-----------------------------------------------------------------------------
(* The events of a conversation turn.                                       *)

NoEvent == [type |-> "none"]
TextAction(action) == [type |-> "action", action |-> action]
Substantive == [type |-> "substantive_turn"]
Stop == [type |-> "stop_requested"]
TurnEvents == {NoEvent, Substantive, Stop} \union {TextAction(a) : a \in Actions}

Intents == {"start", "later", "decline", "stop_participation", "acknowledge",
            "ambiguous", "end_today_only", "none"}

\* What a turn means depends on the state it was read in; a clarifying question is no event.
Interpret(s, intent, substantive) ==
    LET resume == IF substantive THEN Substantive ELSE NoEvent
    IN  CASE ~Personal(s) ->
               IF intent = "acknowledge" /\ s.intro = "delivered"
               THEN TextAction("got_it") ELSE NoEvent
          [] Personal(s) /\ s.part = "active" ->
               IF intent = "stop_participation" \/ (intent = "decline" /\ ~substantive)
               THEN Stop ELSE NoEvent
          [] Personal(s) /\ s.part \in Open ->
               CASE intent = "start" -> TextAction("start")
                 [] intent = "later" /\ ~substantive -> TextAction("later")
                 [] intent \in {"decline", "stop_participation"} /\ ~substantive ->
                        TextAction("decline")
                 [] intent = "acknowledge" /\ s.track = "team_lead" -> TextAction("got_it")
                 [] \/ intent = "none"
                    \/ intent = "acknowledge" /\ s.track # "team_lead"
                    \/ intent = "end_today_only" /\ s.part = "deferred" -> resume
                 [] OTHER -> NoEvent
          [] Personal(s) /\ s.part = "declined" ->
               CASE intent = "start" -> TextAction("start")
                 [] intent \in {"none", "acknowledge", "end_today_only"} -> resume
                 [] OTHER -> NoEvent
          [] OTHER -> NoEvent

DecideTurn(s, event) ==
    CASE event.type = "action" -> ChooseAction(s, event.action, FALSE)
      [] event.type = "substantive_turn" -> SubstantiveTurn(s)
      [] event.type = "stop_requested" -> StopRequested(s)
      [] event.type = "none" -> Keep(s)
=============================================================================
