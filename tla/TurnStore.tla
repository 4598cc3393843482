------------------------------ MODULE TurnStore ------------------------------
(***************************************************************************)
(* What the conversation worker, the message-send worker and the recovery  *)
(* scanner share: the rows one committed turn leaves in Postgres, the jobs *)
(* its dispatch adds to the downstream BullMQ queues, the runtime          *)
(* eligibility of the employee, and the budget of injected failures.       *)
(*                                                                         *)
(* One employee and one conversation are modelled; Messages are the rows   *)
(* of that conversation's inbound messages.  The outbound row of a turn    *)
(* has an id computed from the inbound one (conversationOutboundMessageId),*)
(* so the inbound id names both.                                           *)
(***************************************************************************)
EXTENDS Naturals, FiniteSets

CONSTANTS
    Messages,    \* inbound messages of the conversation
    SideKinds,   \* dispatch kinds besides the reply: memory_extraction, ...
    MaxFaults,   \* bound: failed steps, crashes and missed lock renewals
    MaxFlips     \* bound: changes of the employee's runtime eligibility

ASSUME BoundsAssumption == MaxFaults \in Nat /\ MaxFlips \in Nat
ASSUME SideKindsAssumption == "message_send" \notin SideKinds

VARIABLES
    effect,      \* conversation_turn_effects: the text committed per inbound
    intent,      \* conversation_dispatch_intents: state per inbound and kind
    added,       \* downstream jobs added so far, by inbound and kind
    eligible,    \* isUserRuntimeEligible
    faults,      \* failures injected so far
    flips        \* eligibility changes so far

storeVars == <<effect, intent, added, eligible, faults, flips>>

Kinds == {"message_send"} \union SideKinds

\* The three ways a turn ends: the model's reply, the explanation of a filtered
\* input, and the last-attempt fallback.
Texts == {"reply", "input_filtered", "processing_failed"}

Committed(m) == effect[m] # "none"

\* The rows the three processes share stay in the ranges of the database schema: an
\* intent is absent, pending or queued, and the injected failures stay in budget.
StoreTypeOK ==
    /\ effect \in [Messages -> Texts \union {"none"}]
    /\ intent \in [Messages -> [Kinds -> {"absent", "pending", "queued"}]]
    /\ added \in [Messages -> SUBSET Kinds]
    /\ eligible \in BOOLEAN
    /\ faults \in 0..MaxFaults
    /\ flips \in 0..MaxFlips

StoreInit ==
    /\ effect = [m \in Messages |-> "none"]
    /\ intent = [m \in Messages |-> [k \in Kinds |-> "absent"]]
    /\ added = [m \in Messages |-> {}]
    /\ eligible = TRUE
    /\ faults = 0
    /\ flips = 0

\* saveMessage and recordCommittedTurn inside the unit of work: the effect row
\* and one intent per kind, all or nothing.
RecordCommittedTurn(m, text, kinds) ==
    /\ effect' = [effect EXCEPT ![m] = text]
    /\ intent' = [intent EXCEPT ![m] =
                    [k \in Kinds |-> IF k \in kinds THEN "pending" ELSE "absent"]]

\* Mutated EnqueueDispatch: the add is not awaited and gets lost.
EnqueueLost(m, k) == UNCHANGED added

\* queue.add with a job id made from the message: adding it again changes nothing.
EnqueueDispatch(m, k) == added' = [added EXCEPT ![m] = @ \union {k}]

\* The table's guard refuses a mark older than the one that is there, or later than
\* the completion of survey evidence; a refused mark is one of the failed steps.
MarkCommittedDispatchQueued(m, k) ==
    intent' = [intent EXCEPT ![m][k] = "queued"]

UnqueuedKinds(m) == {k \in Kinds : intent[m][k] = "pending"}

\* A person is deactivated, deleted or reactivated while work is in flight.
FlipEligibility ==
    /\ flips < MaxFlips
    /\ flips' = flips + 1
    /\ eligible' = ~eligible
    /\ UNCHANGED <<effect, intent, added, faults>>

Fault == faults < MaxFaults /\ faults' = faults + 1
=============================================================================
