-------------------------- MODULE QuestionInsight --------------------------
(* The meanings an employee gave for the three questions of one topic, in    *)
(* one survey window: collected from messages, shown back as a bundle,       *)
(* confirmed, disputed, clarified, declined or rejected by a reply, scored   *)
(* by a finalizer and erased; or cut off when the window ends.               *)
(*                                                                           *)
(* The id of an outbound message is computed from the inbound message it     *)
(* answers, so a prompt, and the bundle it shows, has the number of the turn *)
(* that staged it. Messages are numbered in the order they occurred; 0       *)
(* stands for the messages before this topic was followed (and for "none").  *)
(* A text is the set of messages whose meaning it carries.                   *)
EXTENDS Integers, FiniteSets, FiniteSetsExt, Functions, TLC

CONSTANTS
    MaxMessages,    \* bound on inbound messages
    Finalizers,     \* runs of FinalizeQuestionInsightUseCase
    Mixes           \* bounds: what the messages of a behaviour may bring

Questions == 1..3                       \* in display order
MaxClarifications == 2                  \* MAX_QUESTION_CLARIFICATIONS
Messages == 1..MaxMessages
Sources == 0..MaxMessages
Statuses == {"none", "collecting", "pending_confirmation", "pending_clarification",
             "confirmed", "declined", "reset", "no_data"}
Answers == {"accepted", "disputed", "declined", "reset"}

ASSUME BoundsAssumption == MaxMessages \in Nat \ {0}

\* What the evidence model may read out of a message.
Meaning == [sufficient : BOOLEAN, driver : BOOLEAN]
Readings == [reopen : SUBSET Questions, decline : SUBSET Questions,
             capture : UNION {[qs -> Meaning] : qs \in SUBSET Questions}]

\* A mix: the questions already answered at the start, how many messages, the per-question
\* answers a partial verdict may give, what the evidence model may read out of each message,
\* how many turns and calls of finalizers fail for good, and whether the window ends.
ASSUME MixesAssumption ==
    \A x \in Mixes : /\ x.known \subseteq Questions /\ x.messages \in Messages
                     /\ x.partials \subseteq [Questions -> Answers \ {"reset"}]
                     /\ x.evaluations \in [Messages -> SUBSET Readings]
                     /\ x.drops \in Nat /\ x.faults \in Nat /\ x.ends \in BOOLEAN

VARIABLES
    row,        \* survey_question_working_insights
    bundle,     \* survey_question_confirmation_bundles, by prompt message
    receipt,    \* survey_question_verdict_receipts, by inbound message
    insight,    \* survey_question_insights
    arrived,    \* number of inbound messages so far
    seen,       \* prompts that had been sent when a message was written
    timely,     \* messages written before the window's end
    turn,       \* progress of the conversation job of a message
    plan,       \* what a prepared turn is going to commit
    mined,      \* messages whose evidence job is complete
    sent,       \* prompts with sent_at
    over,       \* the wall clock is past the window's end
    fin,        \* what a finalizer has loaded
    faults,     \* failures so far
    shown,      \* history: the statements each bundle showed
    mix         \* the bounds of this behaviour

store == <<row, bundle, receipt>>
talk == <<arrived, seen, timely, turn, plan, mix>>
vars == <<row, bundle, receipt, insight, arrived, seen, timely, turn, plan, mined,
          sent, over, fin, faults, shown, mix>>

-----------------------------------------------------------------------------
(* Rows.                                                                     *)

NoRow == [status |-> "none", ready |-> FALSE, sufficient |-> FALSE, driver |-> FALSE,
          summary |-> {}, sources |-> {}, statement |-> {}, bundle |-> 0, attempts |-> 0,
          prompt |-> 0, confirmedAt |-> 0, finalized |-> FALSE, purged |-> FALSE,
          closedAt |-> 0]

ReadyRow == [NoRow EXCEPT !.status = "collecting", !.ready = TRUE, !.sufficient = TRUE,
                          !.driver = TRUE, !.summary = {0}, !.sources = {0}]

NoBundle == [status |-> "none", kind |-> "confirmation", parts |-> <<>>, purged |-> FALSE]
NoReceipt == [kind |-> "none", target |-> 0]
NoPlan == [bundle |-> 0, verdict |-> "none", answers |-> <<>>, clarify |-> 0, clarified |-> FALSE,
           correct |-> FALSE, ask |-> 0, show |-> <<>>]
NoWork == [question |-> 0, confirmedAt |-> 0, statement |-> {}]

Unresolved == {"pending_delivery", "awaiting_confirmation"}
OpenBundles(bs) == {b \in Messages : bs[b].status \in Unresolved}

\* Mutated Emptied: the confirmed statement is kept.
EmptiedButStatement(r) == [r EXCEPT !.summary = {}, !.sources = {}, !.prompt = 0]

\* A closed question keeps no private text.
Emptied(r) == [r EXCEPT !.summary = {}, !.sources = {}, !.statement = {}, !.prompt = 0]
Finalized(r) == r.status = "confirmed" /\ r.purged /\ r.finalized
Disputed(rows) == {q \in Questions : rows[q].status = "pending_clarification"}

-----------------------------------------------------------------------------
(* Collecting: the evidence job of a message.                                *)

\* An earlier refusal is taken back by a newer message.
Reopen(m, r) ==
    IF r.status = "declined" /\ m > r.closedAt
    THEN [NoRow EXCEPT !.status = "reset", !.sufficient = r.sufficient, !.driver = r.driver,
                       !.purged = TRUE, !.closedAt = r.closedAt]
    ELSE r

\* The employee refuses to say what drives a captured status.
DeclineDriver(m, r) ==
    IF r.status = "collecting" /\ ~r.purged /\ ~r.driver /\ \A s \in r.sources : m > s
    THEN [r EXCEPT !.driver = TRUE, !.ready = @ \/ r.sufficient]
    ELSE r

CurrentAt(q) == {i.confirmedAt : i \in {i \in insight : i.question = q /\ i.current}}

\* Mutated Capturable: the current insight of the question is not looked at.
CapturableAnyTime(m, q, r) ==
    /\ r.status \in {"none", "collecting", "reset"} \/ Finalized(r)
    /\ m \notin r.sources

Capturable(m, q, r) ==
    /\ \A at \in CurrentAt(q) : m > at
    /\ r.status \in {"none", "collecting", "reset"} \/ Finalized(r)
    /\ m \notin r.sources

\* Readiness is accumulated over messages; a closed row starts anew.
Capture(m, q, r, what) ==
    LET reopened == r.status \in {"none", "reset"} \/ (r.purged /\ r.finalized)
        sufficient == what.sufficient \/ (~reopened /\ r.sufficient)
        driver == what.driver \/ (~reopened /\ r.driver)
        kept == IF reopened THEN NoRow ELSE r
    IN  IF ~Capturable(m, q, r) THEN r
        ELSE [kept EXCEPT !.status = "collecting", !.sufficient = sufficient,
                          !.driver = driver, !.ready = @ \/ (sufficient /\ driver),
                          !.summary = @ \cup {m}, !.sources = @ \cup {m}, !.purged = FALSE]

\* One transaction: reopened questions, refused drivers, then captured meanings.
ApplyEvidence(m, e) ==
    /\ turn[m] = "committed" /\ m \notin mined
    /\ mined' = mined \cup {m}
    /\ IF over \/ ~timely[m] THEN UNCHANGED row
       ELSE row' = [q \in Questions |->
            LET r1 == IF q \in e.reopen THEN Reopen(m, row[q]) ELSE row[q]
                r2 == IF q \in e.decline THEN DeclineDriver(m, r1) ELSE r1
            IN  IF q \in DOMAIN e.capture THEN Capture(m, q, r2, e.capture[q]) ELSE r2]
    /\ UNCHANGED <<bundle, receipt, insight, talk, sent, over, fin, faults, shown>>

-----------------------------------------------------------------------------
(* Preparing a turn: what it reads, and what the model makes of the reply.   *)

\* findAwaitingQuestionBundle: shown before this message, and the window open then.
AwaitingBundle(m) == {b \in OpenBundles(bundle) : b \in seen[m] /\ timely[m]}

\* parseBundleComponents in mode 'clarification' takes one or two components.
Readable(q) == Cardinality(DOMAIN bundle[row[q].bundle].parts) \in 1..2

\* findPendingQuestionClarification: the first disputed question of a delivered bundle, unless
\* it was asked about after this message.  The components are parsed before that is looked
\* at, so a bundle that cannot be read fails the turn either way: PlanDispute has no plan.
PendingClarification(m) ==
    LET open == {q \in Disputed(row) : ~row[q].purged /\ row[q].bundle \in sent /\ timely[m]}
    IN  IF open = {} THEN {}
        ELSE LET q == Min(open)
             IN  IF Readable(q) /\ row[q].prompt \in sent \ seen[m] THEN {} ELSE {q}

\* findReadyQuestionBundle: a corrected meaning travels alone, otherwise every ready one.
ReadyBundle ==
    LET ready == {q \in Questions : row[q].status = "collecting" /\ row[q].ready
                                    /\ row[q].summary # {} /\ ~row[q].purged}
        corrected == {q \in ready : row[q].attempts > 0}
        closed(q) == Finalized(row[q])
                     \/ (corrected # {} /\ row[q].status = "declined" /\ row[q].purged)
    IN  IF \/ over \/ OpenBundles(bundle) # {} \/ Disputed(row) # {}
           \/ \E q \in Questions \ ready : ~closed(q)
        THEN {}
        ELSE IF corrected # {} THEN {Min(corrected)} ELSE ready

\* resolveCorrectedStatementVerdict: a corrected meaning is asked again or closed, not reset.
CorrectedAnswer(q, answer) ==
    IF answer \notin {"disputed", "reset"} THEN answer
    ELSE IF row[q].attempts < MaxClarifications THEN "disputed" ELSE "declined"

\* The answers a reply may give to the statements of bundle b.
Interpretations(b) ==
    LET parts == DOMAIN bundle[b].parts
        raw == {[q \in parts |-> a] : a \in {"accepted", "reset"}} \cup {Restrict(p, parts) : p \in mix.partials}
    IN  IF bundle[b].kind = "corrected_statement"
        THEN {[q \in parts |-> CorrectedAnswer(q, v[q])] : v \in raw}
        ELSE raw

VerdictKind(answers) ==
    IF \A q \in DOMAIN answers : answers[q] = "accepted" THEN "agree"
    ELSE IF \A q \in DOMAIN answers : answers[q] = "reset" THEN "reject" ELSE "partial"

DisputedIn(answers) == {q \in DOMAIN answers : answers[q] = "disputed"}
First(qs) == IF qs = {} THEN 0 ELSE Min(qs)

\* previewPendingQuestionClarificationAfterBundleVerdict, previewPendingQuestionClarificationAfterVerdict
FirstDispute(answers) == First(DisputedIn(answers))
NextDispute(q) == First({o \in Disputed(row) \ {q} : row[o].bundle = row[q].bundle})

\* The reply to an awaiting bundle is a verdict; the first dispute is asked about at once.
PlanVerdict(m, b, may, answers) ==
    [NoPlan EXCEPT !.bundle = b, !.verdict = VerdictKind(answers), !.answers = answers,
                   !.ask = IF may THEN FirstDispute(answers) ELSE 0]

\* The answer to a clarification question: a corrected meaning, or a refusal, after
\* which the next dispute of the bundle is asked about; it must not have been asked.
PlanClarification(q, may, p) ==
    LET next == NextDispute(q)
        refusal == [p EXCEPT !.clarify = q, !.ask = IF may THEN next ELSE 0]
    IN  {[p EXCEPT !.clarify = q, !.clarified = TRUE, !.correct = may /\ ~over]}
        \cup (IF next # 0 /\ row[next].prompt # 0 THEN {} ELSE {refusal})

\* What follows when no dispute was opened in this turn: p is the plan so far.
PlanDispute(m, may, p) ==
    UNION {IF row[q].prompt \in seen[m] THEN {p} \cup PlanClarification(q, may, p)
           ELSE {[p EXCEPT !.ask = IF row[q].prompt = 0 /\ may THEN q ELSE 0]}
           : q \in {q \in PendingClarification(m) : Readable(q)}}

PlanShow(may) ==
    IF may /\ ReadyBundle # {}
    THEN {NoPlan, [NoPlan EXCEPT !.show = [q \in ReadyBundle |-> row[q].summary]]} ELSE {NoPlan}

Plans(m, may) ==
    LET waiting == AwaitingBundle(m)
        pending == PendingClarification(m)
    IN  IF waiting # {}
        THEN {NoPlan} \cup
             UNION {UNION {LET p == PlanVerdict(m, b, may, a)
                           IN  IF DisputedIn(a) # {} \/ pending = {} THEN {p}
                               ELSE PlanDispute(m, may, p) : a \in Interpretations(b)}
                    : b \in waiting}
        ELSE IF pending # {} THEN PlanDispute(m, may, NoPlan) ELSE PlanShow(may)

Arrive ==
    /\ arrived < mix.messages
    /\ arrived' = arrived + 1
    /\ seen' = [seen EXCEPT ![arrived'] = sent]
    /\ timely' = [timely EXCEPT ![arrived'] = ~over]
    /\ turn' = [turn EXCEPT ![arrived'] = "waiting"]
    /\ UNCHANGED <<store, insight, plan, mix, mined, sent, over, fin, faults, shown>>

\* may: the reply can carry a question (not a closing, pause or explanation turn).
Prepare(m) ==
    /\ turn[m] = "waiting"
    /\ \E may \in BOOLEAN : \E p \in Plans(m, may) : plan' = [plan EXCEPT ![m] = p]
    /\ turn' = [turn EXCEPT ![m] = "prepared"]
    /\ UNCHANGED <<store, insight, arrived, seen, timely, mix, mined, sent, over, fin, faults, shown>>

-----------------------------------------------------------------------------
(* Committing a turn: one transaction over d = [row, bundle, receipt], which  *)
(* checks again everything the plan relies on and is rolled back as a whole.  *)

Linked(d, b) == {q \in Questions : d.row[q].bundle = b}

VerdictOk(d, m, p) ==
    LET b == p.bundle
    IN  /\ d.bundle[b].status \in Unresolved
        /\ b \in seen[m] /\ timely[m]
        /\ Linked(d, b) = DOMAIN d.bundle[b].parts
        /\ \A q \in Linked(d, b) : d.row[q].status = "pending_confirmation"
        /\ p.verdict = "reject" => \A q \in Linked(d, b) : d.row[q].attempts = 0
        /\ \A q \in DisputedIn(p.answers) : d.row[q].attempts < MaxClarifications
        /\ d.receipt[m] = NoReceipt

Closed(m, r, status) ==
    [Emptied(r) EXCEPT !.status = status, !.ready = FALSE, !.confirmedAt = 0,
                       !.purged = TRUE, !.closedAt = m]

Answered(m, r, answer, statement) ==
    CASE answer = "accepted" -> [r EXCEPT !.status = "confirmed", !.statement = statement,
                                          !.confirmedAt = m, !.ready = FALSE]
      [] answer = "disputed" -> [r EXCEPT !.status = "pending_clarification", !.ready = FALSE]
      [] answer = "reset" -> [Closed(m, r, "reset") EXCEPT !.attempts = 0]
      [] answer = "declined" -> Closed(m, r, "declined")

\* Mutated KeepParts: the copies stay until nothing is disputed.
KeepAllParts(bn, qs) ==
    IF qs = {} THEN [bn EXCEPT !.parts = <<>>, !.purged = TRUE] ELSE bn

\* Only statements that are still disputed keep their copy in the bundle.
KeepParts(bn, qs) == [bn EXCEPT !.parts = Restrict(bn.parts, qs), !.purged = @ \/ qs = {}]

\* applyQuestionBundleVerdict
ApplyVerdict(d, m, p) ==
    LET b == p.bundle
        parts == d.bundle[b].parts
    IN  [row |-> [q \in Questions |-> IF q \in DOMAIN p.answers
                                      THEN Answered(m, d.row[q], p.answers[q], parts[q])
                                      ELSE d.row[q]],
         bundle |-> [d.bundle EXCEPT ![b] =
                        [KeepParts(@, DisputedIn(p.answers)) EXCEPT
                            !.status = IF p.verdict = "reject" THEN "rejected" ELSE "resolved"]],
         receipt |-> [d.receipt EXCEPT ![m] = [kind |-> p.verdict, target |-> b]]]

ClarificationOk(d, m, q) ==
    LET r == d.row[q]
    IN  /\ r.status = "pending_clarification" /\ r.prompt # 0 /\ r.bundle # 0
        /\ ~d.bundle[r.bundle].purged /\ r.bundle \in sent
        /\ q \in DOMAIN d.bundle[r.bundle].parts
        /\ Cardinality(DOMAIN d.bundle[r.bundle].parts) \in 1..2
        /\ r.prompt \in seen[m] /\ timely[m]
        /\ d.receipt[m] = NoReceipt

\* Mutated ClarifiedRow: a corrected meaning counts as confirmed.
ClarifiedRowConfirmed(m, r) ==
    [r EXCEPT !.status = "confirmed", !.summary = {m}, !.sources = @ \cup {m},
              !.statement = {m}, !.confirmedAt = m, !.prompt = 0, !.ready = FALSE]

\* The corrected meaning waits to be shown; it is not confirmed yet.
ClarifiedRow(m, r) ==
    [r EXCEPT !.status = "collecting", !.summary = {m}, !.sources = @ \cup {m}, !.statement = {},
              !.confirmedAt = 0, !.prompt = 0, !.ready = TRUE]

StillDisputed(rows, b) == {q \in Disputed(rows) : rows[q].bundle = b}

\* applyQuestionClarificationVerdict
ApplyClarification(d, m, q, clarified) ==
    LET b == d.row[q].bundle
        rows == [d.row EXCEPT ![q] = IF clarified THEN ClarifiedRow(m, @)
                                     ELSE Closed(m, @, "declined")]
    IN  [row |-> rows,
         bundle |-> [d.bundle EXCEPT ![b] = KeepParts(@, StillDisputed(rows, b))],
         receipt |-> [d.receipt EXCEPT ![m] =
                        [kind |-> IF clarified THEN "clarified" ELSE "declined", target |-> q]]]

\* Mutated Showable: the meaning may have changed since the turn composed its text.
ShowableAnyText(r, text) ==
    r.status = "collecting" /\ r.ready /\ r.summary # {} /\ r.sources # {} /\ ~r.purged

Showable(r, text) ==
    /\ r.status = "collecting" /\ r.ready /\ r.summary = text
    /\ r.summary # {} /\ r.sources # {} /\ ~r.purged

CorrectedIn(d, qs) == \E q \in qs : d.row[q].attempts > 0

\* What the other questions of the topic must be for these to be shown.
MayWait(r, corrected) ==
    \/ Finalized(r)
    \/ corrected /\ r.status = "collecting" /\ r.bundle = 0
    \/ corrected /\ r.status = "declined" /\ r.purged

StageBundleOk(d, show) ==
    LET qs == DOMAIN show
    IN  /\ ~over
        /\ OpenBundles(d.bundle) = {} /\ Disputed(d.row) = {}
        /\ CorrectedIn(d, qs) => Cardinality(qs) = 1
        /\ \A q \in qs : Showable(d.row[q], show[q])
        /\ \A q \in Questions \ qs : MayWait(d.row[q], CorrectedIn(d, qs))

\* Mutated StageCorrectedOk: another bundle of the topic may be waiting.
StageCorrectedAnyway(d, m, q) == ~over /\ Showable(d.row[q], {m})

StageCorrectedOk(d, m, q) ==
    ~over /\ OpenBundles(d.bundle) = {} /\ Showable(d.row[q], {m})

\* stageQuestionConfirmationBundle, stageCorrectedStatementConfirmation
Stage(d, m, show, kind) ==
    [row |-> [q \in Questions |->
                 IF q \in DOMAIN show
                 THEN [d.row[q] EXCEPT !.status = "pending_confirmation", !.bundle = m]
                 ELSE d.row[q]],
     bundle |-> [d.bundle EXCEPT ![m] = [status |-> "pending_delivery", kind |-> kind,
                                         parts |-> show, purged |-> FALSE]],
     receipt |-> d.receipt]

AskOk(d, q) ==
    LET r == d.row[q]
    IN  /\ r.status = "pending_clarification" /\ r.prompt = 0 /\ ~r.purged
        /\ r.attempts < MaxClarifications
        /\ ~d.bundle[r.bundle].purged /\ r.bundle \in sent /\ ~over

\* stageQuestionClarificationPrompt
Ask(d, m, q) ==
    [row |-> [d.row EXCEPT ![q].prompt = m, ![q].attempts = @ + 1],
     bundle |-> d.bundle, receipt |-> d.receipt]

Refused == [row |-> <<>>, bundle |-> <<>>, receipt |-> <<>>]
Then(d, wanted, ok, next) == IF d = Refused \/ (wanted /\ ~ok) THEN Refused
                             ELSE IF wanted THEN next ELSE d

\* The writes of a turn in the order of the orchestrator.
Committed(m, p) ==
    LET d0 == [row |-> row, bundle |-> bundle, receipt |-> receipt]
        d1 == Then(d0, p.bundle # 0, VerdictOk(d0, m, p), ApplyVerdict(d0, m, p))
        d2 == Then(d1, p.clarify # 0, ClarificationOk(d1, m, p.clarify),
                   ApplyClarification(d1, m, p.clarify, p.clarified))
        d3 == Then(d2, p.show # <<>>, StageBundleOk(d2, p.show),
                   Stage(d2, m, p.show, IF CorrectedIn(d2, DOMAIN p.show)
                                        THEN "corrected_statement" ELSE "confirmation"))
        d4 == Then(d3, p.correct, StageCorrectedOk(d3, m, p.clarify),
                   Stage(d3, m, [q \in {p.clarify} |-> {m}], "corrected_statement"))
    IN  Then(d4, p.ask # 0, AskOk(d4, p.ask), Ask(d4, m, p.ask))

Commit(m) ==
    /\ turn[m] = "prepared"
    /\ LET d == Committed(m, plan[m])
       IN  /\ d # Refused
           /\ row' = d.row /\ bundle' = d.bundle /\ receipt' = d.receipt
           /\ shown' = [shown EXCEPT ![m] = d.bundle[m].parts]
    /\ turn' = [turn EXCEPT ![m] = "committed"]
    /\ plan' = [plan EXCEPT ![m] = NoPlan]
    /\ UNCHANGED <<insight, arrived, seen, timely, mix, mined, sent, over, fin, faults>>

\* The transaction throws; the job's next attempt prepares anew.
CommitRefused(m) ==
    /\ turn[m] = "prepared" /\ Committed(m, plan[m]) = Refused
    /\ turn' = [turn EXCEPT ![m] = "waiting"]
    /\ plan' = [plan EXCEPT ![m] = NoPlan]
    /\ UNCHANGED <<store, insight, arrived, seen, timely, mix, mined, sent, over, fin, faults, shown>>

\* The last attempt failed: the fallback turn touches no insight.
GiveUp(m) ==
    /\ turn[m] \in {"waiting", "prepared"}
    /\ Cardinality({n \in Messages : turn[n] = "dropped"}) < mix.drops
    /\ turn' = [turn EXCEPT ![m] = "dropped"]
    /\ plan' = [plan EXCEPT ![m] = NoPlan]
    /\ UNCHANGED <<store, insight, arrived, seen, timely, mix, mined, sent, over, fin, faults, shown>>

\* A prompt's sent_at is recorded; its bundle is activated in a later transaction.
Deliver(m) ==
    /\ m \notin sent
    /\ bundle[m].status # "none" \/ \E q \in Questions : row[q].prompt = m
    /\ sent' = sent \cup {m}
    /\ UNCHANGED <<store, insight, talk, mined, over, fin, faults, shown>>

Activate(m) ==
    /\ m \in sent /\ bundle[m].status = "pending_delivery"
    /\ bundle' = [bundle EXCEPT ![m].status = "awaiting_confirmation"]
    /\ UNCHANGED <<row, receipt, insight, talk, mined, sent, over, fin, faults, shown>>

-----------------------------------------------------------------------------
(* Finalizing: load, score and de-identify (model calls), persist.           *)

\* Only a statement whose showing a receipt proves is scored.
FinLoad(f, q) ==
    /\ fin[f] = NoWork
    /\ row[q].status = "confirmed" /\ row[q].statement # {} /\ ~row[q].purged
    /\ LET at == row[q].confirmedAt
       IN  /\ receipt[at].kind \in {"agree", "partial"} /\ receipt[at].target = row[q].bundle
           /\ ~\E i \in insight : i.question = q /\ i.confirmedAt = at
           /\ fin' = [fin EXCEPT ![f] = [question |-> q, confirmedAt |-> at,
                                         statement |-> row[q].statement]]
    /\ UNCHANGED <<store, insight, talk, mined, sent, over, faults, shown>>

FinFails(f) ==
    /\ fin[f] # NoWork /\ faults < mix.faults
    /\ faults' = faults + 1
    /\ fin' = [fin EXCEPT ![f] = NoWork]
    /\ UNCHANGED <<store, insight, talk, mined, sent, over, shown>>

\* Mutated Current: the row may have been confirmed again since.
CurrentStatus(w) ==
    LET r == row[w.question] IN r.status = "confirmed" /\ r.statement # {} /\ ~r.purged

\* The row must still be as it was loaded.
Current(w) ==
    LET r == row[w.question]
    IN  r.status = "confirmed" /\ r.confirmedAt = w.confirmedAt /\ r.statement # {} /\ ~r.purged

\* A resolved bundle whose every row is erased is erased as well.
PurgeBundles(rows) ==
    [b \in Messages |->
        IF /\ bundle[b].status = "resolved" /\ bundle[b].parts = <<>>
           /\ \A q \in Questions : rows[q].bundle = b => rows[q].purged
        THEN [bundle[b] EXCEPT !.status = "purged", !.purged = TRUE]
        ELSE bundle[b]]

\* Mutated Replaced: the insight reported before stays current.
ReplacedKept(older) == older

\* The insights a new one of the same question takes the place of.
Replaced(older) == {[i EXCEPT !.current = FALSE] : i \in older}

\* persistFinalAndPurge: one transaction, compare-and-set on what was loaded.
Persist(f) ==
    LET w == fin[f]
        q == w.question
        new == [question |-> q, confirmedAt |-> w.confirmedAt, statement |-> w.statement,
                current |-> TRUE]
        older == {i \in insight : i.question = q}
    IN  /\ w # NoWork
        /\ fin' = [fin EXCEPT ![f] = NoWork]
        /\ IF Current(w)
           THEN /\ insight' = IF \E i \in older : i.confirmedAt = w.confirmedAt THEN insight
                              ELSE (insight \ older) \cup Replaced(older) \cup {new}
                /\ row' = [row EXCEPT ![q] = [Emptied(@) EXCEPT !.finalized = TRUE, !.purged = TRUE]]
                /\ bundle' = PurgeBundles(row')
           ELSE UNCHANGED <<row, bundle, insight>>
        /\ UNCHANGED <<receipt, talk, mined, sent, over, faults, shown>>

-----------------------------------------------------------------------------
(* The end of the window.                                                    *)

EndWindow ==
    /\ ~over /\ mix.ends
    /\ over' = TRUE
    /\ UNCHANGED <<store, insight, talk, mined, sent, fin, faults, shown>>

\* A reply written in time to a shown bundle is processed before the cutoff.
NoUnprocessedTimelyReply ==
    \A b, m \in Messages :
        /\ bundle[b].status \in Unresolved \cup {"resolved"} /\ ~bundle[b].purged
        /\ b \in seen[m] /\ timely[m]
        => turn[m] \notin {"waiting", "prepared"}

Expired(r) == r.status \in {"collecting", "pending_confirmation", "pending_clarification", "reset"}

Cutoff ==
    /\ over /\ NoUnprocessedTimelyReply
    /\ (\E q \in Questions : Expired(row[q]))
       \/ (\E b \in Messages : bundle[b].status # "none" /\ ~bundle[b].purged)
    /\ row' = [q \in Questions |->
                  IF Expired(row[q])
                  THEN [Emptied(row[q]) EXCEPT !.status = "no_data", !.confirmedAt = 0, !.purged = TRUE]
                  ELSE row[q]]
    /\ bundle' = [b \in Messages |->
                     IF bundle[b].status = "none" \/ bundle[b].purged THEN bundle[b]
                     ELSE [bundle[b] EXCEPT !.status = "purged", !.parts = <<>>, !.purged = TRUE]]
    /\ UNCHANGED <<receipt, insight, talk, mined, sent, over, fin, faults, shown>>

-----------------------------------------------------------------------------
Init ==
    /\ mix \in Mixes
    /\ row = [q \in Questions |-> IF q \in mix.known THEN ReadyRow ELSE NoRow]
    /\ bundle = [m \in Messages |-> NoBundle]
    /\ receipt = [m \in Messages |-> NoReceipt]
    /\ insight = {}
    /\ arrived = 0
    /\ seen = [m \in Messages |-> {}]
    /\ timely = [m \in Messages |-> FALSE]
    /\ turn = [m \in Messages |-> "none"]
    /\ plan = [m \in Messages |-> NoPlan]
    /\ mined = {}
    /\ sent = {}
    /\ over = FALSE
    /\ fin = [f \in Finalizers |-> NoWork]
    /\ faults = 0
    /\ shown = [m \in Messages |-> <<>>]

Next ==
    \/ Arrive \/ EndWindow \/ Cutoff
    \/ \E m \in Messages : \/ Prepare(m) \/ Commit(m) \/ CommitRefused(m) \/ GiveUp(m)
                           \/ Deliver(m) \/ Activate(m)
                           \/ \E e \in mix.evaluations[m] : ApplyEvidence(m, e)
    \/ \E f \in Finalizers : Persist(f) \/ FinFails(f) \/ \E q \in Questions : FinLoad(f, q)

Spec == Init /\ [][Next]_vars

-----------------------------------------------------------------------------
(* Properties.                                                               *)

Texts == SUBSET Sources
Parts == UNION {[qs -> Texts] : qs \in SUBSET Questions}
BundleStatuses == {"none", "pending_delivery", "awaiting_confirmation", "resolved",
                   "rejected", "purged"}
ReceiptKinds == {"none", "agree", "partial", "reject", "clarified", "declined"}

RowOK(r) ==
    /\ r.status \in Statuses
    /\ {r.ready, r.sufficient, r.driver, r.finalized, r.purged} \subseteq BOOLEAN
    /\ {r.summary, r.sources, r.statement} \subseteq Texts
    /\ {r.bundle, r.prompt, r.confirmedAt, r.closedAt} \subseteq Sources
    /\ r.attempts \in 0..MaxClarifications
    /\ r.purged => r.summary \cup r.sources \cup r.statement = {}
    /\ r.status \in {"collecting", "pending_confirmation", "pending_clarification"}
        => ~r.purged /\ r.summary # {} /\ r.sources # {}

\* The values the tables, jobs and turns can hold: among them, never more than two
\* clarification questions per statement (MAX_QUESTION_CLARIFICATIONS), no text in an
\* erased row, and a text with its sources in every open one.
TypeOK ==
    /\ DOMAIN row = Questions /\ \A q \in Questions : RowOK(row[q])
    /\ \A m \in Messages :
        /\ bundle[m].status \in BundleStatuses /\ bundle[m].parts \in Parts
        /\ receipt[m].kind \in ReceiptKinds /\ receipt[m].target \in Sources \cup Questions
        /\ turn[m] \in {"none", "waiting", "prepared", "committed", "dropped"}
        /\ shown[m] \in Parts
    /\ \A i \in insight : i.question \in Questions /\ i.confirmedAt \in Messages
    /\ seen \in [Messages -> SUBSET Messages] /\ timely \in [Messages -> BOOLEAN]
    /\ mined \subseteq Messages /\ sent \subseteq Messages
    /\ arrived \in Sources /\ faults \in 0..mix.faults /\ over \in BOOLEAN

\* One bundle of the topic waits for its answer at a time, although two turns may show
\* one at once and a corrected statement may be shown while others are disputed
\* (findAwaitingQuestionBundle throws when it finds two).
OneUnresolvedBundle == Cardinality(OpenBundles(bundle)) <= 1

\* A bundle that waits for its answer links exactly the questions it shows, and shows
\* what their rows say now; a disputed question still has its statement in a bundle.
\* Otherwise the answer is refused as stale on every attempt.
BundleMatchesRows ==
    /\ \A b \in OpenBundles(bundle) :
        {q \in Questions : row[q].bundle = b /\ row[q].status = "pending_confirmation"}
            = DOMAIN bundle[b].parts
    /\ \A q \in Questions :
        row[q].status \in {"pending_confirmation", "pending_clarification"} =>
            LET b == row[q].bundle
            IN  /\ b \in Messages /\ q \in DOMAIN bundle[b].parts
                /\ bundle[b].parts[q] = row[q].summary
                /\ row[q].status = "pending_confirmation" <=> bundle[b].status \in Unresolved

\* The copy of a statement in a bundle is kept only while the employee has not settled
\* it, whatever mix of answers, clarifications, finalizers and cutoffs comes.
StatementCopiesNeeded ==
    \A b \in Messages : \A q \in DOMAIN bundle[b].parts :
        /\ row[q].bundle = b
        /\ row[q].status \in {"pending_confirmation", "pending_clarification"}

ShownTo(m, q, text) ==
    LET b == receipt[m].target
    IN  /\ receipt[m].kind \in {"agree", "partial"} /\ b \in seen[m]
        /\ q \in DOMAIN shown[b] /\ shown[b][q] = text

\* What is confirmed, and what is reported, was shown word for word in a message the
\* employee had when they answered it; and a confirmed statement can always be loaded
\* by the next finalizer, which asks for the receipt of that answer.
ConfirmedWasShown ==
    /\ \A q \in Questions : row[q].status = "confirmed" /\ ~row[q].purged =>
        /\ ShownTo(row[q].confirmedAt, q, row[q].statement)
        /\ receipt[row[q].confirmedAt].target = row[q].bundle
        /\ ~\E i \in insight : i.question = q /\ i.confirmedAt = row[q].confirmedAt
    /\ \A i \in insight : ShownTo(i.confirmedAt, i.question, i.statement)

\* A question has one current insight, the one confirmed last.
LatestInsightIsCurrent ==
    \A i \in insight : i.current <=>
        ~\E j \in insight : j.question = i.question /\ j.confirmedAt > i.confirmedAt

\* A closed question is opened again only by a message written after it was closed, in
\* whatever order the evidence jobs run.
ClosedReopensForward == [][
    \A q \in Questions :
        /\ row[q].status = "declined" /\ row'[q].status # "declined"
            => \E m \in mined' \ mined : m > row[q].closedAt
        /\ Finalized(row[q]) /\ ~Finalized(row'[q])
            => \E m \in mined' \ mined : m > row[q].confirmedAt]_vars

\* A confirmed statement leaves its row only as an insight: no second finalizer, late
\* answer, new message or cutoff takes it away.
ConfirmedNeverLost == [][
    \A q \in Questions :
        row[q].status = "confirmed" /\ ~row[q].purged /\ row'[q] # row[q]
            => \E i \in insight' : /\ i.question = q /\ i.confirmedAt = row[q].confirmedAt
                                   /\ i.statement = row[q].statement]_vars

\* The statement of every disputed question can be read back, so that the agent can ask
\* what was meant; while it cannot, every turn of the employee fails to prepare.
DisputesCanBeClarified == \A q \in Disputed(row) : Readable(q)
=============================================================================
