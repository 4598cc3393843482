------------------------ MODULE QuestionInsightProofs ------------------------
(***************************************************************************)
(* Theorems about QuestionInsight, for any number of messages, any         *)
(* finalizers and any readings, answers and failures: its types, one       *)
(* bundle at a time that agrees with its rows, no copy of a statement      *)
(* longer than needed, nothing confirmed or reported that was not shown,   *)
(* and closed and confirmed questions that stay so.                        *)
(*                                                                         *)
(* A committed turn is a chain of four writes to the tables inside one     *)
(* transaction.  StoreSound says what holds of the tables between any two  *)
(* of them; each write is shown to keep it, and so are the other actions.  *)
(***************************************************************************)
EXTENDS QuestionInsight, FiniteSetTheorems, TLAPS

(***************************************************************************)
(* The inductive invariant.                                                *)
(***************************************************************************)

RowRecord == [status : Statuses, ready : BOOLEAN, sufficient : BOOLEAN, driver : BOOLEAN,
              summary : Texts, sources : Texts, statement : Texts, bundle : Sources,
              attempts : 0..MaxClarifications, prompt : Sources, confirmedAt : Sources,
              finalized : BOOLEAN, purged : BOOLEAN, closedAt : Sources]
BundleRecord == [status : BundleStatuses, kind : {"confirmation", "corrected_statement"},
                 parts : Parts, purged : BOOLEAN]
ReceiptRecord == [kind : ReceiptKinds, target : Sources \cup Questions]
Store == [row : [Questions -> RowRecord], bundle : [Messages -> BundleRecord],
          receipt : [Messages -> ReceiptRecord]]
Verdicts == UNION {[qs -> Answers] : qs \in SUBSET Questions}
PlanRecord == [bundle : Sources, verdict : ReceiptKinds, answers : Verdicts,
               clarify : {0} \cup Questions, clarified : BOOLEAN, correct : BOOLEAN,
               ask : {0} \cup Questions, show : Parts]
WorkRecord == [question : {0} \cup Questions, confirmedAt : Sources, statement : Texts]
InsightRecord == [question : Questions, confirmedAt : Messages, statement : Texts,
                  current : BOOLEAN]
TurnStates == {"none", "waiting", "prepared", "committed", "dropped"}

\* The tables, as a transaction sees them.
Tables == [row |-> row, bundle |-> bundle, receipt |-> receipt]

Typed ==
    /\ Tables \in Store
    /\ insight \subseteq InsightRecord
    /\ mix \in Mixes
    /\ arrived \in Sources
    /\ seen \in [Messages -> SUBSET Messages] /\ timely \in [Messages -> BOOLEAN]
    /\ turn \in [Messages -> TurnStates] /\ plan \in [Messages -> PlanRecord]
    /\ mined \subseteq Messages /\ sent \subseteq Messages
    /\ over \in BOOLEAN
    /\ fin \in [Finalizers -> WorkRecord]
    /\ faults \in 0..mix.faults
    /\ shown \in [Messages -> Parts]

Pending == {"pending_confirmation", "pending_clarification"}
Open == {"collecting"} \cup Pending
Done == {m \in Messages : turn[m] = "committed"}

\* An erased row has no text, an open one has a text and its sources.
RowSound(r) ==
    /\ r.purged => r.summary = {} /\ r.sources = {} /\ r.statement = {}
    /\ r.status \in Open => ~r.purged /\ r.summary # {} /\ r.sources # {}
    /\ r.prompt # 0 => r.status = "pending_clarification"

BundleSound(n) ==
    /\ n.status \in Unresolved => ~n.purged
    /\ n.status = "none" \/ n.purged => DOMAIN n.parts = {}

\* Rows and bundles point at each other: a pending row to the bundle that shows its text,
\* a copy in a bundle to the pending row it was made of.
LinkSound(d, q) ==
    LET r == d.row[q]
        n == d.bundle[r.bundle]
    IN  /\ r.bundle # 0 => n.status # "none"
        /\ r.status \in Pending =>
             /\ r.bundle # 0 /\ q \in DOMAIN n.parts /\ n.parts[q] = r.summary
             /\ r.status = "pending_confirmation" <=> n.status \in Unresolved
CopiesNeeded(d) ==
    \A b \in Messages : \A q \in DOMAIN d.bundle[b].parts :
        d.row[q].bundle = b /\ d.row[q].status \in Pending
OneOpen(d) == \A a, b \in OpenBundles(d.bundle) : a = b

\* Only the turns in T have left something in the tables.
LeftBy(d, T) ==
    /\ \A m \in Messages : /\ d.bundle[m].status # "none" => m \in T
                           /\ d.receipt[m] # NoReceipt => m \in T
    /\ \A q \in Questions : d.row[q].prompt \in {0} \cup T

\* Messages in order: what a row was made of is older than the reply to its statement or
\* to the question about it, and newer than what was reported of the question before.
Before(r, m) == \A s \in r.sources : s < m
RowOrdered(q, r) ==
    /\ \A s \in r.sources : s <= arrived
    /\ r.status \in Pending => \A m \in Messages : r.bundle \in seen[m] => Before(r, m)
    /\ r.prompt # 0 => \A m \in Messages : r.prompt \in seen[m] => Before(r, m)
    /\ r.status \in Open =>
          \A i \in insight : i.question = q => \A s \in r.sources : i.confirmedAt < s
    /\ r.status = "confirmed" /\ ~r.purged =>
          /\ r.confirmedAt \in Messages
          /\ \A i \in insight : i.question = q => i.confirmedAt < r.confirmedAt
    /\ Finalized(r) =>
          \E i \in insight : i.question = q /\ i.current /\ i.confirmedAt = r.confirmedAt

\* What was shown, as ShownTo, over the receipts rs.
ShownIn(rs, m, q, text) ==
    LET b == rs[m].target
    IN  /\ rs[m].kind \in {"agree", "partial"} /\ b \in seen[m]
        /\ q \in DOMAIN shown[b] /\ shown[b][q] = text
RowShown(d, q) ==
    LET r == d.row[q] IN
    r.status = "confirmed" /\ ~r.purged =>
        /\ ShownIn(d.receipt, r.confirmedAt, q, r.statement)
        /\ d.receipt[r.confirmedAt].target = r.bundle
\* A copy says what was shown; message m, whose turn is being committed, apart.
CopiesShown(d, m) ==
    \A b \in Messages \ {m} : \A q \in DOMAIN d.bundle[b].parts :
        q \in DOMAIN shown[b] /\ shown[b][q] = d.bundle[b].parts[q]

StoreSound(d, T, m) ==
    /\ \A q \in Questions : /\ RowSound(d.row[q]) /\ RowOrdered(q, d.row[q])
                            /\ LinkSound(d, q) /\ RowShown(d, q)
    /\ \A b \in Messages : BundleSound(d.bundle[b])
    /\ CopiesNeeded(d) /\ OneOpen(d) /\ LeftBy(d, T) /\ CopiesShown(d, m)

TalkSound ==
    /\ \A m \in Messages : /\ m > arrived => turn[m] = "none"
                           /\ seen[m] \subseteq sent
    /\ sent \subseteq Done

InsightSound ==
    \A i \in insight :
        /\ ShownIn(receipt, i.confirmedAt, i.question, i.statement)
        /\ i.current <=> ~\E j \in insight : j.question = i.question /\ j.confirmedAt > i.confirmedAt
        /\ \E j \in insight : j.question = i.question /\ j.current /\ i.confirmedAt <= j.confirmedAt

WorkSound ==
    \A f \in Finalizers : fin[f] # NoWork =>
        /\ fin[f].question \in Questions /\ fin[f].confirmedAt \in Messages
        /\ ShownIn(receipt, fin[f].confirmedAt, fin[f].question, fin[f].statement)

\* A planned verdict answers exactly what its bundle shows, as long as it waits.
PlanSound(m, p) ==
    /\ p.bundle # 0 =>
          /\ p.bundle \in seen[m] /\ p.verdict = VerdictKind(p.answers)
          /\ bundle[p.bundle].status \in Unresolved
                => DOMAIN p.answers = DOMAIN bundle[p.bundle].parts
    /\ p.correct => p.clarify # 0

IInv ==
    /\ Typed
    /\ StoreSound(Tables, Done, 0)
    /\ TalkSound /\ InsightSound /\ WorkSound
    /\ \A m \in Messages : PlanSound(m, plan[m])

(***************************************************************************)
(* Data.                                                                   *)
(***************************************************************************)

LEMMA EmptyParts == <<>> \in Parts /\ <<>> \in Verdicts /\ DOMAIN <<>> = {}
  <1>1. <<>> \in [{} -> Texts] /\ <<>> \in [{} -> Answers]
    OBVIOUS
  <1> QED BY <1>1 DEF Parts, Verdicts

LEMMA PartsMeaning ==
  ASSUME NEW p \in Parts
  PROVE  /\ DOMAIN p \in SUBSET Questions
         /\ \A q \in DOMAIN p : p[q] \in Texts
         /\ \A qs \in SUBSET DOMAIN p : Restrict(p, qs) \in Parts /\ DOMAIN Restrict(p, qs) = qs
                                        /\ \A q \in qs : Restrict(p, qs)[q] = p[q]
  <1>1. PICK ds \in SUBSET Questions : p \in [ds -> Texts]
    BY DEF Parts
  <1>2. DOMAIN p = ds
    BY <1>1
  <1>3. ASSUME NEW qs \in SUBSET DOMAIN p
        PROVE  /\ Restrict(p, qs) \in Parts /\ DOMAIN Restrict(p, qs) = qs
               /\ \A q \in qs : Restrict(p, qs)[q] = p[q]
    <2>1. Restrict(p, qs) \in [qs -> Texts]
      BY <1>1, <1>2 DEF Restrict
    <2>2. qs \in SUBSET Questions
      BY <1>2
    <2> QED BY <2>1, <2>2 DEF Parts, Restrict
  <1> QED BY <1>1, <1>2, <1>3

LEMMA VerdictsMeaning ==
  ASSUME NEW v \in Verdicts
  PROVE  DOMAIN v \in SUBSET Questions /\ \A q \in DOMAIN v : v[q] \in Answers
  BY DEF Verdicts

LEMMA FirstIsQuestion ==
  ASSUME NEW qs \in SUBSET Questions, qs # {}
  PROVE  Min(qs) \in qs
  <1>1. \E x \in qs : \A y \in qs : x <= y
    <2>1. CASE 1 \in qs
      BY <2>1 DEF Questions
    <2>2. CASE 1 \notin qs /\ 2 \in qs
      BY <2>2 DEF Questions
    <2>3. CASE 1 \notin qs /\ 2 \notin qs
      <3>1. \A x \in qs : x = 3
        BY <2>3 DEF Questions
      <3> QED BY <3>1
    <2> QED BY <2>1, <2>2, <2>3
  <1> QED BY <1>1 DEF Min

(***************************************************************************)
(* What the operations on a row do.                                        *)
(***************************************************************************)

LEMMA TextFacts ==
  /\ {} \in Texts /\ 0 \in Sources /\ Messages \subseteq Sources
  /\ \A m \in Messages : {m} \in Texts /\ \A t \in Texts : t \cup {m} \in Texts
  BY BoundsAssumption DEF Texts, Sources, Messages

LEMMA ClosedRow ==
  ASSUME NEW r \in RowRecord, NEW m \in Messages, NEW status \in Statuses
  PROVE  LET c == Closed(m, r, status) IN
         /\ c \in RowRecord /\ c.status = status /\ c.bundle = r.bundle /\ c.attempts = r.attempts
         /\ c.purged /\ c.prompt = 0 /\ c.summary = {} /\ c.sources = {} /\ c.statement = {}
  BY TextFacts DEF Closed, Emptied, RowRecord

LEMMA AnsweredRow ==
  ASSUME NEW r \in RowRecord, NEW m \in Messages, NEW answer \in Answers, NEW text \in Texts
  PROVE  LET c == Answered(m, r, answer, text) IN
         /\ c \in RowRecord /\ c.bundle = r.bundle
         /\ answer = "accepted" =>
              /\ c.status = "confirmed" /\ c.statement = text /\ c.confirmedAt = m
              /\ c.sources = r.sources /\ c.purged = r.purged /\ c.prompt = r.prompt
         /\ answer = "disputed" =>
              /\ c.status = "pending_clarification" /\ c.summary = r.summary
              /\ c.sources = r.sources /\ c.statement = r.statement
              /\ c.purged = r.purged /\ c.prompt = r.prompt
         /\ answer \in {"reset", "declined"} =>
              /\ c.status = answer /\ c.purged /\ c.prompt = 0
              /\ c.summary = {} /\ c.sources = {} /\ c.statement = {}
  <1>1. CASE answer = "accepted"
    BY <1>1, TextFacts DEF Answered, RowRecord, Statuses
  <1>2. CASE answer = "disputed"
    BY <1>2 DEF Answered, RowRecord, Statuses
  <1>3. CASE answer \in {"reset", "declined"}
    <2> DEFINE c == Closed(m, r, answer)
    <2>0. answer \in Statuses
      BY <1>3 DEF Statuses
    <2>1. /\ c \in RowRecord /\ c.status = answer /\ c.bundle = r.bundle /\ c.purged
          /\ c.prompt = 0 /\ c.summary = {} /\ c.sources = {} /\ c.statement = {}
      BY <2>0, ClosedRow
    <2>2. Answered(m, r, answer, text) \in {c, [c EXCEPT !.attempts = 0]}
      BY <1>3 DEF Answered
    <2> HIDE DEF c
    <2>3. [c EXCEPT !.attempts = 0] \in RowRecord
      BY <2>1 DEF RowRecord, MaxClarifications
    <2> QED BY <1>3, <2>1, <2>2, <2>3 DEF RowRecord
  <1> QED BY <1>1, <1>2, <1>3 DEF Answers

LEMMA ClarifiedRowIs ==
  ASSUME NEW r \in RowRecord, NEW m \in Messages
  PROVE  LET c == ClarifiedRow(m, r) IN
         /\ c \in RowRecord /\ c.status = "collecting" /\ c.bundle = r.bundle
         /\ c.summary = {m} /\ c.sources = r.sources \cup {m} /\ c.statement = {}
         /\ c.prompt = 0 /\ c.purged = r.purged
  BY TextFacts DEF ClarifiedRow, RowRecord, Statuses

LEMMA KeptParts ==
  ASSUME NEW n \in BundleRecord, NEW qs \in SUBSET DOMAIN n.parts
  PROVE  LET k == KeepParts(n, qs) IN
         /\ k \in BundleRecord /\ k.status = n.status
         /\ DOMAIN k.parts = qs /\ \A q \in qs : k.parts[q] = n.parts[q]
         /\ k.purged <=> n.purged \/ qs = {}
  <1>1. n.parts \in Parts
    BY DEF BundleRecord
  <1>2. PICK p \in Parts : /\ p = Restrict(n.parts, qs) /\ DOMAIN p = qs
                           /\ \A q \in qs : p[q] = n.parts[q]
    BY <1>1, PartsMeaning
  <1> QED BY <1>2 DEF KeepParts, BundleRecord

(***************************************************************************)
(* The writes of a turn.                                                   *)
(***************************************************************************)

\* What a transaction of the turn of m has in hand.
Txn(d, m) ==
    /\ d \in Store /\ StoreSound(d, Done \cup {m}, m)
    /\ d.bundle[m].status \in {"none", "pending_delivery"}
    /\ \A q \in Questions : row[q].status \in {"declined", "confirmed"} => d.row[q] = row[q]
    /\ \A n \in Messages \ {m} : d.receipt[n] = receipt[n]
    /\ \A b \in sent : d.bundle[b].status \in Unresolved =>
          bundle[b].status \in Unresolved /\ d.bundle[b].parts = bundle[b].parts

\* Nobody has seen what the turn of m writes.
LEMMA Unseen ==
  ASSUME Typed, TalkSound, NEW m \in Messages \ Done
  PROVE  m \notin sent /\ \A n \in Messages : m \notin seen[n]
  BY DEF TalkSound

LEMMA StoreParts ==
  ASSUME NEW d \in Store
  PROVE  /\ d.row \in [Questions -> RowRecord] /\ d.bundle \in [Messages -> BundleRecord]
         /\ d.receipt \in [Messages -> ReceiptRecord]
         /\ \A b \in Messages : DOMAIN d.bundle[b].parts \subseteq Questions
                                /\ \A q \in DOMAIN d.bundle[b].parts : d.bundle[b].parts[q] \in Texts
  <1>1. /\ d.row \in [Questions -> RowRecord] /\ d.bundle \in [Messages -> BundleRecord]
        /\ d.receipt \in [Messages -> ReceiptRecord]
    BY DEF Store
  <1>2. \A b \in Messages : d.bundle[b].parts \in Parts
    BY <1>1 DEF BundleRecord
  <1> QED BY <1>1, <1>2, PartsMeaning

LEMMA StoreIsRecord ==
  ASSUME NEW d \in Store
  PROVE  d = [row |-> d.row, bundle |-> d.bundle, receipt |-> d.receipt]
  BY DEF Store

LEMMA VerdictOf ==
  ASSUME NEW v \in Verdicts
  PROVE  /\ VerdictKind(v) \in {"agree", "partial", "reject"}
         /\ (\E q \in DOMAIN v : v[q] = "accepted") => VerdictKind(v) # "reject"
  BY DEF VerdictKind

LEMMA VerdictKeeps ==
  ASSUME Typed, TalkSound, NEW m \in Messages \ Done, NEW d, Txn(d, m),
         NEW p \in PlanRecord, p.bundle \in seen[m], p.verdict = VerdictKind(p.answers),
         DOMAIN p.answers = DOMAIN d.bundle[p.bundle].parts, VerdictOk(d, m, p)
  PROVE  Txn(ApplyVerdict(d, m, p), m)
  <1> DEFINE b == p.bundle
             parts == d.bundle[b].parts
             disputed == DisputedIn(p.answers)
             e == ApplyVerdict(d, m, p)
  <1>1. b \in Messages /\ b \in Done /\ b \in sent /\ b # m
    BY DEF Typed, TalkSound, Done
  <1>2. /\ d \in Store /\ StoreSound(d, Done \cup {m}, m)
        /\ d.row \in [Questions -> RowRecord] /\ d.bundle \in [Messages -> BundleRecord]
        /\ d.receipt \in [Messages -> ReceiptRecord]
        /\ DOMAIN parts \subseteq Questions /\ \A q \in DOMAIN parts : parts[q] \in Texts
    BY <1>1, StoreParts DEF Txn
  <1>3. /\ p.answers \in Verdicts /\ DOMAIN p.answers \subseteq Questions
        /\ \A q \in DOMAIN p.answers : p.answers[q] \in Answers
        /\ disputed \subseteq DOMAIN parts
        /\ p.verdict \in {"agree", "partial", "reject"}
    BY VerdictsMeaning, VerdictOf DEF PlanRecord, DisputedIn
  <1>4. /\ d.bundle[b].status \in Unresolved
        /\ {q \in Questions : d.row[q].bundle = b} = DOMAIN parts
        /\ \A q \in DOMAIN parts : d.row[q].status = "pending_confirmation"
        /\ d.receipt[m] = NoReceipt
    BY DEF VerdictOk, Linked
  <1>5. /\ e.row = [q \in Questions |-> IF q \in DOMAIN parts
                       THEN Answered(m, d.row[q], p.answers[q], parts[q]) ELSE d.row[q]]
        /\ e.bundle = [d.bundle EXCEPT ![b] =
                          [KeepParts(d.bundle[b], disputed) EXCEPT
                              !.status = IF p.verdict = "reject" THEN "rejected" ELSE "resolved"]]
        /\ e.receipt = [d.receipt EXCEPT ![m] = [kind |-> p.verdict, target |-> b]]
        /\ e = [row |-> e.row, bundle |-> e.bundle, receipt |-> e.receipt]
    BY <1>2 DEF ApplyVerdict
  <1> HIDE DEF e
  \* The three tables after the verdict.
  <1>6. ASSUME NEW q \in Questions
        PROVE  /\ e.row[q] \in RowRecord /\ e.row[q].bundle = d.row[q].bundle
               /\ q \notin DOMAIN parts => e.row[q] = d.row[q]
               /\ q \in DOMAIN parts => e.row[q] = Answered(m, d.row[q], p.answers[q], parts[q])
    <2>1. CASE q \in DOMAIN parts
      BY <1>2, <1>3, <1>5, <2>1, AnsweredRow
    <2>2. CASE q \notin DOMAIN parts
      BY <1>2, <1>5, <2>2
    <2> QED BY <2>1, <2>2
  <1>7. /\ e.bundle[b] \in BundleRecord /\ e.bundle[b].status \in {"rejected", "resolved"}
        /\ DOMAIN e.bundle[b].parts = disputed
        /\ \A q \in disputed : e.bundle[b].parts[q] = parts[q]
        /\ e.bundle[b].purged <=> d.bundle[b].purged \/ disputed = {}
        /\ e.bundle \in [Messages -> BundleRecord]
        /\ \A c \in Messages \ {b} : e.bundle[c] = d.bundle[c]
    <2> DEFINE k == KeepParts(d.bundle[b], disputed)
    <2>1. /\ k \in BundleRecord /\ DOMAIN k.parts = disputed
          /\ \A q \in disputed : k.parts[q] = parts[q]
          /\ k.purged <=> d.bundle[b].purged \/ disputed = {}
      BY <1>1, <1>2, <1>3, KeptParts
    <2> HIDE DEF k
    <2>2. e.bundle[b] = [k EXCEPT !.status = IF p.verdict = "reject" THEN "rejected" ELSE "resolved"]
      BY <1>1, <1>2, <1>5 DEF k
    <2>3. /\ e.bundle[b] \in BundleRecord /\ e.bundle[b].parts = k.parts /\ e.bundle[b].purged = k.purged
          /\ e.bundle[b].status \in {"rejected", "resolved"}
      BY <2>1, <2>2 DEF BundleRecord, BundleStatuses
    <2> QED BY <1>1, <1>2, <1>5, <2>1, <2>3
  <1>8. /\ e.receipt[m] = [kind |-> p.verdict, target |-> b]
        /\ e.receipt[m] \in ReceiptRecord /\ e.receipt \in [Messages -> ReceiptRecord]
        /\ \A n \in Messages \ {m} : e.receipt[n] = d.receipt[n]
    <2>1. [kind |-> p.verdict, target |-> b] \in ReceiptRecord
      BY <1>1, <1>3, TextFacts DEF ReceiptRecord, ReceiptKinds
    <2> QED BY <1>2, <1>5, <2>1
  <1>9. e \in Store
    BY <1>5, <1>6, <1>7, <1>8 DEF Store
  \* The rows that were answered.
  <1>10. ASSUME NEW q \in DOMAIN parts
         PROVE  /\ RowSound(e.row[q]) /\ RowOrdered(q, e.row[q])
                /\ LinkSound(e, q) /\ RowShown(e, q)
                /\ e.row[q].prompt \in {0} \cup Done
                /\ e.row[q].status \notin {"pending_confirmation"}
                /\ e.row[q].status = "pending_clarification" <=> q \in disputed
    <2> DEFINE r == d.row[q]
               c == e.row[q]
    <2>1. /\ q \in Questions /\ r \in RowRecord /\ p.answers[q] \in Answers /\ parts[q] \in Texts
          /\ c = Answered(m, r, p.answers[q], parts[q])
          /\ q \in disputed <=> p.answers[q] = "disputed"
      BY <1>2, <1>3, <1>6 DEF DisputedIn
    <2>2. /\ r.status = "pending_confirmation" /\ r.bundle = b
          /\ RowSound(r) /\ RowOrdered(q, r) /\ LinkSound(d, q)
      BY <1>2, <1>4, <2>1 DEF StoreSound
    <2>3. /\ r.prompt = 0 /\ ~r.purged /\ r.summary # {} /\ r.sources # {}
          /\ Before(r, m) /\ \A i \in insight : i.question = q => i.confirmedAt < m
      <3>1. \A i \in insight : i.question = q => \A s \in r.sources : i.confirmedAt < s /\ s < m
        BY <2>2 DEF RowOrdered, Open, Pending, Before
      <3>2. \A i \in insight : i.confirmedAt \in Int
        BY DEF Typed, InsightRecord, Messages
      <3>3. m \in Int /\ \A s \in r.sources : s \in Int
        BY <2>1 DEF RowRecord, Texts, Sources, Messages
      <3>4. /\ r.prompt = 0 /\ ~r.purged /\ r.summary # {} /\ r.sources # {}
        BY <2>2 DEF RowSound, Open, Pending
      <3> QED BY <2>2, <3>1, <3>2, <3>3, <3>4 DEF RowOrdered, Pending
    <2>4. parts[q] = r.summary
      BY <2>1, <2>2 DEF LinkSound, Pending
    <2>5. CASE p.answers[q] = "accepted"
      <3>1. /\ c.status = "confirmed" /\ c.statement = parts[q] /\ c.confirmedAt = m
            /\ c.sources = r.sources /\ ~c.purged /\ c.prompt = 0 /\ c.bundle = b
        BY <2>1, <2>2, <2>3, <2>5, AnsweredRow
      <3>2. p.verdict \in {"agree", "partial"}
        BY <1>3, <2>1, <2>5, VerdictOf
      <3>3. parts[q] = shown[b][q] /\ q \in DOMAIN shown[b]
        BY <1>1, <1>2, <2>1 DEF StoreSound, CopiesShown
      <3>4. RowShown(e, q)
        BY <1>8, <3>1, <3>2, <3>3 DEF RowShown, ShownIn
      <3>5. LinkSound(e, q)
        BY <1>1, <1>7, <3>1, <2>1 DEF LinkSound, Pending
      <3>6. RowOrdered(q, c)
        BY <2>2, <2>3, <3>1 DEF RowOrdered, Pending, Open, Finalized
      <3> QED BY <2>1, <2>5, <3>1, <3>4, <3>5, <3>6 DEF RowSound, Open, Pending
    <2>6. CASE p.answers[q] = "disputed"
      <3>1. /\ c.status = "pending_clarification" /\ c.summary = r.summary
            /\ c.sources = r.sources /\ c.statement = r.statement
            /\ ~c.purged /\ c.prompt = 0 /\ c.bundle = b
        BY <2>1, <2>2, <2>3, <2>6, AnsweredRow
      <3>2. LinkSound(e, q)
        BY <1>1, <1>7, <2>1, <2>4, <2>6, <3>1, BoundsAssumption DEF LinkSound, Pending, Messages, Unresolved
      <3>3. RowOrdered(q, c)
        BY <2>2, <3>1 DEF RowOrdered, Before, Pending, Open, Finalized
      <3> QED BY <2>1, <2>3, <2>6, <3>1, <3>2, <3>3 DEF RowSound, RowShown, Open, Pending
    <2>7. CASE p.answers[q] \in {"reset", "declined"}
      <3>1. /\ c.status \in {"reset", "declined"} /\ c.purged /\ c.prompt = 0 /\ c.bundle = b
            /\ c.summary = {} /\ c.sources = {} /\ c.statement = {}
        BY <2>1, <2>2, <2>7, AnsweredRow
      <3>2. LinkSound(e, q)
        BY <1>1, <1>7, <3>1 DEF LinkSound, Pending
      <3> QED BY <2>1, <2>7, <3>1, <3>2 DEF RowSound, RowShown, RowOrdered, Open, Pending, Finalized
    <2> QED BY <2>1, <2>5, <2>6, <2>7 DEF Answers
  \* The other rows.
  <1>11. ASSUME NEW q \in Questions \ DOMAIN parts
         PROVE  /\ RowSound(e.row[q]) /\ RowOrdered(q, e.row[q])
                /\ LinkSound(e, q) /\ RowShown(e, q)
                /\ e.row[q].prompt \in {0} \cup Done \cup {m}
    <2>1. /\ e.row[q] = d.row[q] /\ d.row[q].bundle # b /\ d.row[q].bundle \in Sources
          /\ d.row[q].bundle # 0 => e.bundle[d.row[q].bundle] = d.bundle[d.row[q].bundle]
      BY <1>2, <1>4, <1>6, <1>7 DEF RowRecord, Sources, Messages
    <2>2. /\ RowSound(d.row[q]) /\ RowOrdered(q, d.row[q]) /\ LinkSound(d, q) /\ RowShown(d, q)
          /\ d.row[q].prompt \in {0} \cup Done \cup {m}
      BY <1>2 DEF StoreSound, LeftBy
    <2>3. LinkSound(e, q)
      BY <2>1, <2>2 DEF LinkSound, Pending
    <2>4. RowShown(e, q)
      <3>1. SUFFICES ASSUME d.row[q].status = "confirmed", ~d.row[q].purged
                     PROVE  e.receipt[d.row[q].confirmedAt] = d.receipt[d.row[q].confirmedAt]
        BY <2>1, <2>2 DEF RowShown, ShownIn
      <3>2. d.row[q].confirmedAt \in Messages
        BY <2>2, <3>1 DEF RowOrdered
      <3>3. d.receipt[d.row[q].confirmedAt].kind # "none"
        BY <2>2, <3>1 DEF RowShown, ShownIn
      <3> QED BY <1>4, <1>8, <3>2, <3>3 DEF NoReceipt
    <2> QED BY <2>1, <2>2, <2>3, <2>4
  <1>12. \A c \in Messages : BundleSound(e.bundle[c])
    <2>1. \A c \in Messages : BundleSound(d.bundle[c])
      BY <1>2 DEF StoreSound
    <2>2. ~d.bundle[b].purged
      BY <1>1, <1>4, <2>1 DEF BundleSound
    <2> QED BY <1>1, <1>7, <2>1, <2>2 DEF BundleSound, Unresolved
  <1>13. CopiesNeeded(e)
    <2> SUFFICES ASSUME NEW c \in Messages, NEW q \in DOMAIN e.bundle[c].parts
                 PROVE  e.row[q].bundle = c /\ e.row[q].status \in Pending
      BY DEF CopiesNeeded
    <2>1. CASE c = b
      BY <1>2, <1>3, <1>4, <1>6, <1>7, <1>10, <2>1 DEF Pending
    <2>2. CASE c # b
      <3>1. d.row[q].bundle = c /\ d.row[q].status \in Pending
        BY <1>2, <1>7, <2>2 DEF StoreSound, CopiesNeeded
      <3>2. q \in Questions
        BY <1>2, <1>7, <2>2, StoreParts
      <3> QED BY <1>4, <1>6, <2>2, <3>1, <3>2
    <2> QED BY <2>1, <2>2
  <1>14. OneOpen(e) /\ \A c \in OpenBundles(e.bundle) : c \in OpenBundles(d.bundle)
    <2>1. \A c \in OpenBundles(e.bundle) : c \in OpenBundles(d.bundle)
      BY <1>7 DEF OpenBundles, Unresolved
    <2> QED BY <1>2, <2>1 DEF StoreSound, OneOpen
  <1>15. LeftBy(e, Done \cup {m})
    <2>1. LeftBy(d, Done \cup {m})
      BY <1>2 DEF StoreSound
    <2> QED BY <1>1, <1>7, <1>8, <1>10, <1>11, <2>1 DEF LeftBy
  <1>16. CopiesShown(e, m)
    <2>1. CopiesShown(d, m)
      BY <1>2 DEF StoreSound
    <2> QED BY <1>1, <1>3, <1>7, <2>1 DEF CopiesShown
  <1>17. StoreSound(e, Done \cup {m}, m)
    BY <1>10, <1>11, <1>12, <1>13, <1>14, <1>15, <1>16 DEF StoreSound
  <1>18. \A q \in Questions : row[q].status \in {"declined", "confirmed"} => e.row[q] = row[q]
    BY <1>2, <1>4, <1>6 DEF Txn
  <1>19. \A c \in sent : e.bundle[c].status \in Unresolved =>
            bundle[c].status \in Unresolved /\ e.bundle[c].parts = bundle[c].parts
    BY <1>1, <1>7 DEF Txn, Unresolved, Typed
  <1> QED BY <1>1, <1>7, <1>8, <1>9, <1>17, <1>18, <1>19 DEF Txn, e

LEMMA ClarificationKeeps ==
  ASSUME Typed, TalkSound, NEW m \in Messages, turn[m] = "prepared", NEW d, Txn(d, m),
         NEW q \in Questions, NEW clarified \in BOOLEAN, ClarificationOk(d, m, q)
  PROVE  Txn(ApplyClarification(d, m, q, clarified), m)
  <1> DEFINE r == d.row[q]
             b == r.bundle
             c == IF clarified THEN ClarifiedRow(m, r) ELSE Closed(m, r, "declined")
             rows == [d.row EXCEPT ![q] = c]
             disputed == StillDisputed(rows, b)
             e == ApplyClarification(d, m, q, clarified)
  <1> m \in Messages \ Done
    BY DEF Done
  <1>1. /\ d \in Store /\ StoreSound(d, Done \cup {m}, m)
        /\ d.row \in [Questions -> RowRecord] /\ d.bundle \in [Messages -> BundleRecord]
        /\ d.receipt \in [Messages -> ReceiptRecord]
    BY StoreParts DEF Txn
  <1>2. /\ r.status = "pending_clarification" /\ b \in sent /\ r.prompt # 0 /\ r.prompt \in seen[m]
        /\ d.receipt[m] = NoReceipt
    BY DEF ClarificationOk
  <1>3. b \in Messages /\ b \in Done /\ b # m /\ b # 0 /\ r.prompt \in Messages
    <2>1. b \in Messages /\ b \in Done /\ r.prompt \in Messages
      BY <1>2 DEF Typed, TalkSound
    <2> QED BY <2>1 DEF Messages
  <1>4. /\ RowSound(r) /\ RowOrdered(q, r) /\ LinkSound(d, q) /\ BundleSound(d.bundle[b])
        /\ r \in RowRecord
    BY <1>1, <1>3 DEF StoreSound
  <1>5. /\ c \in RowRecord /\ c.bundle = b /\ c.prompt = 0
        /\ clarified => /\ c.status = "collecting" /\ c.summary = {m} /\ ~c.purged
                        /\ c.sources = r.sources \cup {m} /\ c.statement = {}
        /\ ~clarified => /\ c.status = "declined" /\ c.purged
                         /\ c.summary = {} /\ c.sources = {} /\ c.statement = {}
    <2>1. ~r.purged
      BY <1>2, <1>4 DEF RowSound, Open, Pending
    <2>2. "declined" \in Statuses
      BY DEF Statuses
    <2> QED BY <1>4, <2>1, <2>2, ClarifiedRowIs, ClosedRow
  <1> HIDE DEF c
  <1>6. /\ rows \in [Questions -> RowRecord] /\ rows[q] = c
        /\ \A o \in Questions \ {q} : rows[o] = d.row[o]
    BY <1>1, <1>5
  <1>7. /\ disputed = {o \in Questions : rows[o].status = "pending_clarification" /\ rows[o].bundle = b}
        /\ disputed = DOMAIN d.bundle[b].parts \ {q}
        /\ q \in DOMAIN d.bundle[b].parts /\ d.bundle[b].status \notin Unresolved
    <2>1. disputed = {o \in Questions : rows[o].status = "pending_clarification" /\ rows[o].bundle = b}
      BY DEF StillDisputed, Disputed
    <2>2. q \in DOMAIN d.bundle[b].parts /\ d.bundle[b].status \notin Unresolved
      BY <1>2, <1>4 DEF LinkSound, Pending
    <2>3. DOMAIN d.bundle[b].parts \subseteq Questions
      BY <1>1, <1>3, StoreParts
    <2>4. \A o \in DOMAIN d.bundle[b].parts : d.row[o].bundle = b /\ d.row[o].status \in Pending
      BY <1>1, <1>3 DEF StoreSound, CopiesNeeded
    <2>5. \A o \in Questions : d.row[o].status \in Pending /\ d.row[o].bundle = b =>
             d.row[o].status = "pending_clarification" /\ o \in DOMAIN d.bundle[b].parts
      BY <1>1, <2>2 DEF StoreSound, LinkSound, Pending
    <2>6. q \notin disputed
      BY <1>5, <1>6, <2>1
    <2>7. \A o \in Questions \ {q} : o \in disputed <=> o \in DOMAIN d.bundle[b].parts
      BY <1>6, <2>1, <2>4, <2>5 DEF Pending
    <2> QED BY <2>1, <2>2, <2>3, <2>6, <2>7
  <1>8. /\ e.row = rows /\ e.bundle = [d.bundle EXCEPT ![b] = KeepParts(d.bundle[b], disputed)]
        /\ e.receipt = [d.receipt EXCEPT ![m] =
              [kind |-> IF clarified THEN "clarified" ELSE "declined", target |-> q]]
        /\ e = [row |-> e.row, bundle |-> e.bundle, receipt |-> e.receipt]
    BY <1>1 DEF ApplyClarification, c
  <1> HIDE DEF e, rows, disputed
  <1>9. /\ e.bundle[b] \in BundleRecord /\ e.bundle[b].status = d.bundle[b].status
        /\ DOMAIN e.bundle[b].parts = disputed
        /\ \A o \in disputed : e.bundle[b].parts[o] = d.bundle[b].parts[o]
        /\ e.bundle[b].purged <=> d.bundle[b].purged \/ disputed = {}
        /\ e.bundle \in [Messages -> BundleRecord]
        /\ \A o \in Messages \ {b} : e.bundle[o] = d.bundle[o]
    <2> DEFINE k == KeepParts(d.bundle[b], disputed)
    <2>1. /\ k \in BundleRecord /\ k.status = d.bundle[b].status /\ DOMAIN k.parts = disputed
          /\ \A o \in disputed : k.parts[o] = d.bundle[b].parts[o]
          /\ k.purged <=> d.bundle[b].purged \/ disputed = {}
      <3>1. d.bundle[b] \in BundleRecord /\ disputed \in SUBSET DOMAIN d.bundle[b].parts
        BY <1>1, <1>3, <1>7
      <3> QED BY <3>1, KeptParts
    <2> HIDE DEF k
    <2>2. e.bundle = [d.bundle EXCEPT ![b] = k]
      BY <1>8 DEF k
    <2> QED BY <1>1, <1>3, <2>1, <2>2
  <1>10. /\ e.receipt \in [Messages -> ReceiptRecord]
         /\ e.receipt[m].kind \in {"clarified", "declined"}
         /\ \A n \in Messages \ {m} : e.receipt[n] = d.receipt[n]
    <2>1. [kind |-> IF clarified THEN "clarified" ELSE "declined", target |-> q] \in ReceiptRecord
      BY DEF ReceiptRecord, ReceiptKinds
    <2> QED BY <1>1, <1>8, <2>1
  <1>11. e \in Store
    BY <1>6, <1>8, <1>9, <1>10 DEF Store
  <1>12. /\ RowSound(c) /\ RowOrdered(q, c) /\ LinkSound(e, q) /\ RowShown(e, q)
    <2>1. LinkSound(e, q) /\ RowShown(e, q)
      <3>1. e.row[q] = c /\ c.status \in {"collecting", "declined"} /\ c.bundle = b
        BY <1>5, <1>6, <1>8
      <3>2. e.bundle[b].status # "none"
        BY <1>3, <1>4, <1>9 DEF LinkSound
      <3> QED BY <3>1, <3>2 DEF LinkSound, RowShown, Pending
    <2>2. RowSound(c)
      BY <1>5 DEF RowSound, Open, Pending
    <2>3. CASE clarified
      <3>1. r.sources # {} /\ Before(r, m)
        BY <1>2, <1>4 DEF RowSound, RowOrdered, Open, Pending
      <3>2. \A i \in insight : i.question = q => \A s \in r.sources : i.confirmedAt < s
        BY <1>2, <1>4 DEF RowOrdered, Open, Pending
      <3>3. /\ \A i \in insight : i.confirmedAt \in Int
            /\ m \in Int /\ \A s \in r.sources : s \in Int
        BY <1>4 DEF Typed, InsightRecord, RowRecord, Texts, Sources, Messages
      <3>4. \A i \in insight : i.question = q => i.confirmedAt < m
        BY <3>1, <3>2, <3>3 DEF Before
      <3>5. m <= arrived
        BY <3>3 DEF TalkSound, Typed, Sources
      <3> QED BY <1>4, <1>5, <2>1, <2>2, <2>3, <3>2, <3>4, <3>5 DEF RowOrdered, Pending, Open, Finalized
    <2>4. CASE ~clarified
      BY <1>5, <2>1, <2>2, <2>4 DEF RowOrdered, Pending, Open, Finalized
    <2> QED BY <2>3, <2>4
  <1>13. ASSUME NEW o \in Questions \ {q}
         PROVE  /\ RowSound(e.row[o]) /\ RowOrdered(o, e.row[o])
                /\ LinkSound(e, o) /\ RowShown(e, o)
    <2>1. /\ e.row[o] = d.row[o] /\ d.row[o] \in RowRecord /\ d.row[o].bundle \in Sources
      BY <1>1, <1>6, <1>8 DEF RowRecord
    <2>2. /\ RowSound(d.row[o]) /\ RowOrdered(o, d.row[o]) /\ LinkSound(d, o) /\ RowShown(d, o)
      BY <1>1 DEF StoreSound
    <2>3. LinkSound(e, o)
      <3>1. CASE d.row[o].bundle = b
        BY <1>7, <1>9, <2>1, <2>2, <3>1 DEF LinkSound
      <3>2. CASE d.row[o].bundle # b
        BY <1>9, <2>1, <2>2, <3>2 DEF LinkSound, Sources, Messages, Pending
      <3> QED BY <3>1, <3>2
    <2>4. RowShown(e, o)
      <3>1. SUFFICES ASSUME d.row[o].status = "confirmed", ~d.row[o].purged
                     PROVE  e.receipt[d.row[o].confirmedAt] = d.receipt[d.row[o].confirmedAt]
        BY <2>1, <2>2 DEF RowShown, ShownIn
      <3>2. d.row[o].confirmedAt \in Messages
        BY <2>2, <3>1 DEF RowOrdered
      <3>3. d.receipt[d.row[o].confirmedAt].kind # "none"
        BY <2>2, <3>1 DEF RowShown, ShownIn
      <3> QED BY <1>2, <1>10, <3>2, <3>3 DEF NoReceipt
    <2> QED BY <2>1, <2>2, <2>3, <2>4
  <1>14. \A o \in Messages : BundleSound(e.bundle[o])
    <2>1. \A o \in Messages : BundleSound(d.bundle[o])
      BY <1>1 DEF StoreSound
    <2> QED BY <1>3, <1>7, <1>9, <2>1 DEF BundleSound
  <1>15. CopiesNeeded(e)
    <2> SUFFICES ASSUME NEW a \in Messages, NEW o \in DOMAIN e.bundle[a].parts
                 PROVE  e.row[o].bundle = a /\ e.row[o].status \in Pending
      BY DEF CopiesNeeded
    <2>1. o \in DOMAIN d.bundle[a].parts /\ o # q
      <3>1. \A x \in Messages : q \in DOMAIN d.bundle[x].parts => x = b
        BY <1>1 DEF StoreSound, CopiesNeeded
      <3> QED BY <1>7, <1>9, <3>1
    <2>2. d.row[o].bundle = a /\ d.row[o].status \in Pending /\ o \in Questions
      BY <1>1, <2>1, StoreParts DEF StoreSound, CopiesNeeded
    <2> QED BY <1>6, <1>8, <2>1, <2>2
  <1>16. OneOpen(e) /\ \A a \in Messages : e.bundle[a].status = d.bundle[a].status
    <2>1. \A a \in Messages : e.bundle[a].status = d.bundle[a].status
      BY <1>9
    <2> QED BY <1>1, <2>1 DEF StoreSound, OneOpen, OpenBundles
  <1>17. LeftBy(e, Done \cup {m})
    <2>1. LeftBy(d, Done \cup {m})
      BY <1>1 DEF StoreSound
    <2> QED BY <1>5, <1>6, <1>8, <1>10, <1>16, <2>1 DEF LeftBy
  <1>18. CopiesShown(e, m)
    <2>1. CopiesShown(d, m)
      BY <1>1 DEF StoreSound
    <2> QED BY <1>3, <1>7, <1>9, <2>1 DEF CopiesShown
  <1>19. StoreSound(e, Done \cup {m}, m)
    BY <1>6, <1>8, <1>12, <1>13, <1>14, <1>15, <1>16, <1>17, <1>18 DEF StoreSound
  <1>20. \A o \in Questions : row[o].status \in {"declined", "confirmed"} => e.row[o] = row[o]
    BY <1>2, <1>6, <1>8 DEF Txn
  <1>21. \A a \in sent : e.bundle[a].status \in Unresolved =>
            bundle[a].status \in Unresolved /\ e.bundle[a].parts = bundle[a].parts
    BY <1>7, <1>9, <1>16 DEF Txn, Typed
  <1> QED BY <1>3, <1>10, <1>11, <1>16, <1>19, <1>20, <1>21 DEF Txn, e

LEMMA StageKeeps ==
  ASSUME Typed, TalkSound, NEW m \in Messages, turn[m] = "prepared", NEW d, Txn(d, m),
         NEW show \in Parts, NEW kind \in {"confirmation", "corrected_statement"},
         OpenBundles(d.bundle) = {}, \A q \in DOMAIN show : Showable(d.row[q], show[q])
  PROVE  Txn(Stage(d, m, show, kind), m)
  <1> DEFINE e == Stage(d, m, show, kind)
             Staged(q) == [d.row[q] EXCEPT !.status = "pending_confirmation", !.bundle = m]
  <1> m \in Messages \ Done
    BY DEF Done
  <1>1. /\ d \in Store /\ StoreSound(d, Done \cup {m}, m)
        /\ d.row \in [Questions -> RowRecord] /\ d.bundle \in [Messages -> BundleRecord]
        /\ d.receipt \in [Messages -> ReceiptRecord]
        /\ DOMAIN show \subseteq Questions
    BY StoreParts, PartsMeaning DEF Txn
  <1>2. /\ m \notin sent /\ \A n \in Messages : m \notin seen[n]
    BY Unseen
  <1>3. /\ e.row = [q \in Questions |-> IF q \in DOMAIN show THEN Staged(q) ELSE d.row[q]]
        /\ e.bundle = [d.bundle EXCEPT ![m] = [status |-> "pending_delivery", kind |-> kind,
                                               parts |-> show, purged |-> FALSE]]
        /\ e.receipt = d.receipt
        /\ e = [row |-> e.row, bundle |-> e.bundle, receipt |-> e.receipt]
    BY <1>1 DEF Stage
  <1> HIDE DEF e
  \* Nothing was open, so nothing was linked to the bundle of m, and no row waited.
  <1>4. /\ d.bundle[m].status = "none" /\ DOMAIN d.bundle[m].parts = {}
        /\ \A b \in Messages : d.bundle[b].status \notin Unresolved
    <2>1. \A b \in Messages : d.bundle[b].status \notin Unresolved
      BY DEF OpenBundles
    <2>2. d.bundle[m].status = "none"
      BY <2>1 DEF Txn, Unresolved
    <2> QED BY <1>1, <2>1, <2>2 DEF StoreSound, BundleSound
  <1>5. ASSUME NEW q \in Questions
        PROVE  /\ d.row[q] \in RowRecord /\ d.row[q].bundle # m
               /\ d.row[q].status # "pending_confirmation"
               /\ RowSound(d.row[q]) /\ RowOrdered(q, d.row[q]) /\ LinkSound(d, q) /\ RowShown(d, q)
    <2>1. /\ d.row[q] \in RowRecord
          /\ RowSound(d.row[q]) /\ RowOrdered(q, d.row[q]) /\ LinkSound(d, q) /\ RowShown(d, q)
      BY <1>1 DEF StoreSound
    <2>2. d.row[q].bundle # m
      BY <1>4, <2>1, BoundsAssumption DEF LinkSound, Messages
    <2>3. d.row[q].bundle \in Sources
      BY <2>1 DEF RowRecord
    <2>4. d.row[q].status # "pending_confirmation"
      BY <1>4, <2>1, <2>3, BoundsAssumption DEF LinkSound, Pending, Sources, Messages
    <2> QED BY <2>1, <2>2, <2>4
  <1>6. ASSUME NEW q \in DOMAIN show
        PROVE  /\ q \in Questions /\ e.row[q] \in RowRecord
               /\ e.row[q].status = "pending_confirmation" /\ e.row[q].bundle = m
               /\ e.row[q].summary = show[q] /\ show[q] # {}
               /\ e.row[q].prompt = d.row[q].prompt /\ d.row[q].status = "collecting"
               /\ e.row[q].sources = d.row[q].sources /\ e.row[q].purged = d.row[q].purged
               /\ e.row[q].statement = d.row[q].statement
    <2>1. q \in Questions /\ d.row[q] \in RowRecord /\ e.row[q] = Staged(q)
      BY <1>1, <1>3
    <2>2. m \in Sources /\ "pending_confirmation" \in Statuses
      BY TextFacts DEF Statuses
    <2>3. /\ d.row[q].status = "collecting" /\ d.row[q].summary = show[q]
          /\ d.row[q].summary # {}
      BY DEF Showable
    <2> HIDE DEF Staged
    <2>4. /\ Staged(q) \in RowRecord /\ Staged(q).status = "pending_confirmation"
          /\ Staged(q).bundle = m /\ Staged(q).summary = d.row[q].summary
          /\ Staged(q).prompt = d.row[q].prompt /\ Staged(q).sources = d.row[q].sources
          /\ Staged(q).purged = d.row[q].purged /\ Staged(q).statement = d.row[q].statement
      BY <2>1, <2>2 DEF RowRecord, Staged
    <2> QED BY <2>1, <2>3, <2>4
  <1>7. \A q \in Questions \ DOMAIN show : e.row[q] = d.row[q]
    BY <1>3
  <1>8. /\ e.bundle \in [Messages -> BundleRecord]
        /\ e.bundle[m].status = "pending_delivery" /\ e.bundle[m].parts = show /\ ~e.bundle[m].purged
        /\ \A b \in Messages \ {m} : e.bundle[b] = d.bundle[b]
    <2> DEFINE n == [status |-> "pending_delivery", kind |-> kind, parts |-> show, purged |-> FALSE]
    <2>1. n \in BundleRecord /\ n.status = "pending_delivery" /\ n.parts = show /\ ~n.purged
      BY DEF BundleRecord, BundleStatuses
    <2>2. e.bundle = [d.bundle EXCEPT ![m] = n]
      BY <1>3
    <2> HIDE DEF n
    <2> QED BY <1>1, <2>1, <2>2
  <1>9. e \in Store
    <2>1. \A q \in Questions : e.row[q] \in RowRecord
      BY <1>1, <1>6, <1>7
    <2>2. e.row \in [Questions -> RowRecord]
      BY <1>3, <2>1
    <2> QED BY <1>1, <1>3, <1>8, <2>2 DEF Store
  <1>10. ASSUME NEW q \in DOMAIN show
         PROVE  /\ RowSound(e.row[q]) /\ RowOrdered(q, e.row[q])
                /\ LinkSound(e, q) /\ RowShown(e, q) /\ e.row[q].prompt = 0
    <2>1. /\ RowSound(d.row[q]) /\ RowOrdered(q, d.row[q])
      BY <1>5, <1>6
    <2>2. d.row[q].prompt = 0 /\ ~d.row[q].purged /\ d.row[q].sources # {}
      BY <1>6, <2>1 DEF RowSound, Open
    <2>3. LinkSound(e, q)
      BY <1>6, <1>8, BoundsAssumption DEF LinkSound, Pending, Unresolved, Messages
    <2>4. RowOrdered(q, e.row[q])
      BY <1>2, <1>6, <2>1, <2>2 DEF RowOrdered, Open, Pending, Finalized
    <2> QED BY <1>6, <2>2, <2>3, <2>4 DEF RowSound, RowShown
  <1>11. ASSUME NEW q \in Questions \ DOMAIN show
         PROVE  RowSound(e.row[q]) /\ RowOrdered(q, e.row[q]) /\ LinkSound(e, q) /\ RowShown(e, q)
    <2>1. LinkSound(e, q)
      <3>1. d.row[q].bundle # 0 => e.bundle[d.row[q].bundle] = d.bundle[d.row[q].bundle]
        BY <1>5, <1>8 DEF RowRecord, Sources, Messages
      <3> QED BY <1>5, <1>7, <3>1 DEF LinkSound, Pending
    <2> QED BY <1>3, <1>5, <1>7, <2>1 DEF RowShown
  <1>12. \A b \in Messages : BundleSound(e.bundle[b])
    BY <1>1, <1>8 DEF StoreSound, BundleSound
  <1>13. CopiesNeeded(e)
    <2>1. CopiesNeeded(d)
      BY <1>1 DEF StoreSound
    <2>2. ASSUME NEW b \in Messages \ {m}, NEW q \in DOMAIN e.bundle[b].parts
          PROVE  e.row[q].bundle = b /\ e.row[q].status \in Pending
      <3>1. /\ q \in Questions /\ d.row[q].bundle = b /\ d.row[q].status \in Pending
        BY <1>1, <1>8, <2>1, StoreParts DEF CopiesNeeded
      <3>2. q \notin DOMAIN show
        BY <1>6, <3>1 DEF Pending
      <3> QED BY <1>7, <3>1, <3>2
    <2>3. \A q \in DOMAIN e.bundle[m].parts : e.row[q].bundle = m /\ e.row[q].status \in Pending
      BY <1>6, <1>8 DEF Pending
    <2> QED BY <2>2, <2>3 DEF CopiesNeeded
  <1>14. OneOpen(e)
    BY <1>4, <1>8 DEF OneOpen, OpenBundles
  <1>15. LeftBy(e, Done \cup {m})
    <2>1. LeftBy(d, Done \cup {m})
      BY <1>1 DEF StoreSound
    <2> QED BY <1>3, <1>7, <1>8, <1>10, <2>1 DEF LeftBy
  <1>16. CopiesShown(e, m)
    BY <1>1, <1>8 DEF StoreSound, CopiesShown
  <1>17. StoreSound(e, Done \cup {m}, m)
    BY <1>10, <1>11, <1>12, <1>13, <1>14, <1>15, <1>16 DEF StoreSound
  <1>18. \A q \in Questions : row[q].status \in {"declined", "confirmed"} => e.row[q] = row[q]
    BY <1>6, <1>7 DEF Txn
  <1>19. \A b \in sent : e.bundle[b].status \in Unresolved =>
            bundle[b].status \in Unresolved /\ e.bundle[b].parts = bundle[b].parts
    BY <1>2, <1>8 DEF Txn, Typed
  <1> QED BY <1>3, <1>8, <1>9, <1>17, <1>18, <1>19 DEF Txn, e

LEMMA AskKeeps ==
  ASSUME Typed, TalkSound, NEW m \in Messages, turn[m] = "prepared", NEW d, Txn(d, m),
         NEW q \in Questions, AskOk(d, q)
  PROVE  Txn(Ask(d, m, q), m)
  <1> DEFINE e == Ask(d, m, q)
  <1>1. /\ d \in Store /\ StoreSound(d, Done \cup {m}, m)
        /\ d.row \in [Questions -> RowRecord] /\ d.bundle \in [Messages -> BundleRecord]
        /\ d.receipt \in [Messages -> ReceiptRecord]
    BY StoreParts DEF Txn
  <1>2. \A n \in Messages : m \notin seen[n]
    BY Unseen DEF Done
  <1>3. /\ e.row = [d.row EXCEPT ![q] = [d.row[q] EXCEPT !.prompt = m, !.attempts = @ + 1]]
        /\ e.bundle = d.bundle /\ e.receipt = d.receipt
        /\ e = [row |-> e.row, bundle |-> e.bundle, receipt |-> e.receipt]
    BY <1>1 DEF Ask
  <1> HIDE DEF e
  <1>4. /\ d.row[q].status = "pending_clarification" /\ d.row[q].attempts \in 0..1
        /\ d.row[q] \in RowRecord
    BY <1>1 DEF AskOk, RowRecord, MaxClarifications
  <1>5. /\ e.row[q] \in RowRecord /\ e.row[q].prompt = m /\ e.row[q].status = d.row[q].status
        /\ e.row[q].bundle = d.row[q].bundle /\ e.row[q].sources = d.row[q].sources
        /\ e.row[q].summary = d.row[q].summary /\ e.row[q].purged = d.row[q].purged
        /\ e.row[q].statement = d.row[q].statement
    <2>1. d.row[q].attempts + 1 \in 0..MaxClarifications /\ m \in Sources
      BY <1>4, TextFacts DEF MaxClarifications
    <2>2. e.row[q] = [d.row[q] EXCEPT !.prompt = m, !.attempts = d.row[q].attempts + 1]
      BY <1>1, <1>3
    <2> QED BY <1>4, <2>1, <2>2 DEF RowRecord
  <1>6. \A o \in Questions \ {q} : e.row[o] = d.row[o]
    BY <1>1, <1>3
  <1>7. e \in Store
    BY <1>1, <1>3, <1>5, <1>6 DEF Store
  <1>8. ASSUME NEW o \in Questions
        PROVE  RowSound(e.row[o]) /\ RowOrdered(o, e.row[o]) /\ LinkSound(e, o) /\ RowShown(e, o)
    <2>1. RowSound(d.row[o]) /\ RowOrdered(o, d.row[o]) /\ LinkSound(d, o) /\ RowShown(d, o)
      BY <1>1 DEF StoreSound
    <2>2. CASE o = q
      BY <1>2, <1>3, <1>4, <1>5, <2>1, <2>2
      DEF RowSound, RowOrdered, LinkSound, RowShown, Before, Open, Pending, Finalized
    <2>3. CASE o # q
      BY <1>3, <1>6, <2>1, <2>3 DEF LinkSound, RowShown
    <2> QED BY <2>2, <2>3
  <1>9. CopiesNeeded(e) /\ OneOpen(e) /\ CopiesShown(e, m) /\ \A b \in Messages : BundleSound(e.bundle[b])
    BY <1>1, <1>3, <1>5, <1>6, StoreParts DEF StoreSound, CopiesNeeded, OneOpen, CopiesShown
  <1>10. LeftBy(e, Done \cup {m})
    BY <1>1, <1>3, <1>5, <1>6 DEF StoreSound, LeftBy
  <1>11. StoreSound(e, Done \cup {m}, m)
    BY <1>8, <1>9, <1>10 DEF StoreSound
  <1> QED BY <1>3, <1>4, <1>6, <1>7, <1>11 DEF Txn, e

LEMMA ThenKeeps ==
  ASSUME NEW m, NEW d, NEW wanted \in BOOLEAN, NEW ok \in BOOLEAN, NEW next,
         d # Refused => Txn(d, m),
         d # Refused /\ wanted /\ ok => Txn(next, m)
  PROVE  Then(d, wanted, ok, next) # Refused => Txn(Then(d, wanted, ok, next), m)
  BY DEF Then

\* A transaction starts from tables that are sound.
LEMMA TxnStarts ==
  ASSUME IInv, NEW m \in Messages \ Done
  PROVE  Txn(Tables, m)
  <1>1. /\ Tables \in Store /\ StoreSound(Tables, Done, 0)
    BY DEF IInv, Typed
  <1>2. LeftBy(Tables, Done \cup {m}) /\ Tables.bundle[m].status = "none"
    BY <1>1 DEF StoreSound, LeftBy
  <1>3. CopiesShown(Tables, m)
    BY <1>1, BoundsAssumption DEF StoreSound, CopiesShown, Messages
  <1>4. StoreSound(Tables, Done \cup {m}, m)
    BY <1>1, <1>2, <1>3 DEF StoreSound
  <1> QED BY <1>1, <1>2, <1>4 DEF Txn, Tables

\* What a turn commits is sound: each of its writes in turn.
LEMMA CommitKeeps ==
  ASSUME IInv, NEW m \in Messages, turn[m] = "prepared", Committed(m, plan[m]) # Refused
  PROVE  Txn(Committed(m, plan[m]), m)
  <1> DEFINE p == plan[m]
             d1 == Then(Tables, p.bundle # 0, VerdictOk(Tables, m, p), ApplyVerdict(Tables, m, p))
             d2 == Then(d1, p.clarify # 0, ClarificationOk(d1, m, p.clarify),
                        ApplyClarification(d1, m, p.clarify, p.clarified))
             kind == IF CorrectedIn(d2, DOMAIN p.show) THEN "corrected_statement" ELSE "confirmation"
             d3 == Then(d2, p.show # <<>>, StageBundleOk(d2, p.show), Stage(d2, m, p.show, kind))
             told == [q \in {p.clarify} |-> {m}]
             d4 == Then(d3, p.correct, StageCorrectedOk(d3, m, p.clarify),
                        Stage(d3, m, told, "corrected_statement"))
  <1>1. /\ Typed /\ TalkSound /\ m \in Messages \ Done /\ p \in PlanRecord /\ PlanSound(m, p)
    BY DEF IInv, Typed, Done
  <1>2. Committed(m, p) = Then(d4, p.ask # 0, AskOk(d4, p.ask), Ask(d4, m, p.ask))
    BY DEF Committed, Tables
  <1>3. Txn(Tables, m)
    BY <1>1, TxnStarts
  <1>4. d1 # Refused => Txn(d1, m)
    <2>1. ASSUME p.bundle # 0, VerdictOk(Tables, m, p)
          PROVE  Txn(ApplyVerdict(Tables, m, p), m)
      <3>1. Tables.bundle[p.bundle].status \in Unresolved
        BY <2>1 DEF VerdictOk
      <3>2. /\ p.bundle \in seen[m] /\ p.verdict = VerdictKind(p.answers)
            /\ DOMAIN p.answers = DOMAIN Tables.bundle[p.bundle].parts
        BY <1>1, <2>1, <3>1 DEF PlanSound, Tables
      <3> QED BY <1>1, <1>3, <2>1, <3>2, VerdictKeeps
    <2> QED BY <1>3, <2>1, ThenKeeps DEF VerdictOk
  <1> HIDE DEF d1
  <1>5. d2 # Refused => Txn(d2, m)
    <2>1. ASSUME d1 # Refused, p.clarify # 0, ClarificationOk(d1, m, p.clarify)
          PROVE  Txn(ApplyClarification(d1, m, p.clarify, p.clarified), m)
      <3>1. p.clarify \in Questions /\ p.clarified \in BOOLEAN
        BY <1>1, <2>1 DEF PlanRecord
      <3> QED BY <1>1, <1>4, <2>1, <3>1, ClarificationKeeps
    <2> QED BY <1>4, <2>1, ThenKeeps DEF ClarificationOk
  <1> HIDE DEF d2
  <1>6. d3 # Refused => Txn(d3, m)
    <2>1. ASSUME d2 # Refused, StageBundleOk(d2, p.show)
          PROVE  Txn(Stage(d2, m, p.show, kind), m)
      <3>1. /\ OpenBundles(d2.bundle) = {} /\ \A q \in DOMAIN p.show : Showable(d2.row[q], p.show[q])
        BY <2>1 DEF StageBundleOk
      <3>2. p.show \in Parts /\ kind \in {"confirmation", "corrected_statement"}
        BY <1>1 DEF PlanRecord
      <3> HIDE DEF kind
      <3> QED BY <1>1, <1>5, <2>1, <3>1, <3>2, StageKeeps
    <2> QED BY <1>5, <2>1, ThenKeeps DEF StageBundleOk
  <1> HIDE DEF d3
  <1>7. d4 # Refused => Txn(d4, m)
    <2>1. ASSUME d3 # Refused, p.correct, StageCorrectedOk(d3, m, p.clarify)
          PROVE  Txn(Stage(d3, m, told, "corrected_statement"), m)
      <3>1. /\ OpenBundles(d3.bundle) = {} /\ Showable(d3.row[p.clarify], {m})
        BY <2>1 DEF StageCorrectedOk
      <3>2. p.clarify \in Questions
        BY <1>1, <2>1 DEF PlanSound, PlanRecord
      <3>3. DOMAIN told = {p.clarify} /\ told[p.clarify] = {m} /\ told \in [{p.clarify} -> Texts]
        BY TextFacts
      <3>4. told \in Parts
        BY <3>2, <3>3 DEF Parts
      <3> HIDE DEF told
      <3> QED BY <1>1, <1>6, <2>1, <3>1, <3>3, <3>4, StageKeeps
    <2>2. p.correct \in BOOLEAN
      BY <1>1 DEF PlanRecord
    <2> QED BY <1>6, <2>1, <2>2, ThenKeeps DEF StageCorrectedOk
  <1> HIDE DEF d4
  <1>8. ASSUME d4 # Refused, p.ask # 0, AskOk(d4, p.ask)
        PROVE  Txn(Ask(d4, m, p.ask), m)
    <2>1. p.ask \in Questions
      BY <1>1, <1>8 DEF PlanRecord
    <2> QED BY <1>1, <1>7, <1>8, <2>1, AskKeeps
  <1>9. AskOk(d4, p.ask) \in BOOLEAN
    BY DEF AskOk
  <1> DEFINE d5 == Then(d4, p.ask # 0, AskOk(d4, p.ask), Ask(d4, m, p.ask))
  <1>10. d5 # Refused => Txn(d5, m)
    BY <1>7, <1>8, <1>9, ThenKeeps
  <1> QED BY <1>2, <1>10

LEMMA NoPlanIs ==
  NoPlan \in PlanRecord /\ \A m \in Messages : PlanSound(m, NoPlan)
  <1>1. 0 \in Sources /\ <<>> \in Parts /\ <<>> \in Verdicts /\ "none" \in ReceiptKinds
    BY EmptyParts, TextFacts DEF ReceiptKinds
  <1> QED BY <1>1 DEF NoPlan, PlanRecord, PlanSound

\* The invariant holds after the commit.
LEMMA CommitInv ==
  ASSUME IInv, NEW m \in Messages, Commit(m)
  PROVE  IInv'
  <1>0. PICK d : d = Committed(m, plan[m])
    OBVIOUS
  <1>1. /\ turn[m] = "prepared" /\ d # Refused
        /\ row' = d.row /\ bundle' = d.bundle /\ receipt' = d.receipt
        /\ shown' = [shown EXCEPT ![m] = d.bundle[m].parts]
        /\ turn' = [turn EXCEPT ![m] = "committed"]
        /\ plan' = [plan EXCEPT ![m] = NoPlan]
        /\ UNCHANGED <<insight, arrived, seen, timely, mix, mined, sent, over, fin, faults>>
    BY <1>0 DEF Commit
  <1>2. Txn(d, m)
    BY <1>0, <1>1, CommitKeeps
  <1>3. /\ Typed /\ TalkSound /\ InsightSound /\ WorkSound /\ \A n \in Messages : PlanSound(n, plan[n])
    BY DEF IInv
  <1>4. Tables' = d /\ d \in Store
    BY <1>1, <1>2, StoreIsRecord DEF Txn, Tables
  <1>5. Done' = Done \cup {m} /\ m \notin Done
    BY <1>1, <1>3 DEF Done, Typed
  <1>6. m \notin sent /\ \A n \in Messages : m \notin seen[n]
    BY <1>3, <1>5, Unseen
  <1>7. /\ \A b \in Messages \ {m} : shown'[b] = shown[b]
        /\ shown'[m] = d.bundle[m].parts /\ d.bundle[m].parts \in Parts
    BY <1>1, <1>3, <1>4 DEF Typed, Store, BundleRecord
  <1>8. Typed'
    <2>1. turn' \in [Messages -> TurnStates]
      BY <1>1, <1>3 DEF Typed, TurnStates
    <2>2. plan' \in [Messages -> PlanRecord]
      BY <1>1, <1>3, NoPlanIs DEF Typed
    <2>3. shown' \in [Messages -> Parts]
      BY <1>1, <1>3, <1>7 DEF Typed
    <2> QED BY <1>1, <1>3, <1>4, <2>1, <2>2, <2>3 DEF Typed
  \* What was seen was committed earlier, so what it showed is unchanged.
  <1>9. ASSUME NEW rs \in [Messages -> ReceiptRecord], NEW n \in Messages,
               NEW q \in Questions, NEW text, ShownIn(rs, n, q, text)
        PROVE  /\ rs[n].target \in seen'[n] /\ rs[n].kind \in {"agree", "partial"}
               /\ q \in DOMAIN shown'[rs[n].target] /\ shown'[rs[n].target][q] = text
    <2>1. rs[n].target \in seen[n] /\ seen[n] \subseteq Messages
      BY <1>3, <1>9 DEF ShownIn, Typed
    <2> QED BY <1>1, <1>6, <1>7, <1>9, <2>1 DEF ShownIn
  <1>10. StoreSound(Tables, Done, 0)'
    <2>1. StoreSound(d, Done \cup {m}, m) /\ d.receipt \in [Messages -> ReceiptRecord]
      BY <1>2, <1>4, StoreParts DEF Txn
    <2>2. ASSUME NEW q \in Questions
          PROVE  /\ RowSound(d.row[q]) /\ RowOrdered(q, d.row[q])' /\ LinkSound(d, q)
                 /\ RowShown(d, q)'
      <3>1. /\ RowSound(d.row[q]) /\ RowOrdered(q, d.row[q]) /\ LinkSound(d, q) /\ RowShown(d, q)
        BY <2>1 DEF StoreSound
      <3>2. RowOrdered(q, d.row[q])'
        BY <1>1, <3>1 DEF RowOrdered, Before, Finalized
      <3>3. RowShown(d, q)'
        BY <1>9, <2>1, <3>1 DEF RowShown, ShownIn, RowOrdered
      <3> QED BY <3>1, <3>2, <3>3
    <2>3. CopiesShown(d, 0)'
      <3>1. CopiesShown(d, m)
        BY <2>1 DEF StoreSound
      <3> QED BY <1>7, <3>1, BoundsAssumption DEF CopiesShown, Messages
    <2>4. StoreSound(d, Done \cup {m}, 0)'
      BY <2>1, <2>2, <2>3, <1>5 DEF StoreSound, LinkSound, BundleSound
    <2> QED BY <1>4, <1>5, <2>4
  <1>11. TalkSound'
    BY <1>1, <1>3, <1>5 DEF TalkSound, Typed
  <1>12. ASSUME NEW n \in Messages, NEW q \in Questions, NEW text, ShownIn(receipt, n, q, text)
         PROVE  ShownIn(receipt, n, q, text)'
    <2>1. receipt \in [Messages -> ReceiptRecord] /\ receipt[n] # NoReceipt
      BY <1>3, <1>12, StoreParts DEF Typed, Tables, ShownIn, NoReceipt
    <2>2. n \in Done
      BY <2>1 DEF IInv, StoreSound, LeftBy, Tables
    <2>3. receipt'[n] = receipt[n]
      BY <1>1, <1>2, <1>5, <2>2 DEF Txn
    <2> QED BY <1>9, <1>12, <2>1, <2>3 DEF ShownIn
  <1>13. InsightSound'
    BY <1>1, <1>3, <1>12 DEF InsightSound, Typed, InsightRecord
  <1>14. WorkSound'
    BY <1>1, <1>3, <1>12 DEF WorkSound
  <1>15. ASSUME NEW n \in Messages
         PROVE  PlanSound(n, plan[n])'
    <2>1. CASE n = m
      BY <1>1, <1>3, <2>1, NoPlanIs DEF Typed, PlanSound, NoPlan
    <2>2. CASE n # m
      <3>1. plan'[n] = plan[n] /\ PlanSound(n, plan[n]) /\ seen[n] \subseteq sent
        BY <1>1, <1>3, <2>2 DEF Typed, TalkSound
      <3>2. \A b \in sent : d.bundle[b].status \in Unresolved =>
                bundle[b].status \in Unresolved /\ d.bundle[b].parts = bundle[b].parts
        BY <1>2 DEF Txn
      <3> QED BY <1>1, <3>1, <3>2 DEF PlanSound
    <2> QED BY <2>1, <2>2
  <1> QED BY <1>8, <1>10, <1>11, <1>13, <1>14, <1>15 DEF IInv

(***************************************************************************)
(* Preparing a turn.                                                       *)
(***************************************************************************)

LEMMA FirstOf ==
  ASSUME NEW qs \in SUBSET Questions
  PROVE  First(qs) \in {0} \cup Questions
  BY FirstIsQuestion DEF First

\* Every reading of a reply answers what the bundle shows.
LEMMA InterpretationsAnswer ==
  ASSUME Typed, NEW b \in Messages, NEW v \in Interpretations(b)
  PROVE  v \in Verdicts /\ DOMAIN v = DOMAIN bundle[b].parts
  <1> DEFINE parts == DOMAIN bundle[b].parts
             raw == {[q \in parts |-> a] : a \in {"accepted", "reset"}}
                      \cup {Restrict(p, parts) : p \in mix.partials}
  <1>1. parts \subseteq Questions
    BY StoreParts DEF Typed, Tables
  <1> HIDE DEF parts
  <1>2. ASSUME NEW u \in raw
        PROVE  u \in [parts -> Answers]
    <2>1. CASE u \in {[q \in parts |-> a] : a \in {"accepted", "reset"}}
      BY <2>1 DEF Answers
    <2>2. CASE u \in {Restrict(p, parts) : p \in mix.partials}
      <3>1. PICK p \in mix.partials : u = Restrict(p, parts)
        BY <2>2
      <3>2. p \in [Questions -> Answers]
        BY MixesAssumption DEF Typed
      <3> QED BY <1>1, <3>1, <3>2 DEF Restrict
    <2> QED BY <2>1, <2>2
  <1>3. v \in raw \/ \E u \in raw : v = [q \in parts |-> CorrectedAnswer(q, u[q])]
    BY DEF Interpretations, parts
  <1> HIDE DEF raw
  <1>4. \A q \in Questions, a \in Answers : CorrectedAnswer(q, a) \in Answers
    BY DEF CorrectedAnswer, Answers
  <1>5. v \in [parts -> Answers]
    BY <1>1, <1>2, <1>3, <1>4
  <1> QED BY <1>1, <1>5 DEF Verdicts, parts

PlanOk(m, p) == p \in PlanRecord /\ PlanSound(m, p)

LEMMA PlanVerdictOk ==
  ASSUME Typed, NEW m \in Messages, NEW may \in BOOLEAN, NEW b \in AwaitingBundle(m),
         NEW a \in Interpretations(b)
  PROVE  PlanOk(m, PlanVerdict(m, b, may, a))
  <1>1. /\ b \in Messages /\ b \in seen[m] /\ b # 0 /\ b \in Sources
    BY TextFacts DEF AwaitingBundle, OpenBundles, Messages
  <1>2. a \in Verdicts /\ DOMAIN a = DOMAIN bundle[b].parts
    BY <1>1, InterpretationsAnswer
  <1>3. VerdictKind(a) \in ReceiptKinds
    BY <1>2, VerdictOf DEF ReceiptKinds
  <1>4. FirstDispute(a) \in {0} \cup Questions
    <2>1. DisputedIn(a) \subseteq Questions
      BY <1>2, VerdictsMeaning DEF DisputedIn
    <2> QED BY <2>1, FirstOf DEF FirstDispute
  <1> DEFINE p == PlanVerdict(m, b, may, a)
             ask == IF may THEN FirstDispute(a) ELSE 0
             kind == VerdictKind(a)
  <1>5. NoPlan \in PlanRecord /\ ~NoPlan.correct
    BY NoPlanIs DEF NoPlan
  <1>6. ask \in {0} \cup Questions
    BY <1>4
  <1>7. p = [NoPlan EXCEPT !.bundle = b, !.verdict = kind, !.answers = a, !.ask = ask]
    BY DEF PlanVerdict
  <1> HIDE DEF p, ask, kind
  <1>8. p \in PlanRecord /\ p.bundle = b /\ p.verdict = kind /\ p.answers = a /\ ~p.correct
    <2>1. kind \in ReceiptKinds
      BY <1>3 DEF kind
    <2> QED BY <1>1, <1>2, <1>5, <1>6, <1>7, <2>1 DEF PlanRecord
  <1> QED BY <1>1, <1>2, <1>8 DEF PlanOk, PlanSound, kind, p

LEMMA PlanDisputeOk ==
  ASSUME Typed, NEW m \in Messages, NEW may \in BOOLEAN, NEW p, PlanOk(m, p),
         NEW w \in PlanDispute(m, may, p)
  PROVE  PlanOk(m, w)
  <1>1. ASSUME NEW q \in Questions, NEW ask \in {0} \cup Questions,
               NEW clarified \in BOOLEAN, NEW correct \in BOOLEAN
        PROVE  /\ PlanOk(m, [p EXCEPT !.ask = ask])
               /\ PlanOk(m, [p EXCEPT !.clarify = q, !.clarified = clarified, !.correct = correct])
               /\ PlanOk(m, [p EXCEPT !.clarify = q, !.ask = ask])
    <2>1. q # 0
      BY DEF Questions
    <2> QED BY <2>1 DEF PlanOk, PlanRecord, PlanSound
  <1>2. ASSUME NEW q \in Questions, NEW c \in PlanClarification(q, may, p)
        PROVE  PlanOk(m, c)
    <2>1. NextDispute(q) \in {0} \cup Questions
      BY FirstOf DEF NextDispute, Disputed
    <2>2. (may /\ ~over) \in BOOLEAN
      OBVIOUS
    <2> DEFINE correct == may /\ ~over
               ask == IF may THEN NextDispute(q) ELSE 0
    <2>3. c \in {[p EXCEPT !.clarify = q, !.clarified = TRUE, !.correct = correct],
                 [p EXCEPT !.clarify = q, !.ask = ask]}
      BY DEF PlanClarification
    <2>4. ask \in {0} \cup Questions
      BY <2>1
    <2> HIDE DEF ask, correct
    <2> QED BY <1>1, <2>2, <2>3, <2>4 DEF correct
  <1>3. PICK q \in Questions : \/ w = p \/ w \in PlanClarification(q, may, p)
                               \/ w = [p EXCEPT !.ask = IF row[q].prompt = 0 /\ may THEN q ELSE 0]
    <2>1. PendingClarification(m) \subseteq Questions
      <3> DEFINE open == {q \in Disputed(row) : ~row[q].purged /\ row[q].bundle \in sent /\ timely[m]}
      <3>1. open \subseteq Questions
        BY DEF Disputed
      <3>2. PendingClarification(m) \in {{}, {Min(open)}} /\ (open = {} => PendingClarification(m) = {})
        BY DEF PendingClarification
      <3> HIDE DEF open
      <3> QED BY <3>1, <3>2, FirstIsQuestion
    <2> QED BY <2>1 DEF PlanDispute
  <1> QED BY <1>1, <1>2, <1>3

LEMMA PlansOk ==
  ASSUME Typed, NEW m \in Messages, NEW may \in BOOLEAN, NEW p \in Plans(m, may)
  PROVE  PlanOk(m, p)
  <1>1. PlanOk(m, NoPlan)
    BY NoPlanIs DEF PlanOk
  <1>2. CASE p \in PlanShow(may)
    <2> DEFINE show == [q \in ReadyBundle |-> row[q].summary]
    <2>1. p \in {NoPlan, [NoPlan EXCEPT !.show = show]}
      BY <1>2 DEF PlanShow
    <2>2. ReadyBundle \subseteq Questions
      BY FirstIsQuestion DEF ReadyBundle
    <2>3. \A q \in Questions : row[q].summary \in Texts
      BY StoreParts DEF Typed, Tables, RowRecord
    <2>4. show \in Parts
      BY <2>2, <2>3 DEF Parts
    <2> HIDE DEF show
    <2>5. [NoPlan EXCEPT !.show = show] \in PlanRecord
      BY <2>4, NoPlanIs DEF PlanRecord
    <2> QED BY <1>1, <2>1, <2>5 DEF PlanOk, PlanSound, NoPlan
  <1>3. CASE \E b \in AwaitingBundle(m) : \E a \in Interpretations(b) :
                \/ p = PlanVerdict(m, b, may, a)
                \/ p \in PlanDispute(m, may, PlanVerdict(m, b, may, a))
    BY <1>3, PlanVerdictOk, PlanDisputeOk
  <1>4. CASE p \in PlanDispute(m, may, NoPlan)
    BY <1>1, <1>4, PlanDisputeOk
  <1> QED BY <1>1, <1>2, <1>3, <1>4 DEF Plans

(***************************************************************************)
(* The steps that leave the rows alone.                                    *)
(***************************************************************************)

LEMMA NoWorkIs == NoWork \in WorkRecord
  BY TextFacts DEF NoWork, WorkRecord

\* Nothing that the tables must agree with has changed.
LEMMA SoundUnchanged ==
  ASSUME IInv, UNCHANGED <<store, insight, arrived, seen, shown>>, Done' = Done
  PROVE  StoreSound(Tables, Done, 0)' /\ InsightSound'
  <1>1. /\ StoreSound(Tables, Done, 0) /\ InsightSound
        /\ Tables' = Tables /\ receipt' = receipt /\ insight' = insight /\ arrived' = arrived
        /\ seen' = seen /\ shown' = shown
    BY DEF IInv, Tables, store
  <1>2. \A q \in Questions : RowOrdered(q, Tables.row[q])' /\ RowShown(Tables, q)'
    BY <1>1 DEF StoreSound, RowOrdered, Before, Finalized, RowShown, ShownIn
  <1>3. CopiesShown(Tables, 0)'
    BY <1>1 DEF StoreSound, CopiesShown
  <1>4. InsightSound'
    BY <1>1 DEF InsightSound, ShownIn
  <1>5. StoreSound(Tables, Done, 0)'
    <2>1. /\ \A q \in Questions : RowSound(Tables.row[q]) /\ LinkSound(Tables, q)
          /\ \A b \in Messages : BundleSound(Tables.bundle[b])
          /\ CopiesNeeded(Tables) /\ OneOpen(Tables) /\ LeftBy(Tables, Done)
      BY <1>1 DEF StoreSound
    <2> QED BY <1>1, <1>2, <1>3, <2>1
            DEF StoreSound, RowSound, LinkSound, BundleSound, CopiesNeeded, OneOpen, LeftBy
  <1> QED BY <1>4, <1>5

LEMMA PrepareInv ==
  ASSUME IInv, NEW m \in Messages,
         \/ Prepare(m)
         \/ /\ turn[m] \in {"waiting", "prepared"}
            /\ turn' = [turn EXCEPT ![m] = "waiting"] \/ turn' = [turn EXCEPT ![m] = "dropped"]
            /\ plan' = [plan EXCEPT ![m] = NoPlan]
            /\ UNCHANGED <<store, insight, arrived, seen, timely, mix, mined, sent, over, fin,
                           faults, shown>>
  PROVE  IInv'
  <1>1. /\ Typed /\ TalkSound /\ WorkSound /\ \A n \in Messages : PlanSound(n, plan[n])
        /\ turn \in [Messages -> TurnStates] /\ plan \in [Messages -> PlanRecord]
    BY DEF IInv, Typed
  <1>2. PICK p, state : /\ PlanOk(m, p) /\ plan' = [plan EXCEPT ![m] = p]
                        /\ state \in {"prepared", "waiting", "dropped"}
                        /\ turn' = [turn EXCEPT ![m] = state]
                        /\ turn[m] \in {"waiting", "prepared"}
                        /\ UNCHANGED <<store, insight, arrived, seen, timely, mix, mined, sent,
                                       over, fin, faults, shown>>
    <2>1. CASE Prepare(m)
      BY <1>1, <2>1, PlansOk DEF Prepare
    <2>2. CASE ~Prepare(m)
      BY <2>2, NoPlanIs DEF PlanOk
    <2> QED BY <2>1, <2>2
  <1>3. Done' = Done /\ \A n \in Messages : turn[n] = "none" => turn'[n] = "none"
    BY <1>1, <1>2 DEF Done
  <1>4. Typed'
    <2>1. turn' \in [Messages -> TurnStates] /\ plan' \in [Messages -> PlanRecord]
      BY <1>1, <1>2 DEF TurnStates, PlanOk
    <2> QED BY <1>1, <1>2, <2>1 DEF Typed, Tables, store
  <1>5. StoreSound(Tables, Done, 0)' /\ InsightSound'
    BY <1>2, <1>3, SoundUnchanged
  <1>6. TalkSound' /\ WorkSound'
    BY <1>1, <1>2, <1>3 DEF TalkSound, WorkSound, ShownIn, store
  <1>7. \A n \in Messages : PlanSound(n, plan[n])'
    BY <1>1, <1>2 DEF PlanSound, PlanOk, store
  <1> QED BY <1>4, <1>5, <1>6, <1>7 DEF IInv

LEMMA DeliverInv ==
  ASSUME IInv, NEW m \in Messages, Deliver(m)
  PROVE  IInv'
  <1>1. /\ Typed /\ TalkSound /\ WorkSound /\ \A n \in Messages : PlanSound(n, plan[n])
        /\ UNCHANGED <<store, insight, talk, mined, over, fin, faults, shown>>
        /\ sent' = sent \cup {m}
    BY DEF IInv, Deliver
  <1>2. m \in Done
    BY BoundsAssumption DEF IInv, StoreSound, LeftBy, Tables, Deliver, Messages
  <1>3. StoreSound(Tables, Done, 0)' /\ InsightSound'
    BY <1>1, SoundUnchanged DEF Done, talk
  <1>4. Typed'
    BY <1>1 DEF Typed, Tables, store, talk
  <1>5. TalkSound' /\ WorkSound' /\ \A n \in Messages : PlanSound(n, plan[n])'
    BY <1>1, <1>2 DEF TalkSound, WorkSound, PlanSound, ShownIn, Done, store, talk
  <1> QED BY <1>3, <1>4, <1>5 DEF IInv

LEMMA EndWindowInv ==
  ASSUME IInv, EndWindow
  PROVE  IInv'
  <1>1. /\ Typed /\ TalkSound /\ WorkSound /\ \A n \in Messages : PlanSound(n, plan[n])
        /\ UNCHANGED <<store, insight, talk, mined, sent, fin, faults, shown>> /\ over' = TRUE
    BY DEF IInv, EndWindow
  <1>2. StoreSound(Tables, Done, 0)' /\ InsightSound'
    BY <1>1, SoundUnchanged DEF Done, talk
  <1>3. Typed'
    BY <1>1 DEF Typed, Tables, store, talk
  <1>4. TalkSound' /\ WorkSound' /\ \A n \in Messages : PlanSound(n, plan[n])'
    BY <1>1 DEF TalkSound, WorkSound, PlanSound, ShownIn, Done, store, talk
  <1> QED BY <1>2, <1>3, <1>4 DEF IInv

\* Loading what is confirmed, or failing afterwards.
LEMMA FinalizerInv ==
  ASSUME IInv, NEW f \in Finalizers, FinFails(f) \/ \E q \in Questions : FinLoad(f, q)
  PROVE  IInv'
  <1>1. /\ Typed /\ TalkSound /\ WorkSound /\ \A n \in Messages : PlanSound(n, plan[n])
        /\ UNCHANGED <<store, insight, talk, mined, sent, over, shown>>
    BY DEF IInv, FinFails, FinLoad
  <1>2. StoreSound(Tables, Done, 0)' /\ InsightSound'
    BY <1>1, SoundUnchanged DEF Done, talk
  <1> DEFINE Held(g) == /\ fin'[g].question \in Questions /\ fin'[g].confirmedAt \in Messages
                        /\ ShownIn(receipt, fin'[g].confirmedAt, fin'[g].question, fin'[g].statement)
             Loaded == /\ fin' \in [Finalizers -> WorkRecord] /\ faults' \in 0..mix.faults
                       /\ \A g \in Finalizers : fin'[g] \notin {NoWork, fin[g]} => Held(g)
  <1>3. Loaded
    <2>1. CASE FinFails(f)
      <3>1. faults \in 0..mix.faults /\ mix.faults \in Nat
        BY <1>1, MixesAssumption DEF Typed
      <3> QED BY <1>1, <2>1, <3>1, NoWorkIs DEF FinFails, Typed
    <2>2. ASSUME NEW q \in Questions, FinLoad(f, q)
          PROVE  Loaded
      <3> DEFINE w == [question |-> q, confirmedAt |-> row[q].confirmedAt,
                       statement |-> row[q].statement]
      <3>1. /\ row[q].status = "confirmed" /\ ~row[q].purged
            /\ fin' = [fin EXCEPT ![f] = w] /\ faults' = faults
        BY <2>2 DEF FinLoad
      <3>2. row[q] \in RowRecord
        BY <1>1, StoreParts DEF Typed, Tables
      <3>3. /\ row[q].confirmedAt \in Messages
            /\ ShownIn(receipt, row[q].confirmedAt, q, row[q].statement)
        BY <3>1 DEF IInv, StoreSound, RowOrdered, RowShown, Tables
      <3>4. /\ w \in WorkRecord /\ w.question = q /\ w.confirmedAt = row[q].confirmedAt
            /\ w.statement = row[q].statement
        BY <3>2 DEF WorkRecord, RowRecord
      <3> HIDE DEF w
      <3> QED BY <1>1, <3>1, <3>3, <3>4 DEF Typed
    <2> QED BY <2>1, <2>2
  <1>4. Typed'
    BY <1>1, <1>3 DEF Typed, Tables, store, talk
  <1>5. WorkSound'
    BY <1>1, <1>3 DEF WorkSound, ShownIn, store, talk
  <1>6. TalkSound' /\ \A n \in Messages : PlanSound(n, plan[n])'
    BY <1>1 DEF TalkSound, PlanSound, Done, store, talk
  <1> QED BY <1>2, <1>4, <1>5, <1>6 DEF IInv

\* A message that arrives is newer than whatever its author has been shown.
LEMMA ArriveInv ==
  ASSUME IInv, Arrive
  PROVE  IInv'
  <1> DEFINE m == arrived + 1
  <1>1. /\ Typed /\ TalkSound /\ WorkSound /\ InsightSound /\ StoreSound(Tables, Done, 0)
        /\ \A n \in Messages : PlanSound(n, plan[n])
        /\ UNCHANGED <<store, insight, plan, mix, mined, sent, over, fin, faults, shown>>
        /\ arrived' = m /\ seen' = [seen EXCEPT ![m] = sent]
        /\ timely' = [timely EXCEPT ![m] = ~over] /\ turn' = [turn EXCEPT ![m] = "waiting"]
    BY DEF IInv, Arrive
  <1>2. m \in Messages /\ arrived \in Nat /\ m \in Sources
    <2>1. mix.messages \in Messages /\ arrived < mix.messages
      BY <1>1, MixesAssumption DEF Typed, Arrive
    <2> QED BY <1>1, <2>1, BoundsAssumption DEF Typed, Messages, Sources
  <1>3. turn[m] = "none" /\ seen[m] \subseteq sent
    BY <1>1, <1>2 DEF TalkSound
  <1> HIDE DEF m
  <1>4. /\ turn' \in [Messages -> TurnStates] /\ turn'[m] = "waiting"
        /\ \A n \in Messages \ {m} : turn'[n] = turn[n]
        /\ seen' \in [Messages -> SUBSET Messages] /\ seen'[m] = sent
        /\ \A n \in Messages \ {m} : seen'[n] = seen[n]
        /\ timely' \in [Messages -> BOOLEAN]
    BY <1>1, <1>2 DEF Typed, TurnStates
  <1>5. Done' = Done
    BY <1>3, <1>4 DEF Done
  <1>6. Typed'
    BY <1>1, <1>2, <1>4 DEF Typed, Tables, store
  <1>7. \A n \in Messages : seen[n] \subseteq seen'[n]
    BY <1>3, <1>4
  <1>8. TalkSound'
    <2>1. \A n \in Messages : n > m => turn'[n] = "none"
      <3>1. \A n \in Messages : n > m => n > arrived /\ n # m
        BY <1>2 DEF m, Messages
      <3> QED BY <1>1, <1>4, <3>1 DEF TalkSound
    <2> QED BY <1>1, <1>3, <1>4, <1>5, <2>1 DEF TalkSound
  <1>9. ASSUME NEW n \in Messages, NEW q \in Questions, NEW text, ShownIn(receipt, n, q, text)
        PROVE  ShownIn(receipt, n, q, text)'
    BY <1>1, <1>7, <1>9 DEF ShownIn, store
  <1>10. InsightSound' /\ WorkSound'
    BY <1>1, <1>9 DEF InsightSound, WorkSound, Typed, InsightRecord
  <1>11. \A n \in Messages : PlanSound(n, plan[n])'
    BY <1>1, <1>7 DEF PlanSound, store
  <1>12. StoreSound(Tables, Done, 0)'
    <2>1. Tables' = Tables
      BY <1>1 DEF Tables, store
    <2>2. ASSUME NEW q \in Questions
          PROVE  RowOrdered(q, row[q])' /\ RowShown(Tables, q)'
      <3>1. RowOrdered(q, row[q]) /\ RowShown(Tables, q) /\ row[q] \in RowRecord
        BY <1>1, StoreParts DEF StoreSound, Typed, Tables
      <3>2. /\ row' = row /\ insight' = insight
        BY <1>1 DEF store
      <3>3. \A s \in row[q].sources : s \in Int /\ s <= arrived /\ s < m /\ s <= m
        BY <1>2, <3>1 DEF RowOrdered, RowRecord, Texts, Sources, m
      <3>4. RowOrdered(q, row[q])'
        BY <1>1, <1>4, <3>1, <3>2, <3>3 DEF RowOrdered, Before, Finalized
      <3>5. RowShown(Tables, q)'
        BY <1>9, <3>1, <3>2, <2>1, <1>1 DEF RowShown, RowOrdered, Tables, store
      <3> QED BY <3>4, <3>5
    <2>3. CopiesShown(Tables, 0)'
      BY <1>1, <2>1 DEF StoreSound, CopiesShown
    <2>4. /\ \A q \in Questions : RowSound(Tables.row[q]) /\ LinkSound(Tables, q)
          /\ \A b \in Messages : BundleSound(Tables.bundle[b])
          /\ CopiesNeeded(Tables) /\ OneOpen(Tables) /\ LeftBy(Tables, Done)
      BY <1>1 DEF StoreSound
    <2>5. \A q \in Questions : RowOrdered(q, Tables.row[q])'
      BY <2>2 DEF Tables
    <2> QED BY <1>5, <2>1, <2>2, <2>3, <2>4, <2>5
            DEF StoreSound, RowSound, LinkSound, BundleSound, CopiesNeeded, OneOpen, LeftBy
  <1> QED BY <1>6, <1>8, <1>10, <1>11, <1>12 DEF IInv

\* What a step may do to the tables between turns: it leaves receipts, and every bundle
\* it leaves unresolved had been so, with the same parts.
LEMMA TablesStep ==
  ASSUME IInv, NEW d \in Store, StoreSound(d, Done, 0)', Tables' = d,
         UNCHANGED <<receipt, talk, sent, over, faults, shown>>,
         mined' \subseteq Messages,
         fin' \in [Finalizers -> WorkRecord], \A f \in Finalizers : fin'[f] \in {NoWork, fin[f]},
         insight' \subseteq InsightRecord, InsightSound',
         \A b \in Messages : d.bundle[b].status \in Unresolved =>
             bundle[b].status \in Unresolved /\ d.bundle[b].parts = bundle[b].parts
  PROVE  IInv'
  <1>1. /\ Typed /\ TalkSound /\ WorkSound /\ \A n \in Messages : PlanSound(n, plan[n])
        /\ row' = d.row /\ bundle' = d.bundle
    BY DEF IInv, Tables
  <1>2. Typed'
    BY <1>1 DEF Typed, talk
  <1>3. TalkSound'
    BY <1>1 DEF TalkSound, Done, talk
  <1>4. WorkSound'
    BY <1>1 DEF WorkSound, ShownIn, talk
  <1>5. \A n \in Messages : PlanSound(n, plan[n])'
    BY <1>1 DEF PlanSound, talk, Typed
  <1> QED BY <1>2, <1>3, <1>4, <1>5 DEF IInv

LEMMA ActivateInv ==
  ASSUME IInv, NEW m \in Messages, Activate(m)
  PROVE  IInv'
  <1> DEFINE n == [bundle[m] EXCEPT !.status = "awaiting_confirmation"]
  <1>0. PICK d : d = [row |-> row, bundle |-> [bundle EXCEPT ![m] = n], receipt |-> receipt]
    OBVIOUS
  <1>1. /\ Typed /\ StoreSound(Tables, Done, 0) /\ InsightSound
        /\ UNCHANGED <<row, receipt, insight, talk, mined, sent, over, fin, faults, shown>>
        /\ Tables' = d /\ d.row = row /\ d.receipt = receipt /\ d.bundle = [bundle EXCEPT ![m] = n]
        /\ bundle[m].status = "pending_delivery" /\ bundle \in [Messages -> BundleRecord]
    BY <1>0, StoreParts DEF IInv, Activate, Tables, Typed
  <1>2. /\ n \in BundleRecord /\ n.status = "awaiting_confirmation" /\ n.parts = bundle[m].parts
        /\ n.purged = bundle[m].purged
    BY <1>1 DEF BundleRecord, BundleStatuses
  <1> HIDE DEF n
  <1>3. /\ d.bundle[m] = n /\ d.bundle \in [Messages -> BundleRecord]
        /\ \A b \in Messages \ {m} : d.bundle[b] = bundle[b]
    BY <1>1, <1>2
  <1>4. d \in Store
    BY <1>0, <1>1, <1>3 DEF Store, Typed, Tables
  <1>5. \A b \in Messages : /\ d.bundle[b].parts = bundle[b].parts
                            /\ d.bundle[b].purged = bundle[b].purged
                            /\ d.bundle[b].status \in Unresolved <=> bundle[b].status \in Unresolved
                            /\ d.bundle[b].status = "none" <=> bundle[b].status = "none"
    BY <1>1, <1>2, <1>3 DEF Unresolved
  <1>6. Done' = Done /\ arrived' = arrived /\ seen' = seen
    BY <1>1 DEF Done, talk
  <1>7. StoreSound(d, Done, 0)'
    <2>1. ASSUME NEW q \in Questions
          PROVE  /\ RowSound(d.row[q]) /\ RowOrdered(q, d.row[q])' /\ LinkSound(d, q)
                 /\ RowShown(d, q)'
      <3>1. /\ RowSound(row[q]) /\ RowOrdered(q, row[q]) /\ LinkSound(Tables, q) /\ RowShown(Tables, q)
            /\ row[q].bundle \in Sources
        BY <1>1, StoreParts DEF StoreSound, Tables, Typed, RowRecord
      <3>2. RowOrdered(q, d.row[q])' /\ RowShown(d, q)'
        BY <1>1, <1>6, <3>1 DEF RowOrdered, Before, Finalized, RowShown, ShownIn, Tables
      <3>3. LinkSound(d, q)
        BY <1>1, <1>5, <3>1 DEF LinkSound, Tables, Sources, Messages, Pending
      <3> QED BY <1>1, <3>1, <3>2, <3>3
    <2>2. \A b \in Messages : BundleSound(d.bundle[b])
      BY <1>1, <1>5 DEF StoreSound, BundleSound, Tables
    <2>3. CopiesNeeded(d) /\ OneOpen(d) /\ LeftBy(d, Done)
      BY <1>1, <1>5 DEF StoreSound, CopiesNeeded, OneOpen, OpenBundles, LeftBy, Tables
    <2>4. CopiesShown(d, 0)'
      BY <1>1, <1>5 DEF StoreSound, CopiesShown, Tables
    <2> QED BY <1>6, <2>1, <2>2, <2>3, <2>4 DEF StoreSound, RowSound, LinkSound, BundleSound
  <1>8. InsightSound'
    BY <1>1, <1>6 DEF InsightSound, ShownIn
  <1> QED BY <1>1, <1>4, <1>5, <1>7, <1>8, TablesStep DEF Typed

(***************************************************************************)
(* The evidence of a message.                                              *)
(***************************************************************************)

\* What the evidence of message m may make of row r of question q.
Grown(q, m, r, c) ==
    /\ c \in RowRecord /\ RowSound(c) /\ RowOrdered(q, c)
    /\ c # r => /\ c.status \in {"reset", "collecting"} /\ c.bundle \in {0, r.bundle} /\ c.prompt = 0
                /\ r.status \notin Pending
                /\ r.status = "declined" => m > r.closedAt
                /\ r.status = "confirmed" => Finalized(r) /\ m > r.confirmedAt

LEMMA GrownTwice ==
  ASSUME NEW q, NEW m, NEW r, NEW b, NEW c, Grown(q, m, r, b), Grown(q, m, b, c)
  PROVE  Grown(q, m, r, c)
  BY DEF Grown

LEMMA NewRow ==
  /\ NoRow \in RowRecord /\ NoRow.status = "none" /\ NoRow.bundle = 0 /\ NoRow.prompt = 0
  /\ NoRow.summary = {} /\ NoRow.sources = {} /\ NoRow.statement = {} /\ ~NoRow.purged
  <1>1. {} \in Texts /\ 0 \in Sources /\ 0 \in 0..MaxClarifications /\ "none" \in Statuses
    BY TextFacts DEF MaxClarifications, Statuses
  <1> QED BY <1>1 DEF NoRow, RowRecord

LEMMA ReopenGrows ==
  ASSUME NEW q \in Questions, NEW m \in Messages, NEW r \in RowRecord, RowSound(r), RowOrdered(q, r)
  PROVE  Grown(q, m, r, Reopen(m, r))
  <1> DEFINE c == [NoRow EXCEPT !.status = "reset", !.sufficient = r.sufficient,
                                !.driver = r.driver, !.purged = TRUE, !.closedAt = r.closedAt]
  <1>1. CASE r.status = "declined" /\ m > r.closedAt
    <2>1. "reset" \in Statuses /\ r.sufficient \in BOOLEAN /\ r.driver \in BOOLEAN
          /\ r.closedAt \in Sources
      BY DEF Statuses, RowRecord
    <2>2. /\ c \in RowRecord /\ c.status = "reset" /\ c.bundle = 0 /\ c.prompt = 0
          /\ c.summary = {} /\ c.sources = {} /\ c.statement = {} /\ c.purged
      BY <2>1, NewRow DEF RowRecord
    <2>3. Reopen(m, r) = c
      BY <1>1 DEF Reopen
    <2> HIDE DEF c
    <2> QED BY <1>1, <2>2, <2>3 DEF Grown, RowSound, RowOrdered, Open, Pending, Finalized
  <1>2. CASE ~(r.status = "declined" /\ m > r.closedAt)
    BY <1>2 DEF Reopen, Grown
  <1> QED BY <1>1, <1>2

LEMMA DeclineDriverGrows ==
  ASSUME NEW q \in Questions, NEW m \in Messages, NEW r \in RowRecord, RowSound(r), RowOrdered(q, r)
  PROVE  Grown(q, m, r, DeclineDriver(m, r))
  <1> DEFINE ready == r.ready \/ r.sufficient
             c == [r EXCEPT !.driver = TRUE, !.ready = ready]
  <1>1. CASE DeclineDriver(m, r) = c /\ r.status = "collecting"
    <2>1. ready \in BOOLEAN
      OBVIOUS
    <2> HIDE DEF ready
    <2>2. /\ c \in RowRecord /\ c.status = "collecting" /\ c.bundle = r.bundle /\ c.prompt = r.prompt
          /\ c.summary = r.summary /\ c.sources = r.sources /\ c.statement = r.statement
          /\ c.purged = r.purged
      BY <1>1, <2>1 DEF RowRecord
    <2> HIDE DEF c
    <2>3. c.prompt = 0
      BY <1>1, <2>2 DEF RowSound
    <2> QED BY <1>1, <2>2, <2>3 DEF Grown, RowSound, RowOrdered, Open, Pending, Finalized
  <1>2. CASE DeclineDriver(m, r) = r
    BY <1>2 DEF Grown
  <1> QED BY <1>1, <1>2 DEF DeclineDriver

\* Whatever is captured is newer than every insight of its question.
LEMMA CapturedIsNewer ==
  ASSUME IInv, NEW m \in Messages, NEW q \in Questions, NEW r, Capturable(m, q, r)
  PROVE  \A i \in insight : i.question = q => i.confirmedAt < m
  <1> SUFFICES ASSUME NEW i \in insight, i.question = q
               PROVE  i.confirmedAt < m
    OBVIOUS
  <1>1. PICK j \in insight : j.question = q /\ j.current /\ i.confirmedAt <= j.confirmedAt
    BY DEF IInv, InsightSound
  <1>2. j.confirmedAt \in CurrentAt(q)
    BY <1>1 DEF CurrentAt
  <1>3. m > j.confirmedAt
    BY <1>2 DEF Capturable
  <1>4. i.confirmedAt \in Int /\ j.confirmedAt \in Int /\ m \in Int
    BY DEF IInv, Typed, InsightRecord, Messages
  <1> QED BY <1>1, <1>3, <1>4

LEMMA CaptureGrows ==
  ASSUME IInv, NEW q \in Questions, NEW m \in Messages, m <= arrived, NEW r \in RowRecord,
         RowSound(r), RowOrdered(q, r), NEW what \in Meaning
  PROVE  Grown(q, m, r, Capture(m, q, r, what))
  <1> DEFINE reopened == r.status \in {"none", "reset"} \/ (r.purged /\ r.finalized)
             sufficient == what.sufficient \/ (~reopened /\ r.sufficient)
             driver == what.driver \/ (~reopened /\ r.driver)
             kept == IF reopened THEN NoRow ELSE r
             ready == kept.ready \/ (sufficient /\ driver)
             summary == kept.summary \cup {m}
             sources == kept.sources \cup {m}
             c == [kept EXCEPT !.status = "collecting", !.sufficient = sufficient,
                               !.driver = driver, !.ready = ready,
                               !.summary = summary, !.sources = sources, !.purged = FALSE]
  <1>1. CASE ~Capturable(m, q, r)
    BY <1>1 DEF Capture, Grown
  <1>2. CASE Capturable(m, q, r)
    <2>1. \A i \in insight : i.question = q => i.confirmedAt < m
      BY <1>2, CapturedIsNewer
    <2>2. /\ kept \in RowRecord /\ kept.prompt = 0 /\ kept.bundle \in {0, r.bundle}
          /\ \A s \in kept.sources : s <= arrived
          /\ \A s \in kept.sources : \A i \in insight : i.question = q => i.confirmedAt < s
      <3>1. CASE reopened
        BY <3>1, NewRow
      <3>2. CASE ~reopened
        <4>1. r.status = "collecting"
          BY <1>2, <3>2 DEF Capturable, Finalized
        <4> QED BY <3>2, <4>1 DEF RowSound, RowOrdered, Open
      <3> QED BY <3>1, <3>2
    <2>3. Capture(m, q, r, what) = c
      BY <1>2 DEF Capture
    <2>4. sufficient \in BOOLEAN /\ driver \in BOOLEAN
      BY DEF Meaning
    <2>5. ready \in BOOLEAN
      OBVIOUS
    <2>6. /\ summary \in Texts /\ sources \in Texts
          /\ summary # {} /\ sources # {} /\ sources \subseteq kept.sources \cup {m}
      BY <2>2, TextFacts DEF RowRecord
    <2>7. r.status \notin Pending /\ r.status # "declined"
      BY <1>2 DEF Capturable, Finalized, Pending
    <2>8. r.status = "confirmed" => Finalized(r) /\ m > r.confirmedAt
      BY <1>2, <2>1 DEF Capturable, RowOrdered
    <2> HIDE DEF sufficient, driver, ready, kept, summary, sources
    <2> HIDE DEF c
    <2>9. /\ c \in RowRecord /\ c.status = "collecting" /\ c.bundle = kept.bundle
          /\ c.prompt = kept.prompt /\ ~c.purged
          /\ c.summary = summary /\ c.sources = sources
      <3>1. /\ kept \in RowRecord /\ sufficient \in BOOLEAN /\ driver \in BOOLEAN
            /\ ready \in BOOLEAN /\ summary \in Texts /\ sources \in Texts
        BY <2>2, <2>4, <2>5, <2>6
      <3>2. c = [kept EXCEPT !.status = "collecting", !.sufficient = sufficient,
                             !.driver = driver, !.ready = ready,
                             !.summary = summary, !.sources = sources, !.purged = FALSE]
        BY DEF c
      <3>3. "collecting" \in Statuses
        BY DEF Statuses
      <3> QED BY <3>1, <3>2, <3>3 DEF RowRecord
    <2>10. RowSound(c) /\ RowOrdered(q, c)
      BY <2>1, <2>2, <2>6, <2>9 DEF RowSound, RowOrdered, Open, Pending, Finalized
    <2> QED BY <2>2, <2>3, <2>7, <2>8, <2>9, <2>10 DEF Grown
  <1> QED BY <1>1, <1>2

\* Every row after the evidence of a message.
LEMMA EvidenceGrows ==
  ASSUME IInv, NEW m \in Messages, NEW e \in mix.evaluations[m], ApplyEvidence(m, e)
  PROVE  row' \in [Questions -> RowRecord] /\ \A q \in Questions : Grown(q, m, row[q], row'[q])
  <1>1. /\ turn[m] = "committed" /\ m <= arrived
    BY DEF IInv, TalkSound, ApplyEvidence, Typed, Sources, Messages
  <1>2. e \in Readings
    BY MixesAssumption DEF IInv, Typed
  <1>3. \A q \in DOMAIN e.capture : e.capture[q] \in Meaning
    BY <1>2 DEF Readings
  <1>4. row \in [Questions -> RowRecord]
    BY StoreParts DEF IInv, Typed, Tables
  <1>5. ASSUME NEW q \in Questions
        PROVE  row[q] \in RowRecord /\ RowSound(row[q]) /\ RowOrdered(q, row[q])
    BY <1>4 DEF IInv, StoreSound, Tables
  <1>6. ASSUME NEW q \in Questions
        PROVE  Grown(q, m, row[q], row[q])
    BY <1>5 DEF Grown
  <1>7. CASE over \/ ~timely[m]
    BY <1>4, <1>6, <1>7 DEF ApplyEvidence
  <1>8. CASE ~(over \/ ~timely[m])
    <2> DEFINE r1(q) == IF q \in e.reopen THEN Reopen(m, row[q]) ELSE row[q]
               r2(q) == IF q \in e.decline THEN DeclineDriver(m, r1(q)) ELSE r1(q)
               r3(q) == IF q \in DOMAIN e.capture THEN Capture(m, q, r2(q), e.capture[q]) ELSE r2(q)
    <2>1. row' = [q \in Questions |-> r3(q)]
      BY <1>8 DEF ApplyEvidence
    <2>2. ASSUME NEW q \in Questions
          PROVE  Grown(q, m, row[q], r3(q))
      <3>1. Grown(q, m, row[q], r1(q))
        BY <1>5, <1>6, ReopenGrows
      <3> HIDE DEF r1
      <3>2. r1(q) \in RowRecord /\ RowSound(r1(q)) /\ RowOrdered(q, r1(q))
        BY <3>1 DEF Grown
      <3>3. Grown(q, m, r1(q), r1(q))
        BY <3>2 DEF Grown
      <3>4. Grown(q, m, r1(q), r2(q))
        BY <3>2, <3>3, DeclineDriverGrows
      <3>5. Grown(q, m, row[q], r2(q))
        BY <3>1, <3>4, GrownTwice
      <3> HIDE DEF r2
      <3>6. r2(q) \in RowRecord /\ RowSound(r2(q)) /\ RowOrdered(q, r2(q))
        BY <3>4 DEF Grown
      <3>7. Grown(q, m, r2(q), r2(q))
        BY <3>6 DEF Grown
      <3>8. Grown(q, m, r2(q), r3(q))
        BY <1>1, <1>3, <3>6, <3>7, CaptureGrows
      <3> QED BY <3>5, <3>8, GrownTwice
    <2> HIDE DEF r3
    <2> QED BY <2>1, <2>2 DEF Grown
  <1> QED BY <1>7, <1>8

LEMMA EvidenceInv ==
  ASSUME IInv, NEW m \in Messages, NEW e \in mix.evaluations[m], ApplyEvidence(m, e)
  PROVE  IInv'
  <1>0. PICK d : d = [row |-> row', bundle |-> bundle, receipt |-> receipt]
    OBVIOUS
  <1>1. /\ Typed /\ StoreSound(Tables, Done, 0) /\ InsightSound
        /\ UNCHANGED <<bundle, receipt, insight, talk, sent, over, fin, faults, shown>>
        /\ mined' \subseteq Messages
        /\ Tables' = d /\ d.row = row' /\ d.receipt = receipt /\ d.bundle = bundle
        /\ Done' = Done /\ arrived' = arrived /\ seen' = seen
    BY <1>0 DEF IInv, ApplyEvidence, Tables, Typed, Done, talk
  <1>2. /\ d.row \in [Questions -> RowRecord]
        /\ \A q \in Questions : Grown(q, m, row[q], d.row[q])
    BY <1>1, EvidenceGrows
  <1>3. d \in Store /\ row \in [Questions -> RowRecord]
    BY <1>0, <1>1, <1>2 DEF Store, Typed, Tables
  <1>4. ASSUME NEW q \in Questions
        PROVE  /\ RowSound(d.row[q]) /\ RowOrdered(q, d.row[q])' /\ LinkSound(d, q)
               /\ RowShown(d, q)'
    <2>1. /\ RowSound(d.row[q]) /\ RowOrdered(q, d.row[q])
      BY <1>2 DEF Grown
    <2>2. RowOrdered(q, d.row[q])'
      BY <1>1, <2>1 DEF RowOrdered, Before, Finalized
    <2>3. CASE d.row[q] = row[q]
      BY <1>1, <2>1, <2>2, <2>3 DEF StoreSound, LinkSound, RowShown, ShownIn, Tables
    <2>4. CASE d.row[q] # row[q]
      <3>1. d.row[q].status \in {"reset", "collecting"} /\ d.row[q].bundle \in {0, row[q].bundle}
        BY <1>2, <2>4 DEF Grown
      <3>2. LinkSound(Tables, q)
        BY <1>1 DEF StoreSound
      <3> QED BY <1>1, <2>1, <2>2, <3>1, <3>2 DEF LinkSound, RowShown, Pending, Tables
    <2> QED BY <2>3, <2>4
  <1>5. CopiesNeeded(d) /\ OneOpen(d) /\ CopiesShown(d, 0)'
        /\ \A b \in Messages : BundleSound(d.bundle[b])
    <2>1. CopiesNeeded(d)
      <3> SUFFICES ASSUME NEW b \in Messages, NEW q \in DOMAIN d.bundle[b].parts
                   PROVE  d.row[q].bundle = b /\ d.row[q].status \in Pending
        BY DEF CopiesNeeded
      <3>1. q \in Questions /\ row[q].bundle = b /\ row[q].status \in Pending
        BY <1>1, <1>3, StoreParts DEF StoreSound, CopiesNeeded, Tables
      <3>2. d.row[q] = row[q]
        BY <1>2, <3>1 DEF Grown
      <3> QED BY <3>1, <3>2
    <2> QED BY <1>1, <2>1 DEF StoreSound, OneOpen, CopiesShown, Tables
  <1>6. LeftBy(d, Done)
    <2>1. \A q \in Questions : d.row[q].prompt \in {0, row[q].prompt}
      BY <1>2 DEF Grown
    <2> QED BY <1>1, <2>1 DEF StoreSound, LeftBy, Tables
  <1>7. StoreSound(d, Done, 0)'
    BY <1>1, <1>4, <1>5, <1>6
    DEF StoreSound, RowSound, LinkSound, BundleSound, CopiesNeeded, OneOpen, LeftBy
  <1>8. InsightSound' /\ insight' \subseteq InsightRecord
    BY <1>1 DEF InsightSound, ShownIn, Typed
  <1> QED BY <1>1, <1>3, <1>7, <1>8, TablesStep DEF Typed

(***************************************************************************)
(* Cutting off and finalizing.                                             *)
(***************************************************************************)

LEMMA CutoffInv ==
  ASSUME IInv, Cutoff
  PROVE  IInv'
  <1> DEFINE Cut(r) == [Emptied(r) EXCEPT !.status = "no_data", !.confirmedAt = 0, !.purged = TRUE]
             Gone(n) == [n EXCEPT !.status = "purged", !.parts = <<>>, !.purged = TRUE]
  <1>0. PICK d : d = [row |-> row', bundle |-> bundle', receipt |-> receipt]
    OBVIOUS
  <1>1. /\ Typed /\ StoreSound(Tables, Done, 0) /\ InsightSound
        /\ UNCHANGED <<receipt, insight, talk, mined, sent, over, fin, faults, shown>>
        /\ Tables' = d /\ d.row = row' /\ d.receipt = receipt /\ d.bundle = bundle'
        /\ Done' = Done /\ arrived' = arrived /\ seen' = seen
        /\ row \in [Questions -> RowRecord] /\ bundle \in [Messages -> BundleRecord]
    BY <1>0, StoreParts DEF IInv, Cutoff, Tables, Typed, Done, talk
  <1>2. /\ d.row = [q \in Questions |-> IF Expired(row[q]) THEN Cut(row[q]) ELSE row[q]]
        /\ d.bundle = [b \in Messages |-> IF bundle[b].status = "none" \/ bundle[b].purged
                                          THEN bundle[b] ELSE Gone(bundle[b])]
    BY <1>1 DEF Cutoff
  <1>3. ASSUME NEW r \in RowRecord
        PROVE  /\ Cut(r) \in RowRecord /\ Cut(r).status = "no_data" /\ Cut(r).purged
               /\ Cut(r).summary = {} /\ Cut(r).sources = {} /\ Cut(r).statement = {}
               /\ Cut(r).prompt = 0 /\ Cut(r).bundle = r.bundle
    BY TextFacts DEF Emptied, RowRecord, Statuses
  <1>4. ASSUME NEW n \in BundleRecord
        PROVE  /\ Gone(n) \in BundleRecord /\ Gone(n).status = "purged" /\ Gone(n).purged
               /\ DOMAIN Gone(n).parts = {}
    BY EmptyParts DEF BundleRecord, BundleStatuses
  <1> HIDE DEF Cut, Gone
  <1>5. \A q \in Questions : /\ d.row[q] \in RowRecord /\ d.row[q].bundle = row[q].bundle
                             /\ d.row[q].status \notin Open
                             /\ d.row[q] = row[q] \/ d.row[q] = Cut(row[q])
    <2>1. \A q \in Questions : row[q].status \in Open => Expired(row[q])
      BY DEF Open, Pending, Expired
    <2>2. "no_data" \notin Open
      BY DEF Open, Pending
    <2> QED BY <1>1, <1>2, <1>3, <2>1, <2>2
  <1>6. \A b \in Messages : /\ d.bundle[b] \in BundleRecord /\ BundleSound(d.bundle[b])
                            /\ d.bundle[b].status \notin Unresolved
                            /\ DOMAIN d.bundle[b].parts = {}
                            /\ d.bundle[b].status = "none" <=> bundle[b].status = "none"
    <2>1. \A b \in Messages : BundleSound(bundle[b])
      BY <1>1 DEF StoreSound, Tables
    <2> QED BY <1>1, <1>2, <1>4, <2>1 DEF BundleSound, Unresolved
  <1>7. d \in Store
    <2>1. d.row \in [Questions -> RowRecord] /\ d.bundle \in [Messages -> BundleRecord]
      BY <1>2, <1>5, <1>6
    <2> QED BY <1>0, <1>1, <2>1 DEF Store, Typed, Tables
  <1>8. ASSUME NEW q \in Questions
        PROVE  /\ RowSound(d.row[q]) /\ RowOrdered(q, d.row[q])' /\ LinkSound(d, q)
               /\ RowShown(d, q)' /\ d.row[q].prompt \in {0, row[q].prompt}
    <2>1. /\ RowSound(row[q]) /\ RowOrdered(q, row[q]) /\ LinkSound(Tables, q) /\ RowShown(Tables, q)
          /\ row[q] \in RowRecord /\ row[q].bundle \in Sources
      BY <1>1 DEF StoreSound, Tables, RowRecord
    <2>2. LinkSound(d, q)
      BY <1>1, <1>5, <1>6, <2>1 DEF LinkSound, Open, Tables, Sources, Messages
    <2>3. CASE d.row[q] = row[q]
      <3>1. RowOrdered(q, row[q])'
        BY <1>1, <2>1, <2>3 DEF RowOrdered, Before, Finalized
      <3>2. RowOrdered(q, d.row[q])'
        BY <1>1, <1>5, <2>1, <2>3 DEF RowOrdered, Before, Finalized
      <3>3. RowShown(d, q)'
        BY <1>1, <2>1, <2>3 DEF RowShown, ShownIn, Tables
      <3> QED BY <2>1, <2>2, <2>3, <3>2, <3>3
    <2>4. CASE d.row[q] = Cut(row[q])
      <3>1. RowSound(d.row[q])
        BY <1>3, <2>1, <2>4 DEF RowSound, Open, Pending
      <3>2. RowOrdered(q, d.row[q])'
        BY <1>1, <1>3, <2>1, <2>4 DEF RowOrdered, Open, Pending, Finalized
      <3>3. RowShown(d, q)' /\ d.row[q].prompt = 0
        BY <1>3, <2>1, <2>4 DEF RowShown
      <3> QED BY <2>2, <3>1, <3>2, <3>3
    <2> QED BY <1>5, <2>3, <2>4
  <1>9. /\ CopiesNeeded(d) /\ OneOpen(d) /\ CopiesShown(d, 0)'
    BY <1>6 DEF CopiesNeeded, OneOpen, OpenBundles, CopiesShown
  <1>10. LeftBy(d, Done)
    BY <1>1, <1>6, <1>8 DEF StoreSound, LeftBy, Tables
  <1>11. StoreSound(d, Done, 0)'
    BY <1>1, <1>6, <1>8, <1>9, <1>10
    DEF StoreSound, RowSound, LinkSound, BundleSound, CopiesNeeded, OneOpen, LeftBy
  <1>12. InsightSound' /\ insight' \subseteq InsightRecord
    BY <1>1 DEF InsightSound, ShownIn, Typed
  <1> QED BY <1>1, <1>6, <1>7, <1>11, <1>12, TablesStep DEF Typed

LEMMA PurgedBundles ==
  ASSUME bundle \in [Messages -> BundleRecord], NEW rows
  PROVE  LET bs == PurgeBundles(rows) IN
         /\ bs \in [Messages -> BundleRecord]
         /\ \A b \in Messages :
              \/ bs[b] = bundle[b]
              \/ /\ bundle[b].status = "resolved" /\ bs[b].status = "purged"
                 /\ bs[b].parts = bundle[b].parts /\ DOMAIN bs[b].parts = {}
  <1> DEFINE bs == PurgeBundles(rows)
  <1>1. ASSUME NEW b \in Messages
        PROVE  /\ bs[b] \in BundleRecord
               /\ \/ bs[b] = bundle[b]
                  \/ /\ bundle[b].status = "resolved" /\ bs[b].status = "purged"
                     /\ bs[b].parts = bundle[b].parts /\ DOMAIN bs[b].parts = {}
    <2> DEFINE n == [bundle[b] EXCEPT !.status = "purged", !.purged = TRUE]
    <2>1. \/ bs[b] = bundle[b]
          \/ bs[b] = n /\ bundle[b].status = "resolved" /\ bundle[b].parts = <<>>
      BY DEF PurgeBundles
    <2>2. n \in BundleRecord /\ n.status = "purged" /\ n.parts = bundle[b].parts
      BY DEF BundleRecord, BundleStatuses
    <2> HIDE DEF n
    <2> QED BY <2>1, <2>2, EmptyParts
  <1>2. bs = [b \in Messages |-> bs[b]]
    BY DEF PurgeBundles
  <1> HIDE DEF bs
  <1>3. bs \in [Messages -> BundleRecord]
    BY <1>1, <1>2
  <1> QED BY <1>1, <1>3 DEF bs

\* The insights of a question after a new one, which is newer than all of them.
LEMMA InsightAdded ==
  ASSUME Typed, InsightSound, NEW q \in Questions, NEW at \in Messages, NEW text \in Texts,
         \A i \in insight : i.question = q => i.confirmedAt < at,
         ShownIn(receipt, at, q, text),
         UNCHANGED <<receipt, seen, shown>>,
         LET older == {i \in insight : i.question = q}
             new == [question |-> q, confirmedAt |-> at, statement |-> text, current |-> TRUE]
         IN  insight' = (insight \ older) \cup Replaced(older) \cup {new}
  PROVE  /\ InsightSound' /\ insight' \subseteq InsightRecord
         /\ \A i \in insight : i.question # q => i \in insight'
         /\ \A i \in insight' : i.question # q => i \in insight
         /\ \E i \in insight' : i.question = q /\ i.current /\ i.confirmedAt = at /\ i.statement = text
  <1> DEFINE older == {i \in insight : i.question = q}
             new == [question |-> q, confirmedAt |-> at, statement |-> text, current |-> TRUE]
  <1>1. insight' = (insight \ older) \cup Replaced(older) \cup {new}
    OBVIOUS
  <1>2. /\ new \in InsightRecord /\ new.question = q /\ new.confirmedAt = at /\ new.current
        /\ new.statement = text
    BY DEF InsightRecord
  <1> HIDE DEF new
  <1>3. \A i \in insight : i \in InsightRecord /\ i.confirmedAt \in Int /\ at \in Int
    BY DEF Typed, InsightRecord, Messages
  <1>4. ASSUME NEW i \in InsightRecord
        PROVE  LET k == [i EXCEPT !.current = FALSE] IN
               /\ k \in InsightRecord /\ k.question = i.question /\ k.confirmedAt = i.confirmedAt
               /\ k.statement = i.statement /\ ~k.current
    BY DEF InsightRecord
  <1>5. ASSUME NEW i \in insight'
        PROVE  \/ i = new
               \/ i \in insight /\ i.question # q
               \/ /\ i.question = q /\ ~i.current /\ i \in InsightRecord
                  /\ \E k \in insight : /\ k.question = q /\ k.confirmedAt = i.confirmedAt
                                        /\ k.statement = i.statement
    <2>1. CASE i \in Replaced(older)
      <3>1. PICK k \in older : i = [k EXCEPT !.current = FALSE]
        BY <2>1 DEF Replaced
      <3>2. k \in InsightRecord /\ k.question = q /\ k \in insight
        BY <1>3
      <3> QED BY <1>4, <3>1, <3>2
    <2>2. CASE i \notin Replaced(older)
      BY <1>1, <2>2
    <2> QED BY <2>1, <2>2
  <1>6. new \in insight' /\ \A i \in insight : i.question # q => i \in insight'
    BY <1>1
  <1> HIDE DEF older
  <1>7. insight' \subseteq InsightRecord
    BY <1>2, <1>3, <1>5
  <1>8. \A k \in insight : ShownIn(receipt, k.confirmedAt, k.question, k.statement)'
    BY DEF InsightSound, ShownIn
  <1>9. ShownIn(receipt, at, q, text)'
    BY DEF ShownIn
  <1>10. ASSUME NEW i \in insight'
         PROVE  /\ ShownIn(receipt, i.confirmedAt, i.question, i.statement)'
                /\ i.current <=> ~\E j \in insight' : j.question = i.question /\ j.confirmedAt > i.confirmedAt
                /\ \E j \in insight' : j.question = i.question /\ j.current /\ i.confirmedAt <= j.confirmedAt
    <2>1. CASE i = new
      <3>1. at \in Int /\ at <= at /\ ~(at > at)
        BY DEF Messages
      <3>2. \A j \in insight' : j.question = q => ~(j.confirmedAt > at)
        <4> SUFFICES ASSUME NEW j \in insight', j.question = q
                     PROVE  ~(j.confirmedAt > at)
          OBVIOUS
        <4>1. j.confirmedAt = at \/ \E k \in insight : k.question = q /\ k.confirmedAt = j.confirmedAt
          BY <1>2, <1>5
        <4>2. \A k \in insight : k.question = q => ~(k.confirmedAt > at)
          BY <1>3
        <4> QED BY <3>1, <4>1, <4>2
      <3> QED BY <1>2, <1>6, <1>9, <2>1, <3>1, <3>2
    <2>2. CASE i \in insight /\ i.question # q
      <3>1. \A j : j.question = i.question => (j \in insight' <=> j \in insight)
        BY <1>2, <1>5, <1>6, <2>2
      <3> QED BY <1>8, <2>2, <3>1 DEF InsightSound
    <2>3. CASE /\ i.question = q /\ ~i.current
               /\ \E k \in insight : /\ k.question = q /\ k.confirmedAt = i.confirmedAt
                                     /\ k.statement = i.statement
      <3>1. PICK k \in insight : /\ k.question = q /\ k.confirmedAt = i.confirmedAt
                                 /\ k.statement = i.statement
        BY <2>3
      <3>2. at > i.confirmedAt /\ i.confirmedAt <= at
        BY <1>3, <3>1
      <3> QED BY <1>2, <1>6, <1>8, <2>3, <3>1, <3>2
    <2> QED BY <1>5, <2>1, <2>2, <2>3
  <1>11. InsightSound'
    BY <1>10 DEF InsightSound
  <1> QED BY <1>2, <1>5, <1>6, <1>7, <1>11

\* A finalizer that finds the row as it was reports what the row says.
LEMMA PersistAdds ==
  ASSUME IInv, NEW f \in Finalizers, Persist(f), Current(fin[f])
  PROVE  LET w == fin[f]
             q == w.question
             r == row[q]
         IN  /\ q \in Questions /\ r \in RowRecord /\ r.status = "confirmed" /\ ~r.purged
             /\ r.confirmedAt = w.confirmedAt /\ r.statement = w.statement
             /\ row' = [row EXCEPT ![q] = [Emptied(r) EXCEPT !.finalized = TRUE, !.purged = TRUE]]
             /\ bundle' = PurgeBundles(row')
             /\ InsightSound' /\ insight' \subseteq InsightRecord
             /\ \A i \in insight : i.question # q => i \in insight'
             /\ \A i \in insight' : i.question # q => i \in insight
             /\ \E i \in insight' : /\ i.question = q /\ i.current
                                    /\ i.confirmedAt = w.confirmedAt /\ i.statement = w.statement
  <1> DEFINE w == fin[f]
             q == w.question
             r == row[q]
             older == {i \in insight : i.question = q}
             new == [question |-> q, confirmedAt |-> w.confirmedAt, statement |-> w.statement,
                     current |-> TRUE]
  <1>1. /\ Typed /\ WorkSound /\ InsightSound /\ StoreSound(Tables, Done, 0)
        /\ UNCHANGED <<receipt, talk, shown>> /\ w # NoWork
        /\ row \in [Questions -> RowRecord]
    BY StoreParts DEF IInv, Persist, Typed, Tables
  <1>2. /\ q \in Questions /\ w.confirmedAt \in Messages /\ w.statement \in Texts
        /\ ShownIn(receipt, w.confirmedAt, q, w.statement)
    BY <1>1 DEF WorkSound, Typed, WorkRecord
  <1>3. /\ r \in RowRecord /\ r.status = "confirmed" /\ ~r.purged
        /\ r.confirmedAt = w.confirmedAt
    BY <1>1, <1>2 DEF Current
  \* The answer it loaded is the answer the row has, so it showed the same statement.
  <1>4. r.statement = w.statement
    <2>1. ShownIn(receipt, w.confirmedAt, q, r.statement)
      BY <1>1, <1>2, <1>3 DEF StoreSound, RowShown, Tables
    <2> QED BY <1>2, <2>1 DEF ShownIn
  <1>5. \A i \in insight : i.question = q => i.confirmedAt < w.confirmedAt
    BY <1>1, <1>2, <1>3 DEF StoreSound, RowOrdered, Tables
  <1>6. \A i \in older : i.confirmedAt # w.confirmedAt
    <2>1. \A i \in insight : i.confirmedAt \in Int
      BY <1>1 DEF Typed, InsightRecord, Messages
    <2> QED BY <1>2, <1>5, <2>1 DEF Messages
  <1>7. /\ insight' = (insight \ older) \cup Replaced(older) \cup {new}
        /\ row' = [row EXCEPT ![q] = [Emptied(r) EXCEPT !.finalized = TRUE, !.purged = TRUE]]
        /\ bundle' = PurgeBundles(row')
    BY <1>1, <1>2, <1>6 DEF Persist
  <1>8. /\ InsightSound' /\ insight' \subseteq InsightRecord
        /\ \A i \in insight : i.question # q => i \in insight'
        /\ \A i \in insight' : i.question # q => i \in insight
        /\ \E i \in insight' : /\ i.question = q /\ i.current
                               /\ i.confirmedAt = w.confirmedAt /\ i.statement = w.statement
    BY <1>1, <1>2, <1>5, <1>7, InsightAdded DEF talk
  <1> QED BY <1>2, <1>3, <1>4, <1>7, <1>8

LEMMA PersistInv ==
  ASSUME IInv, NEW f \in Finalizers, Persist(f)
  PROVE  IInv'
  <1> DEFINE w == fin[f]
             q == w.question
             Erased(r) == [Emptied(r) EXCEPT !.finalized = TRUE, !.purged = TRUE]
  <1>1. /\ Typed /\ TalkSound /\ WorkSound /\ InsightSound /\ StoreSound(Tables, Done, 0)
        /\ \A n \in Messages : PlanSound(n, plan[n])
        /\ UNCHANGED <<receipt, talk, mined, sent, over, faults, shown>>
        /\ Done' = Done /\ arrived' = arrived /\ seen' = seen
        /\ w # NoWork /\ fin' = [fin EXCEPT ![f] = NoWork]
        /\ row \in [Questions -> RowRecord] /\ bundle \in [Messages -> BundleRecord]
    BY StoreParts DEF IInv, Persist, Typed, Tables, Done, talk
  <1>2. /\ fin' \in [Finalizers -> WorkRecord] /\ \A g \in Finalizers : fin'[g] \in {NoWork, fin[g]}
    BY <1>1, NoWorkIs DEF Typed
  <1>3. CASE ~Current(w)
    <2>1. UNCHANGED <<row, bundle, insight>>
      BY <1>3 DEF Persist
    <2>2. StoreSound(Tables, Done, 0)' /\ InsightSound'
      BY <1>1, <2>1, SoundUnchanged DEF store
    <2>3. PICK d : d = Tables
      OBVIOUS
    <2>4. Tables' = d /\ d \in Store /\ d.bundle = bundle
      BY <1>1, <2>1, <2>3 DEF Tables, Typed
    <2>5. StoreSound(d, Done, 0)'
      BY <2>2, <2>4
    <2> QED BY <1>1, <1>2, <2>1, <2>2, <2>4, <2>5, TablesStep DEF Typed
  <1>4. CASE Current(w)
    <2> DEFINE r == row[q]
    <2>1. /\ q \in Questions /\ r \in RowRecord /\ r.status = "confirmed" /\ ~r.purged
          /\ r.confirmedAt = w.confirmedAt
      BY <1>4, PersistAdds
    <2>2. row' = [row EXCEPT ![q] = Erased(r)] /\ bundle' = PurgeBundles(row')
      BY <1>4, PersistAdds
    <2>3. /\ InsightSound' /\ insight' \subseteq InsightRecord
          /\ \A i \in insight : i.question # q => i \in insight'
          /\ \A i \in insight' : i.question # q => i \in insight
          /\ \E i \in insight' : i.question = q /\ i.current /\ i.confirmedAt = w.confirmedAt
      BY <1>4, PersistAdds
    <2>4. /\ Erased(r) \in RowRecord /\ Erased(r).status = "confirmed" /\ Erased(r).purged
          /\ Erased(r).summary = {} /\ Erased(r).sources = {} /\ Erased(r).statement = {}
          /\ Erased(r).prompt = 0 /\ Erased(r).bundle = r.bundle
          /\ Erased(r).confirmedAt = r.confirmedAt /\ Erased(r).finalized
      BY <2>1, TextFacts DEF Emptied, RowRecord
    <2>5. PICK d : d = [row |-> row', bundle |-> bundle', receipt |-> receipt]
      OBVIOUS
    <2> HIDE DEF Erased
    <2>6. /\ Tables' = d /\ d.row = row' /\ d.bundle = bundle' /\ d.receipt = receipt
          /\ d.row \in [Questions -> RowRecord] /\ d.row[q] = Erased(r)
          /\ \A o \in Questions \ {q} : d.row[o] = row[o]
      BY <1>1, <2>1, <2>2, <2>4, <2>5 DEF Tables
    <2>7. /\ d.bundle \in [Messages -> BundleRecord]
           /\ \A b \in Messages :
                \/ d.bundle[b] = bundle[b]
                \/ /\ bundle[b].status = "resolved" /\ d.bundle[b].status = "purged"
                   /\ d.bundle[b].parts = bundle[b].parts /\ DOMAIN d.bundle[b].parts = {}
      BY <1>1, <2>2, <2>6, PurgedBundles
    <2>8. d \in Store
      BY <1>1, <2>5, <2>6, <2>7 DEF Store, Typed, Tables
    <2>9. ASSUME NEW o \in Questions
           PROVE  /\ RowSound(d.row[o]) /\ RowOrdered(o, d.row[o])' /\ LinkSound(d, o)
                  /\ RowShown(d, o)' /\ d.row[o].prompt \in {0, row[o].prompt}
      <3>1. /\ RowSound(row[o]) /\ RowOrdered(o, row[o]) /\ LinkSound(Tables, o)
            /\ RowShown(Tables, o) /\ row[o] \in RowRecord /\ row[o].bundle \in Sources
        BY <1>1 DEF StoreSound, Tables, RowRecord
      <3>2. CASE o = q
        <4>1. LinkSound(d, o)
          <5>1. row[o].bundle # 0 => d.bundle[row[o].bundle].status # "none"
            BY <2>7, <3>1 DEF LinkSound, Tables, Sources, Messages
          <5> QED BY <2>4, <2>6, <3>2, <5>1 DEF LinkSound, Pending
        <4>2. RowOrdered(o, d.row[o])'
          BY <1>1, <2>1, <2>3, <2>4, <2>6, <3>2 DEF RowOrdered, Open, Pending, Finalized
        <4> QED BY <2>4, <2>6, <3>2, <4>1, <4>2 DEF RowSound, RowShown, Open, Pending
      <3>3. CASE o # q
        <4>1. d.row[o] = row[o]
          BY <2>6, <3>3
        <4>2. LinkSound(d, o)
          BY <2>7, <3>1, <4>1 DEF LinkSound, Tables, Sources, Messages, Pending, Unresolved
        <4>3. RowOrdered(o, d.row[o])'
          BY <1>1, <2>3, <3>1, <3>3, <4>1 DEF RowOrdered, Before, Finalized
        <4>4. RowShown(d, o)'
          BY <1>1, <2>6, <3>1, <4>1 DEF RowShown, ShownIn, Tables
        <4> QED BY <3>1, <4>1, <4>2, <4>3, <4>4
      <3> QED BY <3>2, <3>3
    <2>10. \A b \in Messages : /\ BundleSound(d.bundle[b]) /\ d.bundle[b].parts = bundle[b].parts
                               /\ d.bundle[b].status \in Unresolved => d.bundle[b] = bundle[b]
                               /\ d.bundle[b].status = "none" <=> bundle[b].status = "none"
      BY <1>1, <2>7 DEF StoreSound, BundleSound, Unresolved, Tables
    <2>11. CopiesNeeded(d)
      <3> SUFFICES ASSUME NEW b \in Messages, NEW o \in DOMAIN d.bundle[b].parts
                   PROVE  d.row[o].bundle = b /\ d.row[o].status \in Pending
        BY DEF CopiesNeeded
      <3>1. o \in Questions /\ row[o].bundle = b /\ row[o].status \in Pending
        BY <1>1, <2>10, StoreParts DEF StoreSound, CopiesNeeded, Tables, Typed
      <3>2. o # q
        BY <2>1, <3>1 DEF Pending
      <3> QED BY <2>6, <3>1, <3>2
    <2>12. OneOpen(d) /\ CopiesShown(d, 0)'
      BY <1>1, <2>10 DEF StoreSound, OneOpen, OpenBundles, CopiesShown, Tables
    <2>13. LeftBy(d, Done)
      BY <1>1, <2>6, <2>9, <2>10 DEF StoreSound, LeftBy, Tables
    <2>14. StoreSound(d, Done, 0)'
      BY <1>1, <2>9, <2>10, <2>11, <2>12, <2>13
      DEF StoreSound, RowSound, LinkSound, BundleSound, CopiesNeeded, OneOpen, LeftBy
    <2> QED BY <1>1, <1>2, <2>3, <2>6, <2>8, <2>10, <2>14, TablesStep DEF Typed
  <1> QED BY <1>3, <1>4

(***************************************************************************)
(* The invariant.                                                          *)
(***************************************************************************)

LEMMA InitInv ==
  ASSUME Init
  PROVE  IInv
  <1>1. /\ mix \in Mixes /\ row = [q \in Questions |-> IF q \in mix.known THEN ReadyRow ELSE NoRow]
        /\ bundle = [m \in Messages |-> NoBundle] /\ receipt = [m \in Messages |-> NoReceipt]
        /\ insight = {} /\ arrived = 0 /\ seen = [m \in Messages |-> {}]
        /\ timely = [m \in Messages |-> FALSE] /\ turn = [m \in Messages |-> "none"]
        /\ plan = [m \in Messages |-> NoPlan] /\ mined = {} /\ sent = {} /\ over = FALSE
        /\ fin = [f \in Finalizers |-> NoWork] /\ faults = 0 /\ shown = [m \in Messages |-> <<>>]
    BY DEF Init
  <1>2. /\ NoBundle \in BundleRecord /\ NoBundle.status = "none" /\ NoBundle.parts = <<>>
        /\ ~NoBundle.purged /\ NoReceipt \in ReceiptRecord
    BY EmptyParts, TextFacts DEF NoBundle, NoReceipt, BundleRecord, BundleStatuses,
                                 ReceiptRecord, ReceiptKinds
  <1>3. /\ ReadyRow \in RowRecord /\ ReadyRow.status = "collecting" /\ ReadyRow.bundle = 0
        /\ ReadyRow.prompt = 0 /\ ReadyRow.summary = {0} /\ ReadyRow.sources = {0} /\ ~ReadyRow.purged
    <2>1. {0} \in Texts /\ "collecting" \in Statuses
      BY TextFacts DEF Texts, Statuses
    <2> HIDE DEF NoRow
    <2> QED BY <2>1, NewRow DEF ReadyRow, RowRecord
  <1>4. Typed
    <2>1. row \in [Questions -> RowRecord]
      BY <1>1, <1>3, NewRow
    <2>2. Tables \in Store
      BY <1>1, <1>2, <2>1 DEF Tables, Store
    <2>3. 0 \in 0..mix.faults
      BY <1>1, MixesAssumption
    <2> QED BY <1>1, <2>2, <2>3, NoPlanIs, NoWorkIs, EmptyParts, TextFacts DEF Typed, TurnStates
  <1>5. StoreSound(Tables, Done, 0)
    <2>1. ASSUME NEW q \in Questions
          PROVE  /\ row[q].status \in {"none", "collecting"} /\ row[q].bundle = 0
                 /\ row[q].prompt = 0 /\ row[q].sources \in {{}, {0}} /\ ~row[q].purged
                 /\ row[q].status = "collecting" => row[q].summary # {} /\ row[q].sources # {}
      BY <1>1, <1>3, NewRow
    <2>2. ASSUME NEW q \in Questions
          PROVE  /\ RowSound(row[q]) /\ RowOrdered(q, row[q]) /\ LinkSound(Tables, q)
                 /\ RowShown(Tables, q)
      BY <1>1, <2>1 DEF RowSound, RowOrdered, LinkSound, RowShown, Open, Pending, Finalized, Tables
    <2>3. /\ \A b \in Messages : /\ BundleSound(bundle[b]) /\ DOMAIN bundle[b].parts = {}
                                 /\ bundle[b].status = "none" /\ receipt[b] = NoReceipt
      BY <1>1, <1>2, EmptyParts DEF BundleSound, Unresolved
    <2> QED BY <2>1, <2>2, <2>3 DEF StoreSound, CopiesNeeded, OneOpen, OpenBundles, Unresolved,
                                   LeftBy, CopiesShown, Tables
  <1>6. TalkSound /\ InsightSound /\ WorkSound
    BY <1>1 DEF TalkSound, InsightSound, WorkSound
  <1>7. \A m \in Messages : PlanSound(m, plan[m])
    BY <1>1, NoPlanIs
  <1> QED BY <1>4, <1>5, <1>6, <1>7 DEF IInv

LEMMA NextInv ==
  ASSUME IInv, [Next]_vars
  PROVE  IInv'
  <1>1. CASE Arrive
    BY <1>1, ArriveInv
  <1>2. CASE EndWindow
    BY <1>2, EndWindowInv
  <1>3. CASE Cutoff
    BY <1>3, CutoffInv
  <1>4. ASSUME NEW m \in Messages, Prepare(m) \/ CommitRefused(m) \/ GiveUp(m)
        PROVE  IInv'
    <2>1. CASE Prepare(m)
      BY <2>1, PrepareInv
    <2>2. CASE CommitRefused(m)
      BY <2>2, PrepareInv DEF CommitRefused
    <2>3. CASE GiveUp(m)
      BY <2>3, PrepareInv DEF GiveUp
    <2> QED BY <1>4, <2>1, <2>2, <2>3
  <1>5. ASSUME NEW m \in Messages, Commit(m)
        PROVE  IInv'
    BY <1>5, CommitInv
  <1>6. ASSUME NEW m \in Messages, Deliver(m)
        PROVE  IInv'
    BY <1>6, DeliverInv
  <1>7. ASSUME NEW m \in Messages, Activate(m)
        PROVE  IInv'
    BY <1>7, ActivateInv
  <1>8. ASSUME NEW m \in Messages, NEW e \in mix.evaluations[m], ApplyEvidence(m, e)
        PROVE  IInv'
    BY <1>8, EvidenceInv
  <1>9. ASSUME NEW f \in Finalizers, FinFails(f) \/ \E q \in Questions : FinLoad(f, q)
        PROVE  IInv'
    BY <1>9, FinalizerInv
  <1>10. ASSUME NEW f \in Finalizers, Persist(f)
         PROVE  IInv'
    BY <1>10, PersistInv
  <1>11. CASE UNCHANGED vars
    <2>1. /\ UNCHANGED <<store, talk, insight, mined, sent, over, fin, faults, shown>> /\ Done' = Done
      BY <1>11 DEF vars, store, talk, Done
    <2>2. StoreSound(Tables, Done, 0)' /\ InsightSound'
      BY <2>1, SoundUnchanged DEF talk
    <2>3. Typed' /\ TalkSound' /\ WorkSound' /\ \A m \in Messages : PlanSound(m, plan[m])'
      BY <2>1 DEF IInv, Typed, Tables, TalkSound, WorkSound, PlanSound, ShownIn, store, talk
    <2> QED BY <2>2, <2>3 DEF IInv
  <1> QED BY <1>1, <1>2, <1>3, <1>4, <1>5, <1>6, <1>7, <1>8, <1>9, <1>10, <1>11 DEF Next

LEMMA Invariance == Spec => []IInv
  <1>1. Init => IInv
    BY InitInv
  <1>2. IInv /\ [Next]_vars => IInv'
    BY NextInv
  <1> QED BY <1>1, <1>2, PTL DEF Spec

(***************************************************************************)
(* The theorems.                                                           *)
(***************************************************************************)

\* The values the tables, jobs and turns can hold, however many messages, finalizers and
\* failures there are: no statement is asked about more than twice, an erased row has no
\* text, and an open one has a text and its sources.
THEOREM Types == Spec => []TypeOK
  <1>1. IInv => TypeOK
    <2> SUFFICES ASSUME IInv PROVE TypeOK
      OBVIOUS
    <2>1. /\ Tables.row = row /\ Tables.bundle = bundle /\ Tables.receipt = receipt
          /\ row \in [Questions -> RowRecord] /\ bundle \in [Messages -> BundleRecord]
          /\ receipt \in [Messages -> ReceiptRecord]
      BY StoreParts DEF IInv, Typed, Tables
    <2>2. ASSUME NEW q \in Questions
          PROVE  RowOK(row[q])
      <3>1. row[q] \in RowRecord /\ RowSound(row[q])
        BY <2>1 DEF IInv, StoreSound
      <3>2. row[q].purged => row[q].summary \cup row[q].sources \cup row[q].statement = {}
        BY <3>1 DEF RowSound
      <3> QED BY <3>1, <3>2 DEF RowOK, RowRecord, RowSound, Open, Pending
    <2>3. ASSUME NEW m \in Messages
          PROVE  /\ bundle[m].status \in BundleStatuses /\ bundle[m].parts \in Parts
                 /\ receipt[m].kind \in ReceiptKinds /\ receipt[m].target \in Sources \cup Questions
                 /\ turn[m] \in {"none", "waiting", "prepared", "committed", "dropped"}
                 /\ shown[m] \in Parts
      BY <2>1 DEF IInv, Typed, BundleRecord, ReceiptRecord, TurnStates
    <2>4. \A i \in insight : i.question \in Questions /\ i.confirmedAt \in Messages
      BY DEF IInv, Typed, InsightRecord
    <2> QED BY <2>1, <2>2, <2>3, <2>4 DEF IInv, Typed, TypeOK
  <1> QED BY <1>1, Invariance, PTL

\* One bundle of a topic waits for its answer at a time, for any number of turns that
\* prepare and commit at once and whatever corrected statements are shown in between.
THEOREM OneBundleWaits == Spec => []OneUnresolvedBundle
  <1>1. IInv => OneUnresolvedBundle
    <2> SUFFICES ASSUME IInv PROVE Cardinality(OpenBundles(bundle)) <= 1
      BY DEF OneUnresolvedBundle
    <2>1. \A a, b \in OpenBundles(bundle) : a = b
      BY DEF IInv, StoreSound, OneOpen, Tables
    <2>2. CASE OpenBundles(bundle) = {}
      BY <2>2, FS_EmptySet
    <2>3. CASE OpenBundles(bundle) # {}
      <3>1. PICK b : OpenBundles(bundle) = {b}
        BY <2>1, <2>3
      <3> QED BY <3>1, FS_Singleton
    <2> QED BY <2>2, <2>3
  <1> QED BY <1>1, Invariance, PTL

\* A bundle that waits shows the very questions that wait for it, with the text their rows
\* have now, and a disputed question keeps its statement in its bundle.
THEOREM BundlesMatch == Spec => []BundleMatchesRows
  <1>1. IInv => BundleMatchesRows
    <2> SUFFICES ASSUME IInv PROVE BundleMatchesRows
      OBVIOUS
    <2>1. /\ \A q \in Questions : LinkSound(Tables, q) /\ row[q].bundle \in Sources
          /\ CopiesNeeded(Tables) /\ Tables.row = row /\ Tables.bundle = bundle
          /\ \A b \in Messages : DOMAIN bundle[b].parts \subseteq Questions
      BY StoreParts DEF IInv, StoreSound, Tables, Typed, RowRecord
    <2>2. ASSUME NEW q \in Questions, row[q].status \in Pending
          PROVE  LET b == row[q].bundle
                 IN  /\ b \in Messages /\ q \in DOMAIN bundle[b].parts
                     /\ bundle[b].parts[q] = row[q].summary
                     /\ row[q].status = "pending_confirmation" <=> bundle[b].status \in Unresolved
      BY <2>1, <2>2 DEF LinkSound, Sources, Messages
    <2>3. ASSUME NEW b \in OpenBundles(bundle)
          PROVE  {q \in Questions : row[q].bundle = b /\ row[q].status = "pending_confirmation"}
                     = DOMAIN bundle[b].parts
      <3>1. b \in Messages /\ bundle[b].status \in Unresolved
        BY DEF OpenBundles
      <3>2. \A q \in DOMAIN bundle[b].parts :
               q \in Questions /\ row[q].bundle = b /\ row[q].status = "pending_confirmation"
        BY <2>1, <2>2, <3>1 DEF CopiesNeeded
      <3> QED BY <2>2, <3>1, <3>2 DEF Pending
    <2> QED BY <2>2, <2>3 DEF BundleMatchesRows, Pending
  <1> QED BY <1>1, Invariance, PTL

\* No copy of a statement stays in a bundle once the employee has settled it.
THEOREM CopiesOnlyWhileNeeded == Spec => []StatementCopiesNeeded
  <1>1. IInv => StatementCopiesNeeded
    BY DEF IInv, StoreSound, CopiesNeeded, StatementCopiesNeeded, Tables, Pending
  <1> QED BY <1>1, Invariance, PTL

\* Whatever is confirmed, and whatever is reported, was shown word for word in a message
\* its author had when they agreed; and what is confirmed can be loaded by a finalizer.
THEOREM OnlyShownIsConfirmed == Spec => []ConfirmedWasShown
  <1>1. IInv => ConfirmedWasShown
    <2> SUFFICES ASSUME IInv PROVE ConfirmedWasShown
      OBVIOUS
    <2>1. ASSUME NEW q \in Questions, row[q].status = "confirmed", ~row[q].purged
          PROVE  /\ ShownTo(row[q].confirmedAt, q, row[q].statement)
                 /\ receipt[row[q].confirmedAt].target = row[q].bundle
                 /\ ~\E i \in insight : i.question = q /\ i.confirmedAt = row[q].confirmedAt
      <3>1. RowShown(Tables, q) /\ RowOrdered(q, row[q])
        BY DEF IInv, StoreSound, Tables
      <3>2. \A i \in insight : i.confirmedAt \in Int
        BY DEF IInv, Typed, InsightRecord, Messages
      <3>3. row[q].confirmedAt \in Int
        BY <2>1, <3>1 DEF RowOrdered, Messages
      <3>4. \A i \in insight : i.question = q => i.confirmedAt # row[q].confirmedAt
        BY <2>1, <3>1, <3>2, <3>3 DEF RowOrdered
      <3> QED BY <2>1, <3>1, <3>4 DEF RowShown, ShownIn, ShownTo, Tables
    <2>2. \A i \in insight : ShownTo(i.confirmedAt, i.question, i.statement)
      BY DEF IInv, InsightSound, ShownIn, ShownTo
    <2> QED BY <2>1, <2>2 DEF ConfirmedWasShown
  <1> QED BY <1>1, Invariance, PTL

\* Of the insights of a question, the one confirmed last is the current one.
THEOREM LastConfirmedIsCurrent == Spec => []LatestInsightIsCurrent
  <1>1. IInv => LatestInsightIsCurrent
    BY DEF IInv, InsightSound, LatestInsightIsCurrent
  <1> QED BY <1>1, Invariance, PTL

\* Only the evidence of a message, or a finalizer that finds the row as it loaded it,
\* changes a row that the employee has settled.
LEMMA SettledRow ==
  ASSUME IInv, [Next]_vars, NEW q \in Questions, row[q].status \in {"declined", "confirmed"},
         row'[q] # row[q]
  PROVE  \/ \E m \in mined' \ mined : Grown(q, m, row[q], row'[q])
         \/ \E f \in Finalizers : Persist(f) /\ Current(fin[f]) /\ fin[f].question = q
  <1>1. row \in [Questions -> RowRecord]
    BY StoreParts DEF IInv, Typed, Tables
  <1>2. ASSUME NEW m \in Messages, Commit(m)
        PROVE  FALSE
    <2>1. Txn(Committed(m, plan[m]), m) /\ row' = Committed(m, plan[m]).row
      BY <1>2, CommitKeeps DEF Commit
    <2> QED BY <2>1 DEF Txn
  <1>3. ASSUME NEW m \in Messages, NEW e \in mix.evaluations[m], ApplyEvidence(m, e)
        PROVE  m \in mined' \ mined /\ Grown(q, m, row[q], row'[q])
    BY <1>3, EvidenceGrows DEF ApplyEvidence
  <1>4. ASSUME NEW f \in Finalizers, Persist(f)
        PROVE  Current(fin[f]) /\ fin[f].question = q
    <2>1. Current(fin[f])
      BY <1>4 DEF Persist
    <2>2. row' = [row EXCEPT ![fin[f].question] =
                     [Emptied(row[fin[f].question]) EXCEPT !.finalized = TRUE, !.purged = TRUE]]
      BY <1>4, <2>1, PersistAdds
    <2> QED BY <1>1, <2>1, <2>2
  <1>5. CASE Cutoff
    BY <1>5 DEF Cutoff, Expired
  <1>6. row' # row
    OBVIOUS
  <1>7. CASE \E m \in Messages : \E e \in mix.evaluations[m] : ApplyEvidence(m, e)
    BY <1>3, <1>7
  <1>8. CASE \E f \in Finalizers : Persist(f)
    BY <1>4, <1>8
  <1>9. \/ Cutoff \/ \E m \in Messages : Commit(m)
        \/ \E m \in Messages : \E e \in mix.evaluations[m] : ApplyEvidence(m, e)
        \/ \E f \in Finalizers : Persist(f)
    BY <1>6 DEF Next, vars, Arrive, EndWindow, Prepare, CommitRefused, GiveUp, Deliver, Activate,
                FinLoad, FinFails, store
  <1> QED BY <1>2, <1>5, <1>7, <1>8, <1>9

\* A question that was closed opens again only for a message newer than what closed it, in
\* whatever order the evidence jobs of the messages run.
THEOREM ClosedStaysClosed == Spec => ClosedReopensForward
  <1> DEFINE Forward(q) ==
        /\ row[q].status = "declined" /\ row'[q].status # "declined"
            => \E m \in mined' \ mined : m > row[q].closedAt
        /\ Finalized(row[q]) /\ ~Finalized(row'[q])
            => \E m \in mined' \ mined : m > row[q].confirmedAt
  <1>1. IInv /\ [Next]_vars => \A q \in Questions : Forward(q)
    <2> SUFFICES ASSUME IInv, [Next]_vars, NEW q \in Questions PROVE Forward(q)
      OBVIOUS
    <2>1. CASE row[q].status \notin {"declined", "confirmed"} \/ row'[q] = row[q]
      BY <2>1 DEF Finalized
    <2>2. CASE row[q].status \in {"declined", "confirmed"} /\ row'[q] # row[q]
      <3>1. CASE \E m \in mined' \ mined : Grown(q, m, row[q], row'[q])
        BY <2>2, <3>1 DEF Grown, Finalized
      <3>2. CASE \E f \in Finalizers : Persist(f) /\ Current(fin[f]) /\ fin[f].question = q
        BY <3>2 DEF Current, Finalized
      <3> QED BY <2>2, <3>1, <3>2, SettledRow
    <2> QED BY <2>1, <2>2
  <1>2. IInv /\ [Next]_vars => [\A q \in Questions : Forward(q)]_vars
    BY <1>1
  <1> QED BY <1>2, Invariance, PTL DEF Spec, ClosedReopensForward

\* What the employee confirmed leaves its row only as an insight that says the same.
THEOREM ConfirmedIsReported == Spec => ConfirmedNeverLost
  <1> DEFINE Kept(q) ==
        row[q].status = "confirmed" /\ ~row[q].purged /\ row'[q] # row[q]
            => \E i \in insight' : /\ i.question = q /\ i.confirmedAt = row[q].confirmedAt
                                   /\ i.statement = row[q].statement
  <1>1. IInv /\ [Next]_vars => \A q \in Questions : Kept(q)
    <2> SUFFICES ASSUME IInv, [Next]_vars, NEW q \in Questions,
                        row[q].status = "confirmed", ~row[q].purged, row'[q] # row[q]
                 PROVE  \E i \in insight' : /\ i.question = q /\ i.confirmedAt = row[q].confirmedAt
                                            /\ i.statement = row[q].statement
      OBVIOUS
    <2>1. ~\E m \in mined' \ mined : Grown(q, m, row[q], row'[q])
      BY DEF Grown, Finalized
    <2>2. PICK f \in Finalizers : Persist(f) /\ Current(fin[f]) /\ fin[f].question = q
      BY <2>1, SettledRow
    <2>3. /\ row[q].confirmedAt = fin[f].confirmedAt /\ row[q].statement = fin[f].statement
          /\ \E i \in insight' : /\ i.question = q /\ i.confirmedAt = fin[f].confirmedAt
                                 /\ i.statement = fin[f].statement
      <3>1. f \in Finalizers /\ Persist(f) /\ Current(fin[f]) /\ fin[f].question = q
        BY <2>2
      <3> QED BY <3>1, PersistAdds
    <2> QED BY <2>3
  <1>2. IInv /\ [Next]_vars => [\A q \in Questions : Kept(q)]_vars
    BY <1>1
  <1> QED BY <1>2, Invariance, PTL DEF Spec, ConfirmedNeverLost
=============================================================================
