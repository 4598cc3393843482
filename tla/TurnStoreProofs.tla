--------------------------- MODULE TurnStoreProofs ---------------------------
(***************************************************************************)
(* Lemmas about the shared store: its operations keep it well-typed.       *)
(***************************************************************************)
EXTENDS TurnStore, TLAPS

LEMMA StoreInitTypes == StoreInit => StoreTypeOK
  BY BoundsAssumption DEF StoreInit, StoreTypeOK, Kinds

LEMMA FlipTypes == StoreTypeOK /\ FlipEligibility => StoreTypeOK'
  BY BoundsAssumption DEF FlipEligibility, StoreTypeOK

\* A bounded counter that takes one step below its bound stays in range.
LEMMA FaultTypes == faults \in 0..MaxFaults /\ Fault => faults' \in 0..MaxFaults
  BY BoundsAssumption DEF Fault

LEMMA RecordTypes ==
  ASSUME StoreTypeOK, NEW m \in Messages, NEW text \in Texts, NEW kinds,
         RecordCommittedTurn(m, text, kinds)
  PROVE  /\ effect' \in [Messages -> Texts \union {"none"}]
         /\ intent' \in [Messages -> [Kinds -> {"absent", "pending", "queued"}]]
  <1>1. effect' \in [Messages -> Texts \union {"none"}]
    BY DEF StoreTypeOK, RecordCommittedTurn
  <1>2. [k \in Kinds |-> IF k \in kinds THEN "pending" ELSE "absent"]
          \in [Kinds -> {"absent", "pending", "queued"}]
    OBVIOUS
  <1>3. intent' \in [Messages -> [Kinds -> {"absent", "pending", "queued"}]]
    BY <1>2 DEF StoreTypeOK, RecordCommittedTurn
  <1> QED BY <1>1, <1>3

LEMMA EnqueueTypes ==
  ASSUME StoreTypeOK, NEW m \in Messages, NEW k \in Kinds, EnqueueDispatch(m, k)
  PROVE  added' \in [Messages -> SUBSET Kinds]
  <1>1. added[m] \union {k} \in SUBSET Kinds
    BY DEF StoreTypeOK
  <1> QED BY <1>1 DEF StoreTypeOK, EnqueueDispatch

LEMMA MarkTypes ==
  ASSUME StoreTypeOK, NEW m \in Messages, NEW k \in Kinds,
         MarkCommittedDispatchQueued(m, k)
  PROVE  intent' \in [Messages -> [Kinds -> {"absent", "pending", "queued"}]]
  <1>1. [intent[m] EXCEPT ![k] = "queued"] \in [Kinds -> {"absent", "pending", "queued"}]
    BY DEF StoreTypeOK
  <1>2. intent' = [intent EXCEPT ![m] = [intent[m] EXCEPT ![k] = "queued"]]
    BY DEF MarkCommittedDispatchQueued
  <1> QED BY <1>1, <1>2 DEF StoreTypeOK
=============================================================================
