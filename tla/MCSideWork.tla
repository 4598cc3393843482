------------------------------ MODULE MCSideWork ------------------------------
(* Small instances of SideWork for TLC.                                      *)
EXTENDS SideWork, TLC

CONSTANTS c1, c2

TwoConsumers == {c1, c2}
Symmetry == Permutations(TwoConsumers)

\* Style analysis of both turns, or survey evidence and profile hydration of the first.
StyleOrMarks == {[m \in {1, 2} |-> {"style_analysis"}],
                 [m \in {1, 2} |-> IF m = 1 THEN {"survey_evidence", "profile_hydration"} ELSE {}]}

\* Memory extraction of one turn, alone or after survey evidence in the same loop.
MemoryOrBoth == {[m \in {1} |-> {"memory_extraction"}],
                 [m \in {1} |-> {"survey_evidence", "memory_extraction"}]}

\* Faults and flips only where memory is alone: the refused mark of evidence aborts the
\* other loop without them.  The steps this rules out are not among the fair ones.
RaceAlone == <<1, "survey_evidence">> \in rows' => faults' = 0 /\ flips' = 0
=============================================================================
