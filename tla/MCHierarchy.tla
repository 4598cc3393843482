----------------------------- MODULE MCHierarchy -----------------------------
(* Small instances of Hierarchy for TLC.                                     *)
EXTENDS Hierarchy

CONSTANTS p1, p2, p3, p4, p5, old, U1, U2, T1

Line(p, role, u, t) == [person |-> p, role |-> role, unit |-> u, team |-> t,
                        units |-> {}, mode |-> None]
Adviser(p, role, units, mode) == [person |-> p, role |-> role, unit |-> None, team |-> None,
                                  units |-> units, mode |-> mode]

\* A unit with a team of two.
TeamFile == {Line(p1, "manager", U1, None), Line(p2, "team_lead", U1, T1),
             Line(p3, "employee", U1, T1), Line(p4, "employee", U1, T1)}
\* Two units of one employee each, one of them under an HR adviser.
UnitsFile == {Line(p1, "manager", U1, None), Line(p2, "manager", U2, None),
              Line(p3, "employee", U1, None), Line(p4, "employee", U2, None),
              Adviser(p5, "hr", {U1}, None)}
\* A unit of one employee with a business partner for it and one of the leadership.
AdvisedFile == {Line(p1, "manager", U1, None), Line(p3, "employee", U1, None),
                Adviser(p4, "leadership", {}, None), Adviser(p5, "hrbp", {U1}, "selected_units")}
\* A newcomer to the team.
LateFile == {Line(p5, "employee", U1, T1)}

TheFiles == {TeamFile, UnitsFile, AdvisedFile, LateFile}

\* Mixes of edits and changes.
TheBudgets == {[edits |-> 0, changes |-> 5], [edits |-> 1, changes |-> 3],
               [edits |-> 2, changes |-> 1]}
=============================================================================
