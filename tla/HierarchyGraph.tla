---------------------------- MODULE HierarchyGraph ----------------------------
(***************************************************************************)
(* The company structure as the planners see it: the pure functions of     *)
(* packages/application/src/hierarchy over one snapshot of the tables.     *)
(*                                                                         *)
(* A graph is a record of four tables.  people[p] has a role and a life;   *)
(* units[u] a manager and a life; teams[t] a unit, a lead and a life;      *)
(* homes[p] is the sequence of the placement rows of p (a unit, a team or  *)
(* None, and a life), oldest first.  The life "none" is a row not yet      *)
(* inserted.  One tenant: the tenant checks of the code never fail.        *)
(***************************************************************************)
EXTENDS Integers, FiniteSets, Sequences

CONSTANTS Person, Unit, Team,
          None      \* no manager, no lead, no team

ASSUME NoneAssumption == None \notin Person \cup Unit \cup Team
ASSUME FiniteAssumption == IsFiniteSet(Unit) /\ IsFiniteSet(Team)

Roles == {"manager", "team_lead", "employee", "hr", "hrbp", "leadership"}
Lives == {"none", "draft", "active", "inactive"}
Home == [unit : Unit, team : Team \cup {None}, life : Lives \ {"none"}]
Graph == [people : [Person -> [role : Roles, life : Lives]],
          units : [Unit -> [manager : Person \cup {None}, life : Lives]],
          teams : [Team -> [unit : Unit \cup {None}, lead : Person \cup {None}, life : Lives]],
          homes : [Person -> Seq(Home)]]

Live(row) == row.life \in {"draft", "active"}
Active(row) == row.life = "active"

ActivePeople(g, role) == {p \in Person : Active(g.people[p]) /\ g.people[p].role = role}
ActiveUnits(g) == {u \in Unit : Active(g.units[u])}
ActiveTeams(g) == {t \in Team : Active(g.teams[t])}
HomesOf(g, p) == {g.homes[p][i] : i \in DOMAIN g.homes[p]}
ActiveRows(g, p) == {i \in DOMAIN g.homes[p] : Active(g.homes[p][i])}

(***************************************************************************)
(* validateActiveHierarchy: what must hold of the active part.             *)
(***************************************************************************)

OwnersHold(g) ==
    /\ \A u \in ActiveUnits(g) : g.units[u].manager \in ActivePeople(g, "manager")
    /\ \A t \in ActiveTeams(g) : /\ g.teams[t].unit \in ActiveUnits(g)
                                 /\ g.teams[t].lead \in ActivePeople(g, "team_lead")

HomesHold(g) ==
    \A p \in Person : \A i \in ActiveRows(g, p) :
        LET home == g.homes[p][i] IN
        /\ p \in ActivePeople(g, "employee")
        /\ home.unit \in ActiveUnits(g)
        /\ home.team # None => /\ home.team \in ActiveTeams(g)
                               /\ g.teams[home.team].unit = home.unit

NobodyAlone(g) ==
    /\ \A t \in ActiveTeams(g) :
          \E p \in Person : \E i \in ActiveRows(g, p) : g.homes[p][i].team = t
    /\ \A u \in ActiveUnits(g) :
          \/ \E t \in ActiveTeams(g) : g.teams[t].unit = u
          \/ \E p \in Person : \E i \in ActiveRows(g, p) : g.homes[p][i].unit = u

OneHomeEach(g) ==
    /\ \A p \in ActivePeople(g, "manager") :
          Cardinality({u \in ActiveUnits(g) : g.units[u].manager = p}) = 1
    /\ \A p \in ActivePeople(g, "team_lead") :
          Cardinality({t \in ActiveTeams(g) : g.teams[t].lead = p}) = 1
    /\ \A p \in ActivePeople(g, "employee") : Cardinality(ActiveRows(g, p)) = 1

ValidActive(g) == OwnersHold(g) /\ HomesHold(g) /\ NobodyAlone(g) /\ OneHomeEach(g)

\* The partial unique indexes of the tables: no transaction commits against them.
IndexesHold(g) ==
    /\ \A u, v \in ActiveUnits(g) : g.units[u].manager = g.units[v].manager => u = v
    /\ \A s, t \in ActiveTeams(g) : g.teams[s].lead = g.teams[t].lead => s = t
    /\ \A p \in Person : Cardinality(ActiveRows(g, p)) <= 1

(***************************************************************************)
(* The proposed graphs of the typed mutations.                             *)
(***************************************************************************)

ChangeHomes(g, Changed(_, _)) ==
    [g EXCEPT !.homes = [p \in Person |->
        [i \in DOMAIN g.homes[p] |-> Changed(p, g.homes[p][i])]]]

\* Mutated AddHome: unit and team swapped.
AddHomeSwapped(g, p, unit, team, life) ==
    [g EXCEPT !.homes[p] = Append(@, [unit |-> team, team |-> unit, life |-> life])]

AddHome(g, p, unit, team, life) ==
    [g EXCEPT !.homes[p] = Append(@, [unit |-> unit, team |-> team, life |-> life])]

\* The active placements of p end.
EndHome(g, p) ==
    ChangeHomes(g, LAMBDA q, home :
        IF q = p /\ Active(home) THEN [home EXCEPT !.life = "inactive"] ELSE home)

\* The previous owner p becomes a member of the unit (of the team), or leaves.
StepDown(g, p, action, unit, team) ==
    IF action = "become_employee"
    THEN AddHome([g EXCEPT !.people[p].role = "employee"], p, unit, team, "active")
    ELSE [g EXCEPT !.people[p].life = "inactive"]

Moved(g, p, unit, team) ==
    ChangeHomes(g, LAMBDA q, home :
        IF q = p /\ Active(home) THEN [home EXCEPT !.unit = unit, !.team = team] ELSE home)

\* Mutated CanMove: what the move leaves behind is not validated.
CanMoveUnchecked(g, p, unit, team) ==
    /\ p \in ActivePeople(g, "employee")
    /\ Cardinality(ActiveRows(g, p)) = 1
    /\ unit \in ActiveUnits(g)
    /\ team # None => team \in ActiveTeams(g) /\ g.teams[team].unit = unit
    /\ Moved(g, p, unit, team) # g

CanMove(g, p, unit, team) ==
    /\ p \in ActivePeople(g, "employee")
    /\ Cardinality(ActiveRows(g, p)) = 1
    /\ unit \in ActiveUnits(g)
    /\ team # None => team \in ActiveTeams(g) /\ g.teams[team].unit = unit
    /\ Moved(g, p, unit, team) # g
    /\ ValidActive(Moved(g, p, unit, team))

EmployeeGone(g, p) == EndHome([g EXCEPT !.people[p].life = "inactive"], p)

CanDeactivateEmployee(g, p) ==
    /\ p \in ActivePeople(g, "employee")
    /\ Cardinality(ActiveRows(g, p)) = 1
    /\ ValidActive(EmployeeGone(g, p))

LeadPromoted(g, t, p, action) ==
    StepDown([EndHome(g, p) EXCEPT !.people[p].role = "team_lead", !.teams[t].lead = p],
             g.teams[t].lead, action, g.teams[t].unit, t)

CanPromoteLead(g, t, p, action) ==
    /\ t \in ActiveTeams(g)
    /\ g.teams[t].lead \in ActivePeople(g, "team_lead")
    /\ p \in ActivePeople(g, "employee")
    /\ \E i \in ActiveRows(g, p) : /\ g.homes[p][i].unit = g.teams[t].unit
                                   /\ g.homes[p][i].team = t
    /\ ValidActive(LeadPromoted(g, t, p, action))

ManagerPromoted(g, u, p, action) ==
    StepDown([EndHome(g, p) EXCEPT !.people[p].role = "manager", !.units[u].manager = p],
             g.units[u].manager, action, u, None)

CanPromoteManager(g, u, p, action) ==
    /\ u \in ActiveUnits(g)
    /\ g.units[u].manager \in ActivePeople(g, "manager")
    /\ p \in ActivePeople(g, "employee")
    /\ \E i \in ActiveRows(g, p) : g.homes[p][i].unit = u
    /\ ValidActive(ManagerPromoted(g, u, p, action))

\* The members of a closed team stay in its unit.
TeamClosed(g, t, action) ==
    StepDown(ChangeHomes([g EXCEPT !.teams[t].life = "inactive"], LAMBDA q, home :
                 IF home.team = t /\ Live(home) THEN [home EXCEPT !.team = None] ELSE home),
             g.teams[t].lead, action, g.teams[t].unit, None)

CanCloseTeam(g, t, action) ==
    /\ t \in ActiveTeams(g)
    /\ g.teams[t].lead \in ActivePeople(g, "team_lead")
    /\ g.teams[t].unit \in ActiveUnits(g)
    /\ ValidActive(TeamClosed(g, t, action))

\* The teams and people of source follow into target.  An ended placement follows its
\* team; a live one whose team does not follow loses it.
Transferred(g, source, target, action) ==
    LET moved == {t \in Team : g.teams[t].unit = source /\ Live(g.teams[t])}
        Follow(home) == [home EXCEPT !.unit = target,
                                     !.team = IF @ \in moved THEN @ ELSE None]
        owned == [g EXCEPT !.units[source].life = "inactive",
                           !.teams = [t \in Team |-> IF t \in moved
                                          THEN [g.teams[t] EXCEPT !.unit = target]
                                          ELSE g.teams[t]]]
    IN StepDown(ChangeHomes(owned, LAMBDA q, home :
                    IF home.unit = source /\ (Live(home) \/ home.team \in moved)
                    THEN Follow(home) ELSE home),
                g.units[source].manager, action, target, None)

CanTransfer(g, source, target, action) ==
    /\ source # target
    /\ {source, target} \subseteq ActiveUnits(g)
    /\ g.units[source].manager \in ActivePeople(g, "manager")
    /\ ValidActive(Transferred(g, source, target, action))

(***************************************************************************)
(* planUnitActivation, for the people in reach (linked to a Slack account  *)
(* of a user that is not deleted).                                         *)
(***************************************************************************)

\* Mutated Holds: the role alone counts.
HoldsAnyLife(g, p, role) == p \in Person /\ g.people[p].life # "none" /\ g.people[p].role = role

\* p may hold the role: a row of that role that has not left.
Holds(g, p, role) == p \in Person /\ Live(g.people[p]) /\ g.people[p].role = role
Ready(g, reach, p, role) == Holds(g, p, role) /\ p \in reach

ReadyIn(g, reach, u, team) ==
    {p \in reach : /\ Holds(g, p, "employee")
                   /\ \E home \in HomesOf(g, p) :
                         Live(home) /\ home.unit = u /\ home.team = team}

LiveTeams(g, u) == {t \in Team : g.teams[t].unit = u /\ Live(g.teams[t])}

ReadyTeams(g, reach, u) ==
    {t \in LiveTeams(g, u) : /\ Ready(g, reach, g.teams[t].lead, "team_lead")
                             /\ ReadyIn(g, reach, u, t) # {}}

\* The structural blockers; an unlinked member only waits.
UnitSound(g, reach, u) ==
    /\ \A p \in Person :
          LET rows == {i \in DOMAIN g.homes[p] : g.homes[p][i].unit = u /\ Live(g.homes[p][i])} IN
          /\ rows # {} => Holds(g, p, "employee")
          /\ Cardinality(rows) <= 1
          /\ p \in reach => \A i \in rows :
                g.homes[p][i].team \in LiveTeams(g, u) \cup {None}
    /\ \A t \in LiveTeams(g, u) :
          /\ g.teams[t].lead # None => Holds(g, g.teams[t].lead, "team_lead")
          /\ Active(g.teams[t]) => t \in ReadyTeams(g, reach, u)
    /\ \A s, t \in LiveTeams(g, u) :
          (g.teams[s].lead = g.teams[t].lead /\ g.teams[s].lead \in reach) => s = t

UnitReady(g, reach, u) ==
    /\ Live(g.units[u])
    /\ Ready(g, reach, g.units[u].manager, "manager")
    /\ UnitSound(g, reach, u)
    /\ ReadyIn(g, reach, u, None) # {} \/ ReadyTeams(g, reach, u) # {}

\* Whom a rollout of u activates; advisers are those in scope of u.
Activated(g, reach, u, advisers) ==
    {g.units[u].manager} \cup ReadyIn(g, reach, u, None) \cup (advisers \cap reach)
        \cup UNION {{g.teams[t].lead} \cup ReadyIn(g, reach, u, t) : t \in ReadyTeams(g, reach, u)}
=============================================================================
