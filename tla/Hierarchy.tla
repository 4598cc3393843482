------------------------------ MODULE Hierarchy ------------------------------
(***************************************************************************)
(* The company hierarchy of one tenant: drafts, CSV imports, Slack links,  *)
(* advisory scopes, unit rollouts and the changes of a live structure, as  *)
(* the services of apps/api/src/hierarchy make them.                       *)
(*                                                                         *)
(* A serializable transaction is one action.  createUnit and createTeam    *)
(* run at the default isolation level, so that what they checked may have  *)
(* changed when they insert: two actions.                                  *)
(***************************************************************************)
EXTENDS HierarchyGraph

CONSTANTS Legacy,       \* users with a Slack account from before the hierarchy
          Files,        \* the CSV files: sets of rows
          Budgets,      \* bound: how many edits (draft operations after the first import)
                        \* and changes (of the live structure) a behaviour has
          MaxHomes      \* bound on the placement rows of a person

VARIABLES graph,     \* people, units, teams and placements
          account,   \* users.status
          linked,    \* a linked Slack account in the workspace
          assign,    \* org_advisor_assignments: the life of each pair
          scope,     \* org_hrbp_scopes
          contact,   \* org_onboarding_deliveries: pending or cancelled first contacts
          creating,  \* a unit or team whose references were checked, not yet inserted
          left       \* the edits and changes still to come

vars == <<graph, account, linked, assign, scope, contact, creating, left>>

Modes == {"all_units", "selected_units"}
Actions == {"become_employee", "deactivate"}
Row == [person : Person, role : Roles, unit : Unit \cup {None}, team : Team \cup {None},
        units : SUBSET Unit, mode : Modes \cup {None}]
ASSUME FilesAssumption == Files \subseteq SUBSET Row
ASSUME BudgetsAssumption == Budgets \subseteq [edits : Nat, changes : Nat]
ASSUME LegacyAssumption == Legacy \subseteq Person
ASSUME HomesAssumption == MaxHomes \in Nat \ {0}

NoCreate == [kind |-> "none", id |-> None, unit |-> None, owner |-> None]
NoScope == [mode |-> None, life |-> "none"]
NoContact == [status |-> "none", unit |-> None]

TypeOK ==
    /\ graph \in Graph
    /\ account \in [Person -> {"none", "inactive", "active"}]
    /\ linked \in [Person -> BOOLEAN]
    /\ assign \in [Person -> [Unit -> Lives]]
    /\ scope \in [Person -> [mode : Modes \cup {None}, life : Lives]]
    /\ contact \in [Person -> [status : {"none", "pending", "cancelled"}, unit : Unit \cup {None}]]
    /\ creating \in {NoCreate}
           \cup [kind : {"unit"}, id : Unit, unit : {None}, owner : Person \cup {None}]
           \cup [kind : {"team"}, id : Team, unit : Unit, owner : Person \cup {None}]
    /\ left \in [edits : Nat, changes : Nat]
    /\ \A p \in Person : Len(graph.homes[p]) <= MaxHomes

Init ==
    /\ graph = [people |-> [p \in Person |-> [role |-> "employee", life |-> "none"]],
                units |-> [u \in Unit |-> [manager |-> None, life |-> "none"]],
                teams |-> [t \in Team |-> [unit |-> None, lead |-> None, life |-> "none"]],
                homes |-> [p \in Person |-> <<>>]]
    /\ account = [p \in Person |-> IF p \in Legacy THEN "active" ELSE "none"]
    /\ linked = [p \in Person |-> p \in Legacy]
    /\ assign = [p \in Person |-> [u \in Unit |-> "none"]]
    /\ scope = [p \in Person |-> NoScope]
    /\ contact = [p \in Person |-> NoContact]
    /\ creating = NoCreate
    /\ left \in Budgets

(***************************************************************************)
(* Drafts.                                                                 *)
(***************************************************************************)

PersonRow(p) == graph.people[p]
Unused(p) == PersonRow(p).life = "none" /\ account[p] = "none"
LiveManager(p) == p = None \/ Holds(graph, p, "manager")
LiveLead(p) == p = None \/ Holds(graph, p, "team_lead")

Edit == left.edits > 0 /\ left' = [left EXCEPT !.edits = @ - 1]
Untouched == UNCHANGED <<account, linked, assign, scope, contact, creating>>

\* validateHierarchyCsv: people are new, each role has the columns it needs and no
\* others, owners are given to new units and teams only, teams keep their unit.
RowValid(f, r) ==
    /\ Unused(r.person)
    /\ CASE r.role = "manager" -> r.unit # None /\ r.team = None
         [] r.role = "team_lead" -> r.unit # None /\ r.team # None
         [] r.role = "employee" -> r.unit # None
         [] OTHER -> r.unit = None /\ r.team = None
    /\ r.role \in {"manager", "team_lead", "employee", "leadership"} => r.units = {}
    /\ r.role = "hr" => r.units # {}
    /\ IF r.role = "hrbp" THEN r.mode # None /\ (r.mode = "selected_units" <=> r.units # {})
                          ELSE r.mode = None
    /\ r.role = "manager" => graph.units[r.unit].life = "none"
    /\ r.role = "team_lead" => graph.teams[r.team].life = "none"
    /\ r.team # None /\ graph.teams[r.team].life # "none" => graph.teams[r.team].unit = r.unit
    /\ \A u \in r.units : graph.units[u].life # "none" \/ \E s \in f : s.unit = u

FileValid(f) ==
    /\ \A r \in f : RowValid(f, r)
    /\ \A r, s \in f :
          /\ r.person = s.person => r = s
          /\ r.role = "manager" /\ s.role = "manager" /\ r.unit = s.unit => r = s
          /\ r.role = "team_lead" /\ s.role = "team_lead" /\ r.team = s.team => r = s
          /\ r.team # None /\ r.team = s.team => r.unit = s.unit

\* The person a file names for a role of the unit (team), if any.
OwnerIn(rows) == IF rows = {} THEN None ELSE (CHOOSE r \in rows : TRUE).person

Imported(f) ==
    [people |-> [p \in Person |->
        IF \E r \in f : r.person = p
        THEN [role |-> (CHOOSE r \in f : r.person = p).role, life |-> "draft"]
        ELSE graph.people[p]],
     units |-> [u \in Unit |->
        IF graph.units[u].life = "none" /\ \E r \in f : r.unit = u
        THEN [manager |-> OwnerIn({r \in f : r.role = "manager" /\ r.unit = u}), life |-> "draft"]
        ELSE graph.units[u]],
     teams |-> [t \in Team |->
        IF graph.teams[t].life = "none" /\ \E r \in f : r.team = t
        THEN [unit |-> (CHOOSE r \in f : r.team = t).unit, life |-> "draft",
              lead |-> OwnerIn({r \in f : r.role = "team_lead" /\ r.team = t})]
        ELSE graph.teams[t]],
     homes |-> [p \in Person |->
        IF \E r \in f : r.person = p /\ r.role = "employee"
        THEN LET r == CHOOSE r \in f : r.person = p
             IN <<[unit |-> r.unit, team |-> r.team, life |-> "draft"]>>
        ELSE graph.homes[p]]]

ImportCsv(f) ==
    /\ FileValid(f)
    /\ IF \A p \in Person : PersonRow(p).life = "none" THEN UNCHANGED left ELSE Edit
    /\ graph' = Imported(f)
    /\ account' = [p \in Person |-> IF \E r \in f : r.person = p THEN "inactive" ELSE account[p]]
    /\ assign' = [p \in Person |-> [u \in Unit |->
           IF \E r \in f : r.person = p /\ u \in r.units THEN "draft" ELSE assign[p][u]]]
    /\ scope' = [p \in Person |->
           IF \E r \in f : r.person = p /\ r.role = "hrbp"
           THEN [mode |-> (CHOOSE r \in f : r.person = p).mode, life |-> "draft"]
           ELSE scope[p]]
    /\ UNCHANGED <<linked, contact, creating>>

CreatePerson(p, role) ==
    /\ Edit
    /\ Unused(p)
    /\ graph' = [graph EXCEPT !.people[p] = [role |-> role, life |-> "draft"]]
    /\ account' = [account EXCEPT ![p] = "inactive"]
    /\ UNCHANGED <<linked, assign, scope, contact, creating>>

CreateUnitCheck(u, m) ==
    /\ Edit
    /\ creating = NoCreate
    /\ LiveManager(m)
    /\ creating' = [kind |-> "unit", id |-> u, unit |-> None, owner |-> m]
    /\ UNCHANGED <<graph, account, linked, assign, scope, contact>>

CreateTeamCheck(t, u, l) ==
    /\ Edit
    /\ creating = NoCreate
    /\ Live(graph.units[u])
    /\ LiveLead(l)
    /\ creating' = [kind |-> "team", id |-> t, unit |-> u, owner |-> l]
    /\ UNCHANGED <<graph, account, linked, assign, scope, contact>>

\* The insert meets the unique key of an existing unit or team and fails, or goes in.
CreateInsert ==
    /\ creating # NoCreate
    /\ creating' = NoCreate
    /\ graph' =
        CASE creating.kind = "unit" /\ graph.units[creating.id].life = "none" ->
               [graph EXCEPT !.units[creating.id] = [manager |-> creating.owner, life |-> "draft"]]
          [] creating.kind = "team" /\ graph.teams[creating.id].life = "none" ->
               [graph EXCEPT !.teams[creating.id] =
                    [unit |-> creating.unit, lead |-> creating.owner, life |-> "draft"]]
          [] OTHER -> graph
    /\ UNCHANGED <<account, linked, assign, scope, contact, left>>

\* updatePerson: a draft changes role only when nothing refers to it in the old one.
UpdatePerson(p, role) ==
    /\ Edit
    /\ PersonRow(p).life = "draft"
    /\ role # PersonRow(p).role
    /\ (\E u \in Unit : graph.units[u].manager = p /\ Live(graph.units[u])) => role = "manager"
    /\ (\E t \in Team : graph.teams[t].lead = p /\ Live(graph.teams[t])) => role = "team_lead"
    /\ (\E home \in HomesOf(graph, p) : Live(home)) => role = "employee"
    /\ (\E u \in Unit : assign[p][u] \in {"draft", "active"}) => role \in {"hr", "hrbp"}
    /\ Live(scope[p]) => role = "hrbp"
    /\ graph' = [graph EXCEPT !.people[p].role = role]
    /\ Untouched

UpdateUnit(u, m) ==
    /\ Edit
    /\ graph.units[u].life = "draft"
    /\ LiveManager(m)
    /\ graph' = [graph EXCEPT !.units[u].manager = m]
    /\ Untouched

\* updateTeam: the placements of the team, ended ones too, follow it into another unit.
UpdateTeam(t, u, l) ==
    /\ Edit
    /\ graph.teams[t].life = "draft"
    /\ Live(graph.units[u])
    /\ LiveLead(l)
    /\ u # graph.teams[t].unit =>
          \A p \in Person : \A home \in HomesOf(graph, p) : home.team = t => ~Active(home)
    /\ graph' = [ChangeHomes(graph, LAMBDA p, home :
                     IF home.team = t THEN [home EXCEPT !.unit = u] ELSE home)
                 EXCEPT !.teams[t].unit = u, !.teams[t].lead = l]
    /\ Untouched

\* replaceDraftPlacement: the one live placement of a draft employee is changed, ended
\* (u = None) or inserted.
ReplaceDraftPlacement(p, u, t) ==
    LET live == {i \in DOMAIN graph.homes[p] : Live(graph.homes[p][i])} IN
    /\ Edit
    /\ PersonRow(p) = [role |-> "employee", life |-> "draft"]
    /\ Cardinality(live) <= 1
    /\ \A i \in live : graph.homes[p][i].life = "draft"
    /\ t # None => u # None /\ Live(graph.teams[t]) /\ graph.teams[t].unit = u
    /\ u # None => Live(graph.units[u])
    /\ live = {} => u # None /\ Len(graph.homes[p]) < MaxHomes
    /\ graph' = IF live = {} THEN AddHome(graph, p, u, t, "draft")
                ELSE ChangeHomes(graph, LAMBDA q, home :
                         IF q # p \/ ~Live(home) THEN home
                         ELSE IF u = None THEN [home EXCEPT !.life = "inactive"]
                         ELSE [home EXCEPT !.unit = u, !.team = t])
    /\ Untouched

\* persistLink and unlinkDraft: drafts only.
LinkSlack(p) ==
    /\ PersonRow(p).life = "draft"
    /\ ~linked[p]
    /\ linked' = [linked EXCEPT ![p] = TRUE]
    /\ UNCHANGED <<graph, account, assign, scope, contact, creating, left>>

UnlinkSlack(p) ==
    /\ Edit
    /\ PersonRow(p).life = "draft"
    /\ linked[p]
    /\ linked' = [linked EXCEPT ![p] = FALSE]
    /\ UNCHANGED <<graph, account, assign, scope, contact, creating>>

\* replaceScope: an active adviser keeps at least one unit, and only active ones.
ReplaceScope(p, mode, units) ==
    LET active == Active(PersonRow(p))
        target == IF active THEN "active" ELSE "draft"
    IN
    /\ Edit
    /\ Live(PersonRow(p))
    /\ PersonRow(p).role \in {"hr", "hrbp"}
    /\ PersonRow(p).role = "hr" => mode = "selected_units"
    /\ mode = "all_units" => units = {}
    /\ mode = "selected_units" /\ active => units # {}
    /\ \A u \in units : Live(graph.units[u]) /\ (active => Active(graph.units[u]))
    /\ assign' = [assign EXCEPT ![p] = [u \in Unit |->
           IF u \in units THEN target ELSE IF @[u] = "none" THEN "none" ELSE "inactive"]]
    /\ scope' = IF PersonRow(p).role = "hr" THEN scope
                ELSE [scope EXCEPT ![p] = [mode |-> mode,
                        life |-> IF ~active /\ mode = "selected_units" /\ units = {}
                                 THEN "inactive" ELSE target]]
    /\ UNCHANGED <<graph, account, linked, contact, creating>>

(***************************************************************************)
(* Rollout.                                                                *)
(***************************************************************************)

\* Who the rollout can reach: users.deletedAt is never set, no mounted route erases a user.
Reach == {p \in Person : linked[p] /\ account[p] \in {"active", "inactive"}}

\* The advisers whose rollout the unit brings along.
Assigned(g, p, u) ==
    /\ assign[p][u] \in {"draft", "active"}
    /\ \/ Holds(g, p, "hr")
       \/ Holds(g, p, "hrbp") /\ Live(scope[p]) /\ scope[p].mode = "selected_units"

Advisers(g, u) ==
    {p \in Person : \/ Assigned(g, p, u)
                    \/ Holds(g, p, "hrbp") /\ Live(scope[p]) /\ scope[p].mode = "all_units"
                    \/ Holds(g, p, "leadership")}

\* adoptLegacyEmployee: a user from before the hierarchy becomes a draft employee of u.
CanAdopt(p, u) == /\ account[p] = "active" /\ linked[p]
                  /\ PersonRow(p).life = "none"
                  /\ Live(graph.units[u])
                  /\ Len(graph.homes[p]) < MaxHomes

Adopted(p, u) == AddHome([graph EXCEPT !.people[p] = [role |-> "employee", life |-> "draft"]],
                         p, u, None, "draft")

PeopleOf(g, batch) ==
    LET reach == Reach IN [u \in batch |-> Activated(g, reach, u, Advisers(g, u))]

\* The rows activateRows sets active: the placements of the activated people in the unit,
\* direct or of a team that is ready, whatever their life was.
RolledOut(g, batch) ==
    LET people == PeopleOf(g, batch)
        teams == UNION {ReadyTeams(g, Reach, u) : u \in batch}
        Joins(p, home) == /\ home.unit \in batch
                          /\ p \in people[home.unit]
                          /\ home.team \in teams \cup {None}
    IN ChangeHomes(
           [g EXCEPT
               !.people = [p \in Person |-> IF \E u \in batch : p \in people[u]
                               THEN [g.people[p] EXCEPT !.life = "active"] ELSE g.people[p]],
               !.units = [u \in Unit |-> IF u \in batch
                               THEN [g.units[u] EXCEPT !.life = "active"] ELSE g.units[u]],
               !.teams = [t \in Team |-> IF t \in teams
                               THEN [g.teams[t] EXCEPT !.life = "active"] ELSE g.teams[t]]],
           LAMBDA p, home : IF Joins(p, home) THEN [home EXCEPT !.life = "active"] ELSE home)

Change == left.changes > 0 /\ left' = [left EXCEPT !.changes = @ - 1]

\* activateUnits from the graph g: every unit of the batch is ready, and all go out.
Rollout(g, batch) ==
    LET people == PeopleOf(g, batch)
        new == {p \in Person : g.people[p].life = "draft" /\ \E u \in batch : p \in people[u]}
    IN
    /\ Change
    /\ \A u \in batch : UnitReady(g, Reach, u)
    /\ IndexesHold(RolledOut(g, batch))
    /\ graph' = RolledOut(g, batch)
    /\ account' = [p \in Person |-> IF \E u \in batch : p \in people[u] THEN "active" ELSE account[p]]
    /\ assign' = [p \in Person |-> [u \in Unit |->
           IF u \in batch /\ p \in people[u] /\ Assigned(g, p, u) THEN "active" ELSE assign[p][u]]]
    /\ scope' = [p \in Person |->
           IF Holds(g, p, "hrbp") /\ Live(scope[p]) /\ \E u \in batch : p \in people[u]
           THEN [scope[p] EXCEPT !.life = "active"] ELSE scope[p]]
    /\ \E first \in [new -> batch] :
          /\ \A p \in new : p \in people[first[p]]
          /\ contact' = [p \in Person |-> IF p \in new /\ contact[p].status = "none"
                             THEN [status |-> "pending", unit |-> first[p]] ELSE contact[p]]
    /\ UNCHANGED <<linked, creating>>

ActivateUnits(batch) == Rollout(graph, batch)

ActivateAdopting(batch, p, u) ==
    /\ u \in batch
    /\ CanAdopt(p, u)
    /\ Rollout(Adopted(p, u), batch)

(***************************************************************************)
(* Changes of the live structure.                                          *)
(***************************************************************************)

MoveEmployee(p, u, t) ==
    /\ Change
    /\ CanMove(graph, p, u, t)
    /\ graph' = Moved(graph, p, u, t)
    /\ Untouched

\* Mutated Leaves: the first contact is not called off.
LeavesGreeted(p) ==
    /\ account' = [account EXCEPT ![p] = "inactive"]
    /\ UNCHANGED contact

\* The account of one who leaves is closed and the first contact called off.
Leaves(p) ==
    /\ account' = [account EXCEPT ![p] = "inactive"]
    /\ contact' = [contact EXCEPT ![p].status = IF @ = "pending" THEN "cancelled" ELSE @]

StepsDown(p, action) ==
    /\ action = "deactivate" => Leaves(p)
    /\ action = "become_employee" => UNCHANGED <<account, contact>>
    /\ action = "become_employee" => Len(graph.homes[p]) < MaxHomes

PromoteTeamLead(t, p, action) ==
    /\ Change
    /\ CanPromoteLead(graph, t, p, action)
    /\ graph' = LeadPromoted(graph, t, p, action)
    /\ StepsDown(graph.teams[t].lead, action)
    /\ UNCHANGED <<linked, assign, scope, creating>>

PromoteManager(u, p, action) ==
    /\ Change
    /\ CanPromoteManager(graph, u, p, action)
    /\ graph' = ManagerPromoted(graph, u, p, action)
    /\ StepsDown(graph.units[u].manager, action)
    /\ UNCHANGED <<linked, assign, scope, creating>>

DeactivateTeam(t, action) ==
    /\ Change
    /\ CanCloseTeam(graph, t, action)
    /\ graph' = TeamClosed(graph, t, action)
    /\ StepsDown(graph.teams[t].lead, action)
    /\ UNCHANGED <<linked, assign, scope, creating>>

\* Mutated MergedAssign: only those with a row of the target are merged.
MergedAssignKnown(source, target) ==
    [p \in Person |->
        IF assign[p][source] \notin {"draft", "active"} \/ assign[p][target] = "none" THEN assign[p]
        ELSE [assign[p] EXCEPT
                 ![target] = IF "active" \in {@, assign[p][source]} THEN "active" ELSE "draft",
                 ![source] = "inactive"]]

\* The advisory assignments of the source are merged into those of the target.
MergedAssign(source, target) ==
    [p \in Person |->
        IF assign[p][source] \notin {"draft", "active"} THEN assign[p]
        ELSE [assign[p] EXCEPT
                 ![target] = IF "active" \in {@, assign[p][source]} THEN "active" ELSE "draft",
                 ![source] = IF assign[p][target] = "none" THEN "none" ELSE "inactive"]]

TransferAndDeactivateUnit(source, target, action) ==
    LET m == graph.units[source].manager IN
    /\ Change
    /\ CanTransfer(graph, source, target, action)
    /\ action = "become_employee" => Len(graph.homes[m]) < MaxHomes
    /\ graph' = Transferred(graph, source, target, action)
    /\ account' = IF action = "deactivate" THEN [account EXCEPT ![m] = "inactive"] ELSE account
    /\ contact' = [p \in Person |->
           IF contact[p].status # "pending" THEN contact[p]
           ELSE IF p = m /\ action = "deactivate" THEN [contact[p] EXCEPT !.status = "cancelled"]
           ELSE IF contact[p].unit = source THEN [contact[p] EXCEPT !.unit = target]
           ELSE contact[p]]
    /\ assign' = MergedAssign(source, target)
    /\ UNCHANGED <<linked, scope, creating>>

\* deactivatePerson: owners are replaced first, and the last of the leadership stays.
DeactivatePerson(p) ==
    LET role == PersonRow(p).role
        Ended(row) == IF Live(row) THEN [row EXCEPT !.life = "inactive"] ELSE row
    IN
    /\ Change
    /\ Active(PersonRow(p))
    /\ role \notin {"team_lead", "manager"}
    /\ role = "employee" => CanDeactivateEmployee(graph, p)
    /\ role = "leadership" => \/ ActiveUnits(graph) = {}
                              \/ Cardinality(ActivePeople(graph, "leadership")) > 1
    /\ graph' = IF role = "employee" THEN EmployeeGone(graph, p)
                ELSE [graph EXCEPT !.people[p].life = "inactive"]
    /\ Leaves(p)
    /\ assign' = IF role \notin {"hr", "hrbp"} THEN assign
                 ELSE [assign EXCEPT ![p] = [u \in Unit |->
                          IF @[u] \in {"draft", "active"} THEN "inactive" ELSE @[u]]]
    /\ scope' = IF role = "hrbp" THEN [scope EXCEPT ![p] = Ended(@)] ELSE scope
    /\ UNCHANGED <<linked, creating>>

Drafting ==
    \/ \E f \in Files : ImportCsv(f)
    \/ \E p \in Person, role \in Roles : CreatePerson(p, role) \/ UpdatePerson(p, role)
    \/ \E u \in Unit, m \in Person \cup {None} : CreateUnitCheck(u, m) \/ UpdateUnit(u, m)
    \/ \E t \in Team, u \in Unit, l \in Person \cup {None} :
          CreateTeamCheck(t, u, l) \/ UpdateTeam(t, u, l)
    \/ CreateInsert
    \/ \E p \in Person, u \in Unit \cup {None}, t \in Team \cup {None} :
          ReplaceDraftPlacement(p, u, t)
    \/ \E p \in Person : LinkSlack(p) \/ UnlinkSlack(p)
    \/ \E p \in Person, mode \in Modes, units \in SUBSET Unit : ReplaceScope(p, mode, units)

Changing ==
    \/ \E batch \in SUBSET Unit \ {{}} : ActivateUnits(batch)
    \/ \E batch \in SUBSET Unit \ {{}}, p \in Legacy, u \in Unit : ActivateAdopting(batch, p, u)
    \/ \E p \in Person, u \in Unit, t \in Team \cup {None} : MoveEmployee(p, u, t)
    \/ \E t \in Team, p \in Person, action \in Actions : PromoteTeamLead(t, p, action)
    \/ \E u \in Unit, p \in Person, action \in Actions : PromoteManager(u, p, action)
    \/ \E t \in Team, action \in Actions : DeactivateTeam(t, action)
    \/ \E s, t \in Unit, action \in Actions : TransferAndDeactivateUnit(s, t, action)
    \/ \E p \in Person : DeactivatePerson(p)

Next == Drafting \/ Changing

Spec == Init /\ [][Next]_vars

(***************************************************************************)
(* Properties.                                                             *)
(***************************************************************************)

\* A rollout sets the ended placement of a promoted owner active again: the placements of
\* those who are no employees are left out here, and LeadIsNotMember is about them.
EmployeesOnly(g) ==
    ChangeHomes(g, LAMBDA p, home : IF g.people[p].role # "employee" /\ Active(home)
                                    THEN [home EXCEPT !.life = "inactive"] ELSE home)

\* Drafts, rollouts and changes in any order leave an active structure the planners accept:
\* each unit with its manager and somebody in it, each team in an active unit with its lead
\* and a member, each active person with exactly one home (validateActiveHierarchy).  The
\* unique indexes may refuse a rollout and nothing else: no draft, promotion, move or
\* transfer runs against them, the placements left from an earlier role included.
ActiveStructureHolds == ValidActive(EmployeesOnly(graph)) /\ IndexesHold(graph)

\* An active assignment is one of an active adviser to an active unit; an active adviser of
\* selected units has one, and one of all units has none.  Rollout, replaceScope, transfer
\* and deactivation each keep their part of it.
AdvisoryScopeIsLive ==
    \A p \in Person :
        LET units == {u \in Unit : assign[p][u] = "active"}
            person == graph.people[p]
        IN
        /\ units # {} => Active(person) /\ person.role \in {"hr", "hrbp"}
        /\ units \subseteq ActiveUnits(graph)
        /\ Active(person) /\ person.role = "hr" => units # {}
        /\ Active(person) /\ person.role = "hrbp" =>
              /\ scope[p].life = "active"
              /\ (scope[p].mode = "selected_units") <=> (units # {})

\* A first contact waits only for an active person and in an active unit: those who leave
\* are not greeted, and a transferred unit takes its greetings along.
ContactsFollowPeople ==
    \A p \in Person : contact[p].status = "pending" =>
        /\ Active(graph.people[p])
        /\ Active(graph.units[contact[p].unit])

\* No operation takes back an exit: who or what became inactive stays so, whatever draft
\* still refers to it, and the account of one who left is never reopened.
Exits ==
    /\ \A p \in Person : graph.people[p].life = "inactive" =>
          graph'.people[p].life = "inactive" /\ account'[p] # "active"
    /\ \A u \in Unit : graph.units[u].life = "inactive" => graph'.units[u].life = "inactive"
    /\ \A t \in Team : graph.teams[t].life = "inactive" => graph'.teams[t].life = "inactive"
ExitIsFinal == [][Exits]_vars

\* "A Team Lead is not an Employee member of the Team they lead."
LeadIsNotMember ==
    \A t \in ActiveTeams(graph) : \A p \in Person :
        p = graph.teams[t].lead => \A i \in ActiveRows(graph, p) : graph.homes[p][i].team # t
=============================================================================
