---------------------------- MODULE HierarchyProofs ----------------------------
(***************************************************************************)
(* Proofs about Hierarchy: its types, that an exit is final, that first    *)
(* contacts follow people and units, that advice is live, and that the     *)
(* active structure stays valid.                                           *)
(*                                                                         *)
(* Every operator on graphs is first shown to keep the shape of the tables *)
(* and to move no life but where it says; the actions follow from that.    *)
(* The structure needs two facts more: what a draft touches is not active  *)
(* (Rows, DraftGraph), and what the readiness of a unit gives a rollout    *)
(* (Structure, without the counts), which the unique indexes make one each.*)
(***************************************************************************)
EXTENDS Hierarchy, FiniteSetTheorems, TLAPS

(***************************************************************************)
(* Graphs.                                                                 *)
(***************************************************************************)

Bounded(h) == h \in Seq(Home) /\ Len(h) <= MaxHomes
PeopleTable == [Person -> [role : Roles, life : Lives]]
UnitTable == [Unit -> [manager : Person \cup {None}, life : Lives]]
TeamTable == [Team -> [unit : Unit \cup {None}, lead : Person \cup {None}, life : Lives]]
GraphOK(g) ==
    /\ g \in [people : PeopleTable, units : UnitTable, teams : TeamTable,
              homes : [Person -> Seq(Home)]]
    /\ \A p \in Person : Len(g.homes[p]) <= MaxHomes

\* Rewriting the rows of a person in place keeps their number.
LEMMA MappedHomes ==
    ASSUME NEW h \in Seq(Home), NEW k, k = [i \in DOMAIN h |-> k[i]],
           \A i \in DOMAIN h : k[i] \in Home
    PROVE  k \in Seq(Home) /\ Len(k) = Len(h)
<1>1. Len(h) \in Nat /\ DOMAIN h = 1..Len(h) OBVIOUS
<1>2. k \in [1..Len(h) -> Home] BY <1>1
<1> QED BY <1>1, <1>2

\* k holds the placements of g, each rewritten in place.
Rewritten(g, k) ==
    /\ k = [p \in Person |-> [i \in DOMAIN g.homes[p] |-> k[p][i]]]
    /\ \A p \in Person : \A i \in DOMAIN g.homes[p] : k[p][i] \in Home

\* h is g with the lives of P, U and T ended and nobody else's changed.
Ended(g, h, P, U, T) ==
    /\ \A p \in Person : h.people[p].life = IF p \in P THEN "inactive" ELSE g.people[p].life
    /\ \A u \in Unit : h.units[u].life = IF u \in U THEN "inactive" ELSE g.units[u].life
    /\ \A t \in Team : h.teams[t].life = IF t \in T THEN "inactive" ELSE g.teams[t].life

\* h differs from g in the contents of its placements alone.
OnlyHomes(g, h) ==
    /\ GraphOK(h)
    /\ h.people = g.people /\ h.units = g.units /\ h.teams = g.teams
    /\ \A p \in Person : Len(h.homes[p]) = Len(g.homes[p])

\* An active adviser.
Adviser(row) == Active(row) /\ row.role \in {"hr", "hrbp"}

\* h differs from g in the people of P alone, who are no advisers of h.
NoAdvisers(g, h, P) ==
    \A p \in Person : h.people[p] = g.people[p] \/ (p \in P /\ ~Adviser(h.people[p]))

\* No active row of one who never went out, and every row in the unit of its team.
Rows(g) ==
    \A p \in Person : \A i \in DOMAIN g.homes[p] :
        /\ Active(g.homes[p][i]) => g.people[p].life \notin {"none", "draft"}
        /\ g.homes[p][i].team # None =>
              /\ g.teams[g.homes[p][i].team].life # "none"
              /\ g.teams[g.homes[p][i].team].unit = g.homes[p][i].unit

\* The rows of h are those of g, ended or taken out of their team.
Eased(g, h) ==
    \A p \in Person :
        /\ DOMAIN h.homes[p] = DOMAIN g.homes[p]
        /\ \A i \in DOMAIN g.homes[p] :
              /\ Active(h.homes[p][i]) => Active(g.homes[p][i])
              /\ h.homes[p][i].unit = g.homes[p][i].unit
              /\ h.homes[p][i].team \in {g.homes[p][i].team, None}

\* People do not become drafts again, nor do teams move or vanish.
Holding(g, h) ==
    /\ \A p \in Person : h.people[p].life \in {"none", "draft"} => g.people[p].life \in {"none", "draft"}
    /\ \A t \in Team : g.teams[t].life # "none" =>
          h.teams[t].life # "none" /\ h.teams[t].unit = g.teams[t].unit

LEMMA RowsEased ==
    ASSUME NEW g, GraphOK(g), NEW h, Rows(g), Eased(g, h), Holding(g, h)
    PROVE  Rows(h)
<1> SUFFICES ASSUME NEW p \in Person, NEW i \in DOMAIN h.homes[p]
             PROVE  /\ Active(h.homes[p][i]) => h.people[p].life \notin {"none", "draft"}
                    /\ h.homes[p][i].team # None =>
                          /\ h.teams[h.homes[p][i].team].life # "none"
                          /\ h.teams[h.homes[p][i].team].unit = h.homes[p][i].unit
  BY DEF Rows
<1>1. i \in DOMAIN g.homes[p] BY DEF Eased
<1>2. g.homes[p][i].team \in Team \cup {None}
  <2>1. g.homes[p][i] \in Home BY <1>1 DEF GraphOK
  <2> QED BY <2>1 DEF Home
<1> QED BY <1>1, <1>2 DEF Rows, Eased, Holding

LEMMA RowsSame ==
    ASSUME NEW g, GraphOK(g), NEW h, Rows(g), h.homes = g.homes, Holding(g, h)
    PROVE  Rows(h)
<1>1. Eased(g, h) BY DEF Eased
<1> QED BY <1>1, RowsEased

LEMMA HomesReplaced ==
    ASSUME NEW g, GraphOK(g), NEW k, Rewritten(g, k)
    PROVE  OnlyHomes(g, [g EXCEPT !.homes = k])
<1>1. \A p \in Person : g.homes[p] \in Seq(Home) /\ Len(g.homes[p]) <= MaxHomes BY DEF GraphOK
<1>2. \A p \in Person : k[p] = [i \in DOMAIN g.homes[p] |-> k[p][i]] BY DEF Rewritten
<1>3. \A p \in Person : k[p] \in Seq(Home) /\ Len(k[p]) = Len(g.homes[p])
  BY <1>1, <1>2, MappedHomes DEF Rewritten
<1>4. k = [p \in Person |-> k[p]] BY DEF Rewritten
<1>5. k \in [Person -> Seq(Home)] /\ \A p \in Person : Len(k[p]) <= MaxHomes
  BY <1>1, <1>3, <1>4
<1>6. GraphOK([g EXCEPT !.homes = k]) BY <1>5 DEF GraphOK
<1>7. [g EXCEPT !.homes = k].homes = k BY DEF GraphOK
<1>8. /\ [g EXCEPT !.homes = k].people = g.people
      /\ [g EXCEPT !.homes = k].units = g.units
      /\ [g EXCEPT !.homes = k].teams = g.teams
  BY DEF GraphOK
<1> QED BY <1>3, <1>6, <1>7, <1>8 DEF OnlyHomes

\* h has the tables pp, uu and tt, and the placements of g.
WithTables(g, h, pp, uu, tt) ==
    /\ GraphOK(h)
    /\ h.people = pp /\ h.units = uu /\ h.teams = tt /\ h.homes = g.homes

LEMMA PeopleReplaced ==
    ASSUME NEW g, GraphOK(g), NEW pp \in PeopleTable
    PROVE  WithTables(g, [g EXCEPT !.people = pp], pp, g.units, g.teams)
BY DEF GraphOK, WithTables

LEMMA UnitsReplaced ==
    ASSUME NEW g, GraphOK(g), NEW uu \in UnitTable
    PROVE  WithTables(g, [g EXCEPT !.units = uu], g.people, uu, g.teams)
BY DEF GraphOK, WithTables

LEMMA TeamsReplaced ==
    ASSUME NEW g, GraphOK(g), NEW tt \in TeamTable
    PROVE  WithTables(g, [g EXCEPT !.teams = tt], g.people, g.units, tt)
BY DEF GraphOK, WithTables

LEMMA RowsOfGraph ==
    ASSUME NEW g, GraphOK(g), NEW p \in Person, NEW i \in DOMAIN g.homes[p]
    PROVE  g.homes[p][i] \in Home
BY DEF GraphOK

LEMMA EndHomeOK ==
    ASSUME NEW g, GraphOK(g), NEW p
    PROVE  OnlyHomes(g, EndHome(g, p)) /\ Eased(g, EndHome(g, p))
<1> DEFINE Ends(q, home) == IF q = p /\ Active(home)
                         THEN [home EXCEPT !.life = "inactive"] ELSE home
           k == [q \in Person |-> [i \in DOMAIN g.homes[q] |-> Ends(q, g.homes[q][i])]]
<1>1. \A q \in Person : \A home \in Home : Ends(q, home) \in Home BY DEF Home, Lives
<1>2. EndHome(g, p) = [g EXCEPT !.homes = k] BY DEF EndHome, ChangeHomes
<1>3. \A home \in Home : \A q \in Person :
         /\ Active(Ends(q, home)) => Active(home)
         /\ Ends(q, home).unit = home.unit /\ Ends(q, home).team = home.team
  BY DEF Home, Active
<1> HIDE DEF Ends
<1>4. Rewritten(g, k) BY <1>1, RowsOfGraph DEF Rewritten
<1>5. EndHome(g, p).homes = k BY <1>2 DEF GraphOK
<1>6. Eased(g, EndHome(g, p)) BY <1>3, <1>5, RowsOfGraph DEF Eased
<1> HIDE DEF k
<1> QED BY <1>2, <1>4, <1>6, HomesReplaced

LEMMA MovedOK ==
    ASSUME NEW g, GraphOK(g), NEW p, NEW u \in Unit, NEW t \in Team \cup {None}
    PROVE  /\ OnlyHomes(g, Moved(g, p, u, t))
           /\ /\ Rows(g)
              /\ t # None => g.teams[t].life # "none" /\ g.teams[t].unit = u
              => Rows(Moved(g, p, u, t))
<1> DEFINE Follow(q, home) == IF q = p /\ Active(home)
                         THEN [home EXCEPT !.unit = u, !.team = t] ELSE home
           k == [q \in Person |-> [i \in DOMAIN g.homes[q] |-> Follow(q, g.homes[q][i])]]
<1>1. \A q \in Person : \A home \in Home : Follow(q, home) \in Home BY DEF Home, Lives
<1>2. Moved(g, p, u, t) = [g EXCEPT !.homes = k] BY DEF Moved, ChangeHomes
<1>4. \A q \in Person : \A home \in Home :
         /\ Active(Follow(q, home)) => Active(home)
         /\ \/ Follow(q, home).unit = u /\ Follow(q, home).team = t
            \/ Follow(q, home).unit = home.unit /\ Follow(q, home).team = home.team
  BY DEF Home, Active
<1> HIDE DEF Follow
<1>3. Rewritten(g, k) BY <1>1, RowsOfGraph DEF Rewritten
<1> DEFINE h == Moved(g, p, u, t)
<1>5. h.homes = k /\ h.people = g.people /\ h.teams = g.teams BY <1>2 DEF GraphOK
<1> HIDE DEF h
<1>6. ASSUME Rows(g), t # None => g.teams[t].life # "none" /\ g.teams[t].unit = u PROVE Rows(h)
  BY <1>4, <1>5, <1>6, RowsOfGraph DEF Rows
<1> HIDE DEF k
<1> QED BY <1>2, <1>3, <1>6, HomesReplaced DEF h

LEMMA AddHomeOK ==
    ASSUME NEW g, GraphOK(g), NEW p \in Person, NEW u \in Unit, NEW t \in Team \cup {None},
           NEW l \in Lives \ {"none"}, Len(g.homes[p]) < MaxHomes
    PROVE  /\ GraphOK(AddHome(g, p, u, t, l))
           /\ Ended(g, AddHome(g, p, u, t, l), {}, {}, {})
           /\ AddHome(g, p, u, t, l).people = g.people
<1> DEFINE row == [unit |-> u, team |-> t, life |-> l]
<1>1. row \in Home BY DEF Home
<1>2. g.homes[p] \in Seq(Home) BY DEF GraphOK
<1> DEFINE s == Append(g.homes[p], row)
<1>3. s \in Seq(Home) /\ Len(s) = Len(g.homes[p]) + 1 BY <1>1, <1>2
<1>4. Len(g.homes[p]) \in Nat /\ Len(s) <= MaxHomes BY <1>2, <1>3, HomesAssumption
<1>5. AddHome(g, p, u, t, l) = [g EXCEPT !.homes[p] = s] BY DEF AddHome
<1> HIDE DEF s
<1> QED BY <1>3, <1>4, <1>5 DEF GraphOK, Ended

LEMMA AddHomeRows ==
    ASSUME NEW g, GraphOK(g), Rows(g), NEW p \in Person, NEW u \in Unit, NEW t \in Team \cup {None},
           NEW l \in Lives \ {"none"}, l = "active" => g.people[p].life \notin {"none", "draft"},
           t # None => g.teams[t].life # "none" /\ g.teams[t].unit = u
    PROVE  Rows(AddHome(g, p, u, t, l))
<1> DEFINE row == [unit |-> u, team |-> t, life |-> l]
           s == Append(g.homes[p], row)
           h == AddHome(g, p, u, t, l)
<1>1. g.homes[p] \in Seq(Home) BY DEF GraphOK
<1>2. \A i \in DOMAIN s : (i \in DOMAIN g.homes[p] /\ s[i] = g.homes[p][i]) \/ s[i] = row BY <1>1
<1>3. /\ h.people = g.people /\ h.teams = g.teams
      /\ h.homes[p] = s /\ \A q \in Person \ {p} : h.homes[q] = g.homes[q]
  BY DEF AddHome, GraphOK
<1>4. row.unit = u /\ row.team = t /\ row.life = l OBVIOUS
<1> HIDE DEF s, h, row
<1>5. ASSUME NEW i \in DOMAIN s
      PROVE  /\ Active(s[i]) => g.people[p].life \notin {"none", "draft"}
             /\ s[i].team # None =>
                   /\ g.teams[s[i].team].life # "none"
                   /\ g.teams[s[i].team].unit = s[i].unit
  <2>1. CASE i \in DOMAIN g.homes[p] /\ s[i] = g.homes[p][i] BY <2>1 DEF Rows
  <2>2. CASE s[i] = row BY <1>4, <2>2 DEF Active
  <2> QED BY <1>2, <2>1, <2>2
<1>6. Rows(h) BY <1>3, <1>5 DEF Rows
<1> QED BY <1>6 DEF h

LEMMA PersonGone ==
    ASSUME NEW g, GraphOK(g), NEW p \in Person
    PROVE  /\ GraphOK([g EXCEPT !.people[p].life = "inactive"])
           /\ Ended(g, [g EXCEPT !.people[p].life = "inactive"], {p}, {}, {})
           /\ NoAdvisers(g, [g EXCEPT !.people[p].life = "inactive"], {p})
           /\ Rows(g) => Rows([g EXCEPT !.people[p].life = "inactive"])
<1> DEFINE pp == [g.people EXCEPT ![p].life = "inactive"]
           h == [g EXCEPT !.people[p].life = "inactive"]
<1>1. /\ pp \in PeopleTable
      /\ \A q \in Person : pp[q].life = IF q \in {p} THEN "inactive" ELSE g.people[q].life
      /\ \A q \in Person \ {p} : pp[q] = g.people[q]
  BY DEF GraphOK, PeopleTable, Lives
<1>2. h = [g EXCEPT !.people = pp] BY DEF GraphOK
<1> HIDE DEF pp
<1>3. WithTables(g, [g EXCEPT !.people = pp], pp, g.units, g.teams) BY <1>1, PeopleReplaced
<1> HIDE DEF h
<1>4. GraphOK(h) /\ Ended(g, h, {p}, {}, {}) BY <1>1, <1>2, <1>3 DEF WithTables, Ended
<1>5. NoAdvisers(g, h, {p}) BY <1>1, <1>2, <1>3 DEF WithTables, NoAdvisers, Adviser, Active
<1>6. h.homes = g.homes /\ h.teams = g.teams BY <1>2, <1>3 DEF WithTables
<1>7. Holding(g, h) BY <1>1, <1>2, <1>3 DEF WithTables, Holding
<1>8. Rows(g) => Rows(h) BY <1>6, <1>7, RowsSame
<1> QED BY <1>4, <1>5, <1>8 DEF h

LEMMA StepDownOK ==
    ASSUME NEW g, GraphOK(g), NEW p \in Person, NEW a \in Actions, NEW u \in Unit,
           NEW t \in Team \cup {None}, a = "become_employee" => Len(g.homes[p]) < MaxHomes
    PROVE  /\ GraphOK(StepDown(g, p, a, u, t))
           /\ Ended(g, StepDown(g, p, a, u, t), IF a = "deactivate" THEN {p} ELSE {}, {}, {})
           /\ NoAdvisers(g, StepDown(g, p, a, u, t), {p})
           /\ /\ Rows(g) /\ Active(g.people[p])
              /\ t # None => g.teams[t].life # "none" /\ g.teams[t].unit = u
              => Rows(StepDown(g, p, a, u, t))
<1>1. CASE a = "become_employee"
  <2> DEFINE h == [g EXCEPT !.people[p].role = "employee"]
         pp == [g.people EXCEPT ![p].role = "employee"]
  <2>1. /\ pp \in PeopleTable /\ \A q \in Person : pp[q].life = g.people[q].life
        /\ pp[p].role = "employee" /\ \A q \in Person \ {p} : pp[q] = g.people[q]
    BY DEF GraphOK, PeopleTable, Roles
  <2>a. h = [g EXCEPT !.people = pp] BY DEF GraphOK
  <2> HIDE DEF pp
  <2>2. WithTables(g, h, pp, g.units, g.teams) BY <2>1, <2>a, PeopleReplaced
  <2>3. StepDown(g, p, a, u, t) = AddHome(h, p, u, t, "active") BY <1>1 DEF StepDown
  <2> HIDE DEF h
  <2>4. /\ GraphOK(AddHome(h, p, u, t, "active"))
        /\ Ended(h, AddHome(h, p, u, t, "active"), {}, {}, {})
        /\ AddHome(h, p, u, t, "active").people = h.people
    BY <1>1, <2>2, AddHomeOK DEF Lives, WithTables
  <2>5. Ended(g, h, {}, {}, {}) BY <2>1, <2>2 DEF WithTables, Ended
  <2>6. NoAdvisers(g, StepDown(g, p, a, u, t), {p})
    BY <2>1, <2>2, <2>3, <2>4 DEF WithTables, NoAdvisers, Adviser
  <2>7. ASSUME Rows(g), Active(g.people[p]),
               t # None => g.teams[t].life # "none" /\ g.teams[t].unit = u
        PROVE  Rows(StepDown(g, p, a, u, t))
    <3>1. h.homes = g.homes /\ h.teams = g.teams /\ Holding(g, h)
      BY <2>1, <2>2 DEF WithTables, Holding
    <3>2. Rows(h) BY <2>7, <3>1, RowsSame
    <3>3. h.people[p].life = "active" BY <2>1, <2>2, <2>7 DEF WithTables, Active
    <3>4. GraphOK(h) BY <2>2 DEF WithTables
    <3> QED BY <2>3, <2>7, <3>1, <3>2, <3>3, <3>4, AddHomeRows DEF Lives
  <2> QED BY <1>1, <2>3, <2>4, <2>5, <2>6, <2>7 DEF Ended
<1>2. CASE a = "deactivate"
  <2>1. StepDown(g, p, a, u, t) = [g EXCEPT !.people[p].life = "inactive"] BY <1>2 DEF StepDown
  <2> QED BY <1>2, <2>1, PersonGone
<1> QED BY <1>1, <1>2 DEF Actions

LEMMA EmployeeGoneOK ==
    ASSUME NEW g, GraphOK(g), NEW p \in Person
    PROVE  /\ GraphOK(EmployeeGone(g, p)) /\ Ended(g, EmployeeGone(g, p), {p}, {}, {})
           /\ NoAdvisers(g, EmployeeGone(g, p), {p})
           /\ Rows(g) => Rows(EmployeeGone(g, p))
<1> DEFINE h == [g EXCEPT !.people[p].life = "inactive"]
<1>1. GraphOK(h) /\ Ended(g, h, {p}, {}, {}) /\ NoAdvisers(g, h, {p}) BY PersonGone
<1>2. EmployeeGone(g, p) = EndHome(h, p) BY DEF EmployeeGone
<1>3. Rows(g) => Rows(h) BY PersonGone
<1> HIDE DEF h
<1>4. OnlyHomes(h, EndHome(h, p)) /\ Eased(h, EndHome(h, p)) BY <1>1, EndHomeOK
<1>5. Rows(g) => Rows(EndHome(h, p)) BY <1>1, <1>3, <1>4, RowsEased DEF OnlyHomes, Holding
<1> QED BY <1>1, <1>2, <1>4, <1>5 DEF OnlyHomes, Ended, NoAdvisers

LEMMA LeadPromotedOK ==
    ASSUME NEW g, GraphOK(g), NEW t \in Team, NEW p \in Person, NEW a \in Actions,
           g.teams[t].unit \in Unit, g.teams[t].lead \in Person,
           a = "become_employee" => Len(g.homes[g.teams[t].lead]) < MaxHomes
    PROVE  /\ GraphOK(LeadPromoted(g, t, p, a))
           /\ Ended(g, LeadPromoted(g, t, p, a),
                    IF a = "deactivate" THEN {g.teams[t].lead} ELSE {}, {}, {})
           /\ NoAdvisers(g, LeadPromoted(g, t, p, a), {p, g.teams[t].lead})
           /\ Rows(g) /\ Active(g.people[g.teams[t].lead]) /\ Active(g.teams[t])
              => Rows(LeadPromoted(g, t, p, a))
<1> DEFINE e == EndHome(g, p)
           h == [e EXCEPT !.people[p].role = "team_lead", !.teams[t].lead = p]
           lead == g.teams[t].lead
<1>1. OnlyHomes(g, e) /\ Eased(g, e) BY EndHomeOK
<1>2. LeadPromoted(g, t, p, a) = StepDown(h, lead, a, g.teams[t].unit, t) BY DEF LeadPromoted
<1> HIDE DEF e
<1> DEFINE pp == [e.people EXCEPT ![p].role = "team_lead"]
           c == [e EXCEPT !.people = pp]
           tt == [c.teams EXCEPT ![t].lead = p]
<1>3. /\ pp \in PeopleTable /\ \A q \in Person : pp[q].life = g.people[q].life
      /\ pp[p].role \notin {"hr", "hrbp"} /\ \A q \in Person \ {p} : pp[q] = g.people[q]
  BY <1>1 DEF OnlyHomes, GraphOK, PeopleTable, Roles
<1>4. GraphOK(e) /\ h = [c EXCEPT !.teams = tt] BY <1>1 DEF OnlyHomes, GraphOK
<1> HIDE DEF pp
<1>5. WithTables(e, c, pp, e.units, e.teams) BY <1>3, <1>4, PeopleReplaced
<1> HIDE DEF c
<1>6. c.teams \in TeamTable /\ c.teams = g.teams BY <1>1, <1>5 DEF OnlyHomes, WithTables, GraphOK
<1>7. /\ tt \in TeamTable
      /\ \A q \in Team : tt[q].life = g.teams[q].life /\ tt[q].unit = g.teams[q].unit
  BY <1>6 DEF TeamTable
<1> HIDE DEF tt
<1>8. GraphOK(c) BY <1>5 DEF WithTables
<1>9. WithTables(c, h, c.people, c.units, tt) BY <1>4, <1>7, <1>8, TeamsReplaced
<1>a. GraphOK(h) /\ Ended(g, h, {}, {}, {}) /\ h.homes = e.homes
  BY <1>1, <1>3, <1>5, <1>7, <1>9 DEF OnlyHomes, WithTables, Ended
<1>b. a = "become_employee" => Len(h.homes[lead]) < MaxHomes BY <1>1, <1>a DEF OnlyHomes
<1>c. NoAdvisers(g, h, {p}) BY <1>3, <1>5, <1>9 DEF WithTables, NoAdvisers, Adviser
<1>d. Eased(g, h) /\ Holding(g, h) /\ h.teams = tt
  BY <1>1, <1>3, <1>5, <1>7, <1>9, <1>a DEF OnlyHomes, WithTables, Eased, Holding
<1>e. ASSUME Rows(g), Active(g.people[lead]), Active(g.teams[t])
      PROVE  /\ Rows(h) /\ Active(h.people[lead])
             /\ h.teams[t].life # "none" /\ h.teams[t].unit = g.teams[t].unit
  BY <1>7, <1>a, <1>d, <1>e, RowsEased DEF Ended, Active
<1> HIDE DEF h, lead
<1>f. /\ GraphOK(StepDown(h, lead, a, g.teams[t].unit, t))
      /\ Ended(h, StepDown(h, lead, a, g.teams[t].unit, t),
               IF a = "deactivate" THEN {lead} ELSE {}, {}, {})
      /\ NoAdvisers(h, StepDown(h, lead, a, g.teams[t].unit, t), {lead})
      /\ Rows(g) /\ Active(g.people[lead]) /\ Active(g.teams[t]) =>
            Rows(StepDown(h, lead, a, g.teams[t].unit, t))
  BY <1>a, <1>b, <1>e, StepDownOK DEF lead
<1> QED BY <1>2, <1>a, <1>c, <1>f DEF Ended, NoAdvisers, lead

LEMMA ManagerPromotedOK ==
    ASSUME NEW g, GraphOK(g), NEW u \in Unit, NEW p \in Person, NEW a \in Actions,
           g.units[u].manager \in Person,
           a = "become_employee" => Len(g.homes[g.units[u].manager]) < MaxHomes
    PROVE  /\ GraphOK(ManagerPromoted(g, u, p, a))
           /\ Ended(g, ManagerPromoted(g, u, p, a),
                    IF a = "deactivate" THEN {g.units[u].manager} ELSE {}, {}, {})
           /\ NoAdvisers(g, ManagerPromoted(g, u, p, a), {p, g.units[u].manager})
           /\ Rows(g) /\ Active(g.people[g.units[u].manager]) => Rows(ManagerPromoted(g, u, p, a))
<1> DEFINE e == EndHome(g, p)
           h == [e EXCEPT !.people[p].role = "manager", !.units[u].manager = p]
           manager == g.units[u].manager
<1>1. OnlyHomes(g, e) /\ Eased(g, e) BY EndHomeOK
<1>2. ManagerPromoted(g, u, p, a) = StepDown(h, manager, a, u, None) BY DEF ManagerPromoted
<1> HIDE DEF e
<1> DEFINE pp == [e.people EXCEPT ![p].role = "manager"]
           c == [e EXCEPT !.people = pp]
           tt == [c.units EXCEPT ![u].manager = p]
<1>3. /\ pp \in PeopleTable /\ \A q \in Person : pp[q].life = g.people[q].life
      /\ pp[p].role \notin {"hr", "hrbp"} /\ \A q \in Person \ {p} : pp[q] = g.people[q]
  BY <1>1 DEF OnlyHomes, GraphOK, PeopleTable, Roles
<1>4. GraphOK(e) /\ h = [c EXCEPT !.units = tt] BY <1>1 DEF OnlyHomes, GraphOK
<1> HIDE DEF pp
<1>5. WithTables(e, c, pp, e.units, e.teams) BY <1>3, <1>4, PeopleReplaced
<1> HIDE DEF c
<1>6. c.units \in UnitTable /\ c.units = g.units BY <1>1, <1>5 DEF OnlyHomes, WithTables, GraphOK
<1>7. tt \in UnitTable /\ \A q \in Unit : tt[q].life = g.units[q].life
  BY <1>6 DEF UnitTable
<1> HIDE DEF tt
<1>8. GraphOK(c) BY <1>5 DEF WithTables
<1>9. WithTables(c, h, c.people, tt, c.teams) BY <1>4, <1>7, <1>8, UnitsReplaced
<1>a. GraphOK(h) /\ Ended(g, h, {}, {}, {}) /\ h.homes = e.homes
  BY <1>1, <1>3, <1>5, <1>7, <1>9 DEF OnlyHomes, WithTables, Ended
<1>b. a = "become_employee" => Len(h.homes[manager]) < MaxHomes BY <1>1, <1>a DEF OnlyHomes
<1>c. NoAdvisers(g, h, {p}) BY <1>3, <1>5, <1>9 DEF WithTables, NoAdvisers, Adviser
<1>d. Eased(g, h) /\ Holding(g, h)
  BY <1>1, <1>3, <1>5, <1>7, <1>9, <1>a DEF OnlyHomes, WithTables, Eased, Holding
<1>e. ASSUME Rows(g), Active(g.people[manager]) PROVE Rows(h) /\ Active(h.people[manager])
  BY <1>a, <1>d, <1>e, RowsEased DEF Ended, Active
<1> HIDE DEF h, manager
<1>f. /\ GraphOK(StepDown(h, manager, a, u, None))
      /\ Ended(h, StepDown(h, manager, a, u, None),
               IF a = "deactivate" THEN {manager} ELSE {}, {}, {})
      /\ NoAdvisers(h, StepDown(h, manager, a, u, None), {manager})
      /\ Rows(g) /\ Active(g.people[manager]) => Rows(StepDown(h, manager, a, u, None))
  BY <1>a, <1>b, <1>e, StepDownOK DEF manager
<1> QED BY <1>2, <1>a, <1>c, <1>f DEF Ended, NoAdvisers, manager

LEMMA TeamClosedOK ==
    ASSUME NEW g, GraphOK(g), NEW t \in Team, NEW a \in Actions,
           g.teams[t].unit \in Unit, g.teams[t].lead \in Person,
           a = "become_employee" => Len(g.homes[g.teams[t].lead]) < MaxHomes
    PROVE  /\ GraphOK(TeamClosed(g, t, a))
           /\ Ended(g, TeamClosed(g, t, a),
                    IF a = "deactivate" THEN {g.teams[t].lead} ELSE {}, {}, {t})
           /\ NoAdvisers(g, TeamClosed(g, t, a), {g.teams[t].lead})
           /\ Rows(g) /\ Active(g.people[g.teams[t].lead]) => Rows(TeamClosed(g, t, a))
<1> DEFINE tt == [g.teams EXCEPT ![t].life = "inactive"]
           c == [g EXCEPT !.teams = tt]
           Stays(q, home) == IF home.team = t /\ Live(home) THEN [home EXCEPT !.team = None] ELSE home
           k == [q \in Person |-> [i \in DOMAIN c.homes[q] |-> Stays(q, c.homes[q][i])]]
           h == [c EXCEPT !.homes = k]
           lead == g.teams[t].lead
<1>1. /\ tt \in TeamTable
      /\ \A q \in Team : /\ tt[q].life = IF q \in {t} THEN "inactive" ELSE g.teams[q].life
                         /\ tt[q].unit = g.teams[q].unit
  BY DEF GraphOK, TeamTable, Lives
<1>2. [g EXCEPT !.teams[t].life = "inactive"] = c BY DEF GraphOK
<1>3. TeamClosed(g, t, a) = StepDown(h, lead, a, g.teams[t].unit, None)
  BY <1>2 DEF TeamClosed, ChangeHomes
<1>4. \A q \in Person : \A home \in Home : Stays(q, home) \in Home BY DEF Home
<1>c. \A q \in Person : \A home \in Home :
         /\ Active(Stays(q, home)) => Active(home)
         /\ Stays(q, home).unit = home.unit /\ Stays(q, home).team \in {home.team, None}
  BY DEF Home, Active
<1> HIDE DEF tt
<1>5. WithTables(g, c, g.people, g.units, tt) BY <1>1, TeamsReplaced
<1> HIDE DEF c, Stays
<1>6. GraphOK(c) BY <1>5 DEF WithTables
<1>7. Rewritten(c, k) BY <1>4, <1>6, RowsOfGraph DEF Rewritten
<1>d. h.homes = k BY <1>6 DEF GraphOK
<1>e. Eased(c, h) BY <1>6, <1>c, <1>d, RowsOfGraph DEF Eased
<1> HIDE DEF k
<1>8. OnlyHomes(c, h) BY <1>6, <1>7, HomesReplaced
<1> HIDE DEF h
<1>9. GraphOK(h) /\ Ended(g, h, {}, {}, {t}) BY <1>1, <1>5, <1>8 DEF OnlyHomes, WithTables, Ended
<1>a. a = "become_employee" => Len(h.homes[lead]) < MaxHomes
  BY <1>5, <1>8 DEF OnlyHomes, WithTables
<1>b. h.people = g.people BY <1>5, <1>8 DEF OnlyHomes, WithTables
<1>f. Eased(g, h) BY <1>5, <1>e DEF Eased, WithTables
<1>g. Holding(g, h) BY <1>1, <1>5, <1>8 DEF OnlyHomes, WithTables, Holding
<1>h. Rows(g) => Rows(h) BY <1>f, <1>g, RowsEased
<1> HIDE DEF lead
<1>i. /\ GraphOK(StepDown(h, lead, a, g.teams[t].unit, None))
      /\ Ended(h, StepDown(h, lead, a, g.teams[t].unit, None),
               IF a = "deactivate" THEN {lead} ELSE {}, {}, {})
      /\ NoAdvisers(h, StepDown(h, lead, a, g.teams[t].unit, None), {lead})
      /\ Rows(g) /\ Active(g.people[lead]) => Rows(StepDown(h, lead, a, g.teams[t].unit, None))
  BY <1>9, <1>a, <1>b, <1>h, StepDownOK DEF lead
<1> QED BY <1>3, <1>9, <1>b, <1>i DEF Ended, NoAdvisers, lead

LEMMA TransferredOK ==
    ASSUME NEW g, GraphOK(g), NEW s \in Unit, NEW t \in Unit, NEW a \in Actions,
           g.units[s].manager \in Person,
           a = "become_employee" => Len(g.homes[g.units[s].manager]) < MaxHomes
    PROVE  /\ GraphOK(Transferred(g, s, t, a))
           /\ Ended(g, Transferred(g, s, t, a),
                    IF a = "deactivate" THEN {g.units[s].manager} ELSE {}, {s}, {})
           /\ NoAdvisers(g, Transferred(g, s, t, a), {g.units[s].manager})
           /\ Rows(g) /\ Active(g.people[g.units[s].manager]) => Rows(Transferred(g, s, t, a))
<1> DEFINE moved == {x \in Team : g.teams[x].unit = s /\ Live(g.teams[x])}
           uu == [g.units EXCEPT ![s].life = "inactive"]
           b == [g EXCEPT !.units = uu]
           tt == [x \in Team |-> IF x \in moved THEN [g.teams[x] EXCEPT !.unit = t] ELSE g.teams[x]]
           c == [b EXCEPT !.teams = tt]
           Follow(q, home) == IF home.unit = s /\ (Live(home) \/ home.team \in moved)
                              THEN [home EXCEPT !.unit = t, !.team = IF @ \in moved THEN @ ELSE None]
                              ELSE home
           k == [q \in Person |-> [i \in DOMAIN c.homes[q] |-> Follow(q, c.homes[q][i])]]
           h == [c EXCEPT !.homes = k]
           manager == g.units[s].manager
<1>1. /\ uu \in UnitTable
      /\ \A q \in Unit : uu[q].life = IF q \in {s} THEN "inactive" ELSE g.units[q].life
  BY DEF GraphOK, UnitTable, Lives
<1>g. moved \subseteq Team /\ \A x \in moved : g.teams[x].unit = s /\ g.teams[x].life # "none"
  BY DEF Live
<1> HIDE DEF moved
<1>2. tt \in TeamTable /\ \A q \in Team : tt[q].life = g.teams[q].life
  BY DEF GraphOK, TeamTable
<1>h. \A q \in Team : tt[q].unit = IF q \in moved THEN t ELSE g.teams[q].unit
  BY DEF GraphOK, TeamTable
<1>i. None \notin moved BY <1>g, NoneAssumption
<1>3. [g EXCEPT !.units[s].life = "inactive", !.teams = tt] = c BY DEF GraphOK
<1>4. Transferred(g, s, t, a) = StepDown(h, manager, a, t, None)
  BY <1>3 DEF Transferred, ChangeHomes, moved
<1>5. \A q \in Person : \A home \in Home : Follow(q, home) \in Home BY DEF Home
<1>j. \A q \in Person : \A home \in Home :
         /\ Active(Follow(q, home)) => Active(home)
         /\ \/ Follow(q, home).unit = t /\ Follow(q, home).team \in moved \cup {None}
            \/ /\ Follow(q, home) = home
               /\ home.team \in moved => home.unit # s
  BY DEF Home, Active
<1> HIDE DEF uu, tt, Follow
<1>6. WithTables(g, b, g.people, uu, g.teams) BY <1>1, UnitsReplaced
<1> HIDE DEF b
<1>7. GraphOK(b) BY <1>6 DEF WithTables
<1>8. WithTables(b, c, b.people, b.units, tt) BY <1>2, <1>7, TeamsReplaced
<1> HIDE DEF c
<1>9. GraphOK(c) BY <1>8 DEF WithTables
<1>a. Rewritten(c, k) BY <1>5, <1>9, RowsOfGraph DEF Rewritten
<1>k. h.homes = k BY <1>9 DEF GraphOK
<1>l. c.people = g.people /\ c.homes = g.homes /\ c.teams = tt BY <1>6, <1>8 DEF WithTables
<1>m. \A q \in Person : /\ DOMAIN h.homes[q] = DOMAIN g.homes[q]
                        /\ \A i \in DOMAIN g.homes[q] : h.homes[q][i] = Follow(q, g.homes[q][i])
  BY <1>k, <1>l
<1> HIDE DEF k
<1>b. OnlyHomes(c, h) BY <1>9, <1>a, HomesReplaced
<1> HIDE DEF h
<1>c. GraphOK(h) /\ Ended(g, h, {}, {s}, {})
  BY <1>1, <1>2, <1>6, <1>8, <1>b DEF OnlyHomes, WithTables, Ended
<1>d. a = "become_employee" => Len(h.homes[manager]) < MaxHomes
  BY <1>6, <1>8, <1>b DEF OnlyHomes, WithTables
<1>e. h.people = g.people /\ h.teams = tt BY <1>6, <1>8, <1>b DEF OnlyHomes, WithTables
<1>n. ASSUME Rows(g) PROVE Rows(h)
  <2> SUFFICES ASSUME NEW q \in Person, NEW i \in DOMAIN g.homes[q]
               PROVE  /\ Active(h.homes[q][i]) => g.people[q].life \notin {"none", "draft"}
                      /\ h.homes[q][i].team # None =>
                            /\ tt[h.homes[q][i].team].life # "none"
                            /\ tt[h.homes[q][i].team].unit = h.homes[q][i].unit
    BY <1>e, <1>m DEF Rows
  <2> DEFINE home == g.homes[q][i]
  <2>1. home \in Home BY RowsOfGraph
  <2>2. home.team \in Team \cup {None} BY <2>1 DEF Home
  <2>3. /\ Active(home) => g.people[q].life \notin {"none", "draft"}
        /\ home.team # None => /\ g.teams[home.team].life # "none"
                               /\ g.teams[home.team].unit = home.unit
    BY <1>n DEF Rows
  <2>4. h.homes[q][i] = Follow(q, home) BY <1>m
  <2> HIDE DEF home
  <2>5. CASE Follow(q, home).unit = t /\ Follow(q, home).team \in moved \cup {None}
    BY <1>2, <1>g, <1>h, <1>j, <2>1, <2>3, <2>4, <2>5
  <2>6. CASE Follow(q, home) = home /\ (home.team \in moved => home.unit # s)
    BY <1>2, <1>g, <1>h, <1>j, <2>1, <2>2, <2>3, <2>4, <2>6
  <2> QED BY <1>j, <2>1, <2>5, <2>6
<1> HIDE DEF manager
<1>o. /\ GraphOK(StepDown(h, manager, a, t, None))
      /\ Ended(h, StepDown(h, manager, a, t, None),
               IF a = "deactivate" THEN {manager} ELSE {}, {}, {})
      /\ NoAdvisers(h, StepDown(h, manager, a, t, None), {manager})
      /\ Rows(g) /\ Active(g.people[manager]) => Rows(StepDown(h, manager, a, t, None))
  BY <1>c, <1>d, <1>e, <1>n, StepDownOK DEF manager
<1> QED BY <1>4, <1>c, <1>e, <1>o DEF Ended, NoAdvisers, manager

\* The teams that go out with the batch, and the rows that do.
TeamsOut(g, batch) == UNION {ReadyTeams(g, Reach, u) : u \in batch}
RowOut(g, batch, p, home) ==
    /\ home.unit \in batch
    /\ p \in PeopleOf(g, batch)[home.unit]
    /\ home.team \in TeamsOut(g, batch) \cup {None}

\* h has the rows of g, those that go out with the batch active.
RowsOut(g, batch, h) ==
    \A p \in Person :
        /\ DOMAIN h.homes[p] = DOMAIN g.homes[p]
        /\ \A i \in DOMAIN g.homes[p] :
              /\ h.homes[p][i].unit = g.homes[p][i].unit
              /\ h.homes[p][i].team = g.homes[p][i].team
              /\ h.homes[p][i].life = IF RowOut(g, batch, p, g.homes[p][i])
                                      THEN "active" ELSE g.homes[p][i].life

LEMMA RolledOutOK ==
    ASSUME NEW g, GraphOK(g), NEW batch \in SUBSET Unit
    PROVE  /\ GraphOK(RolledOut(g, batch))
           /\ \A p \in Person : RolledOut(g, batch).people[p].life =
                 IF \E u \in batch : p \in PeopleOf(g, batch)[u] THEN "active" ELSE g.people[p].life
           /\ \A p \in Person : RolledOut(g, batch).people[p].role = g.people[p].role
           /\ \A u \in Unit : RolledOut(g, batch).units[u].life =
                 IF u \in batch THEN "active" ELSE g.units[u].life
           /\ \A t \in Team : RolledOut(g, batch).teams[t].life =
                 IF \E u \in batch : t \in ReadyTeams(g, Reach, u)
                 THEN "active" ELSE g.teams[t].life
           /\ \A u \in Unit : RolledOut(g, batch).units[u].manager = g.units[u].manager
           /\ \A t \in Team : /\ RolledOut(g, batch).teams[t].unit = g.teams[t].unit
                              /\ RolledOut(g, batch).teams[t].lead = g.teams[t].lead
           /\ RowsOut(g, batch, RolledOut(g, batch))
<1> DEFINE people == PeopleOf(g, batch)
           teams == UNION {ReadyTeams(g, Reach, u) : u \in batch}
           Joins(p, home) == /\ home.unit \in batch
                             /\ p \in people[home.unit]
                             /\ home.team \in teams \cup {None}
           Out(p, home) == IF Joins(p, home) THEN [home EXCEPT !.life = "active"] ELSE home
           pp == [p \in Person |-> IF \E u \in batch : p \in people[u]
                      THEN [g.people[p] EXCEPT !.life = "active"] ELSE g.people[p]]
           uu == [u \in Unit |-> IF u \in batch
                      THEN [g.units[u] EXCEPT !.life = "active"] ELSE g.units[u]]
           tt == [t \in Team |-> IF t \in teams
                      THEN [g.teams[t] EXCEPT !.life = "active"] ELSE g.teams[t]]
           a == [g EXCEPT !.people = pp]
           b == [a EXCEPT !.units = uu]
           c == [b EXCEPT !.teams = tt]
           k == [p \in Person |-> [i \in DOMAIN c.homes[p] |-> Out(p, c.homes[p][i])]]
           h == [c EXCEPT !.homes = k]
<1> HIDE DEF people, teams
<1>1. /\ pp \in PeopleTable
      /\ \A p \in Person : pp[p].life =
            IF \E u \in batch : p \in people[u] THEN "active" ELSE g.people[p].life
      /\ \A p \in Person : pp[p].role = g.people[p].role
  BY DEF GraphOK, PeopleTable, Lives
<1>2. /\ uu \in UnitTable
      /\ \A u \in Unit : /\ uu[u].life = IF u \in batch THEN "active" ELSE g.units[u].life
                         /\ uu[u].manager = g.units[u].manager
  BY DEF GraphOK, UnitTable, Lives
<1>3. /\ tt \in TeamTable
      /\ \A t \in Team : /\ tt[t].life = IF t \in teams THEN "active" ELSE g.teams[t].life
                         /\ tt[t].unit = g.teams[t].unit /\ tt[t].lead = g.teams[t].lead
  BY DEF GraphOK, TeamTable, Lives
<1>4. [g EXCEPT !.people = pp, !.units = uu, !.teams = tt] = c OBVIOUS
<1>5. RolledOut(g, batch) = h BY <1>4 DEF RolledOut, ChangeHomes, people, teams
<1>6. \A q \in Person : \A home \in Home : Out(q, home) \in Home BY DEF Home, Lives
<1>f. \A q \in Person : \A home \in Home :
         /\ Out(q, home).unit = home.unit /\ Out(q, home).team = home.team
         /\ Out(q, home).life = IF Joins(q, home) THEN "active" ELSE home.life
  BY DEF Home
<1>g. \A q, home : Joins(q, home) <=> RowOut(g, batch, q, home)
  BY DEF RowOut, TeamsOut, people, teams
<1> HIDE DEF pp, uu, tt, Out
<1>7. WithTables(g, a, pp, g.units, g.teams) BY <1>1, PeopleReplaced
<1> HIDE DEF a
<1>8. WithTables(a, b, a.people, uu, a.teams) BY <1>2, <1>7, UnitsReplaced DEF WithTables
<1> HIDE DEF b
<1>9. WithTables(b, c, b.people, b.units, tt) BY <1>3, <1>8, TeamsReplaced DEF WithTables
<1> HIDE DEF c
<1>a. GraphOK(c) BY <1>9 DEF WithTables
<1>b. Rewritten(c, k) BY <1>6, <1>a, RowsOfGraph DEF Rewritten
<1>h. h.homes = k /\ c.homes = g.homes BY <1>7, <1>8, <1>9, <1>a DEF GraphOK, WithTables
<1> HIDE DEF Joins
<1>i. RowsOut(g, batch, h) BY <1>f, <1>g, <1>h, RowsOfGraph DEF RowsOut
<1> HIDE DEF k
<1>c. OnlyHomes(c, h) BY <1>a, <1>b, HomesReplaced
<1> HIDE DEF h
<1>d. GraphOK(h) /\ h.people = pp /\ h.units = uu /\ h.teams = tt
  BY <1>7, <1>8, <1>9, <1>c DEF OnlyHomes, WithTables
<1>e. \A t : t \in teams <=> \E u \in batch : t \in ReadyTeams(g, Reach, u) BY DEF teams
<1> QED BY <1>1, <1>2, <1>3, <1>5, <1>d, <1>e, <1>i DEF people

(***************************************************************************)
(* The invariant.                                                          *)
(***************************************************************************)

\* An exit closes the account.
Closed ==
    \A p \in Person : graph.people[p].life = "inactive" => account[p] # "active"

\* A first contact that waits has its unit.
ContactsPlaced ==
    \A p \in Person : contact[p].status = "pending" => contact[p].unit \in Unit

IInv == TypeOK /\ Closed /\ ContactsPlaced /\ ContactsFollowPeople /\ AdvisoryScopeIsLive

\* AdvisoryScopeIsLive, person by person.
Advises(p) ==
    /\ \A u \in Unit : assign[p][u] = "active" =>
          Adviser(graph.people[p]) /\ Active(graph.units[u])
    /\ Active(graph.people[p]) /\ graph.people[p].role = "hr" =>
          \E u \in Unit : assign[p][u] = "active"
    /\ Active(graph.people[p]) /\ graph.people[p].role = "hrbp" =>
          /\ scope[p].life = "active"
          /\ (scope[p].mode = "selected_units") <=> (\E u \in Unit : assign[p][u] = "active")

LEMMA AdvisesAll == AdvisoryScopeIsLive <=> \A p \in Person : Advises(p)
BY DEF AdvisoryScopeIsLive, Advises, Adviser, ActiveUnits

LEMMA AdvisesAllPrimed == AdvisoryScopeIsLive' <=> \A p \in Person : Advises(p)'
BY DEF AdvisoryScopeIsLive, Advises, Adviser, ActiveUnits

\* An adviser whose row, assignments and scope stay goes on advising, in units that stay.
LEMMA AdvisesStill ==
    ASSUME AdvisoryScopeIsLive, NEW p \in Person, assign'[p] = assign[p], scope'[p] = scope[p],
           \/ graph'.people[p] = graph.people[p]
           \/ ~Adviser(graph.people[p]) /\ ~Adviser(graph'.people[p]),
           \A u \in Unit : Active(graph.units[u]) => Active(graph'.units[u])
    PROVE  Advises(p)'
<1>1. Advises(p) BY AdvisesAll
<1>2. CASE graph'.people[p] = graph.people[p] BY <1>1, <1>2 DEF Advises
<1>3. CASE ~Adviser(graph.people[p]) /\ ~Adviser(graph'.people[p])
  BY <1>1, <1>3 DEF Advises, Adviser
<1> QED BY <1>2, <1>3

\* TypeOK without the graph.
RestOK ==
    /\ account \in [Person -> {"none", "inactive", "active"}]
    /\ linked \in [Person -> BOOLEAN]
    /\ assign \in [Person -> [Unit -> Lives]]
    /\ scope \in [Person -> [mode : Modes \cup {None}, life : Lives]]
    /\ contact \in [Person -> [status : {"none", "pending", "cancelled"}, unit : Unit \cup {None}]]
    /\ creating \in {NoCreate}
           \cup [kind : {"unit"}, id : Unit, unit : {None}, owner : Person \cup {None}]
           \cup [kind : {"team"}, id : Team, unit : Unit, owner : Person \cup {None}]
    /\ left \in [edits : Nat, changes : Nat]

LEMMA TypeSplit == TypeOK <=> GraphOK(graph) /\ RestOK
BY DEF TypeOK, GraphOK, RestOK, Graph, PeopleTable, UnitTable, TeamTable

LEMMA TypeSplitPrimed == TypeOK' <=> GraphOK(graph') /\ RestOK'
BY DEF TypeOK, GraphOK, RestOK, Graph, PeopleTable, UnitTable, TeamTable

LEMMA InitOK == Init => IInv
<1> SUFFICES ASSUME Init PROVE IInv OBVIOUS
<1>1. \A p \in Person : <<>> \in Seq(Home) /\ Len(<<>>) <= MaxHomes BY HomesAssumption
<1>2. GraphOK(graph) BY <1>1 DEF Init, GraphOK, PeopleTable, UnitTable, TeamTable, Roles, Lives
<1>3. RestOK
  BY BudgetsAssumption, LegacyAssumption DEF Init, RestOK, NoScope, NoContact, Lives
<1>4. Closed BY DEF Init, Closed
<1>5. ContactsPlaced /\ ContactsFollowPeople
  BY DEF Init, ContactsPlaced, ContactsFollowPeople, NoContact
<1>6. AdvisoryScopeIsLive
  BY DEF Init, AdvisoryScopeIsLive, Active
<1> QED BY <1>2, <1>3, <1>4, <1>5, <1>6, TypeSplit DEF IInv

(***************************************************************************)
(* What the drafting steps and the exits have in common.                   *)
(***************************************************************************)

\* New rows are drafts, accounts are made or closed, and nothing else happens.
Drafts ==
    /\ \A p \in Person : Active(graph.people[p]) => graph'.people[p] = graph.people[p]
    /\ \A p \in Person : graph'.people[p].life \in
          {graph.people[p].life} \cup (IF graph.people[p].life = "none" THEN {"draft"} ELSE {})
    /\ \A u \in Unit : graph'.units[u].life \in
          {graph.units[u].life} \cup (IF graph.units[u].life = "none" THEN {"draft"} ELSE {})
    /\ \A t \in Team : graph'.teams[t].life \in
          {graph.teams[t].life} \cup (IF graph.teams[t].life = "none" THEN {"draft"} ELSE {})
    /\ \A p \in Person : account'[p] \in {account[p], "inactive"}
    /\ UNCHANGED contact

LEMMA DraftsKeep ==
    ASSUME IInv, TypeOK', Drafts, AdvisoryScopeIsLive' \/ UNCHANGED <<assign, scope>>
    PROVE  IInv' /\ Exits
<1>1. GraphOK(graph) BY TypeSplit DEF IInv
<1>2. Closed' BY DEF IInv, Drafts, Closed
<1>3. ContactsPlaced' BY DEF IInv, Drafts, ContactsPlaced
<1>4. ContactsFollowPeople'
  BY DEF IInv, Drafts, ContactsPlaced, ContactsFollowPeople, Active
<1>5. Exits BY DEF IInv, Drafts, Closed, Exits
<1>6. AdvisoryScopeIsLive'
  <2>1. CASE UNCHANGED <<assign, scope>>
    <3>1. ASSUME NEW p \in Person
          PROVE  \/ graph'.people[p] = graph.people[p]
                 \/ ~Adviser(graph.people[p]) /\ ~Adviser(graph'.people[p])
      BY DEF Drafts, Adviser, Active
    <3>2. \A u \in Unit : Active(graph.units[u]) => Active(graph'.units[u])
      BY DEF Drafts, Active
    <3>3. AdvisoryScopeIsLive BY DEF IInv
    <3> QED BY <2>1, <3>1, <3>2, <3>3, AdvisesStill, AdvisesAllPrimed
  <2> QED BY <2>1
<1> QED BY <1>2, <1>3, <1>4, <1>5, <1>6 DEF IInv

\* The people P, the units U and the teams T leave: accounts close, contacts are called off.
Leaving(P, U, T) ==
    /\ Ended(graph, graph', P, U, T)
    /\ \A p \in Person : account'[p] = "active" =>
          account[p] = "active" /\ p \notin P
    /\ \A p \in Person : contact'[p].status = "pending" =>
          /\ contact[p].status = "pending" /\ p \notin P
          /\ contact'[p].unit \in Unit \ U
          /\ Active(graph.units[contact'[p].unit])

LEMMA LeavingKeeps ==
    ASSUME IInv, TypeOK', AdvisoryScopeIsLive', NEW P, NEW U, NEW T, Leaving(P, U, T)
    PROVE  IInv' /\ Exits
<1>1. Closed' BY DEF IInv, Leaving, Ended, Closed
<1>2. ContactsPlaced' BY DEF Leaving, ContactsPlaced
<1>3. ContactsFollowPeople'
  BY DEF IInv, Leaving, Ended, ContactsFollowPeople, Active
<1>4. Exits BY DEF IInv, Leaving, Ended, Closed, Exits
<1> QED BY <1>1, <1>2, <1>3, <1>4 DEF IInv

\* The changes of a live structure touch no advisers and end no units.
LEMMA ChangesAdvise ==
    ASSUME IInv, UNCHANGED <<assign, scope>>, NEW P, NEW T, Ended(graph, graph', P, {}, T),
           NEW Q, NoAdvisers(graph, graph', Q),
           \A p \in Q : ~Adviser(graph.people[p])
    PROVE  AdvisoryScopeIsLive'
<1>1. AdvisoryScopeIsLive BY DEF IInv
<1>2. \A u \in Unit : Active(graph.units[u]) => Active(graph'.units[u])
  BY DEF Ended, Active
<1>3. \A p \in Person : Advises(p)' BY <1>1, <1>2, AdvisesStill DEF NoAdvisers
<1> QED BY <1>3, AdvisesAllPrimed

\* A contact that waits has an active unit.
LEMMA ContactsStay ==
    ASSUME IInv, NEW p \in Person, contact[p].status = "pending"
    PROVE  contact[p].unit \in Unit /\ Active(graph.units[contact[p].unit])
BY DEF IInv, ContactsPlaced, ContactsFollowPeople

(***************************************************************************)
(* Drafts.                                                                 *)
(***************************************************************************)

LEMMA EditTypes == ASSUME RestOK, Edit PROVE left' \in [edits : Nat, changes : Nat]
BY DEF RestOK, Edit

LEMMA ChangeTypes == ASSUME RestOK, Change PROVE left' \in [edits : Nat, changes : Nat]
BY DEF RestOK, Change

LEMMA CreatePersonOK ==
    ASSUME IInv, NEW p \in Person, NEW role \in Roles, CreatePerson(p, role)
    PROVE  IInv' /\ Exits
<1> DEFINE pp == [graph.people EXCEPT ![p] = [role |-> role, life |-> "draft"]]
<1>1. GraphOK(graph) /\ RestOK BY TypeSplit DEF IInv
<1>2. pp \in PeopleTable /\ graph.people[p].life = "none"
      /\ \A q \in Person : pp[q].life = IF q = p THEN "draft" ELSE graph.people[q].life
  BY <1>1 DEF CreatePerson, Unused, PersonRow, GraphOK, PeopleTable, Lives
<1>9. \A q \in Person \ {p} : pp[q] = graph.people[q] BY <1>1 DEF GraphOK, PeopleTable
<1>3. graph' = [graph EXCEPT !.people = pp] BY <1>1 DEF CreatePerson, GraphOK
<1> HIDE DEF pp
<1>4. WithTables(graph, graph', pp, graph.units, graph.teams)
  BY <1>1, <1>2, <1>3, PeopleReplaced
<1>5. RestOK' BY <1>1, EditTypes DEF CreatePerson, RestOK
<1>6. TypeOK' BY <1>4, <1>5, TypeSplitPrimed DEF WithTables
<1>7. \A q \in Person : account'[q] \in {account[q], "inactive"}
  BY <1>1 DEF CreatePerson, RestOK
<1>8. Drafts BY <1>2, <1>4, <1>7, <1>9 DEF WithTables, Drafts, CreatePerson, Active
<1> QED BY <1>6, <1>8, DraftsKeep DEF CreatePerson

LEMMA CreateUnitCheckOK ==
    ASSUME IInv, NEW u \in Unit, NEW m \in Person \cup {None}, CreateUnitCheck(u, m)
    PROVE  IInv' /\ Exits
<1>1. GraphOK(graph) /\ RestOK BY TypeSplit DEF IInv
<1>2. RestOK' BY <1>1, EditTypes DEF CreateUnitCheck, RestOK
<1>3. TypeOK' BY <1>1, <1>2, TypeSplitPrimed DEF CreateUnitCheck
<1>4. Drafts BY DEF Drafts, CreateUnitCheck
<1> QED BY <1>3, <1>4, DraftsKeep DEF CreateUnitCheck

LEMMA CreateTeamCheckOK ==
    ASSUME IInv, NEW t \in Team, NEW u \in Unit, NEW l \in Person \cup {None},
           CreateTeamCheck(t, u, l)
    PROVE  IInv' /\ Exits
<1>1. GraphOK(graph) /\ RestOK BY TypeSplit DEF IInv
<1>2. RestOK' BY <1>1, EditTypes DEF CreateTeamCheck, RestOK
<1>3. TypeOK' BY <1>1, <1>2, TypeSplitPrimed DEF CreateTeamCheck
<1>4. Drafts BY DEF Drafts, CreateTeamCheck
<1> QED BY <1>3, <1>4, DraftsKeep DEF CreateTeamCheck

LEMMA CreateInsertOK == ASSUME IInv, CreateInsert PROVE IInv' /\ Exits
<1>1. GraphOK(graph) /\ RestOK BY TypeSplit DEF IInv
<1>2. RestOK' BY <1>1 DEF CreateInsert, RestOK
<1>3. GraphOK(graph')
      /\ \A p \in Person : graph'.people[p] = graph.people[p]
      /\ \A u \in Unit : graph'.units[u].life \in
            {graph.units[u].life} \cup (IF graph.units[u].life = "none" THEN {"draft"} ELSE {})
      /\ \A t \in Team : graph'.teams[t].life \in
            {graph.teams[t].life} \cup (IF graph.teams[t].life = "none" THEN {"draft"} ELSE {})
  <2>1. CASE creating.kind = "unit" /\ graph.units[creating.id].life = "none"
    <3> DEFINE uu == [graph.units EXCEPT ![creating.id] = [manager |-> creating.owner, life |-> "draft"]]
    <3>1. creating.id \in Unit /\ creating.owner \in Person \cup {None}
      BY <1>1, <2>1 DEF RestOK, NoCreate
    <3>2. uu \in UnitTable /\ \A u \in Unit : uu[u].life =
              IF u = creating.id THEN "draft" ELSE graph.units[u].life
      BY <1>1, <3>1 DEF GraphOK, UnitTable, Lives
    <3>3. graph' = [graph EXCEPT !.units = uu] BY <1>1, <2>1 DEF CreateInsert, GraphOK
    <3> HIDE DEF uu
    <3>4. WithTables(graph, graph', graph.people, uu, graph.teams)
      BY <1>1, <3>2, <3>3, UnitsReplaced
    <3> QED BY <2>1, <3>2, <3>4 DEF WithTables
  <2>2. CASE creating.kind = "team" /\ graph.teams[creating.id].life = "none"
    <3> DEFINE tt == [graph.teams EXCEPT ![creating.id] =
                [unit |-> creating.unit, lead |-> creating.owner, life |-> "draft"]]
    <3>1. creating.id \in Team /\ creating.unit \in Unit /\ creating.owner \in Person \cup {None}
      BY <1>1, <2>2 DEF RestOK, NoCreate
    <3>2. tt \in TeamTable /\ \A t \in Team : tt[t].life =
              IF t = creating.id THEN "draft" ELSE graph.teams[t].life
      BY <1>1, <3>1 DEF GraphOK, TeamTable, Lives
    <3>3. graph' = [graph EXCEPT !.teams = tt] BY <1>1, <2>2 DEF CreateInsert, GraphOK
    <3> HIDE DEF tt
    <3>4. WithTables(graph, graph', graph.people, graph.units, tt)
      BY <1>1, <3>2, <3>3, TeamsReplaced
    <3> QED BY <2>2, <3>2, <3>4 DEF WithTables
  <2>3. CASE /\ ~(creating.kind = "unit" /\ graph.units[creating.id].life = "none")
             /\ ~(creating.kind = "team" /\ graph.teams[creating.id].life = "none")
    <3>1. graph' = graph BY <2>3 DEF CreateInsert
    <3> QED BY <1>1, <3>1
  <2> QED BY <2>1, <2>2, <2>3
<1>4. TypeOK' BY <1>2, <1>3, TypeSplitPrimed
<1>5. Drafts BY <1>3 DEF Drafts, CreateInsert
<1> QED BY <1>4, <1>5, DraftsKeep DEF CreateInsert

LEMMA UpdatePersonOK ==
    ASSUME IInv, NEW p \in Person, NEW role \in Roles, UpdatePerson(p, role)
    PROVE  IInv' /\ Exits
<1> DEFINE pp == [graph.people EXCEPT ![p].role = role]
<1>1. GraphOK(graph) /\ RestOK BY TypeSplit DEF IInv
<1>2. /\ pp \in PeopleTable /\ \A q \in Person : pp[q].life = graph.people[q].life
      /\ \A q \in Person \ {p} : pp[q] = graph.people[q]
  BY <1>1 DEF GraphOK, PeopleTable
<1>3. graph' = [graph EXCEPT !.people = pp] BY <1>1 DEF UpdatePerson, GraphOK
<1> HIDE DEF pp
<1>4. WithTables(graph, graph', pp, graph.units, graph.teams)
  BY <1>1, <1>2, <1>3, PeopleReplaced
<1>5. RestOK' BY <1>1, EditTypes DEF UpdatePerson, Untouched, RestOK
<1>6. TypeOK' BY <1>4, <1>5, TypeSplitPrimed DEF WithTables
<1>7. Drafts
  BY <1>2, <1>4 DEF WithTables, Drafts, UpdatePerson, PersonRow, Untouched, Active
<1> QED BY <1>6, <1>7, DraftsKeep DEF UpdatePerson, Untouched

LEMMA UpdateUnitOK ==
    ASSUME IInv, NEW u \in Unit, NEW m \in Person \cup {None}, UpdateUnit(u, m)
    PROVE  IInv' /\ Exits
<1> DEFINE uu == [graph.units EXCEPT ![u].manager = m]
<1>1. GraphOK(graph) /\ RestOK BY TypeSplit DEF IInv
<1>2. uu \in UnitTable /\ \A q \in Unit : uu[q].life = graph.units[q].life
  BY <1>1 DEF GraphOK, UnitTable
<1>3. graph' = [graph EXCEPT !.units = uu] BY <1>1 DEF UpdateUnit, GraphOK
<1> HIDE DEF uu
<1>4. WithTables(graph, graph', graph.people, uu, graph.teams)
  BY <1>1, <1>2, <1>3, UnitsReplaced
<1>5. RestOK' BY <1>1, EditTypes DEF UpdateUnit, Untouched, RestOK
<1>6. TypeOK' BY <1>4, <1>5, TypeSplitPrimed DEF WithTables
<1>7. Drafts BY <1>2, <1>4 DEF WithTables, Drafts, UpdateUnit, Untouched
<1> QED BY <1>6, <1>7, DraftsKeep DEF UpdateUnit, Untouched

LEMMA UpdateTeamOK ==
    ASSUME IInv, NEW t \in Team, NEW u \in Unit, NEW l \in Person \cup {None},
           UpdateTeam(t, u, l)
    PROVE  IInv' /\ Exits
<1> DEFINE Follow(q, home) == IF home.team = t THEN [home EXCEPT !.unit = u] ELSE home
           k == [q \in Person |-> [i \in DOMAIN graph.homes[q] |-> Follow(q, graph.homes[q][i])]]
           c == [graph EXCEPT !.homes = k]
           tt == [c.teams EXCEPT ![t].unit = u, ![t].lead = l]
<1>1. GraphOK(graph) /\ RestOK BY TypeSplit DEF IInv
<1>2. graph' = [c EXCEPT !.teams[t].unit = u, !.teams[t].lead = l]
  BY Zenon DEF UpdateTeam, ChangeHomes
<1>0. Edit /\ Untouched BY Zenon DEF UpdateTeam
<1>3. \A q \in Person : \A home \in Home : Follow(q, home) \in Home BY DEF Home
<1> HIDE DEF Follow
<1>4. Rewritten(graph, k) BY <1>1, <1>3, RowsOfGraph DEF Rewritten
<1> HIDE DEF k
<1>5. OnlyHomes(graph, c) BY <1>1, <1>4, HomesReplaced
<1> HIDE DEF c
<1>6. graph' = [c EXCEPT !.teams = tt] BY <1>2, <1>5 DEF OnlyHomes, GraphOK
<1>7. tt \in TeamTable /\ \A q \in Team : tt[q].life = graph.teams[q].life
  BY <1>5 DEF OnlyHomes, GraphOK, TeamTable
<1> HIDE DEF tt
<1>8. WithTables(c, graph', c.people, c.units, tt)
  BY <1>5, <1>6, <1>7, TeamsReplaced DEF OnlyHomes
<1>9. RestOK' BY <1>1, <1>0, EditTypes DEF Untouched, RestOK
<1>a. TypeOK' BY <1>8, <1>9, TypeSplitPrimed DEF WithTables
<1>b. Drafts BY <1>0, <1>5, <1>7, <1>8 DEF OnlyHomes, WithTables, Drafts, Untouched
<1> QED BY <1>0, <1>a, <1>b, DraftsKeep DEF Untouched

LEMMA ReplaceDraftPlacementOK ==
    ASSUME IInv, NEW p \in Person, NEW u \in Unit \cup {None}, NEW t \in Team \cup {None},
           ReplaceDraftPlacement(p, u, t)
    PROVE  IInv' /\ Exits
<1> DEFINE live == {i \in DOMAIN graph.homes[p] : Live(graph.homes[p][i])}
<1>1. GraphOK(graph) /\ RestOK BY TypeSplit DEF IInv
<1>0. Edit /\ Untouched BY Zenon DEF ReplaceDraftPlacement
<1>2. GraphOK(graph') /\ Ended(graph, graph', {}, {}, {}) /\ graph'.people = graph.people
  <2>1. CASE live = {}
    <3>1. u \in Unit /\ Len(graph.homes[p]) < MaxHomes
      BY <2>1, NoneAssumption, Zenon DEF ReplaceDraftPlacement
    <3>2. graph' = AddHome(graph, p, u, t, "draft") BY <2>1, Zenon DEF ReplaceDraftPlacement
    <3> QED BY <1>1, <3>1, <3>2, AddHomeOK DEF Lives
  <2>2. CASE live # {}
    <3> DEFINE Placed(q, home) == IF q # p \/ ~Live(home) THEN home
                                  ELSE IF u = None THEN [home EXCEPT !.life = "inactive"]
                                  ELSE [home EXCEPT !.unit = u, !.team = t]
               k == [q \in Person |-> [i \in DOMAIN graph.homes[q] |-> Placed(q, graph.homes[q][i])]]
    <3>1. graph' = [graph EXCEPT !.homes = k] BY <2>2, Zenon DEF ReplaceDraftPlacement, ChangeHomes
    <3>2. \A q \in Person : \A home \in Home : Placed(q, home) \in Home BY DEF Home, Lives
    <3> HIDE DEF Placed
    <3>3. Rewritten(graph, k) BY <1>1, <3>2, RowsOfGraph DEF Rewritten
    <3> HIDE DEF k
    <3>4. OnlyHomes(graph, graph') BY <1>1, <3>1, <3>3, HomesReplaced
    <3> QED BY <3>4 DEF OnlyHomes, Ended
  <2> QED BY <2>1, <2>2
<1>3. RestOK' BY <1>0, <1>1, EditTypes DEF Untouched, RestOK
<1>4. TypeOK' BY <1>2, <1>3, TypeSplitPrimed
<1>5. Drafts BY <1>0, <1>2 DEF Ended, Drafts, Untouched
<1> QED BY <1>0, <1>4, <1>5, DraftsKeep DEF Untouched

LEMMA LinkSlackOK == ASSUME IInv, NEW p \in Person, LinkSlack(p) PROVE IInv' /\ Exits
<1>1. GraphOK(graph) /\ RestOK BY TypeSplit DEF IInv
<1>2. RestOK' BY <1>1 DEF LinkSlack, RestOK
<1>3. TypeOK' BY <1>1, <1>2, TypeSplitPrimed DEF LinkSlack
<1>4. Drafts BY DEF Drafts, LinkSlack
<1> QED BY <1>3, <1>4, DraftsKeep DEF LinkSlack

LEMMA UnlinkSlackOK == ASSUME IInv, NEW p \in Person, UnlinkSlack(p) PROVE IInv' /\ Exits
<1>1. GraphOK(graph) /\ RestOK BY TypeSplit DEF IInv
<1>2. RestOK' BY <1>1, EditTypes DEF UnlinkSlack, RestOK
<1>3. TypeOK' BY <1>1, <1>2, TypeSplitPrimed DEF UnlinkSlack
<1>4. Drafts BY DEF Drafts, UnlinkSlack
<1> QED BY <1>3, <1>4, DraftsKeep DEF UnlinkSlack

LEMMA ReplaceScopeOK ==
    ASSUME IInv, NEW p \in Person, NEW mode \in Modes, NEW units \in SUBSET Unit,
           ReplaceScope(p, mode, units)
    PROVE  IInv' /\ Exits
<1>1. GraphOK(graph) /\ RestOK BY TypeSplit DEF IInv
<1>2. assign' \in [Person -> [Unit -> Lives]] BY <1>1 DEF ReplaceScope, RestOK, Lives
<1>3. scope' \in [Person -> [mode : Modes \cup {None}, life : Lives]]
  BY <1>1 DEF ReplaceScope, RestOK, Lives
<1>4. RestOK' BY <1>1, <1>2, <1>3, EditTypes DEF ReplaceScope, RestOK
<1>5. TypeOK' BY <1>1, <1>4, TypeSplitPrimed DEF ReplaceScope
<1>6. Drafts BY DEF Drafts, ReplaceScope
<1>7. ASSUME NEW q \in Person, q # p PROVE Advises(q)'
  <2>1. assign'[q] = assign[q] /\ scope'[q] = scope[q] /\ graph' = graph
    BY <1>1, <1>7 DEF ReplaceScope, RestOK
  <2> QED BY <2>1, AdvisesStill DEF IInv
<1>8. Advises(p)'
  <2> DEFINE target == IF Active(graph.people[p]) THEN "active" ELSE "draft"
  <2>1. /\ graph' = graph /\ Live(graph.people[p]) /\ graph.people[p].role \in {"hr", "hrbp"}
        /\ graph.people[p].role = "hr" => mode = "selected_units"
        /\ mode = "all_units" => units = {}
        /\ mode = "selected_units" /\ Active(graph.people[p]) => units # {}
        /\ Active(graph.people[p]) => \A u \in units : Active(graph.units[u])
    BY DEF ReplaceScope, PersonRow
  <2>2. \A u \in Unit : assign'[p][u] = "active" <=> u \in units /\ target = "active"
    BY <1>1 DEF ReplaceScope, RestOK, PersonRow
  <2>3. Active(graph.people[p]) /\ graph.people[p].role = "hrbp" =>
           scope'[p] = [mode |-> mode, life |-> "active"]
    BY <1>1 DEF ReplaceScope, RestOK, PersonRow
  <2> QED BY <2>1, <2>2, <2>3 DEF Advises, Adviser, Modes
<1>9. AdvisoryScopeIsLive' BY <1>7, <1>8, AdvisesAllPrimed
<1> QED BY <1>5, <1>6, <1>9, DraftsKeep

LEMMA ImportedOK ==
    ASSUME GraphOK(graph), NEW f \in Files, FileValid(f)
    PROVE  /\ GraphOK(Imported(f))
           /\ \A p \in Person :
                 \/ Imported(f).people[p] = graph.people[p]
                 \/ graph.people[p].life = "none" /\ Imported(f).people[p].life = "draft"
           /\ \A p \in Person : (\A r \in f : r.person # p) =>
                 Imported(f).people[p] = graph.people[p]
           /\ \A p \in Person : Imported(f).people[p].life \in
                 {graph.people[p].life} \cup (IF graph.people[p].life = "none" THEN {"draft"} ELSE {})
           /\ \A u \in Unit : Imported(f).units[u].life \in
                 {graph.units[u].life} \cup (IF graph.units[u].life = "none" THEN {"draft"} ELSE {})
           /\ \A t \in Team : Imported(f).teams[t].life \in
                 {graph.teams[t].life} \cup (IF graph.teams[t].life = "none" THEN {"draft"} ELSE {})
<1> DEFINE pp == Imported(f).people
           uu == Imported(f).units
           tt == Imported(f).teams
           hh == Imported(f).homes
<1>1. f \subseteq Row BY FilesAssumption
<1>2. \A r \in f : /\ r.person \in Person /\ r.role \in Roles /\ r.unit \in Unit \cup {None}
                   /\ r.team \in Team \cup {None}
  BY <1>1 DEF Row
<1>3. \A r \in f : graph.people[r.person].life = "none"
  BY DEF FileValid, RowValid, Unused, PersonRow
<1>4. pp \in PeopleTable /\ \A p \in Person : pp[p].life =
          IF \E r \in f : r.person = p THEN "draft" ELSE graph.people[p].life
  BY <1>2 DEF Imported, GraphOK, PeopleTable, Lives
<1>d. \A p \in Person : (\A r \in f : r.person # p) => pp[p] = graph.people[p]
  BY DEF Imported
<1>5. \A rows \in SUBSET f : OwnerIn(rows) \in Person \cup {None} BY <1>2 DEF OwnerIn
<1>6. uu \in UnitTable /\ \A u \in Unit : uu[u].life =
          IF graph.units[u].life = "none" /\ \E r \in f : r.unit = u
          THEN "draft" ELSE graph.units[u].life
  BY <1>5 DEF Imported, GraphOK, UnitTable, Lives
<1>7. tt \in TeamTable /\ \A t \in Team : tt[t].life =
          IF graph.teams[t].life = "none" /\ \E r \in f : r.team = t
          THEN "draft" ELSE graph.teams[t].life
  BY <1>2, <1>5 DEF Imported, GraphOK, TeamTable, Lives
<1>8. ASSUME NEW p \in Person PROVE hh[p] \in Seq(Home) /\ Len(hh[p]) <= MaxHomes
  <2>1. CASE \E r \in f : r.person = p /\ r.role = "employee"
    <3> DEFINE r == CHOOSE r \in f : r.person = p
               home == [unit |-> r.unit, team |-> r.team, life |-> "draft"]
    <3>1. r \in f /\ r.person = p BY <2>1
    <3>2. r.role = "employee" BY <2>1, <3>1 DEF FileValid
    <3>3. r.unit # None BY <3>1, <3>2 DEF FileValid, RowValid
    <3>4. home \in Home BY <1>2, <3>1, <3>3 DEF Home, Lives
    <3>5. hh[p] = <<home>> BY <2>1 DEF Imported
    <3> HIDE DEF home
    <3> QED BY <3>4, <3>5, HomesAssumption
  <2>2. CASE ~\E r \in f : r.person = p /\ r.role = "employee"
    <3>1. hh[p] = graph.homes[p] BY <2>2 DEF Imported
    <3> QED BY <3>1 DEF GraphOK
  <2> QED BY <2>1, <2>2
<1>9. hh = [p \in Person |-> hh[p]] BY DEF Imported
<1>a. Imported(f) = [people |-> pp, units |-> uu, teams |-> tt, homes |-> hh] BY DEF Imported
<1> HIDE DEF pp, uu, tt, hh
<1>b. GraphOK(Imported(f)) BY <1>4, <1>6, <1>7, <1>8, <1>9, <1>a DEF GraphOK
<1>c. Imported(f).people = pp /\ Imported(f).units = uu /\ Imported(f).teams = tt BY <1>a
<1>e. ASSUME NEW p \in Person
      PROVE  \/ pp[p] = graph.people[p]
             \/ graph.people[p].life = "none" /\ pp[p].life = "draft"
  <2>1. CASE \A r \in f : r.person # p BY <1>d, <2>1
  <2>2. CASE \E r \in f : r.person = p BY <1>3, <1>4, <2>2
  <2> QED BY <2>1, <2>2
<1> QED BY <1>3, <1>4, <1>6, <1>7, <1>b, <1>c, <1>d, <1>e

LEMMA ImportCsvOK == ASSUME IInv, NEW f \in Files, ImportCsv(f) PROVE IInv' /\ Exits
<1>1. GraphOK(graph) /\ RestOK BY TypeSplit DEF IInv
<1>2. f \subseteq Row BY FilesAssumption
<1>3. FileValid(f) /\ graph' = Imported(f) BY DEF ImportCsv
<1>4. left' \in [edits : Nat, changes : Nat] BY <1>1, EditTypes DEF ImportCsv, RestOK
<1>5. account' \in [Person -> {"none", "inactive", "active"}]
      /\ \A p \in Person : account'[p] \in {account[p], "inactive"}
  BY <1>1 DEF ImportCsv, RestOK
<1>6. assign' \in [Person -> [Unit -> Lives]] BY <1>1 DEF ImportCsv, RestOK, Lives
<1>7. ASSUME NEW p \in Person PROVE scope'[p] \in [mode : Modes \cup {None}, life : Lives]
  <2>1. CASE \E r \in f : r.person = p /\ r.role = "hrbp"
    <3> DEFINE r == CHOOSE r \in f : r.person = p
    <3>1. r \in Row BY <1>2, <2>1
    <3> QED BY <2>1, <3>1 DEF ImportCsv, Row, Lives
  <2>2. CASE ~\E r \in f : r.person = p /\ r.role = "hrbp"
    BY <1>1, <2>2 DEF ImportCsv, RestOK
  <2> QED BY <2>1, <2>2
<1>8. scope' \in [Person -> [mode : Modes \cup {None}, life : Lives]]
  BY <1>7 DEF ImportCsv
<1>9. RestOK' BY <1>1, <1>4, <1>5, <1>6, <1>8 DEF ImportCsv, RestOK
<1>a. TypeOK' BY <1>1, <1>3, <1>9, ImportedOK, TypeSplitPrimed
<1>b. Drafts BY <1>1, <1>3, <1>5, ImportedOK DEF Drafts, ImportCsv, Active
<1>c. ASSUME NEW p \in Person PROVE Advises(p)'
  <2>0. \A u \in Unit : Active(graph.units[u]) => Active(graph'.units[u])
    BY <1>1, <1>3, ImportedOK DEF Active
  <2>1. CASE \A r \in f : r.person # p
    <3>1. assign'[p] = assign[p] /\ scope'[p] = scope[p] BY <1>1, <2>1 DEF ImportCsv, RestOK
    <3>2. graph'.people[p] = graph.people[p] BY <1>1, <1>3, <2>1, ImportedOK
    <3> QED BY <2>0, <3>1, <3>2, AdvisesStill DEF IInv
  <2>2. CASE ~\A r \in f : r.person # p
    <3>1. graph.people[p].life = "none" BY <1>3, <2>2 DEF FileValid, RowValid, Unused, PersonRow
    <3>2. ~Active(graph'.people[p]) BY <1>1, <1>3, <3>1, ImportedOK DEF Active
    <3>3. \A u \in Unit : assign[p][u] # "active"
      BY <3>1, AdvisesAll DEF IInv, Advises, Adviser, Active
    <3>4. \A u \in Unit : assign'[p][u] # "active" BY <3>3 DEF ImportCsv
    <3> QED BY <3>2, <3>4 DEF Advises
  <2> QED BY <2>1, <2>2
<1>d. AdvisoryScopeIsLive' BY <1>c, AdvisesAllPrimed
<1> QED BY <1>a, <1>b, <1>d, DraftsKeep

(***************************************************************************)
(* Changes of the live structure.                                          *)
(***************************************************************************)

LEMMA MoveEmployeeOK ==
    ASSUME IInv, NEW p \in Person, NEW u \in Unit, NEW t \in Team \cup {None},
           MoveEmployee(p, u, t)
    PROVE  IInv' /\ Exits
<1>1. GraphOK(graph) /\ RestOK BY TypeSplit DEF IInv
<1>2. OnlyHomes(graph, graph') BY <1>1, MovedOK DEF MoveEmployee
<1>3. RestOK' BY <1>1, ChangeTypes DEF MoveEmployee, Untouched, RestOK
<1>4. TypeOK' BY <1>2, <1>3, TypeSplitPrimed DEF OnlyHomes
<1>5. Leaving({}, {}, {})
  BY <1>2, ContactsStay DEF OnlyHomes, Ended, Leaving, MoveEmployee, Untouched
<1>6. Ended(graph, graph', {}, {}, {}) /\ NoAdvisers(graph, graph', {})
  BY <1>2 DEF OnlyHomes, Ended, NoAdvisers
<1>7. AdvisoryScopeIsLive' BY <1>6, ChangesAdvise DEF MoveEmployee, Untouched
<1> QED BY <1>4, <1>5, <1>7, LeavingKeeps

LEMMA LeavesOK ==
    ASSUME RestOK, NEW p \in Person, Leaves(p)
    PROVE  /\ account' \in [Person -> {"none", "inactive", "active"}]
           /\ contact' \in [Person -> [status : {"none", "pending", "cancelled"},
                                       unit : Unit \cup {None}]]
           /\ \A q \in Person : account'[q] = "active" => account[q] = "active" /\ q # p
           /\ \A q \in Person : contact'[q].status = "pending" =>
                 contact[q].status = "pending" /\ q # p /\ contact'[q].unit = contact[q].unit
BY DEF RestOK, Leaves

LEMMA OwnerStepsDown ==
    ASSUME RestOK, NEW p \in Person, NEW action \in Actions, StepsDown(p, action)
    PROVE  /\ account' \in [Person -> {"none", "inactive", "active"}]
           /\ contact' \in [Person -> [status : {"none", "pending", "cancelled"},
                                       unit : Unit \cup {None}]]
           /\ \A q \in Person : account'[q] = "active" =>
                 account[q] = "active" /\ q \notin IF action = "deactivate" THEN {p} ELSE {}
           /\ \A q \in Person : contact'[q].status = "pending" =>
                 /\ contact[q].status = "pending"
                 /\ q \notin IF action = "deactivate" THEN {p} ELSE {}
                 /\ contact'[q].unit = contact[q].unit
<1>1. CASE action = "deactivate" BY <1>1, LeavesOK DEF StepsDown
<1>2. CASE action = "become_employee" BY <1>2 DEF StepsDown, RestOK
<1> QED BY <1>1, <1>2 DEF Actions

LEMMA PromoteTeamLeadOK ==
    ASSUME IInv, NEW t \in Team, NEW p \in Person, NEW action \in Actions,
           PromoteTeamLead(t, p, action)
    PROVE  IInv' /\ Exits
<1> DEFINE owner == graph.teams[t].lead
           gone == IF action = "deactivate" THEN {owner} ELSE {}
<1>1. GraphOK(graph) /\ RestOK BY TypeSplit DEF IInv
<1>2. owner \in Person /\ graph.teams[t].unit \in Unit
  BY <1>1, RowsOfGraph DEF PromoteTeamLead, CanPromoteLead, ActivePeople, ActiveRows, Home
<1>3. /\ Change /\ graph' = LeadPromoted(graph, t, p, action) /\ StepsDown(owner, action)
      /\ UNCHANGED <<linked, assign, scope, creating>>
  BY DEF PromoteTeamLead
<1>0. \A q \in {p, owner} : ~Adviser(graph.people[q])
  BY DEF PromoteTeamLead, CanPromoteLead, ActivePeople, Adviser
<1> HIDE DEF owner
<1>4. action = "become_employee" => Len(graph.homes[owner]) < MaxHomes BY <1>3 DEF StepsDown
<1>5. /\ GraphOK(graph') /\ Ended(graph, graph', gone, {}, {})
      /\ NoAdvisers(graph, graph', {p, owner})
  BY <1>1, <1>2, <1>3, <1>4, LeadPromotedOK DEF owner
<1>6. RestOK' BY <1>1, <1>2, <1>3, OwnerStepsDown, ChangeTypes DEF RestOK
<1>7. TypeOK' BY <1>5, <1>6, TypeSplitPrimed
<1>8. /\ \A q \in Person : account'[q] = "active" => account[q] = "active" /\ q \notin gone
      /\ \A q \in Person : contact'[q].status = "pending" =>
            /\ contact[q].status = "pending" /\ q \notin gone
            /\ contact'[q].unit = contact[q].unit
  BY <1>1, <1>2, <1>3, OwnerStepsDown
<1> HIDE DEF gone
<1>9. Leaving(gone, {}, {}) BY <1>3, <1>5, <1>8, ContactsStay DEF Leaving
<1>a. AdvisoryScopeIsLive' BY <1>0, <1>3, <1>5, ChangesAdvise
<1> QED BY <1>7, <1>9, <1>a, LeavingKeeps

LEMMA PromoteManagerOK ==
    ASSUME IInv, NEW u \in Unit, NEW p \in Person, NEW action \in Actions,
           PromoteManager(u, p, action)
    PROVE  IInv' /\ Exits
<1> DEFINE owner == graph.units[u].manager
           gone == IF action = "deactivate" THEN {owner} ELSE {}
<1>1. GraphOK(graph) /\ RestOK BY TypeSplit DEF IInv
<1>2. owner \in Person
  BY DEF PromoteManager, CanPromoteManager, ActivePeople
<1>3. /\ Change /\ graph' = ManagerPromoted(graph, u, p, action) /\ StepsDown(owner, action)
      /\ UNCHANGED <<linked, assign, scope, creating>>
  BY DEF PromoteManager
<1>0. \A q \in {p, owner} : ~Adviser(graph.people[q])
  BY DEF PromoteManager, CanPromoteManager, ActivePeople, Adviser
<1> HIDE DEF owner
<1>4. action = "become_employee" => Len(graph.homes[owner]) < MaxHomes BY <1>3 DEF StepsDown
<1>5. /\ GraphOK(graph') /\ Ended(graph, graph', gone, {}, {})
      /\ NoAdvisers(graph, graph', {p, owner})
  BY <1>1, <1>2, <1>3, <1>4, ManagerPromotedOK DEF owner
<1>6. RestOK' BY <1>1, <1>2, <1>3, OwnerStepsDown, ChangeTypes DEF RestOK
<1>7. TypeOK' BY <1>5, <1>6, TypeSplitPrimed
<1>8. /\ \A q \in Person : account'[q] = "active" => account[q] = "active" /\ q \notin gone
      /\ \A q \in Person : contact'[q].status = "pending" =>
            /\ contact[q].status = "pending" /\ q \notin gone
            /\ contact'[q].unit = contact[q].unit
  BY <1>1, <1>2, <1>3, OwnerStepsDown
<1> HIDE DEF gone
<1>9. Leaving(gone, {}, {}) BY <1>3, <1>5, <1>8, ContactsStay DEF Leaving
<1>a. AdvisoryScopeIsLive' BY <1>0, <1>3, <1>5, ChangesAdvise
<1> QED BY <1>7, <1>9, <1>a, LeavingKeeps

LEMMA DeactivateTeamOK ==
    ASSUME IInv, NEW t \in Team, NEW action \in Actions,
           DeactivateTeam(t, action)
    PROVE  IInv' /\ Exits
<1> DEFINE owner == graph.teams[t].lead
           gone == IF action = "deactivate" THEN {owner} ELSE {}
<1>1. GraphOK(graph) /\ RestOK BY TypeSplit DEF IInv
<1>2. owner \in Person /\ graph.teams[t].unit \in Unit
  BY DEF DeactivateTeam, CanCloseTeam, ActivePeople, ActiveUnits
<1>3. /\ Change /\ graph' = TeamClosed(graph, t, action) /\ StepsDown(owner, action)
      /\ UNCHANGED <<linked, assign, scope, creating>>
  BY DEF DeactivateTeam
<1>0. \A q \in {owner} : ~Adviser(graph.people[q])
  BY DEF DeactivateTeam, CanCloseTeam, ActivePeople, Adviser
<1> HIDE DEF owner
<1>4. action = "become_employee" => Len(graph.homes[owner]) < MaxHomes BY <1>3 DEF StepsDown
<1>5. GraphOK(graph') /\ Ended(graph, graph', gone, {}, {t}) /\ NoAdvisers(graph, graph', {owner})
  BY <1>1, <1>2, <1>3, <1>4, TeamClosedOK DEF owner
<1>6. RestOK' BY <1>1, <1>2, <1>3, OwnerStepsDown, ChangeTypes DEF RestOK
<1>7. TypeOK' BY <1>5, <1>6, TypeSplitPrimed
<1>8. /\ \A q \in Person : account'[q] = "active" => account[q] = "active" /\ q \notin gone
      /\ \A q \in Person : contact'[q].status = "pending" =>
            /\ contact[q].status = "pending" /\ q \notin gone
            /\ contact'[q].unit = contact[q].unit
  BY <1>1, <1>2, <1>3, OwnerStepsDown
<1> HIDE DEF gone
<1>9. Leaving(gone, {}, {t}) BY <1>3, <1>5, <1>8, ContactsStay DEF Leaving
<1>a. AdvisoryScopeIsLive' BY <1>0, <1>3, <1>5, ChangesAdvise
<1> QED BY <1>7, <1>9, <1>a, LeavingKeeps

LEMMA TransferOK ==
    ASSUME IInv, NEW s \in Unit, NEW t \in Unit, NEW action \in Actions,
           TransferAndDeactivateUnit(s, t, action)
    PROVE  IInv' /\ Exits
<1> DEFINE m == graph.units[s].manager
           gone == IF action = "deactivate" THEN {m} ELSE {}
<1>1. GraphOK(graph) /\ RestOK BY TypeSplit DEF IInv
<1>2. m \in Person /\ s # t /\ Active(graph.units[t])
  BY DEF TransferAndDeactivateUnit, CanTransfer, ActivePeople, ActiveUnits
<1>3. action = "become_employee" => Len(graph.homes[m]) < MaxHomes
  BY DEF TransferAndDeactivateUnit
<1>4. graph' = Transferred(graph, s, t, action) BY DEF TransferAndDeactivateUnit
<1>5. /\ account' \in [Person -> {"none", "inactive", "active"}]
      /\ \A q \in Person : account'[q] = "active" => account[q] = "active" /\ q \notin gone
  BY <1>1, <1>2 DEF TransferAndDeactivateUnit, RestOK
<1>6. /\ contact' \in [Person -> [status : {"none", "pending", "cancelled"},
                                  unit : Unit \cup {None}]]
      /\ \A q \in Person : contact'[q].status = "pending" =>
            /\ contact[q].status = "pending" /\ q \notin gone
            /\ contact'[q].unit = IF contact[q].unit = s THEN t ELSE contact[q].unit
  BY <1>1, <1>2 DEF TransferAndDeactivateUnit, RestOK
<1>7. assign' \in [Person -> [Unit -> Lives]]
  BY <1>1 DEF TransferAndDeactivateUnit, MergedAssign, RestOK, Lives
<1>0. ~Adviser(graph.people[m])
  BY DEF TransferAndDeactivateUnit, CanTransfer, ActivePeople, Adviser
<1> HIDE DEF m
<1>8. GraphOK(graph') /\ Ended(graph, graph', gone, {s}, {}) /\ NoAdvisers(graph, graph', {m})
  BY <1>1, <1>2, <1>3, <1>4, TransferredOK DEF m
<1> HIDE DEF gone
<1>9. RestOK' BY <1>1, <1>5, <1>6, <1>7, ChangeTypes DEF TransferAndDeactivateUnit, RestOK
<1>a. TypeOK' BY <1>8, <1>9, TypeSplitPrimed
<1>c. Leaving(gone, {s}, {}) BY <1>2, <1>5, <1>6, <1>8, ContactsStay DEF Leaving
<1>d. ASSUME NEW q \in Person PROVE Advises(q)'
  <2>1. Advises(q) BY AdvisesAll DEF IInv
  <2>2. \/ graph'.people[q] = graph.people[q]
        \/ ~Adviser(graph.people[q]) /\ ~Adviser(graph'.people[q])
    BY <1>0, <1>8 DEF NoAdvisers
  <2>3. \A u \in Unit \ {s} : Active(graph.units[u]) => Active(graph'.units[u])
    BY <1>8 DEF Ended, Active
  <2>4. scope'[q] = scope[q] BY DEF TransferAndDeactivateUnit
  <2>5. CASE assign[q][s] \notin {"draft", "active"}
    <3>1. assign'[q] = assign[q] BY <2>5 DEF TransferAndDeactivateUnit, MergedAssign
    <3> QED BY <2>1, <2>2, <2>3, <2>4, <2>5, <3>1 DEF Advises, Adviser
  <2>6. CASE assign[q][s] \in {"draft", "active"}
    <3>1. /\ assign'[q][s] # "active"
          /\ assign'[q][t] = "active" <=> "active" \in {assign[q][s], assign[q][t]}
          /\ \A u \in Unit \ {s, t} : assign'[q][u] = assign[q][u]
      BY <1>1, <1>2, <2>6 DEF TransferAndDeactivateUnit, MergedAssign, RestOK
    <3>2. (\E u \in Unit : assign'[q][u] = "active") <=> (\E u \in Unit : assign[q][u] = "active")
      BY <3>1
    <3>3. Active(graph'.units[t]) BY <1>2, <2>3
    <3>4. \A u \in Unit : assign'[q][u] = "active" =>
             Adviser(graph'.people[q]) /\ Active(graph'.units[u])
      BY <2>1, <2>2, <2>3, <3>1, <3>3 DEF Advises
    <3> QED BY <2>1, <2>2, <2>4, <3>2, <3>4 DEF Advises, Adviser
  <2> QED BY <2>5, <2>6
<1>e. AdvisoryScopeIsLive' BY <1>d, AdvisesAllPrimed
<1> QED BY <1>a, <1>c, <1>e, LeavingKeeps

LEMMA DeactivatePersonOK ==
    ASSUME IInv, NEW p \in Person, DeactivatePerson(p) PROVE IInv' /\ Exits
<1>1. GraphOK(graph) /\ RestOK BY TypeSplit DEF IInv
<1>2. GraphOK(graph') /\ Ended(graph, graph', {p}, {}, {}) /\ NoAdvisers(graph, graph', {p})
  BY <1>1, PersonGone, EmployeeGoneOK DEF DeactivatePerson
<1>3. assign' \in [Person -> [Unit -> Lives]] BY <1>1 DEF DeactivatePerson, RestOK, Lives
<1>4. scope' \in [Person -> [mode : Modes \cup {None}, life : Lives]]
  BY <1>1 DEF DeactivatePerson, RestOK, Lives
<1>5. Change /\ Leaves(p) /\ UNCHANGED <<linked, creating>> BY DEF DeactivatePerson
<1>6. RestOK' BY <1>1, <1>3, <1>4, <1>5, LeavesOK, ChangeTypes DEF RestOK
<1>7. TypeOK' BY <1>2, <1>6, TypeSplitPrimed
<1>8. Leaving({p}, {}, {}) BY <1>1, <1>2, <1>5, LeavesOK, ContactsStay DEF Leaving
<1>9. \A u \in Unit : Active(graph.units[u]) => Active(graph'.units[u])
  BY <1>2 DEF Ended, Active
<1>a. ASSUME NEW q \in Person, q # p PROVE Advises(q)'
  <2>1. assign'[q] = assign[q] /\ scope'[q] = scope[q] BY <1>1, <1>a DEF DeactivatePerson, RestOK
  <2>2. graph'.people[q] = graph.people[q] BY <1>2, <1>a DEF NoAdvisers
  <2> QED BY <1>9, <2>1, <2>2, AdvisesStill DEF IInv
<1>b. Advises(p)'
  <2>1. ~Active(graph'.people[p]) BY <1>2 DEF Ended, Active
  <2>2. ASSUME NEW u \in Unit PROVE assign'[p][u] # "active"
    <3>1. CASE graph.people[p].role \in {"hr", "hrbp"}
      BY <1>1, <3>1 DEF DeactivatePerson, PersonRow, RestOK
    <3>2. CASE graph.people[p].role \notin {"hr", "hrbp"}
      <4>1. assign' = assign BY <3>2 DEF DeactivatePerson, PersonRow
      <4> QED BY <3>2, <4>1, AdvisesAll DEF IInv, Advises, Adviser
    <3> QED BY <3>1, <3>2
  <2> QED BY <2>1, <2>2 DEF Advises
<1>c. AdvisoryScopeIsLive' BY <1>a, <1>b, AdvisesAllPrimed
<1> QED BY <1>7, <1>8, <1>c, LeavingKeeps

(***************************************************************************)
(* Rollouts.                                                               *)
(***************************************************************************)

\* Only people who may be reached and have not left are activated.
LEMMA ActivatedPeople ==
    ASSUME NEW g, NEW batch, NEW u \in batch, UnitReady(g, Reach, u), NEW p \in PeopleOf(g, batch)[u]
    PROVE  p \in Reach /\ p \in Person /\ Live(g.people[p])
<1>1. p \in Activated(g, Reach, u, Advisers(g, u)) BY DEF PeopleOf
<1>2. CASE p = g.units[u].manager BY <1>2 DEF UnitReady, Ready, Holds
<1>3. CASE \E team : p \in ReadyIn(g, Reach, u, team) BY <1>3 DEF ReadyIn, Holds
<1>4. CASE p \in Advisers(g, u) \cap Reach BY <1>4 DEF Advisers, Assigned, Holds
<1>5. CASE \E t \in ReadyTeams(g, Reach, u) : p = g.teams[t].lead
  BY <1>5 DEF ReadyTeams, Ready, Holds
<1> QED BY <1>1, <1>2, <1>3, <1>4, <1>5 DEF Activated

LEMMA ReadyTeamsLive ==
    ASSUME NEW g, NEW u, NEW t \in ReadyTeams(g, Reach, u)
    PROVE  t \in Team /\ Live(g.teams[t])
BY DEF ReadyTeams, LiveTeams

\* An adviser goes out with a unit of the scope alone.
LEMMA ActivatedAdvisers ==
    ASSUME NEW g, NEW batch, NEW u \in batch, UnitReady(g, Reach, u), NEW p \in PeopleOf(g, batch)[u],
           g.people[p].role \in {"hr", "hrbp"}
    PROVE  p \in Advisers(g, u)
<1>1. p \in Activated(g, Reach, u, Advisers(g, u)) BY DEF PeopleOf
<1>2. p # g.units[u].manager BY DEF UnitReady, Ready, Holds
<1>3. \A team : p \notin ReadyIn(g, Reach, u, team) BY DEF ReadyIn, Holds
<1>4. \A t \in ReadyTeams(g, Reach, u) : p # g.teams[t].lead
  BY DEF ReadyTeams, Ready, Holds
<1> QED BY <1>1, <1>2, <1>3, <1>4 DEF Activated

\* g is the graph, people adopted as draft employees included.
Adopts(g) ==
    \A p \in Person :
        \/ g.people[p] = graph.people[p]
        \/ graph.people[p].life = "none" /\ g.people[p] = [role |-> "employee", life |-> "draft"]

\* What a rollout from g does to the advice.
LEMMA RolloutAdvises ==
    ASSUME IInv, RestOK, NEW g, GraphOK(g), g.units = graph.units, Adopts(g),
           NEW batch \in SUBSET Unit, Rollout(g, batch)
    PROVE  AdvisoryScopeIsLive'
<1> DEFINE people == PeopleOf(g, batch)
<1> HIDE DEF people
<1>1. \A u \in batch : UnitReady(g, Reach, u) BY DEF Rollout
<1>2. graph' = RolledOut(g, batch) BY DEF Rollout
<1>3. \A u \in Unit : u \in batch \/ Active(graph.units[u]) => Active(graph'.units[u])
  BY <1>2, RolledOutOK DEF Active
<1>4. SUFFICES ASSUME NEW p \in Person PROVE Advises(p)' BY AdvisesAllPrimed
<1>5. Advises(p) BY AdvisesAll DEF IInv
<1> DEFINE out == \E u \in batch : p \in people[u]
<1>6. /\ graph'.people[p].life = IF out THEN "active" ELSE g.people[p].life
      /\ graph'.people[p].role = g.people[p].role
  BY <1>2, RolledOutOK DEF people
<1>7. \A u \in Unit : assign'[p][u] =
         IF u \in batch /\ p \in people[u] /\ Assigned(g, p, u) THEN "active" ELSE assign[p][u]
  BY DEF Rollout, people
<1>8. scope'[p] = IF Holds(g, p, "hrbp") /\ Live(scope[p]) /\ out
                  THEN [scope[p] EXCEPT !.life = "active"] ELSE scope[p]
  BY DEF Rollout, people
<1>9. scope[p] \in [mode : Modes \cup {None}, life : Lives] BY DEF RestOK
<1>a. \A u \in batch : p \in people[u] => Live(g.people[p]) BY <1>1, ActivatedPeople DEF people
<1>b. \A u \in batch : p \in people[u] /\ g.people[p].role \in {"hr", "hrbp"} => p \in Advisers(g, u)
  BY <1>1, ActivatedAdvisers DEF people
<1>c. ASSUME NEW u \in Unit, assign'[p][u] = "active"
      PROVE  Adviser(graph'.people[p]) /\ Active(graph'.units[u])
  <2>1. CASE assign[p][u] = "active"
    <3>1. Adviser(graph.people[p]) /\ Active(graph.units[u]) BY <1>5, <2>1 DEF Advises
    <3>2. g.people[p] = graph.people[p] BY <3>1 DEF Adopts, Adviser, Active
    <3> QED BY <1>3, <1>6, <3>1, <3>2 DEF Adviser, Active
  <2>2. CASE assign[p][u] # "active"
    <3>1. u \in batch /\ p \in people[u] /\ Assigned(g, p, u) BY <1>7, <1>c, <2>2
    <3>2. g.people[p].role \in {"hr", "hrbp"} BY <3>1 DEF Assigned, Holds
    <3> QED BY <1>3, <1>6, <3>1, <3>2 DEF Adviser, Active
  <2> QED BY <2>1, <2>2
<1>d. CASE out
  <2>1. PICK u \in batch : p \in people[u] BY <1>d
  <2>2. Live(g.people[p]) BY <1>a, <2>1
  <2>3. ASSUME g.people[p].role = "hr" PROVE assign'[p][u] = "active"
    <3>1. Assigned(g, p, u) BY <1>b, <2>1, <2>3 DEF Advisers, Holds
    <3> QED BY <1>7, <2>1, <3>1
  <2>4. ASSUME g.people[p].role = "hrbp"
        PROVE  /\ scope'[p] = [scope[p] EXCEPT !.life = "active"]
               /\ scope[p].mode = "selected_units" => assign'[p][u] = "active"
               /\ scope[p].mode # "selected_units" => \A v \in Unit : assign'[p][v] # "active"
    <3>1. p \in Advisers(g, u) /\ Holds(g, p, "hrbp") BY <1>b, <2>1, <2>2, <2>4 DEF Holds
    <3>2. Live(scope[p]) BY <3>1 DEF Advisers, Assigned, Holds
    <3>3. scope'[p] = [scope[p] EXCEPT !.life = "active"] BY <1>8, <1>d, <3>1, <3>2
    <3>4. ASSUME scope[p].mode = "selected_units" PROVE assign'[p][u] = "active"
      <4>1. Assigned(g, p, u) BY <3>1, <3>4 DEF Advisers, Holds
      <4> QED BY <1>7, <2>1, <4>1
    <3>5. ASSUME scope[p].mode # "selected_units", NEW v \in Unit PROVE assign'[p][v] # "active"
      <4>1. ~Assigned(g, p, v) BY <2>4, <3>5 DEF Assigned, Holds
      <4>2. assign'[p][v] = assign[p][v] BY <1>7, <4>1
      <4>3. ASSUME assign[p][v] = "active" PROVE FALSE
        <5>1. Adviser(graph.people[p]) BY <1>5, <4>3 DEF Advises
        <5>2. g.people[p] = graph.people[p] BY <5>1 DEF Adopts, Adviser, Active
        <5> QED BY <1>5, <2>4, <3>5, <4>3, <5>1, <5>2 DEF Advises, Adviser
      <4> QED BY <4>2, <4>3
    <3> QED BY <3>3, <3>4, <3>5
  <2>5. ASSUME g.people[p].role = "hrbp"
        PROVE  scope'[p].life = "active" /\ scope'[p].mode = scope[p].mode
    BY <1>9, <2>4, <2>5
  <2> QED BY <1>6, <1>c, <2>1, <2>3, <2>4, <2>5 DEF Advises
<1>e. CASE ~out
  <2>1. \A u \in Unit : assign'[p][u] = assign[p][u] BY <1>7, <1>e
  <2>2. scope'[p] = scope[p] BY <1>8, <1>e
  <2>3. Active(graph'.people[p]) /\ graph'.people[p].role \in {"hr", "hrbp"} =>
          Active(graph.people[p]) /\ graph.people[p].role = graph'.people[p].role
    BY <1>6, <1>e DEF Adopts, Active
  <2> QED BY <1>5, <1>c, <2>1, <2>2, <2>3 DEF Advises
<1> QED BY <1>d, <1>e

LEMMA RolloutOK ==
    ASSUME IInv, NEW g, GraphOK(g), g.units = graph.units, g.teams = graph.teams,
           Adopts(g), NEW batch \in SUBSET Unit, Rollout(g, batch)
    PROVE  IInv' /\ Exits
<1> DEFINE out == {p \in Person : \E u \in batch : p \in PeopleOf(g, batch)[u]}
<1>1. GraphOK(graph) /\ RestOK BY TypeSplit DEF IInv
<1>0. \A p \in Person :
         \/ g.people[p].life = graph.people[p].life
         \/ graph.people[p].life = "none" /\ g.people[p].life = "draft"
  BY DEF Adopts
<1>2. \A u \in batch : UnitReady(g, Reach, u) /\ Live(graph.units[u])
  BY DEF Rollout, UnitReady
<1>3. \A p \in out : p \in Reach /\ Live(g.people[p]) BY <1>2, ActivatedPeople
<1>4. \A p \in out : graph.people[p].life # "inactive"
  BY <1>0, <1>3 DEF Live, Reach
<1>5. /\ account' = [p \in Person |-> IF p \in out THEN "active" ELSE account[p]]
      /\ graph' = RolledOut(g, batch) /\ Change /\ UNCHANGED <<linked, creating>>
  BY DEF Rollout
<1>6. GraphOK(graph') /\ \A p \in Person : graph'.people[p].life =
          IF p \in out THEN "active" ELSE g.people[p].life
  BY <1>5, RolledOutOK
<1>7. \A u \in Unit : graph'.units[u].life = IF u \in batch THEN "active" ELSE graph.units[u].life
  BY <1>5, RolledOutOK
<1>8. \A t \in Team : graph.teams[t].life = "inactive" => graph'.teams[t].life = "inactive"
  BY <1>5, RolledOutOK, ReadyTeamsLive DEF Live
<1>9. /\ contact' \in [Person -> [status : {"none", "pending", "cancelled"},
                                  unit : Unit \cup {None}]]
      /\ \A p \in Person : contact'[p] = contact[p] \/ (p \in out /\ contact'[p].unit \in batch)
  <2> DEFINE new == {p \in Person : g.people[p].life = "draft"
                                  /\ \E u \in batch : p \in PeopleOf(g, batch)[u]}
  <2>1. PICK first \in [new -> batch] :
          contact' = [p \in Person |-> IF p \in new /\ contact[p].status = "none"
                         THEN [status |-> "pending", unit |-> first[p]] ELSE contact[p]]
    BY DEF Rollout
  <2>2. \A p \in new : p \in out /\ first[p] \in batch BY DEF out
  <2> HIDE DEF new, out
  <2> QED BY <1>1, <2>1, <2>2 DEF RestOK
<1>a. assign' \in [Person -> [Unit -> Lives]] BY <1>1 DEF Rollout, RestOK, Lives
<1>b. scope' \in [Person -> [mode : Modes \cup {None}, life : Lives]]
  <2>1. /\ scope' = [p \in Person |-> scope'[p]]
        /\ \A p \in Person : scope'[p] \in {scope[p], [scope[p] EXCEPT !.life = "active"]}
    BY DEF Rollout
  <2>2. \A r \in [mode : Modes \cup {None}, life : Lives] :
          [r EXCEPT !.life = "active"] \in [mode : Modes \cup {None}, life : Lives]
    BY DEF Lives
  <2>3. \A p \in Person : scope[p] \in [mode : Modes \cup {None}, life : Lives]
    BY <1>1 DEF RestOK
  <2>4. \A p \in Person : scope'[p] \in [mode : Modes \cup {None}, life : Lives]
    BY <2>1, <2>2, <2>3
  <2> QED BY <2>1, <2>4
<1> HIDE DEF out
<1>c. account' \in [Person -> {"none", "inactive", "active"}] BY <1>1, <1>5 DEF RestOK
<1>d. RestOK' BY <1>1, <1>5, <1>9, <1>a, <1>b, <1>c, ChangeTypes DEF RestOK
<1>e. TypeOK' BY <1>6, <1>d, TypeSplitPrimed
<1>f. \A p \in Person : graph'.people[p].life = "inactive" <=> graph.people[p].life = "inactive"
  BY <1>0, <1>4, <1>6
<1>g. Closed' BY <1>4, <1>5, <1>f DEF IInv, Closed
<1>h. ContactsPlaced' BY <1>9 DEF IInv, ContactsPlaced
<1>i. ContactsFollowPeople'
  BY <1>0, <1>6, <1>7, <1>9, ContactsStay DEF IInv, ContactsFollowPeople, Active
<1>j. Exits BY <1>2, <1>4, <1>5, <1>7, <1>8, <1>f DEF IInv, Closed, Exits, Live
<1>k. AdvisoryScopeIsLive' BY <1>1, RolloutAdvises
<1> QED BY <1>e, <1>g, <1>h, <1>i, <1>j, <1>k DEF IInv

LEMMA ActivateAdoptingOK ==
    ASSUME IInv, NEW batch \in SUBSET Unit, NEW p \in Person, NEW u \in Unit,
           ActivateAdopting(batch, p, u)
    PROVE  IInv' /\ Exits
<1> DEFINE pp == [graph.people EXCEPT ![p] = [role |-> "employee", life |-> "draft"]]
           c == [graph EXCEPT !.people[p] = [role |-> "employee", life |-> "draft"]]
           g == Adopted(p, u)
<1>1. GraphOK(graph) BY TypeSplit DEF IInv
<1>2. graph.people[p].life = "none" /\ Len(graph.homes[p]) < MaxHomes /\ Rollout(g, batch)
  BY DEF ActivateAdopting, CanAdopt, PersonRow
<1>3. pp \in PeopleTable
      /\ \A q \in Person : pp[q].life = IF q = p THEN "draft" ELSE graph.people[q].life
  BY <1>1 DEF GraphOK, PeopleTable, Roles, Lives
<1>4. c = [graph EXCEPT !.people = pp] BY <1>1 DEF GraphOK
<1> HIDE DEF pp
<1>5. WithTables(graph, c, pp, graph.units, graph.teams) BY <1>1, <1>3, <1>4, PeopleReplaced
<1>6. g = AddHome(c, p, u, None, "draft") BY DEF Adopted
<1> HIDE DEF c
<1>7. GraphOK(g) BY <1>2, <1>5, <1>6, AddHomeOK DEF WithTables, Lives
<1>8. g.people = c.people /\ g.units = c.units /\ g.teams = c.teams
  BY <1>5, <1>6 DEF AddHome, WithTables, GraphOK
<1>a. Adopts(g)
  <2>1. \A q \in Person : g.people[q] = pp[q] BY <1>5, <1>8 DEF WithTables
  <2>2. \A q \in Person : pp[q] =
           IF q = p THEN [role |-> "employee", life |-> "draft"] ELSE graph.people[q]
    BY <1>1 DEF pp, GraphOK, PeopleTable
  <2> QED BY <1>2, <2>1, <2>2 DEF Adopts
<1>b. g.units = graph.units /\ g.teams = graph.teams BY <1>5, <1>8 DEF WithTables
<1> HIDE DEF g
<1> QED BY <1>2, <1>7, <1>a, <1>b, RolloutOK

(***************************************************************************)
(* Every step keeps the invariant.                                         *)
(***************************************************************************)

LEMMA StepOK == ASSUME IInv, Next PROVE IInv' /\ Exits
<1>1. CASE Drafting
  BY <1>1, ImportCsvOK, CreatePersonOK, UpdatePersonOK, CreateUnitCheckOK, UpdateUnitOK,
     CreateTeamCheckOK, UpdateTeamOK, CreateInsertOK, ReplaceDraftPlacementOK, LinkSlackOK,
     UnlinkSlackOK, ReplaceScopeOK DEF Drafting
<1>2. CASE Changing
  <2>1. ASSUME NEW batch \in SUBSET Unit \ {{}}, ActivateUnits(batch) PROVE IInv' /\ Exits
    <3>1. GraphOK(graph) BY TypeSplit DEF IInv
    <3>2. Rollout(graph, batch) BY <2>1 DEF ActivateUnits
    <3>3. Adopts(graph) BY DEF Adopts
    <3> QED BY <3>1, <3>2, <3>3, RolloutOK
  <2> QED BY <1>2, <2>1, ActivateAdoptingOK, LegacyAssumption, MoveEmployeeOK, PromoteTeamLeadOK,
             PromoteManagerOK, DeactivateTeamOK, TransferOK, DeactivatePersonOK
          DEF Changing
<1> QED BY <1>1, <1>2 DEF Next

LEMMA StutterOK == ASSUME IInv, UNCHANGED vars PROVE IInv'
BY DEF IInv, vars, TypeOK, Closed, ContactsPlaced, ContactsFollowPeople, AdvisoryScopeIsLive,
       ActiveUnits

LEMMA Inductive == Spec => []IInv
<1>1. IInv /\ [Next]_vars => IInv' BY StepOK, StutterOK
<1> QED BY InitOK, <1>1, PTL DEF Spec

(***************************************************************************)
(* The active structure.                                                   *)
(***************************************************************************)

\* h has the active units, teams, owners, employees and rows of g.
SameShape(g, h) ==
    /\ ActiveUnits(h) = ActiveUnits(g) /\ \A u \in ActiveUnits(g) : h.units[u] = g.units[u]
    /\ ActiveTeams(h) = ActiveTeams(g) /\ \A t \in ActiveTeams(g) : h.teams[t] = g.teams[t]
    /\ \A role \in {"manager", "team_lead", "employee"} : ActivePeople(h, role) = ActivePeople(g, role)
    /\ \A p \in Person : /\ ActiveRows(h, p) = ActiveRows(g, p)
                         /\ \A i \in ActiveRows(g, p) : h.homes[p][i] = g.homes[p][i]

LEMMA ShapeIsValid ==
    ASSUME NEW g, NEW h, SameShape(g, h), ValidActive(g)
    PROVE  ValidActive(h)
<1>1. OwnersHold(h) BY DEF SameShape, ValidActive, OwnersHold
<1>2. HomesHold(h)
  <2> SUFFICES ASSUME NEW p \in Person, NEW i \in ActiveRows(h, p)
               PROVE  /\ p \in ActivePeople(h, "employee")
                      /\ h.homes[p][i].unit \in ActiveUnits(h)
                      /\ h.homes[p][i].team # None =>
                            /\ h.homes[p][i].team \in ActiveTeams(h)
                            /\ h.teams[h.homes[p][i].team].unit = h.homes[p][i].unit
    BY DEF HomesHold
  <2>1. i \in ActiveRows(g, p) /\ h.homes[p][i] = g.homes[p][i] BY DEF SameShape
  <2>2. /\ p \in ActivePeople(g, "employee")
        /\ g.homes[p][i].unit \in ActiveUnits(g)
        /\ g.homes[p][i].team # None =>
              /\ g.homes[p][i].team \in ActiveTeams(g)
              /\ g.teams[g.homes[p][i].team].unit = g.homes[p][i].unit
    BY <2>1 DEF ValidActive, HomesHold
  <2> QED BY <2>1, <2>2 DEF SameShape
<1>3. NobodyAlone(h)
  <2>1. ASSUME NEW t \in ActiveTeams(h)
        PROVE  \E p \in Person : \E i \in ActiveRows(h, p) : h.homes[p][i].team = t
    BY DEF SameShape, ValidActive, NobodyAlone
  <2>2. ASSUME NEW u \in ActiveUnits(h)
        PROVE  \/ \E t \in ActiveTeams(h) : h.teams[t].unit = u
               \/ \E p \in Person : \E i \in ActiveRows(h, p) : h.homes[p][i].unit = u
    BY DEF SameShape, ValidActive, NobodyAlone
  <2> QED BY <2>1, <2>2 DEF NobodyAlone
<1>4. OneHomeEach(h)
  <2>1. ASSUME NEW p
        PROVE  /\ {u \in ActiveUnits(h) : h.units[u].manager = p}
                     = {u \in ActiveUnits(g) : g.units[u].manager = p}
               /\ {t \in ActiveTeams(h) : h.teams[t].lead = p}
                     = {t \in ActiveTeams(g) : g.teams[t].lead = p}
    BY DEF SameShape
  <2>2. ASSUME NEW p \in ActivePeople(h, "manager")
        PROVE  Cardinality({u \in ActiveUnits(h) : h.units[u].manager = p}) = 1
    <3>1. p \in ActivePeople(g, "manager") BY DEF SameShape
    <3>2. Cardinality({u \in ActiveUnits(g) : g.units[u].manager = p}) = 1
      BY <3>1 DEF ValidActive, OneHomeEach
    <3> QED BY <2>1, <3>2
  <2>3. ASSUME NEW p \in ActivePeople(h, "team_lead")
        PROVE  Cardinality({t \in ActiveTeams(h) : h.teams[t].lead = p}) = 1
    <3>1. p \in ActivePeople(g, "team_lead") BY DEF SameShape
    <3>2. Cardinality({t \in ActiveTeams(g) : g.teams[t].lead = p}) = 1
      BY <3>1 DEF ValidActive, OneHomeEach
    <3> QED BY <2>1, <3>2
  <2>4. ASSUME NEW p \in ActivePeople(h, "employee") PROVE Cardinality(ActiveRows(h, p)) = 1
    <3>1. p \in ActivePeople(g, "employee") /\ p \in Person BY DEF SameShape, ActivePeople
    <3> QED BY <3>1 DEF SameShape, ValidActive, OneHomeEach
  <2> QED BY <2>2, <2>3, <2>4 DEF OneHomeEach
<1> QED BY <1>1, <1>2, <1>3, <1>4 DEF ValidActive

\* What is left of the rows when only those of employees count.
LEMMA RowsOfEmployees ==
    ASSUME NEW g, GraphOK(g)
    PROVE  /\ EmployeesOnly(g).people = g.people
           /\ EmployeesOnly(g).units = g.units
           /\ EmployeesOnly(g).teams = g.teams
           /\ \A p \in Person :
                 /\ ActiveRows(EmployeesOnly(g), p) =
                       IF g.people[p].role = "employee" THEN ActiveRows(g, p) ELSE {}
                 /\ \A i \in ActiveRows(EmployeesOnly(g), p) :
                       EmployeesOnly(g).homes[p][i] = g.homes[p][i]
<1> DEFINE Counts(p, home) == IF g.people[p].role # "employee" /\ Active(home)
                           THEN [home EXCEPT !.life = "inactive"] ELSE home
           k == [p \in Person |-> [i \in DOMAIN g.homes[p] |-> Counts(p, g.homes[p][i])]]
<1>1. EmployeesOnly(g) = [g EXCEPT !.homes = k] BY DEF EmployeesOnly, ChangeHomes
<1>2. ASSUME NEW p \in Person, NEW home \in Home
      PROVE  /\ Active(Counts(p, home)) <=> Active(home) /\ g.people[p].role = "employee"
             /\ Active(Counts(p, home)) => Counts(p, home) = home
  BY DEF Home, Active
<1> HIDE DEF Counts
<1>3. /\ EmployeesOnly(g).people = g.people
      /\ EmployeesOnly(g).units = g.units
      /\ EmployeesOnly(g).teams = g.teams
      /\ EmployeesOnly(g).homes = k
  BY <1>1 DEF GraphOK
<1>4. ASSUME NEW p \in Person
      PROVE  /\ ActiveRows(EmployeesOnly(g), p) =
                   IF g.people[p].role = "employee" THEN ActiveRows(g, p) ELSE {}
             /\ \A i \in ActiveRows(EmployeesOnly(g), p) :
                   EmployeesOnly(g).homes[p][i] = g.homes[p][i]
  BY <1>2, <1>3, RowsOfGraph DEF ActiveRows
<1> QED BY <1>3, <1>4

\* A graph the planners accept has no other active rows than those of employees.
LEMMA AcceptedHolds ==
    ASSUME NEW g, GraphOK(g), ValidActive(g)
    PROVE  ValidActive(EmployeesOnly(g))
<1> DEFINE e == EmployeesOnly(g)
<1>1. /\ e.people = g.people /\ e.units = g.units /\ e.teams = g.teams
      /\ \A p \in Person :
            /\ ActiveRows(e, p) = IF g.people[p].role = "employee" THEN ActiveRows(g, p) ELSE {}
            /\ \A i \in ActiveRows(e, p) : e.homes[p][i] = g.homes[p][i]
  BY RowsOfEmployees
<1>2. \A p \in Person : ActiveRows(g, p) # {} => g.people[p].role = "employee"
  BY DEF ValidActive, HomesHold, ActivePeople
<1> HIDE DEF e
<1>3. SameShape(g, e)
  BY <1>1, <1>2 DEF SameShape, ActiveUnits, ActiveTeams, ActivePeople
<1>4. ValidActive(e) BY <1>3, ShapeIsValid
<1> QED BY <1>4 DEF e

\* The drafting steps and the exits of advisers: what is active stays as it is.
Unmoved(g, h) ==
    /\ \A u \in Unit : Active(g.units[u]) \/ Active(h.units[u]) => h.units[u] = g.units[u]
    /\ \A t \in Team : Active(g.teams[t]) \/ Active(h.teams[t]) => h.teams[t] = g.teams[t]
    /\ \A p \in Person :
          \/ h.people[p] = g.people[p]
          \/ \A q \in {g.people[p], h.people[p]} :
                ~Active(q) \/ q.role \notin {"manager", "team_lead", "employee"}
    /\ \A p \in Person :
          \/ /\ h.people[p].role = g.people[p].role
             /\ ActiveRows(h, p) = ActiveRows(g, p)
             /\ g.people[p].role = "employee" =>
                   \A i \in ActiveRows(g, p) : h.homes[p][i] = g.homes[p][i]
          \/ ActiveRows(h, p) = {} /\ ActiveRows(g, p) = {}

LEMMA UnmovedHolds ==
    ASSUME NEW g, GraphOK(g), NEW h, GraphOK(h), Unmoved(g, h), ValidActive(EmployeesOnly(g))
    PROVE  ValidActive(EmployeesOnly(h))
<1> DEFINE e == EmployeesOnly(g)
           f == EmployeesOnly(h)
<1>1. /\ e.people = g.people /\ e.units = g.units /\ e.teams = g.teams
      /\ \A p \in Person :
            /\ ActiveRows(e, p) = IF g.people[p].role = "employee" THEN ActiveRows(g, p) ELSE {}
            /\ \A i \in ActiveRows(e, p) : e.homes[p][i] = g.homes[p][i]
  BY RowsOfEmployees
<1>2. /\ f.people = h.people /\ f.units = h.units /\ f.teams = h.teams
      /\ \A p \in Person :
            /\ ActiveRows(f, p) = IF h.people[p].role = "employee" THEN ActiveRows(h, p) ELSE {}
            /\ \A i \in ActiveRows(f, p) : f.homes[p][i] = h.homes[p][i]
  BY RowsOfEmployees
<1> HIDE DEF e, f
<1>3. ActiveUnits(f) = ActiveUnits(e) /\ \A u \in ActiveUnits(e) : f.units[u] = e.units[u]
  BY <1>1, <1>2 DEF Unmoved, ActiveUnits
<1>4. ActiveTeams(f) = ActiveTeams(e) /\ \A t \in ActiveTeams(e) : f.teams[t] = e.teams[t]
  BY <1>1, <1>2 DEF Unmoved, ActiveTeams
<1>5. ASSUME NEW role \in {"manager", "team_lead", "employee"}
      PROVE  ActivePeople(f, role) = ActivePeople(e, role)
  BY <1>1, <1>2 DEF Unmoved, ActivePeople
<1>6. ASSUME NEW p \in Person
      PROVE  /\ ActiveRows(f, p) = ActiveRows(e, p)
             /\ \A i \in ActiveRows(e, p) : f.homes[p][i] = e.homes[p][i]
  <2>1. CASE ActiveRows(h, p) = {} /\ ActiveRows(g, p) = {} BY <1>1, <1>2, <2>1
  <2>2. CASE /\ h.people[p].role = g.people[p].role
             /\ ActiveRows(h, p) = ActiveRows(g, p)
             /\ g.people[p].role = "employee" =>
                   \A i \in ActiveRows(g, p) : h.homes[p][i] = g.homes[p][i]
    <3>1. ActiveRows(f, p) = ActiveRows(e, p) BY <1>1, <1>2, <2>2
    <3>2. ASSUME NEW i \in ActiveRows(e, p) PROVE f.homes[p][i] = e.homes[p][i]
      <4>1. g.people[p].role = "employee" /\ i \in ActiveRows(g, p) BY <1>1
      <4>2. f.homes[p][i] = h.homes[p][i] BY <1>2, <3>1
      <4>3. e.homes[p][i] = g.homes[p][i] BY <1>1
      <4> QED BY <2>2, <4>1, <4>2, <4>3
    <3> QED BY <3>1, <3>2
  <2> QED BY <2>1, <2>2 DEF Unmoved
<1>7. SameShape(e, f) BY <1>3, <1>4, <1>5, <1>6 DEF SameShape
<1> QED BY <1>7, ShapeIsValid DEF e, f

\* The active structure without its cardinalities, over the rows of employees: each owner has
\* something to own, each employee a home, and the indexes see to it that it is one.
Structure(g) ==
    /\ OwnersHold(g)
    /\ \A p \in Person : g.people[p].role = "employee" => \A i \in ActiveRows(g, p) :
          /\ Active(g.people[p])
          /\ g.homes[p][i].unit \in ActiveUnits(g)
          /\ g.homes[p][i].team \in ActiveTeams(g) \cup {None}
    /\ \A t \in ActiveTeams(g) : \E p \in Person :
          g.people[p].role = "employee" /\ \E i \in ActiveRows(g, p) : g.homes[p][i].team = t
    /\ \A u \in ActiveUnits(g) :
          \/ \E t \in ActiveTeams(g) : g.teams[t].unit = u
          \/ \E p \in Person :
                g.people[p].role = "employee" /\ \E i \in ActiveRows(g, p) : g.homes[p][i].unit = u
    /\ \A p \in ActivePeople(g, "manager") : \E u \in ActiveUnits(g) : g.units[u].manager = p
    /\ \A p \in ActivePeople(g, "team_lead") : \E t \in ActiveTeams(g) : g.teams[t].lead = p
    /\ \A p \in ActivePeople(g, "employee") : ActiveRows(g, p) # {}

LEMMA StructureOf ==
    ASSUME NEW g, GraphOK(g), ValidActive(EmployeesOnly(g))
    PROVE  Structure(g)
<1> DEFINE e == EmployeesOnly(g)
<1>1. /\ e.people = g.people /\ e.units = g.units /\ e.teams = g.teams
      /\ \A p \in Person :
            /\ ActiveRows(e, p) = IF g.people[p].role = "employee" THEN ActiveRows(g, p) ELSE {}
            /\ \A i \in ActiveRows(e, p) : e.homes[p][i] = g.homes[p][i]
  BY RowsOfEmployees
<1>2. ValidActive(e) OBVIOUS
<1> HIDE DEF e
<1>3. /\ ActiveUnits(e) = ActiveUnits(g) /\ ActiveTeams(e) = ActiveTeams(g)
      /\ \A role : ActivePeople(e, role) = ActivePeople(g, role)
  BY <1>1 DEF ActiveUnits, ActiveTeams, ActivePeople
<1>4. \A p \in Person : \A i \in ActiveRows(e, p) :
         g.people[p].role = "employee" /\ i \in ActiveRows(g, p) /\ e.homes[p][i] = g.homes[p][i]
  BY <1>1
<1>5. OwnersHold(g) BY <1>1, <1>2, <1>3 DEF ValidActive, OwnersHold
<1>6. ASSUME NEW p \in Person, g.people[p].role = "employee", NEW i \in ActiveRows(g, p)
      PROVE  /\ Active(g.people[p])
             /\ g.homes[p][i].unit \in ActiveUnits(g)
             /\ g.homes[p][i].team \in ActiveTeams(g) \cup {None}
  <2>1. i \in ActiveRows(e, p) /\ e.homes[p][i] = g.homes[p][i] BY <1>1, <1>6
  <2>2. /\ p \in ActivePeople(e, "employee")
        /\ e.homes[p][i].unit \in ActiveUnits(e)
        /\ e.homes[p][i].team # None => e.homes[p][i].team \in ActiveTeams(e)
    BY <1>2, <2>1 DEF ValidActive, HomesHold
  <2> QED BY <1>3, <2>1, <2>2 DEF ActivePeople
<1>7. ASSUME NEW t \in ActiveTeams(g)
      PROVE  \E p \in Person :
                g.people[p].role = "employee" /\ \E i \in ActiveRows(g, p) : g.homes[p][i].team = t
  <2>1. PICK p \in Person : \E i \in ActiveRows(e, p) : e.homes[p][i].team = t
    BY <1>2, <1>3 DEF ValidActive, NobodyAlone
  <2> QED BY <1>4, <2>1
<1>8. ASSUME NEW u \in ActiveUnits(g), \A t \in ActiveTeams(g) : g.teams[t].unit # u
      PROVE  \E p \in Person :
                g.people[p].role = "employee" /\ \E i \in ActiveRows(g, p) : g.homes[p][i].unit = u
  <2>1. PICK p \in Person : \E i \in ActiveRows(e, p) : e.homes[p][i].unit = u
    BY <1>1, <1>2, <1>3, <1>8 DEF ValidActive, NobodyAlone
  <2> QED BY <1>4, <2>1
<1>9. \A S : Cardinality(S) = 1 => S # {} BY FS_EmptySet
<1>a. ASSUME NEW p \in ActivePeople(g, "manager")
      PROVE  \E u \in ActiveUnits(g) : g.units[u].manager = p
  <2>1. Cardinality({u \in ActiveUnits(g) : g.units[u].manager = p}) = 1
    BY <1>1, <1>2, <1>3 DEF ValidActive, OneHomeEach
  <2>2. {u \in ActiveUnits(g) : g.units[u].manager = p} # {} BY <1>9, <2>1
  <2> QED BY <2>2
<1>b. ASSUME NEW p \in ActivePeople(g, "team_lead")
      PROVE  \E t \in ActiveTeams(g) : g.teams[t].lead = p
  <2>1. Cardinality({t \in ActiveTeams(g) : g.teams[t].lead = p}) = 1
    BY <1>1, <1>2, <1>3 DEF ValidActive, OneHomeEach
  <2>2. {t \in ActiveTeams(g) : g.teams[t].lead = p} # {} BY <1>9, <2>1
  <2> QED BY <2>2
<1>c. ASSUME NEW p \in ActivePeople(g, "employee") PROVE ActiveRows(g, p) # {}
  <2>1. Cardinality(ActiveRows(e, p)) = 1 BY <1>2, <1>3 DEF ValidActive, OneHomeEach
  <2>2. p \in Person /\ ActiveRows(e, p) # {} BY <1>9, <2>1 DEF ActivePeople
  <2> QED BY <1>1, <2>2
<1> QED BY <1>5, <1>6, <1>7, <1>8, <1>a, <1>b, <1>c DEF Structure

\* Sets of which the indexes leave one element.
LEMMA OnlyOne ==
    ASSUME NEW S, NEW x \in S, \A y \in S : y = x
    PROVE  Cardinality(S) = 1
<1>1. S = {x} OBVIOUS
<1> QED BY <1>1, FS_Singleton

LEMMA StructureHolds ==
    ASSUME NEW g, GraphOK(g), Structure(g), Rows(g), IndexesHold(g)
    PROVE  ValidActive(EmployeesOnly(g))
<1> DEFINE e == EmployeesOnly(g)
<1>1. /\ e.people = g.people /\ e.units = g.units /\ e.teams = g.teams
      /\ \A p \in Person :
            /\ ActiveRows(e, p) = IF g.people[p].role = "employee" THEN ActiveRows(g, p) ELSE {}
            /\ \A i \in ActiveRows(e, p) : e.homes[p][i] = g.homes[p][i]
  BY RowsOfEmployees
<1> HIDE DEF e
<1>3. /\ ActiveUnits(e) = ActiveUnits(g) /\ ActiveTeams(e) = ActiveTeams(g)
      /\ \A role : ActivePeople(e, role) = ActivePeople(g, role)
  BY <1>1 DEF ActiveUnits, ActiveTeams, ActivePeople
<1>4. \A p \in Person : g.people[p].role = "employee" => \A i \in ActiveRows(g, p) :
         i \in ActiveRows(e, p) /\ e.homes[p][i] = g.homes[p][i]
  BY <1>1
<1>5. OwnersHold(e) BY <1>1, <1>3 DEF Structure, OwnersHold
<1>6. HomesHold(e)
  <2> SUFFICES ASSUME NEW p \in Person, NEW i \in ActiveRows(e, p)
               PROVE  /\ p \in ActivePeople(e, "employee")
                      /\ e.homes[p][i].unit \in ActiveUnits(e)
                      /\ e.homes[p][i].team # None =>
                            /\ e.homes[p][i].team \in ActiveTeams(e)
                            /\ e.teams[e.homes[p][i].team].unit = e.homes[p][i].unit
    BY DEF HomesHold
  <2>1. g.people[p].role = "employee" /\ i \in ActiveRows(g, p) /\ e.homes[p][i] = g.homes[p][i]
    BY <1>1
  <2>2. /\ Active(g.people[p])
        /\ g.homes[p][i].unit \in ActiveUnits(g)
        /\ g.homes[p][i].team \in ActiveTeams(g) \cup {None}
    BY <2>1 DEF Structure
  <2>3. i \in DOMAIN g.homes[p] BY <2>1 DEF ActiveRows
  <2>4. g.homes[p][i].team # None => g.teams[g.homes[p][i].team].unit = g.homes[p][i].unit
    BY <2>3 DEF Rows
  <2> QED BY <1>1, <1>3, <2>1, <2>2, <2>4 DEF ActivePeople
<1>7. NobodyAlone(e)
  <2>1. ASSUME NEW t \in ActiveTeams(e)
        PROVE  \E p \in Person : \E i \in ActiveRows(e, p) : e.homes[p][i].team = t
    <3>1. PICK p \in Person :
             g.people[p].role = "employee" /\ \E i \in ActiveRows(g, p) : g.homes[p][i].team = t
      BY <1>3 DEF Structure
    <3> QED BY <1>4, <3>1
  <2>2. ASSUME NEW u \in ActiveUnits(e), \A t \in ActiveTeams(e) : e.teams[t].unit # u
        PROVE  \E p \in Person : \E i \in ActiveRows(e, p) : e.homes[p][i].unit = u
    <3>1. PICK p \in Person :
             g.people[p].role = "employee" /\ \E i \in ActiveRows(g, p) : g.homes[p][i].unit = u
      BY <1>1, <1>3, <2>2 DEF Structure
    <3> QED BY <1>4, <3>1
  <2> QED BY <2>1, <2>2 DEF NobodyAlone
<1>8. ASSUME NEW p \in ActivePeople(e, "manager")
      PROVE  Cardinality({u \in ActiveUnits(e) : e.units[u].manager = p}) = 1
  <2>1. PICK u \in ActiveUnits(g) : g.units[u].manager = p BY <1>3 DEF Structure
  <2>2. \A v \in ActiveUnits(g) : g.units[v].manager = p => v = u BY <2>1 DEF IndexesHold
  <2> DEFINE S == {v \in ActiveUnits(e) : e.units[v].manager = p}
  <2>3. u \in S /\ \A v \in S : v = u BY <1>1, <1>3, <2>1, <2>2
  <2> HIDE DEF S
  <2>4. Cardinality(S) = 1 BY <2>3, OnlyOne
  <2> QED BY <2>4 DEF S
<1>9. ASSUME NEW p \in ActivePeople(e, "team_lead")
      PROVE  Cardinality({t \in ActiveTeams(e) : e.teams[t].lead = p}) = 1
  <2>1. PICK t \in ActiveTeams(g) : g.teams[t].lead = p BY <1>3 DEF Structure
  <2>2. \A v \in ActiveTeams(g) : g.teams[v].lead = p => v = t BY <2>1 DEF IndexesHold
  <2> DEFINE S == {v \in ActiveTeams(e) : e.teams[v].lead = p}
  <2>3. t \in S /\ \A v \in S : v = t BY <1>1, <1>3, <2>1, <2>2
  <2> HIDE DEF S
  <2>4. Cardinality(S) = 1 BY <2>3, OnlyOne
  <2> QED BY <2>4 DEF S
<1>a. ASSUME NEW p \in ActivePeople(e, "employee") PROVE Cardinality(ActiveRows(e, p)) = 1
  <2>1. p \in Person /\ p \in ActivePeople(g, "employee") /\ g.people[p].role = "employee"
    BY <1>3 DEF ActivePeople
  <2>2. ActiveRows(e, p) = ActiveRows(g, p) BY <1>1, <2>1
  <2>3. ActiveRows(g, p) # {} BY <2>1 DEF Structure
  <2>4. Cardinality(ActiveRows(g, p)) <= 1 BY <2>1 DEF IndexesHold
  <2>5. g.homes[p] \in Seq(Home) BY <2>1 DEF GraphOK
  <2>6. Len(g.homes[p]) \in Nat /\ ActiveRows(g, p) \subseteq 1..Len(g.homes[p])
    BY <2>5 DEF ActiveRows
  <2>7. IsFiniteSet(1..Len(g.homes[p])) BY <2>6, FS_Interval
  <2>8. IsFiniteSet(ActiveRows(g, p)) BY <2>6, <2>7, FS_Subset
  <2>9. Cardinality(ActiveRows(g, p)) \in Nat /\ Cardinality(ActiveRows(g, p)) # 0
    BY <2>3, <2>8, FS_CardinalityType, FS_EmptySet
  <2> QED BY <2>2, <2>4, <2>9
<1>b. OneHomeEach(e) BY <1>8, <1>9, <1>a DEF OneHomeEach
<1>c. ValidActive(e) BY <1>5, <1>6, <1>7, <1>b DEF ValidActive
<1> QED BY <1>c DEF e

(***************************************************************************)
(* Rollouts of the structure.                                              *)
(***************************************************************************)

\* The owners and the employees of the batch who go out have what they go out for.
LEMMA WhoGoesOut ==
    ASSUME NEW g, GraphOK(g), NEW batch, NEW u \in batch, UnitReady(g, Reach, u),
           NEW p \in PeopleOf(g, batch)[u]
    PROVE  /\ p \in Person
           /\ g.people[p].role = "manager" => p = g.units[u].manager
           /\ g.people[p].role = "team_lead" =>
                 \E t \in ReadyTeams(g, Reach, u) : p = g.teams[t].lead
           /\ g.people[p].role = "employee" =>
                 \E t \in ReadyTeams(g, Reach, u) \cup {None} : p \in ReadyIn(g, Reach, u, t)
<1>1. p \in Activated(g, Reach, u, Advisers(g, u)) BY DEF PeopleOf
<1>2. CASE p = g.units[u].manager
  <2>1. p \in Person /\ g.people[p].role = "manager" BY <1>2 DEF UnitReady, Ready, Holds
  <2> QED BY <1>2, <2>1
<1>3. CASE \E t \in ReadyTeams(g, Reach, u) \cup {None} : p \in ReadyIn(g, Reach, u, t)
  <2>1. p \in Person /\ g.people[p].role = "employee" BY <1>3 DEF ReadyIn, Holds
  <2> QED BY <1>3, <2>1
<1>4. CASE p \in Advisers(g, u) \cap Reach
  <2>1. p \in Person /\ g.people[p].role \in {"hr", "hrbp", "leadership"}
    BY <1>4 DEF Advisers, Assigned, Holds
  <2> QED BY <2>1
<1>5. CASE \E t \in ReadyTeams(g, Reach, u) : p = g.teams[t].lead
  <2>1. p \in Person /\ g.people[p].role = "team_lead" BY <1>5 DEF ReadyTeams, Ready, Holds
  <2> QED BY <1>5, <2>1
<1> QED BY <1>1, <1>2, <1>3, <1>4, <1>5 DEF Activated

LEMMA RolledOutStructure ==
    ASSUME NEW g, GraphOK(g), Structure(g), Rows(g), NEW batch \in SUBSET Unit,
           \A u \in batch : UnitReady(g, Reach, u)
    PROVE  Structure(RolledOut(g, batch)) /\ Rows(RolledOut(g, batch))
<1> DEFINE h == RolledOut(g, batch)
           people == PeopleOf(g, batch)
<1>1. /\ \A p \in Person : /\ h.people[p].life = IF \E u \in batch : p \in people[u]
                                                 THEN "active" ELSE g.people[p].life
                           /\ h.people[p].role = g.people[p].role
      /\ \A u \in Unit : /\ h.units[u].life = IF u \in batch THEN "active" ELSE g.units[u].life
                         /\ h.units[u].manager = g.units[u].manager
      /\ \A t \in Team : /\ h.teams[t].life = IF \E u \in batch : t \in ReadyTeams(g, Reach, u)
                                              THEN "active" ELSE g.teams[t].life
                         /\ h.teams[t].unit = g.teams[t].unit
                         /\ h.teams[t].lead = g.teams[t].lead
      /\ RowsOut(g, batch, h)
  BY RolledOutOK
<1> HIDE DEF h, people
<1>2. \A u \in batch : u \in ActiveUnits(h) BY <1>1 DEF ActiveUnits, Active
<1>3. \A u \in ActiveUnits(g) : u \in ActiveUnits(h) BY <1>1 DEF ActiveUnits, Active
<1>4. \A t \in ActiveTeams(g) : t \in ActiveTeams(h) BY <1>1 DEF ActiveTeams, Active
<1>5. \A p \in Person : Active(g.people[p]) => Active(h.people[p]) BY <1>1 DEF Active
<1>6. \A u \in batch : \A p \in Person : p \in people[u] => Active(h.people[p])
  BY <1>1 DEF Active
<1>7. \A u \in batch : \A t \in ReadyTeams(g, Reach, u) :
         /\ t \in ActiveTeams(h) /\ h.teams[t].unit = u /\ t \in TeamsOut(g, batch)
         /\ Ready(g, Reach, g.teams[t].lead, "team_lead")
         /\ ReadyIn(g, Reach, u, t) # {}
  BY <1>1 DEF ReadyTeams, LiveTeams, ActiveTeams, Active, TeamsOut
<1>8. ASSUME NEW p \in Person, NEW i \in ActiveRows(g, p)
      PROVE  /\ i \in ActiveRows(h, p)
             /\ h.homes[p][i].unit = g.homes[p][i].unit /\ h.homes[p][i].team = g.homes[p][i].team
  BY <1>1 DEF ActiveRows, RowsOut, Active
<1>9. ASSUME NEW p \in Person, NEW i \in ActiveRows(h, p)
      PROVE  /\ i \in DOMAIN g.homes[p]
             /\ h.homes[p][i].unit = g.homes[p][i].unit /\ h.homes[p][i].team = g.homes[p][i].team
             /\ i \in ActiveRows(g, p) \/ RowOut(g, batch, p, g.homes[p][i])
  BY <1>1 DEF ActiveRows, RowsOut, Active
\* Who is ready in the unit or in a ready team of it goes out with a row there.
<1>a. ASSUME NEW u \in batch, NEW t \in ReadyTeams(g, Reach, u) \cup {None},
             NEW p \in ReadyIn(g, Reach, u, t)
      PROVE  /\ p \in Person /\ h.people[p].role = "employee"
             /\ \E i \in ActiveRows(h, p) : h.homes[p][i].unit = u /\ h.homes[p][i].team = t
  <2>1. p \in Person /\ g.people[p].role = "employee" BY DEF ReadyIn, Holds
  <2>2. PICK i \in DOMAIN g.homes[p] : g.homes[p][i].unit = u /\ g.homes[p][i].team = t
    BY DEF ReadyIn, HomesOf
  <2>3. p \in people[u] BY DEF people, PeopleOf, Activated
  <2>4. t \in TeamsOut(g, batch) \cup {None} BY DEF TeamsOut
  <2>5. RowOut(g, batch, p, g.homes[p][i]) BY <2>2, <2>3, <2>4 DEF RowOut, people
  <2>6. /\ i \in DOMAIN h.homes[p] /\ h.homes[p][i].life = "active"
        /\ h.homes[p][i].unit = u /\ h.homes[p][i].team = t
    BY <1>1, <2>1, <2>2, <2>5 DEF RowsOut
  <2> QED BY <1>1, <2>1, <2>6 DEF ActiveRows, Active
<1>b. OwnersHold(h)
  <2>1. ASSUME NEW u \in ActiveUnits(h) PROVE h.units[u].manager \in ActivePeople(h, "manager")
    <3>1. u \in Unit /\ h.units[u].manager = g.units[u].manager BY <1>1 DEF ActiveUnits
    <3>2. CASE u \in batch
      <4>1. Ready(g, Reach, g.units[u].manager, "manager") BY <3>2 DEF UnitReady
      <4>2. g.units[u].manager \in people[u] BY <3>2 DEF people, PeopleOf, Activated
      <4> QED BY <1>1, <1>6, <3>1, <3>2, <4>1, <4>2 DEF Ready, Holds, ActivePeople
    <3>3. CASE u \notin batch
      <4>1. u \in ActiveUnits(g) BY <1>1, <3>1, <3>3 DEF ActiveUnits, Active
      <4>2. g.units[u].manager \in ActivePeople(g, "manager") BY <4>1 DEF Structure, OwnersHold
      <4> QED BY <1>1, <1>5, <3>1, <4>2 DEF ActivePeople
    <3> QED BY <3>2, <3>3
  <2>2. ASSUME NEW t \in ActiveTeams(h)
        PROVE  h.teams[t].unit \in ActiveUnits(h) /\ h.teams[t].lead \in ActivePeople(h, "team_lead")
    <3>1. t \in Team /\ h.teams[t].unit = g.teams[t].unit /\ h.teams[t].lead = g.teams[t].lead
      BY <1>1 DEF ActiveTeams
    <3>2. CASE \E u \in batch : t \in ReadyTeams(g, Reach, u)
      <4>1. PICK u \in batch : t \in ReadyTeams(g, Reach, u) BY <3>2
      <4>2. g.teams[t].lead \in people[u] BY <4>1 DEF people, PeopleOf, Activated
      <4>3. h.teams[t].lead \in ActivePeople(h, "team_lead")
        BY <1>1, <1>6, <1>7, <3>1, <4>1, <4>2 DEF Ready, Holds, ActivePeople
      <4> QED BY <1>2, <1>7, <4>1, <4>3
    <3>3. CASE ~\E u \in batch : t \in ReadyTeams(g, Reach, u)
      <4>1. t \in ActiveTeams(g) BY <1>1, <3>1, <3>3 DEF ActiveTeams, Active
      <4>2. g.teams[t].unit \in ActiveUnits(g) /\ g.teams[t].lead \in ActivePeople(g, "team_lead")
        BY <4>1 DEF Structure, OwnersHold
      <4> QED BY <1>1, <1>3, <1>5, <3>1, <4>2 DEF ActivePeople
    <3> QED BY <3>2, <3>3
  <2> QED BY <2>1, <2>2 DEF OwnersHold
<1>c. ASSUME NEW p \in Person, h.people[p].role = "employee", NEW i \in ActiveRows(h, p)
      PROVE  /\ Active(h.people[p])
             /\ h.homes[p][i].unit \in ActiveUnits(h)
             /\ h.homes[p][i].team \in ActiveTeams(h) \cup {None}
  <2>1. CASE i \in ActiveRows(g, p)
    <3>1. /\ Active(g.people[p])
          /\ g.homes[p][i].unit \in ActiveUnits(g)
          /\ g.homes[p][i].team \in ActiveTeams(g) \cup {None}
      BY <1>1, <1>c, <2>1 DEF Structure
    <3> QED BY <1>3, <1>4, <1>5, <1>9, <3>1
  <2>2. CASE RowOut(g, batch, p, g.homes[p][i])
    <3>1. /\ g.homes[p][i].unit \in batch /\ p \in people[g.homes[p][i].unit]
          /\ g.homes[p][i].team \in TeamsOut(g, batch) \cup {None}
      BY <2>2 DEF RowOut, people
    <3>2. \A t \in TeamsOut(g, batch) : t \in ActiveTeams(h) BY <1>7 DEF TeamsOut
    <3> QED BY <1>2, <1>6, <1>9, <3>1, <3>2
  <2> QED BY <1>9, <2>1, <2>2
<1>d. ASSUME NEW t \in ActiveTeams(h)
      PROVE  \E p \in Person :
                h.people[p].role = "employee" /\ \E i \in ActiveRows(h, p) : h.homes[p][i].team = t
  <2>1. CASE \E u \in batch : t \in ReadyTeams(g, Reach, u)
    <3>1. PICK u \in batch : t \in ReadyTeams(g, Reach, u) BY <2>1
    <3>2. PICK p : p \in ReadyIn(g, Reach, u, t) BY <1>7, <3>1
    <3> QED BY <1>a, <3>1, <3>2
  <2>2. CASE ~\E u \in batch : t \in ReadyTeams(g, Reach, u)
    <3>1. t \in ActiveTeams(g) BY <1>1, <2>2 DEF ActiveTeams, Active
    <3>2. PICK p \in Person :
             g.people[p].role = "employee" /\ \E i \in ActiveRows(g, p) : g.homes[p][i].team = t
      BY <3>1 DEF Structure
    <3> QED BY <1>1, <1>8, <3>2
  <2> QED BY <2>1, <2>2
<1>e. ASSUME NEW u \in ActiveUnits(h)
      PROVE  \/ \E t \in ActiveTeams(h) : h.teams[t].unit = u
             \/ \E p \in Person :
                   h.people[p].role = "employee" /\ \E i \in ActiveRows(h, p) : h.homes[p][i].unit = u
  <2>1. CASE u \in batch
    <3>1. CASE ReadyIn(g, Reach, u, None) # {} BY <1>a, <2>1, <3>1
    <3>2. CASE ReadyTeams(g, Reach, u) # {} BY <1>7, <2>1, <3>2
    <3> QED BY <2>1, <3>1, <3>2 DEF UnitReady
  <2>2. CASE u \notin batch
    <3>1. u \in ActiveUnits(g) BY <1>1, <2>2 DEF ActiveUnits, Active
    <3>2. CASE \E t \in ActiveTeams(g) : g.teams[t].unit = u
      BY <1>1, <1>4, <3>2 DEF ActiveTeams
    <3>3. CASE \E p \in Person :
                  g.people[p].role = "employee" /\ \E i \in ActiveRows(g, p) : g.homes[p][i].unit = u
      BY <1>1, <1>8, <3>3
    <3> QED BY <3>1, <3>2, <3>3 DEF Structure
  <2> QED BY <2>1, <2>2
<1>f. ASSUME NEW p \in ActivePeople(h, "manager")
      PROVE  \E u \in ActiveUnits(h) : h.units[u].manager = p
  <2>1. p \in Person /\ g.people[p].role = "manager" BY <1>1 DEF ActivePeople
  <2>2. CASE \E u \in batch : p \in people[u]
    <3>1. PICK u \in batch : p \in people[u] BY <2>2
    <3>2. p = g.units[u].manager BY <2>1, <3>1, WhoGoesOut DEF people
    <3> QED BY <1>1, <1>2, <3>1, <3>2
  <2>3. CASE ~\E u \in batch : p \in people[u]
    <3>1. p \in ActivePeople(g, "manager") BY <1>1, <2>1, <2>3 DEF ActivePeople, Active
    <3>2. PICK u \in ActiveUnits(g) : g.units[u].manager = p BY <3>1 DEF Structure
    <3> QED BY <1>1, <1>3, <3>2 DEF ActiveUnits
  <2> QED BY <2>2, <2>3
<1>g. ASSUME NEW p \in ActivePeople(h, "team_lead")
      PROVE  \E t \in ActiveTeams(h) : h.teams[t].lead = p
  <2>1. p \in Person /\ g.people[p].role = "team_lead" BY <1>1 DEF ActivePeople
  <2>2. CASE \E u \in batch : p \in people[u]
    <3>1. PICK u \in batch : p \in people[u] BY <2>2
    <3>2. PICK t \in ReadyTeams(g, Reach, u) : p = g.teams[t].lead
      BY <2>1, <3>1, WhoGoesOut DEF people
    <3> QED BY <1>1, <1>7, <3>1, <3>2 DEF ActiveTeams
  <2>3. CASE ~\E u \in batch : p \in people[u]
    <3>1. p \in ActivePeople(g, "team_lead") BY <1>1, <2>1, <2>3 DEF ActivePeople, Active
    <3>2. PICK t \in ActiveTeams(g) : g.teams[t].lead = p BY <3>1 DEF Structure
    <3> QED BY <1>1, <1>4, <3>2 DEF ActiveTeams
  <2> QED BY <2>2, <2>3
<1>h. ASSUME NEW p \in ActivePeople(h, "employee") PROVE ActiveRows(h, p) # {}
  <2>1. p \in Person /\ g.people[p].role = "employee" BY <1>1 DEF ActivePeople
  <2>2. CASE \E u \in batch : p \in people[u]
    <3>1. PICK u \in batch : p \in people[u] BY <2>2
    <3>2. PICK t \in ReadyTeams(g, Reach, u) \cup {None} : p \in ReadyIn(g, Reach, u, t)
      BY <2>1, <3>1, WhoGoesOut DEF people
    <3> QED BY <1>a, <3>1, <3>2
  <2>3. CASE ~\E u \in batch : p \in people[u]
    <3>1. p \in ActivePeople(g, "employee") BY <1>1, <2>1, <2>3 DEF ActivePeople, Active
    <3>2. ActiveRows(g, p) # {} BY <3>1 DEF Structure
    <3> QED BY <1>8, <2>1, <3>2
  <2> QED BY <2>2, <2>3
<1>i. Structure(h) BY <1>b, <1>c, <1>d, <1>e, <1>f, <1>g, <1>h DEF Structure
<1>j. Rows(h)
  <2> SUFFICES ASSUME NEW p \in Person, NEW i \in DOMAIN h.homes[p]
               PROVE  /\ Active(h.homes[p][i]) => h.people[p].life \notin {"none", "draft"}
                      /\ h.homes[p][i].team # None =>
                            /\ h.teams[h.homes[p][i].team].life # "none"
                            /\ h.teams[h.homes[p][i].team].unit = h.homes[p][i].unit
    BY DEF Rows
  <2>1. /\ i \in DOMAIN g.homes[p]
        /\ h.homes[p][i].unit = g.homes[p][i].unit
        /\ h.homes[p][i].team = g.homes[p][i].team
    BY <1>1 DEF RowsOut
  <2>2. g.homes[p][i].team \in Team \cup {None} BY <2>1, RowsOfGraph DEF Home
  <2>3. ASSUME Active(h.homes[p][i]) PROVE h.people[p].life \notin {"none", "draft"}
    <3>1. i \in ActiveRows(h, p) BY <2>3 DEF ActiveRows
    <3>2. CASE i \in ActiveRows(g, p)
      <4>1. g.people[p].life \notin {"none", "draft"} BY <3>2 DEF Rows, ActiveRows
      <4> QED BY <1>1, <4>1
    <3>3. CASE RowOut(g, batch, p, g.homes[p][i]) BY <1>6, <3>3 DEF RowOut, people, Active
    <3> QED BY <1>9, <3>1, <3>2, <3>3
  <2>4. ASSUME g.homes[p][i].team # None
        PROVE  /\ h.teams[g.homes[p][i].team].life # "none"
               /\ h.teams[g.homes[p][i].team].unit = g.homes[p][i].unit
    BY <1>1, <2>1, <2>2, <2>4 DEF Rows
  <2> QED BY <2>1, <2>3, <2>4
<1> QED BY <1>i, <1>j DEF h

(***************************************************************************)
(* The steps keep the structure.                                           *)
(***************************************************************************)

\* A graph whose structure the planners accept, whose rows are where they belong and which the
\* unique indexes let commit.
Sound(g) == ValidActive(EmployeesOnly(g)) /\ Rows(g) /\ IndexesHold(g)

\* Drafts become drafts, and nothing active comes, goes or changes.
DraftGraph(g, h) ==
    /\ \A u \in Unit : h.units[u] = g.units[u] \/ ~(Active(g.units[u]) \/ Active(h.units[u]))
    /\ \A t \in Team : h.teams[t] = g.teams[t] \/ ~(Active(g.teams[t]) \/ Active(h.teams[t]))
    /\ \A p \in Person :
          h.people[p] = g.people[p] \/ {g.people[p].life, h.people[p].life} \subseteq {"none", "draft"}
    /\ \A p \in Person :
          /\ ActiveRows(h, p) = ActiveRows(g, p)
          /\ g.people[p].role = "employee" =>
                \A i \in ActiveRows(g, p) : h.homes[p][i] = g.homes[p][i]

LEMMA DraftsHold ==
    ASSUME NEW g, GraphOK(g), Sound(g), NEW h, GraphOK(h), DraftGraph(g, h)
    PROVE  ValidActive(EmployeesOnly(h)) /\ IndexesHold(h)
<1>1. ASSUME NEW p \in Person, g.people[p].life \in {"none", "draft"} PROVE ActiveRows(g, p) = {}
  BY <1>1 DEF Sound, Rows, ActiveRows
<1>2. ASSUME NEW p \in Person
      PROVE  \/ h.people[p] = g.people[p]
             \/ \A q \in {g.people[p], h.people[p]} :
                   ~Active(q) \/ q.role \notin {"manager", "team_lead", "employee"}
  BY DEF DraftGraph, Active
<1>3. ASSUME NEW p \in Person
      PROVE  \/ /\ h.people[p].role = g.people[p].role
                /\ ActiveRows(h, p) = ActiveRows(g, p)
                /\ g.people[p].role = "employee" =>
                      \A i \in ActiveRows(g, p) : h.homes[p][i] = g.homes[p][i]
             \/ ActiveRows(h, p) = {} /\ ActiveRows(g, p) = {}
  BY <1>1 DEF DraftGraph
<1>4. Unmoved(g, h) BY <1>2, <1>3 DEF DraftGraph, Unmoved
<1>5. /\ ActiveUnits(h) = ActiveUnits(g) /\ \A u \in ActiveUnits(g) : h.units[u] = g.units[u]
      /\ ActiveTeams(h) = ActiveTeams(g) /\ \A t \in ActiveTeams(g) : h.teams[t] = g.teams[t]
  BY DEF DraftGraph, ActiveUnits, ActiveTeams
<1>6. IndexesHold(h) BY <1>5 DEF DraftGraph, IndexesHold, Sound
<1> QED BY <1>4, <1>6, UnmovedHolds DEF Sound

\* The placements stay as they are.
LEMMA DraftsSound ==
    ASSUME NEW g, GraphOK(g), Sound(g), NEW h, GraphOK(h), h.homes = g.homes, Holding(g, h),
           DraftGraph(g, h)
    PROVE  Sound(h)
BY DraftsHold, RowsSame DEF Sound

LEMMA SameRows ==
    ASSUME NEW g, NEW h, h.homes = g.homes
    PROVE  \A p \in Person : /\ ActiveRows(h, p) = ActiveRows(g, p)
                            /\ \A i \in ActiveRows(g, p) : h.homes[p][i] = g.homes[p][i]
BY DEF ActiveRows

LEMMA CreatePersonSound ==
    ASSUME GraphOK(graph), GraphOK(graph'), Sound(graph), NEW p \in Person, NEW role \in Roles,
           CreatePerson(p, role)
    PROVE  Sound(graph')
<1>1. graph' = [graph EXCEPT !.people[p] = [role |-> role, life |-> "draft"]]
      /\ graph.people[p].life = "none"
  BY DEF CreatePerson, Unused, PersonRow
<1>2. /\ graph'.homes = graph.homes /\ graph'.units = graph.units /\ graph'.teams = graph.teams
      /\ graph'.people[p] = [role |-> role, life |-> "draft"]
      /\ \A q \in Person \ {p} : graph'.people[q] = graph.people[q]
  BY <1>1 DEF GraphOK, PeopleTable
<1>3. Holding(graph, graph') BY <1>1, <1>2 DEF Holding
<1>4. DraftGraph(graph, graph')
  <2>1. ASSUME NEW q \in Person
        PROVE  \/ graph'.people[q] = graph.people[q]
               \/ {graph.people[q].life, graph'.people[q].life} \subseteq {"none", "draft"}
    <3>1. CASE q = p
      <4>1. graph.people[q].life = "none" /\ graph'.people[q].life = "draft" BY <1>1, <1>2, <3>1
      <4> QED BY <4>1
    <3>2. CASE q # p BY <1>2, <3>2
    <3> QED BY <3>1, <3>2
  <2> QED BY <1>2, <2>1, SameRows DEF DraftGraph
<1> QED BY <1>2, <1>3, <1>4, DraftsSound

LEMMA UpdatePersonSound ==
    ASSUME GraphOK(graph), GraphOK(graph'), Sound(graph), NEW p \in Person, NEW role \in Roles,
           UpdatePerson(p, role)
    PROVE  Sound(graph')
<1>1. graph' = [graph EXCEPT !.people[p].role = role] /\ graph.people[p].life = "draft"
  BY DEF UpdatePerson, PersonRow
<1>2. /\ graph'.homes = graph.homes /\ graph'.units = graph.units /\ graph'.teams = graph.teams
      /\ graph'.people[p].life = "draft"
      /\ \A q \in Person \ {p} : graph'.people[q] = graph.people[q]
  BY <1>1 DEF GraphOK, PeopleTable
<1>3. Holding(graph, graph') BY <1>1, <1>2 DEF Holding
<1>4. DraftGraph(graph, graph')
  <2>1. ASSUME NEW q \in Person
        PROVE  \/ graph'.people[q] = graph.people[q]
               \/ {graph.people[q].life, graph'.people[q].life} \subseteq {"none", "draft"}
    BY <1>1, <1>2
  <2> QED BY <1>2, <2>1, SameRows DEF DraftGraph
<1> QED BY <1>2, <1>3, <1>4, DraftsSound

LEMMA CreateInsertSound ==
    ASSUME GraphOK(graph), GraphOK(graph'), Sound(graph), RestOK, CreateInsert
    PROVE  Sound(graph')
<1>1. CASE creating.kind = "unit" /\ graph.units[creating.id].life = "none"
  <2>1. graph' = [graph EXCEPT !.units[creating.id] = [manager |-> creating.owner, life |-> "draft"]]
    BY <1>1 DEF CreateInsert
  <2>2. creating.id \in Unit BY <1>1 DEF CreateInsert, RestOK, NoCreate
  <2>3. /\ graph'.homes = graph.homes /\ graph'.people = graph.people /\ graph'.teams = graph.teams
        /\ graph'.units[creating.id].life = "draft"
        /\ \A u \in Unit \ {creating.id} : graph'.units[u] = graph.units[u]
    BY <2>1, <2>2 DEF GraphOK, UnitTable
  <2>4. Holding(graph, graph') BY <2>3 DEF Holding
  <2>5. DraftGraph(graph, graph') BY <1>1, <2>3, SameRows DEF DraftGraph, Active
  <2> QED BY <2>3, <2>4, <2>5, DraftsSound
<1>2. CASE creating.kind = "team" /\ graph.teams[creating.id].life = "none"
  <2>1. graph' = [graph EXCEPT !.teams[creating.id] =
                     [unit |-> creating.unit, lead |-> creating.owner, life |-> "draft"]]
    BY <1>2 DEF CreateInsert
  <2>2. creating.id \in Team BY <1>2 DEF CreateInsert, RestOK, NoCreate
  <2>3. /\ graph'.homes = graph.homes /\ graph'.people = graph.people /\ graph'.units = graph.units
        /\ graph'.teams[creating.id].life = "draft"
        /\ \A t \in Team \ {creating.id} : graph'.teams[t] = graph.teams[t]
    BY <2>1, <2>2 DEF GraphOK, TeamTable
  <2>4. Holding(graph, graph') BY <1>2, <2>3 DEF Holding
  <2>5. DraftGraph(graph, graph') BY <1>2, <2>3, SameRows DEF DraftGraph, Active
  <2> QED BY <2>3, <2>4, <2>5, DraftsSound
<1>3. CASE /\ ~(creating.kind = "unit" /\ graph.units[creating.id].life = "none")
           /\ ~(creating.kind = "team" /\ graph.teams[creating.id].life = "none")
  BY <1>3 DEF CreateInsert
<1> QED BY <1>1, <1>2, <1>3

LEMMA UpdateUnitSound ==
    ASSUME GraphOK(graph), GraphOK(graph'), Sound(graph), NEW u \in Unit,
           NEW m \in Person \cup {None}, UpdateUnit(u, m)
    PROVE  Sound(graph')
<1>1. graph' = [graph EXCEPT !.units[u].manager = m] /\ graph.units[u].life = "draft"
  BY DEF UpdateUnit
<1>2. /\ graph'.homes = graph.homes /\ graph'.people = graph.people /\ graph'.teams = graph.teams
      /\ graph'.units[u].life = "draft"
      /\ \A v \in Unit \ {u} : graph'.units[v] = graph.units[v]
  BY <1>1 DEF GraphOK, UnitTable
<1>3. Holding(graph, graph') BY <1>2 DEF Holding
<1>4. DraftGraph(graph, graph') BY <1>1, <1>2, SameRows DEF DraftGraph, Active
<1> QED BY <1>2, <1>3, <1>4, DraftsSound

\* A draft team has no active member, so that its move leaves the active rows alone.
LEMMA UpdateTeamSound ==
    ASSUME GraphOK(graph), GraphOK(graph'), Sound(graph), NEW t \in Team, NEW u \in Unit,
           NEW l \in Person \cup {None}, UpdateTeam(t, u, l)
    PROVE  Sound(graph')
<1> DEFINE Follow(q, home) == IF home.team = t THEN [home EXCEPT !.unit = u] ELSE home
           k == [q \in Person |-> [i \in DOMAIN graph.homes[q] |-> Follow(q, graph.homes[q][i])]]
           c == [graph EXCEPT !.homes = k]
<1>1. graph' = [c EXCEPT !.teams[t].unit = u, !.teams[t].lead = l]
  BY Zenon DEF UpdateTeam, ChangeHomes
<1>2. graph.teams[t].life = "draft" BY Zenon DEF UpdateTeam
<1>3. \A q \in Person : \A home \in Home :
         /\ Follow(q, home).life = home.life /\ Follow(q, home).team = home.team
         /\ Follow(q, home).unit = IF home.team = t THEN u ELSE home.unit
         /\ home.team # t => Follow(q, home) = home
  BY DEF Home
<1> HIDE DEF Follow
<1>4. c.homes = k /\ c.people = graph.people /\ c.units = graph.units /\ c.teams = graph.teams
  BY DEF GraphOK
<1>5. c \in [people : PeopleTable, units : UnitTable, teams : TeamTable, homes : {k}]
  BY DEF GraphOK
<1>6. \A q \in Person : /\ DOMAIN k[q] = DOMAIN graph.homes[q]
                        /\ \A i \in DOMAIN graph.homes[q] : k[q][i] = Follow(q, graph.homes[q][i])
  OBVIOUS
<1> HIDE DEF k, c
<1>7. /\ graph'.homes = k /\ graph'.people = graph.people /\ graph'.units = graph.units
      /\ graph'.teams[t].unit = u /\ graph'.teams[t].life = "draft"
      /\ \A v \in Team \ {t} : graph'.teams[v] = graph.teams[v]
  BY <1>1, <1>2, <1>4, <1>5 DEF TeamTable
<1>8. Structure(graph) BY StructureOf DEF Sound
<1>9. ASSUME NEW p \in Person
      PROVE  /\ ActiveRows(graph', p) = ActiveRows(graph, p)
             /\ graph.people[p].role = "employee" =>
                   \A i \in ActiveRows(graph, p) : graph'.homes[p][i] = graph.homes[p][i]
  <2>1. ActiveRows(graph', p) = ActiveRows(graph, p)
    BY <1>3, <1>6, <1>7, RowsOfGraph DEF ActiveRows, Active
  <2>2. ASSUME graph.people[p].role = "employee", NEW i \in ActiveRows(graph, p)
        PROVE  graph'.homes[p][i] = graph.homes[p][i]
    <3>1. graph.homes[p][i].team \in ActiveTeams(graph) \cup {None} BY <1>8, <2>2 DEF Structure
    <3>2. graph.homes[p][i].team # t BY <1>2, <3>1, NoneAssumption DEF ActiveTeams, Active
    <3> QED BY <1>3, <1>6, <1>7, <3>2, RowsOfGraph DEF ActiveRows
  <2> QED BY <2>1, <2>2
<1>a. DraftGraph(graph, graph') BY <1>2, <1>7, <1>9 DEF DraftGraph, Active
<1>b. Rows(graph')
  <2> SUFFICES ASSUME NEW p \in Person, NEW i \in DOMAIN graph.homes[p]
               PROVE  /\ Active(k[p][i]) => graph.people[p].life \notin {"none", "draft"}
                      /\ k[p][i].team # None =>
                            /\ graph'.teams[k[p][i].team].life # "none"
                            /\ graph'.teams[k[p][i].team].unit = k[p][i].unit
    BY <1>6, <1>7 DEF Rows
  <2>1. graph.homes[p][i] \in Home /\ graph.homes[p][i].team \in Team \cup {None}
    BY RowsOfGraph DEF Home
  <2>2. /\ k[p][i].life = graph.homes[p][i].life /\ k[p][i].team = graph.homes[p][i].team
        /\ k[p][i].unit = IF graph.homes[p][i].team = t THEN u ELSE graph.homes[p][i].unit
    BY <1>3, <1>6, <2>1
  <2> QED BY <1>7, <2>1, <2>2 DEF Sound, Rows, Active
<1> QED BY <1>a, <1>b, DraftsHold DEF Sound

LEMMA DraftAdded ==
    ASSUME NEW g, GraphOK(g), NEW p \in Person, NEW u \in Unit, NEW t \in Team \cup {None}
    PROVE  DraftGraph(g, AddHome(g, p, u, t, "draft"))
<1> DEFINE row == [unit |-> u, team |-> t, life |-> "draft"]
           s == Append(g.homes[p], row)
           h == AddHome(g, p, u, t, "draft")
<1>1. g.homes[p] \in Seq(Home) BY DEF GraphOK
<1>2. /\ \A i \in DOMAIN s : (i \in DOMAIN g.homes[p] /\ s[i] = g.homes[p][i]) \/ s[i] = row
      /\ \A i \in DOMAIN g.homes[p] : i \in DOMAIN s /\ s[i] = g.homes[p][i]
      /\ ~Active(row)
  BY <1>1 DEF Active
<1>3. /\ h.people = g.people /\ h.units = g.units /\ h.teams = g.teams
      /\ h.homes[p] = s /\ \A q \in Person \ {p} : h.homes[q] = g.homes[q]
  BY DEF AddHome, GraphOK
<1> HIDE DEF s, h, row
<1>4. ASSUME NEW q \in Person
      PROVE  /\ ActiveRows(h, q) = ActiveRows(g, q)
             /\ \A i \in ActiveRows(g, q) : h.homes[q][i] = g.homes[q][i]
  <2>1. CASE q = p BY <1>2, <1>3, <2>1 DEF ActiveRows
  <2>2. CASE q # p BY <1>3, <2>2 DEF ActiveRows
  <2> QED BY <2>1, <2>2
<1>5. DraftGraph(g, h) BY <1>3, <1>4 DEF DraftGraph
<1> QED BY <1>5 DEF h

LEMMA ReplaceDraftPlacementSound ==
    ASSUME GraphOK(graph), GraphOK(graph'), Sound(graph), NEW p \in Person,
           NEW u \in Unit \cup {None}, NEW t \in Team \cup {None}, ReplaceDraftPlacement(p, u, t)
    PROVE  Sound(graph')
<1> DEFINE live == {i \in DOMAIN graph.homes[p] : Live(graph.homes[p][i])}
<1>1. /\ graph.people[p] = [role |-> "employee", life |-> "draft"]
      /\ t # None => u # None /\ Live(graph.teams[t]) /\ graph.teams[t].unit = u
      /\ live = {} => u # None /\ Len(graph.homes[p]) < MaxHomes
  BY Zenon DEF ReplaceDraftPlacement, PersonRow
<1>2. t # None => graph.teams[t].life # "none" /\ graph.teams[t].unit = u BY <1>1 DEF Live
<1>3. ActiveRows(graph, p) = {} BY <1>1 DEF Sound, Rows, ActiveRows
<1>4. CASE live = {}
  <2>1. u \in Unit BY <1>1, <1>4
  <2>2. graph' = AddHome(graph, p, u, t, "draft") BY <1>4, Zenon DEF ReplaceDraftPlacement
  <2>3. Rows(graph') BY <1>2, <2>1, <2>2, AddHomeRows DEF Sound, Lives
  <2>4. DraftGraph(graph, graph') BY <2>1, <2>2, DraftAdded DEF Lives
  <2> QED BY <2>3, <2>4, DraftsHold DEF Sound
<1>5. CASE live # {}
  <2> DEFINE Placed(q, home) == IF q # p \/ ~Live(home) THEN home
                                ELSE IF u = None THEN [home EXCEPT !.life = "inactive"]
                                ELSE [home EXCEPT !.unit = u, !.team = t]
             k == [q \in Person |-> [i \in DOMAIN graph.homes[q] |-> Placed(q, graph.homes[q][i])]]
  <2>1. graph' = [graph EXCEPT !.homes = k] BY <1>5, Zenon DEF ReplaceDraftPlacement, ChangeHomes
  <2>2. \A home \in Home :
           /\ \A q \in Person \ {p} : Placed(q, home) = home
           /\ Active(Placed(p, home)) => Active(home)
           /\ \/ Placed(p, home).unit = home.unit /\ Placed(p, home).team = home.team
              \/ Placed(p, home).unit = u /\ Placed(p, home).team = t
    BY DEF Home, Active
  <2> HIDE DEF Placed
  <2>3. \A q \in Person :
           /\ DOMAIN k[q] = DOMAIN graph.homes[q]
           /\ \A i \in DOMAIN graph.homes[q] : k[q][i] = Placed(q, graph.homes[q][i])
    OBVIOUS
  <2>4. /\ graph'.people = graph.people /\ graph'.units = graph.units /\ graph'.teams = graph.teams
        /\ graph'.homes = k
    BY <2>1 DEF GraphOK
  <2> HIDE DEF k
  <2>5. ASSUME NEW q \in Person, q # p
        PROVE  /\ DOMAIN k[q] = DOMAIN graph.homes[q]
               /\ \A i \in DOMAIN graph.homes[q] : k[q][i] = graph.homes[q][i]
    BY <2>2, <2>3, <2>5, RowsOfGraph
  <2>6. ASSUME NEW i \in DOMAIN graph.homes[p]
        PROVE  /\ ~Active(k[p][i])
               /\ k[p][i].team # None => /\ graph.teams[k[p][i].team].life # "none"
                                         /\ graph.teams[k[p][i].team].unit = k[p][i].unit
    <3>1. graph.homes[p][i] \in Home /\ k[p][i] = Placed(p, graph.homes[p][i])
      BY <2>3, RowsOfGraph
    <3>2. ~Active(graph.homes[p][i]) BY <1>3 DEF ActiveRows
    <3>3. graph.homes[p][i].team # None =>
            /\ graph.teams[graph.homes[p][i].team].life # "none"
            /\ graph.teams[graph.homes[p][i].team].unit = graph.homes[p][i].unit
      BY DEF Sound, Rows
    <3> QED BY <1>2, <2>2, <3>1, <3>2, <3>3
  <2>7. ASSUME NEW q \in Person
        PROVE  /\ ActiveRows(graph', q) = ActiveRows(graph, q)
               /\ \A i \in ActiveRows(graph, q) : graph'.homes[q][i] = graph.homes[q][i]
    <3>1. CASE q = p BY <1>3, <2>3, <2>4, <2>6, <3>1 DEF ActiveRows
    <3>2. CASE q # p BY <2>4, <2>5, <3>2 DEF ActiveRows
    <3> QED BY <3>1, <3>2
  <2>8. DraftGraph(graph, graph') BY <2>4, <2>7 DEF DraftGraph
  <2>9. Rows(graph')
    <3>1. ASSUME NEW q \in Person, NEW i \in DOMAIN graph'.homes[q]
          PROVE  /\ Active(graph'.homes[q][i]) => graph'.people[q].life \notin {"none", "draft"}
                 /\ graph'.homes[q][i].team # None =>
                       /\ graph'.teams[graph'.homes[q][i].team].life # "none"
                       /\ graph'.teams[graph'.homes[q][i].team].unit = graph'.homes[q][i].unit
      <4>1. CASE q = p BY <2>3, <2>4, <2>6, <4>1
      <4>2. CASE q # p BY <2>4, <2>5, <4>2 DEF Sound, Rows
      <4> QED BY <4>1, <4>2
    <3> QED BY <3>1 DEF Rows
  <2> QED BY <2>8, <2>9, DraftsHold DEF Sound
<1> QED BY <1>4, <1>5

\* The rows of an import are drafts of new people, in the units of their teams.
LEMMA ImportCsvSound ==
    ASSUME GraphOK(graph), GraphOK(graph'), Sound(graph), NEW f \in Files, ImportCsv(f)
    PROVE  Sound(graph')
<1>1. FileValid(f) /\ graph' = Imported(f) BY DEF ImportCsv
<1>2. f \subseteq Row BY FilesAssumption
<1>3. \A r \in f : graph.people[r.person].life = "none"
  BY <1>1 DEF FileValid, RowValid, Unused, PersonRow
<1>4. ASSUME NEW p \in Person
      PROVE  \/ graph'.people[p] = graph.people[p]
             \/ graph.people[p].life = "none" /\ graph'.people[p].life = "draft"
  BY <1>1, ImportedOK
<1>5. ASSUME NEW u \in Unit
      PROVE  \/ graph'.units[u] = graph.units[u]
             \/ graph.units[u].life = "none" /\ graph'.units[u].life = "draft"
  BY <1>1 DEF Imported
<1>6. ASSUME NEW t \in Team
      PROVE  \/ graph'.teams[t] = graph.teams[t]
             \/ graph.teams[t].life = "none" /\ graph'.teams[t].life = "draft"
  BY <1>1 DEF Imported
<1>7. ASSUME NEW p \in Person
      PROVE  \/ graph'.homes[p] = graph.homes[p]
             \/ /\ graph.people[p].life = "none"
                /\ \E r \in f : /\ r.person = p /\ r.role = "employee"
                                /\ graph'.homes[p] = <<[unit |-> r.unit, team |-> r.team, life |-> "draft"]>>
  <2>1. CASE \E r \in f : r.person = p /\ r.role = "employee"
    <3> DEFINE r == CHOOSE r \in f : r.person = p
    <3>1. r \in f /\ r.person = p BY <2>1
    <3>2. r.role = "employee" BY <1>1, <2>1, <3>1 DEF FileValid
    <3>3. graph'.homes[p] = <<[unit |-> r.unit, team |-> r.team, life |-> "draft"]>>
      BY <1>1, <2>1 DEF Imported
    <3> QED BY <1>3, <3>1, <3>2, <3>3
  <2>2. CASE ~\E r \in f : r.person = p /\ r.role = "employee" BY <1>1, <2>2 DEF Imported
  <2> QED BY <2>1, <2>2
\* A team of the file is in the unit the file gives it.
<1>8. ASSUME NEW r \in f, r.team # None
      PROVE  /\ graph'.teams[r.team].life # "none"
             /\ graph'.teams[r.team].unit = r.unit
  <2>1. r.team \in Team BY <1>2, <1>8 DEF Row
  <2>2. CASE graph.teams[r.team].life # "none"
    <3>1. graph.teams[r.team].unit = r.unit BY <1>1, <1>8, <2>2 DEF FileValid, RowValid
    <3>2. graph'.teams[r.team] = graph.teams[r.team] BY <1>6, <2>1, <2>2
    <3> QED BY <2>2, <3>1, <3>2
  <2>3. CASE graph.teams[r.team].life = "none"
    <3> DEFINE s == CHOOSE s \in f : s.team = r.team
    <3>1. s \in f /\ s.team = r.team OBVIOUS
    <3>2. s.unit = r.unit BY <1>1, <1>8, <3>1 DEF FileValid
    <3>3. graph'.teams[r.team].unit = s.unit /\ graph'.teams[r.team].life = "draft"
      BY <1>1, <2>1, <2>3 DEF Imported
    <3> QED BY <3>2, <3>3
  <2> QED BY <2>2, <2>3
<1>9. ASSUME NEW p \in Person, graph.people[p].life = "none"
      PROVE  ActiveRows(graph, p) = {}
  BY <1>9 DEF Sound, Rows, ActiveRows
<1>a. ASSUME NEW p \in Person, NEW i \in DOMAIN graph'.homes[p], graph'.homes[p] # graph.homes[p]
      PROVE  /\ graph.people[p].life = "none" /\ graph'.homes[p][i].life = "draft"
             /\ graph'.homes[p][i].team # None =>
                   /\ graph'.teams[graph'.homes[p][i].team].life # "none"
                   /\ graph'.teams[graph'.homes[p][i].team].unit = graph'.homes[p][i].unit
  <2>1. PICK r \in f : graph'.homes[p] = <<[unit |-> r.unit, team |-> r.team, life |-> "draft"]>>
    BY <1>7, <1>a
  <2>2. i = 1 BY <2>1
  <2>3. /\ graph'.homes[p][i].life = "draft" /\ graph'.homes[p][i].unit = r.unit
        /\ graph'.homes[p][i].team = r.team
    BY <2>1, <2>2
  <2> QED BY <1>7, <1>8, <1>a, <2>3
<1>b. ASSUME NEW p \in Person
      PROVE  /\ ActiveRows(graph', p) = ActiveRows(graph, p)
             /\ \A i \in ActiveRows(graph, p) : graph'.homes[p][i] = graph.homes[p][i]
  <2>1. CASE graph'.homes[p] = graph.homes[p] BY <2>1 DEF ActiveRows
  <2>2. CASE graph'.homes[p] # graph.homes[p]
    <3>1. ActiveRows(graph, p) = {} BY <1>7, <1>9, <2>2
    <3>2. ActiveRows(graph', p) = {} BY <1>a, <2>2 DEF ActiveRows, Active
    <3> QED BY <3>1, <3>2
  <2> QED BY <2>1, <2>2
<1>c. DraftGraph(graph, graph')
  <2>1. ASSUME NEW p \in Person
        PROVE  \/ graph'.people[p] = graph.people[p]
               \/ {graph.people[p].life, graph'.people[p].life} \subseteq {"none", "draft"}
    BY <1>4
  <2>2. \A u \in Unit : graph'.units[u] = graph.units[u]
                         \/ ~(Active(graph.units[u]) \/ Active(graph'.units[u]))
    BY <1>5 DEF Active
  <2>3. \A t \in Team : graph'.teams[t] = graph.teams[t]
                         \/ ~(Active(graph.teams[t]) \/ Active(graph'.teams[t]))
    BY <1>6 DEF Active
  <2> QED BY <1>b, <2>1, <2>2, <2>3 DEF DraftGraph
<1>d. Rows(graph')
  <2> SUFFICES ASSUME NEW p \in Person, NEW i \in DOMAIN graph'.homes[p]
               PROVE  /\ Active(graph'.homes[p][i]) => graph'.people[p].life \notin {"none", "draft"}
                      /\ graph'.homes[p][i].team # None =>
                            /\ graph'.teams[graph'.homes[p][i].team].life # "none"
                            /\ graph'.teams[graph'.homes[p][i].team].unit = graph'.homes[p][i].unit
    BY DEF Rows
  <2>1. CASE graph'.homes[p] # graph.homes[p] BY <1>a, <2>1 DEF Active
  <2>2. CASE graph'.homes[p] = graph.homes[p]
    <3>1. i \in DOMAIN graph.homes[p] /\ graph'.homes[p][i] = graph.homes[p][i] BY <2>2
    <3>2. graph.homes[p][i].team \in Team \cup {None} BY <3>1, RowsOfGraph DEF Home
    <3>3. /\ Active(graph.homes[p][i]) => graph.people[p].life \notin {"none", "draft"}
          /\ graph.homes[p][i].team # None =>
                /\ graph.teams[graph.homes[p][i].team].life # "none"
                /\ graph.teams[graph.homes[p][i].team].unit = graph.homes[p][i].unit
      BY <3>1 DEF Sound, Rows
    <3> QED BY <1>4, <1>6, <3>1, <3>2, <3>3
  <2> QED BY <2>1, <2>2
<1> QED BY <1>c, <1>d, DraftsHold DEF Sound

\* Sets of one element.
LEMMA OneAlone ==
    ASSUME NEW S, IsFiniteSet(S), Cardinality(S) = 1
    PROVE  \A x, y \in S : x = y
<1>1. PICK x : S = {x} BY FS_Singleton
<1> QED BY <1>1

\* No index refuses a graph the planners accept.
LEMMA ValidIndexes ==
    ASSUME NEW g, GraphOK(g), ValidActive(g)
    PROVE  IndexesHold(g)
<1> DEFINE Run(p) == {u \in ActiveUnits(g) : g.units[u].manager = p}
           Led(p) == {t \in ActiveTeams(g) : g.teams[t].lead = p}
<1>1. IsFiniteSet(ActiveUnits(g)) /\ IsFiniteSet(ActiveTeams(g))
  BY FiniteAssumption, FS_Subset DEF ActiveUnits, ActiveTeams
<1>2. ASSUME NEW u \in ActiveUnits(g), NEW v \in ActiveUnits(g),
             g.units[u].manager = g.units[v].manager
      PROVE  u = v
  <2> DEFINE p == g.units[u].manager
  <2>1. p \in ActivePeople(g, "manager") BY DEF ValidActive, OwnersHold
  <2>2. Cardinality(Run(p)) = 1 BY <2>1 DEF ValidActive, OneHomeEach
  <2>3. IsFiniteSet(Run(p)) BY <1>1, FS_Subset
  <2>4. u \in Run(p) /\ v \in Run(p) BY <1>2
  <2> HIDE DEF Run
  <2> QED BY <2>2, <2>3, <2>4, OneAlone
<1>3. ASSUME NEW s \in ActiveTeams(g), NEW t \in ActiveTeams(g), g.teams[s].lead = g.teams[t].lead
      PROVE  s = t
  <2> DEFINE p == g.teams[s].lead
  <2>1. p \in ActivePeople(g, "team_lead") BY DEF ValidActive, OwnersHold
  <2>2. Cardinality(Led(p)) = 1 BY <2>1 DEF ValidActive, OneHomeEach
  <2>3. IsFiniteSet(Led(p)) BY <1>1, FS_Subset
  <2>4. s \in Led(p) /\ t \in Led(p) BY <1>3
  <2> HIDE DEF Led
  <2> QED BY <2>2, <2>3, <2>4, OneAlone
<1>4. ASSUME NEW p \in Person PROVE Cardinality(ActiveRows(g, p)) <= 1
  <2>1. CASE ActiveRows(g, p) = {} BY <2>1, FS_EmptySet
  <2>2. CASE ActiveRows(g, p) # {}
    <3>1. p \in ActivePeople(g, "employee") BY <2>2 DEF ValidActive, HomesHold
    <3>2. Cardinality(ActiveRows(g, p)) = 1 BY <3>1 DEF ValidActive, OneHomeEach
    <3> QED BY <3>2
  <2> QED BY <2>1, <2>2
<1> QED BY <1>2, <1>3, <1>4 DEF IndexesHold

\* The planners accepted what these leave.
LEMMA AcceptedSound ==
    ASSUME NEW h, GraphOK(h), ValidActive(h), Rows(h)
    PROVE  Sound(h)
BY AcceptedHolds, ValidIndexes DEF Sound

LEMMA ChangesSound ==
    ASSUME GraphOK(graph), GraphOK(graph'), Sound(graph), NEW action \in Actions
    PROVE  /\ \A p \in Person, u \in Unit, t \in Team \cup {None} :
                 MoveEmployee(p, u, t) => Sound(graph')
           /\ \A t \in Team, p \in Person : PromoteTeamLead(t, p, action) => Sound(graph')
           /\ \A u \in Unit, p \in Person : PromoteManager(u, p, action) => Sound(graph')
           /\ \A t \in Team : DeactivateTeam(t, action) => Sound(graph')
           /\ \A s, t \in Unit : TransferAndDeactivateUnit(s, t, action) => Sound(graph')
<1>0. Rows(graph) BY DEF Sound
<1>1. ASSUME NEW p \in Person, NEW u \in Unit, NEW t \in Team \cup {None}, MoveEmployee(p, u, t)
      PROVE  Sound(graph')
  <2>1. graph' = Moved(graph, p, u, t) /\ CanMove(graph, p, u, t) BY <1>1 DEF MoveEmployee
  <2>2. t # None => graph.teams[t].life # "none" /\ graph.teams[t].unit = u
    BY <2>1 DEF CanMove, ActiveTeams, Active
  <2>3. Rows(graph') BY <1>0, <2>1, <2>2, MovedOK
  <2> QED BY <2>1, <2>3, AcceptedSound DEF CanMove
<1>2. ASSUME NEW t \in Team, NEW p \in Person, PromoteTeamLead(t, p, action) PROVE Sound(graph')
  <2> DEFINE owner == graph.teams[t].lead
  <2>1. /\ graph' = LeadPromoted(graph, t, p, action) /\ CanPromoteLead(graph, t, p, action)
        /\ StepsDown(owner, action)
    BY <1>2 DEF PromoteTeamLead
  <2>2. /\ owner \in Person /\ Active(graph.people[owner]) /\ Active(graph.teams[t])
        /\ graph.teams[t].unit \in Unit
    BY <2>1, RowsOfGraph DEF CanPromoteLead, ActivePeople, ActiveTeams, ActiveRows, Home
  <2>3. action = "become_employee" => Len(graph.homes[owner]) < MaxHomes BY <2>1 DEF StepsDown
  <2>4. Rows(graph') BY <1>0, <2>1, <2>2, <2>3, LeadPromotedOK
  <2> QED BY <2>1, <2>4, AcceptedSound DEF CanPromoteLead
<1>3. ASSUME NEW u \in Unit, NEW p \in Person, PromoteManager(u, p, action) PROVE Sound(graph')
  <2> DEFINE owner == graph.units[u].manager
  <2>1. /\ graph' = ManagerPromoted(graph, u, p, action) /\ CanPromoteManager(graph, u, p, action)
        /\ StepsDown(owner, action)
    BY <1>3 DEF PromoteManager
  <2>2. owner \in Person /\ Active(graph.people[owner])
    BY <2>1 DEF CanPromoteManager, ActivePeople
  <2>3. action = "become_employee" => Len(graph.homes[owner]) < MaxHomes BY <2>1 DEF StepsDown
  <2>4. Rows(graph') BY <1>0, <2>1, <2>2, <2>3, ManagerPromotedOK
  <2> QED BY <2>1, <2>4, AcceptedSound DEF CanPromoteManager
<1>4. ASSUME NEW t \in Team, DeactivateTeam(t, action) PROVE Sound(graph')
  <2> DEFINE owner == graph.teams[t].lead
  <2>1. /\ graph' = TeamClosed(graph, t, action) /\ CanCloseTeam(graph, t, action)
        /\ StepsDown(owner, action)
    BY <1>4 DEF DeactivateTeam
  <2>2. owner \in Person /\ Active(graph.people[owner]) /\ graph.teams[t].unit \in Unit
    BY <2>1 DEF CanCloseTeam, ActivePeople, ActiveUnits
  <2>3. action = "become_employee" => Len(graph.homes[owner]) < MaxHomes BY <2>1 DEF StepsDown
  <2>4. Rows(graph') BY <1>0, <2>1, <2>2, <2>3, TeamClosedOK
  <2> QED BY <2>1, <2>4, AcceptedSound DEF CanCloseTeam
<1>5. ASSUME NEW s \in Unit, NEW t \in Unit, TransferAndDeactivateUnit(s, t, action)
      PROVE  Sound(graph')
  <2> DEFINE owner == graph.units[s].manager
  <2>1. /\ graph' = Transferred(graph, s, t, action) /\ CanTransfer(graph, s, t, action)
        /\ action = "become_employee" => Len(graph.homes[owner]) < MaxHomes
    BY <1>5 DEF TransferAndDeactivateUnit
  <2>2. owner \in Person /\ Active(graph.people[owner]) BY <2>1 DEF CanTransfer, ActivePeople
  <2>4. Rows(graph') BY <1>0, <2>1, <2>2, TransferredOK
  <2> QED BY <2>1, <2>4, AcceptedSound DEF CanTransfer
<1> QED BY <1>1, <1>2, <1>3, <1>4, <1>5

\* Whoever is no employee and no owner leaves the structure as it is.
LEMMA DeactivatePersonSound ==
    ASSUME GraphOK(graph), GraphOK(graph'), Sound(graph), NEW p \in Person, DeactivatePerson(p)
    PROVE  Sound(graph')
<1>0. Rows(graph) /\ ValidActive(EmployeesOnly(graph)) BY DEF Sound
<1>1. CASE graph.people[p].role = "employee"
  <2>1. graph' = EmployeeGone(graph, p) /\ CanDeactivateEmployee(graph, p)
    BY <1>1 DEF DeactivatePerson, PersonRow
  <2>2. Rows(graph') BY <1>0, <2>1, EmployeeGoneOK
  <2> QED BY <2>1, <2>2, AcceptedSound DEF CanDeactivateEmployee
<1>2. CASE graph.people[p].role # "employee"
  <2>1. /\ graph' = [graph EXCEPT !.people[p].life = "inactive"]
        /\ graph.people[p].role \notin {"manager", "team_lead", "employee"}
    BY <1>2 DEF DeactivatePerson, PersonRow
  <2>2. Rows(graph') BY <1>0, <2>1, PersonGone
  <2>3. /\ graph'.homes = graph.homes /\ graph'.units = graph.units /\ graph'.teams = graph.teams
        /\ graph'.people[p].role = graph.people[p].role
        /\ \A q \in Person \ {p} : graph'.people[q] = graph.people[q]
    BY <2>1 DEF GraphOK, PeopleTable
  <2>4. ASSUME NEW q \in Person
        PROVE  /\ graph'.people[q].role = graph.people[q].role
               /\ \/ graph'.people[q] = graph.people[q]
                  \/ \A r \in {graph.people[q], graph'.people[q]} :
                        ~Active(r) \/ r.role \notin {"manager", "team_lead", "employee"}
    BY <2>1, <2>3
  <2>5. Unmoved(graph, graph') BY <2>3, <2>4, SameRows DEF Unmoved
  <2>6. IndexesHold(graph')
    BY <2>3 DEF Sound, IndexesHold, ActiveUnits, ActiveTeams, ActiveRows
  <2> QED BY <1>0, <2>2, <2>5, <2>6, UnmovedHolds DEF Sound
<1> QED BY <1>1, <1>2

LEMMA RolloutSound ==
    ASSUME NEW g, GraphOK(g), Sound(g), NEW batch \in SUBSET Unit, Rollout(g, batch),
           GraphOK(graph')
    PROVE  Sound(graph')
<1>1. /\ graph' = RolledOut(g, batch)
      /\ IndexesHold(RolledOut(g, batch))
      /\ \A u \in batch : UnitReady(g, Reach, u)
  BY Zenon DEF Rollout
<1>2. Structure(g) /\ Rows(g) BY StructureOf DEF Sound
<1>3. Structure(graph') /\ Rows(graph') BY <1>1, <1>2, RolledOutStructure
<1>4. ValidActive(EmployeesOnly(graph')) BY <1>1, <1>3, StructureHolds
<1> QED BY <1>1, <1>3, <1>4 DEF Sound

\* One who is adopted is a draft employee with a draft placement: nothing active changes.
LEMMA AdoptedSound ==
    ASSUME GraphOK(graph), Sound(graph), NEW p \in Person, NEW u \in Unit, CanAdopt(p, u)
    PROVE  GraphOK(Adopted(p, u)) /\ Sound(Adopted(p, u))
<1> DEFINE pp == [graph.people EXCEPT ![p] = [role |-> "employee", life |-> "draft"]]
           c == [graph EXCEPT !.people[p] = [role |-> "employee", life |-> "draft"]]
           g == Adopted(p, u)
<1>1. graph.people[p].life = "none" /\ Len(graph.homes[p]) < MaxHomes
  BY DEF CanAdopt, PersonRow
<1>2. /\ pp \in PeopleTable
      /\ pp[p].life = "draft"
      /\ \A q \in Person \ {p} : pp[q] = graph.people[q]
  BY DEF GraphOK, PeopleTable, Roles, Lives
<1>3. c = [graph EXCEPT !.people = pp] BY DEF GraphOK
<1> HIDE DEF pp
<1>4. WithTables(graph, c, pp, graph.units, graph.teams) BY <1>2, <1>3, PeopleReplaced
<1>5. g = AddHome(c, p, u, None, "draft") BY DEF Adopted
<1> HIDE DEF c, g
<1>6. GraphOK(c) /\ c.homes = graph.homes /\ c.people = pp BY <1>4 DEF WithTables
<1>7. Holding(graph, c) BY <1>1, <1>2, <1>4 DEF Holding, WithTables
<1>8. DraftGraph(graph, c)
  <2>1. ASSUME NEW q \in Person
        PROVE  \/ c.people[q] = graph.people[q]
               \/ {graph.people[q].life, c.people[q].life} \subseteq {"none", "draft"}
    BY <1>1, <1>2, <1>6
  <2> QED BY <1>4, <1>6, <2>1, SameRows DEF DraftGraph, WithTables
<1>9. Sound(c) BY <1>6, <1>7, <1>8, DraftsSound
<1>a. GraphOK(g) BY <1>1, <1>5, <1>6, AddHomeOK DEF Lives
<1>b. DraftGraph(c, g) BY <1>5, <1>6, DraftAdded
<1>c. Rows(g) BY <1>5, <1>6, <1>9, AddHomeRows DEF Sound, Lives
<1>d. Sound(g) BY <1>6, <1>9, <1>a, <1>b, <1>c, DraftsHold DEF Sound
<1> QED BY <1>a, <1>d DEF g

LEMMA InitSound == Init => Sound(graph)
<1> SUFFICES ASSUME Init PROVE Sound(graph) OBVIOUS
<1>1. GraphOK(graph) BY InitOK, TypeSplit DEF IInv
<1>2. /\ \A p \in Person : graph.people[p].life = "none" /\ graph.homes[p] = <<>>
      /\ \A u \in Unit : graph.units[u].life = "none"
      /\ \A t \in Team : graph.teams[t].life = "none"
  BY DEF Init
<1>3. /\ ActiveUnits(graph) = {} /\ ActiveTeams(graph) = {}
      /\ \A role : ActivePeople(graph, role) = {}
      /\ \A p \in Person : ActiveRows(graph, p) = {}
  BY <1>2 DEF ActiveUnits, ActiveTeams, ActivePeople, ActiveRows, Active
<1>4. ValidActive(graph)
  BY <1>3 DEF ValidActive, OwnersHold, HomesHold, NobodyAlone, OneHomeEach
<1>5. Rows(graph) BY <1>2 DEF Rows
<1> QED BY <1>1, <1>4, <1>5, AcceptedSound

LEMMA StepSound == ASSUME IInv, IInv', Sound(graph), Next PROVE Sound(graph')
<1>1. GraphOK(graph) /\ RestOK /\ GraphOK(graph') BY TypeSplit, TypeSplitPrimed DEF IInv
<1>2. CASE Drafting
  <2>1. ASSUME graph' = graph PROVE Sound(graph') BY <2>1
  <2>2. CreateInsert => Sound(graph') BY <1>1, CreateInsertSound
  <2>3. ASSUME NEW p \in Person, NEW role \in Roles, CreatePerson(p, role) \/ UpdatePerson(p, role)
        PROVE  Sound(graph')
    BY <1>1, <2>3, CreatePersonSound, UpdatePersonSound
  <2>4. ASSUME NEW u \in Unit, NEW m \in Person \cup {None}, CreateUnitCheck(u, m) \/ UpdateUnit(u, m)
        PROVE  Sound(graph')
    BY <1>1, <2>1, <2>4, UpdateUnitSound DEF CreateUnitCheck
  <2>5. ASSUME NEW t \in Team, NEW u \in Unit, NEW l \in Person \cup {None},
               CreateTeamCheck(t, u, l) \/ UpdateTeam(t, u, l)
        PROVE  Sound(graph')
    BY <1>1, <2>1, <2>5, UpdateTeamSound DEF CreateTeamCheck
  <2>6. ASSUME NEW p \in Person, LinkSlack(p) \/ UnlinkSlack(p) PROVE Sound(graph')
    BY <2>1, <2>6 DEF LinkSlack, UnlinkSlack
  <2>7. ASSUME NEW p \in Person, NEW mode \in Modes, NEW units \in SUBSET Unit,
               ReplaceScope(p, mode, units)
        PROVE  Sound(graph')
    BY <2>1, <2>7 DEF ReplaceScope
  <2> QED BY <1>1, <1>2, <2>2, <2>3, <2>4, <2>5, <2>6, <2>7, ImportCsvSound,
             ReplaceDraftPlacementSound DEF Drafting
<1>3. CASE Changing
  <2>1. ASSUME NEW batch \in SUBSET Unit \ {{}}, ActivateUnits(batch) PROVE Sound(graph')
    <3>1. Rollout(graph, batch) BY <2>1 DEF ActivateUnits
    <3> QED BY <1>1, <3>1, RolloutSound
  <2>2. ASSUME NEW batch \in SUBSET Unit \ {{}}, NEW p \in Legacy, NEW u \in Unit,
               ActivateAdopting(batch, p, u)
        PROVE  Sound(graph')
    <3>1. p \in Person BY LegacyAssumption
    <3>2. CanAdopt(p, u) /\ Rollout(Adopted(p, u), batch) BY <2>2 DEF ActivateAdopting
    <3>3. GraphOK(Adopted(p, u)) /\ Sound(Adopted(p, u)) BY <1>1, <3>1, <3>2, AdoptedSound
    <3> QED BY <1>1, <3>2, <3>3, RolloutSound
  <2>3. ASSUME NEW p \in Person, NEW u \in Unit, NEW t \in Team \cup {None}, MoveEmployee(p, u, t)
        PROVE  Sound(graph')
    BY <1>1, <2>3, ChangesSound DEF Actions
  <2>4. ASSUME NEW t \in Team, NEW p \in Person, NEW action \in Actions, PromoteTeamLead(t, p, action)
        PROVE  Sound(graph')
    BY <1>1, <2>4, ChangesSound
  <2>5. ASSUME NEW u \in Unit, NEW p \in Person, NEW action \in Actions, PromoteManager(u, p, action)
        PROVE  Sound(graph')
    BY <1>1, <2>5, ChangesSound
  <2>6. ASSUME NEW t \in Team, NEW action \in Actions, DeactivateTeam(t, action)
        PROVE  Sound(graph')
    BY <1>1, <2>6, ChangesSound
  <2>7. ASSUME NEW s \in Unit, NEW t \in Unit, NEW action \in Actions,
               TransferAndDeactivateUnit(s, t, action)
        PROVE  Sound(graph')
    BY <1>1, <2>7, ChangesSound
  <2>8. ASSUME NEW p \in Person, DeactivatePerson(p) PROVE Sound(graph')
    BY <1>1, <2>8, DeactivatePersonSound
  <2> QED BY <1>3, <2>1, <2>2, <2>3, <2>4, <2>5, <2>6, <2>7, <2>8 DEF Changing
<1> QED BY <1>2, <1>3 DEF Next

(***************************************************************************)
(* The theorems.                                                           *)
(***************************************************************************)

\* Drafts, imports, rollouts, adoptions and changes keep every table of the hierarchy, and
\* the accounts, scopes and contacts beside it, in their types.
THEOREM HierarchyTypes == Spec => []TypeOK
<1>1. IInv => TypeOK BY DEF IInv
<1> QED BY <1>1, Inductive, PTL

\* No operation of any file, draft, rollout or change takes back an exit, however many
\* people, units and teams there are.
THEOREM ExitsAreFinal == Spec => ExitIsFinal
<1>1. IInv /\ [Next]_vars => [Exits]_vars BY StepOK
<1> QED BY <1>1, Inductive, PTL DEF Spec, ExitIsFinal

\* A first contact waits only for an active person of an active unit.
THEOREM ContactsFollow == Spec => []ContactsFollowPeople
<1>1. IInv => ContactsFollowPeople BY DEF IInv
<1> QED BY <1>1, Inductive, PTL

\* An active assignment is one of an active adviser to an active unit, an active adviser of
\* selected units has one, and one of all units has none: rollouts, new scopes, transfers and
\* exits in any order, for any number of people and units.
THEOREM AdvisersAreLive == Spec => []AdvisoryScopeIsLive
<1>1. IInv => AdvisoryScopeIsLive BY DEF IInv
<1> QED BY <1>1, Inductive, PTL

\* Drafts, imports, rollouts, adoptions and changes in any order leave an active structure
\* that the planners accept: each active unit has its active manager and somebody in it, each
\* active team its lead, its active unit and a member, and each active person one home.  Only
\* a rollout can run against the unique indexes, which hold of all rows, those that are left
\* from an earlier role included.
THEOREM StructureStaysValid == Spec => []ActiveStructureHolds
<1>1. Init => IInv /\ Sound(graph) BY InitOK, InitSound
<1>2. IInv /\ Sound(graph) /\ [Next]_vars => IInv' /\ Sound(graph)'
  <2>1. ASSUME IInv, Sound(graph), Next PROVE IInv' /\ Sound(graph)' BY <2>1, StepOK, StepSound
  <2>2. ASSUME IInv, Sound(graph), UNCHANGED vars PROVE IInv' /\ Sound(graph)'
    BY <2>2, StutterOK DEF vars
  <2> QED BY <2>1, <2>2
<1>3. Sound(graph) => ActiveStructureHolds BY DEF Sound, ActiveStructureHolds
<1> QED BY <1>1, <1>2, <1>3, PTL DEF Spec
=============================================================================
