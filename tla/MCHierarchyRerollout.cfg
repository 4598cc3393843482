\* One team, or two units under an HR adviser, imported, linked, rolled out and changed.
SPECIFICATION Spec
CONSTANTS
    p1 = p1
    p2 = p2
    p3 = p3
    p4 = p4
    p5 = p5
    old = old
    U1 = U1
    U2 = U2
    T1 = T1
    None = None
    Person = {p1, p2, p3, p4, p5, old}
    Unit = {U1, U2}
    Team = {T1}
    Legacy = {old}
    Files <- TheFiles
    Budgets <- TheBudgets
    MaxHomes = 2
CHECK_DEADLOCK FALSE
INVARIANT LeadIsNotMember
