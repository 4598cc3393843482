----------------------------- MODULE MCOnboarding -----------------------------
(* Small instances of Onboarding for TLC.                                    *)
EXTENDS Onboarding, TLC

\* promoteManager, promoteTeamLead and their reverses.
Promotions == {<<"employee", "manager">>, <<"manager", "employee">>,
               <<"employee", "team_lead">>, <<"team_lead", "employee">>}

\* One of each bound named, one reminder worker, one due time and every message.
Always == [b \in Bounds |->
    CASE b \in {"workers", "dues"} -> 1 [] b = "posts" -> 4 [] OTHER -> 0]
Once(bounds) == [b \in Bounds |-> IF b \in bounds THEN 1 ELSE Always[b]]
Twice(twice, bounds) == [b \in Bounds |-> IF b \in twice THEN 2 ELSE Once(bounds)[b]]

Mixes == {
    \* choices, a move and a loss around one reminder
    Twice({"dues"}, {"clicks", "turns", "moves", "faults"}),
    \* two workers whose moves of one due time race, and a loss
    Twice({"dues", "workers", "moves"}, {"faults"}),
    \* choices around a role change, whose job may be lost or repeated
    Once({"clicks", "roles", "faults"}),
    Once({"turns", "roles", "flips"}),
    Once({"roles", "flips", "faults"}),
    \* a sender that posts twice
    Once({"clicks", "roles", "reposts"}),
    \* two role changes: their jobs overtake each other, are lost or repeated
    Twice({"roles"}, {}),
    Twice({"roles"}, {"faults", "posts"}),
    \* a restart: old messages, a role that changes under it, a loss
    Once({"turns", "restarts", "reposts"}),
    Once({"roles", "restarts"}),
    Once({"roles", "restarts", "faults", "posts"})}
=============================================================================
