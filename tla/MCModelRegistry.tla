-------------------------- MODULE MCModelRegistry --------------------------
(***************************************************************************)
(* Small instances of ModelRegistry: a model that can be registered in two *)
(* ways, one that fits beside it and one that needs VRAM, and budgets that *)
(* wait, overcommit or refuse.  Either two clients share two models, or    *)
(* one client uses three, which is where the order of evictions shows.     *)
(***************************************************************************)
EXTENDS SettledRegistry

CONSTANTS m1, m2, m3, c1, c2

B(ram, vram) == [r \in Resource |-> IF r = "ram" THEN ram ELSE vram]
S(ram, vram, pinned) == [need |-> B(ram, vram), pinned |-> pinned]
Limits(ram, vram, wait, over) ==
    [limit |-> B(ram, vram), wait |-> wait, allow_overcommit |-> over]

SmallSpecs == [m \in Models |-> CASE m = m1 -> {S(2, 0, FALSE), S(1, 0, TRUE)}
                                  [] m = m2 -> {S(1, 0, FALSE)}
                                  [] m = m3 -> {S(1, 1, FALSE)}]
SmallBudgets == {Limits(2, 1, TRUE, FALSE), Limits(1, 0, FALSE, TRUE)}

VARIABLE scene

MCInit == SettledInit /\ scene \in {"two clients", "three models"}

MCNext ==
    /\ SettledNext
    /\ scene = "two clients" => spec'[m2] = NoSpec
    /\ scene = "three models" => pc'[c2] = "idle" /\ \A m \in Models : c2 \notin holders'[m]
    /\ UNCHANGED scene

MCSpec == MCInit /\ [][MCNext]_<<vars, settled, scene>>

MCFairSpec == MCSpec /\ \A c \in Clients : WF_vars(Internal(c))

============================================================================
