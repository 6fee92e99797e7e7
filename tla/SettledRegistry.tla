-------------------------- MODULE SettledRegistry --------------------------
(***************************************************************************)
(* ModelRegistry with a history variable: whether the budget and the       *)
(* registered specs are still the first ones.  What the budget promises    *)
(* (model_registry.cpp: plan, fits, the waits of acquire_model) it         *)
(* promises for a budget and specs that stay; these are the properties     *)
(* that say so.                                                            *)
(***************************************************************************)
EXTENDS ModelRegistry

\* The budget and the registered specs are still the first ones, and the budget
\* does not allow overcommitting.
VARIABLE settled

settledVars == <<vars, settled>>

StaysSettled ==
    /\ ~budget.allow_overcommit /\ budget' = budget
    /\ \A m \in Models : spec[m] \in {NoSpec, spec'[m]}

SettledInit == Init /\ settled = TRUE

SettledNext == Next /\ settled' = (settled /\ StaysSettled)

SettledSpec == SettledInit /\ [][SettledNext]_settledVars
-----------------------------------------------------------------------------
(* Properties                                                              *)

\* What is in memory: Sessions in the registry, Sessions taken out and not yet
\* destroyed, and models whose init may have started.
Resident(r) ==
    SumBytes({m \in Models : \/ status[m] = "Loaded"
                             \/ \E c \in Clients : Loader(c, m) /\ pc[c] = "init"},
             r)
    + DoomedBytes(r)

\* No lost wakeup, part 1: a client waits for a load only while the model is
\* being loaded, and for evicted Sessions only while somebody is destroying
\* them; both of those notify when they finish.
WaitersHaveWaker ==
    \A c \in Clients :
        /\ pc[c] = "waitLoading" => status[call[c].model] = "Loading"
        /\ pc[c] = "waitFrees" => \E d \in Clients : pc[d] = "destroy"

\* Without overcommit and with a budget that stays the same, what is in memory
\* never exceeds the budget, although a reservation is charged before its
\* victims are destroyed and several clients may be evicting at once.
ResidentWithinBudget ==
    settled => \A r \in Resource :
        budget.limit[r] # 0 => Resident(r) <= budget.limit[r]

\* The budget is kept, because the counters that it is compared with are exact.
BudgetKept == Accounting /\ ResidentWithinBudget

\* No lost wakeup, part 2: with fixed specs and a fixed budget, a client waits
\* for leases only while its model still does not fit.  Every release, failed
\* load and destroyed Session that could make room wakes it.
BudgetWaitersCannotProceed ==
    settled => \A c \in Clients :
        pc[c] = "waitUntil" =>
            /\ status[call[c].model] # "Loaded"
            /\ status[call[c].model] = "Unloaded" => PlanFor(call[c].model) = {}

\* Nobody in acquire_model, unload_model or register_model sleeps through the
\* event it waits for.
NoLostWakeup == WaitersHaveWaker /\ BudgetWaitersCannotProceed
=============================================================================
