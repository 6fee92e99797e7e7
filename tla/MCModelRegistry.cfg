CONSTANTS
    c1 = c1
    c2 = c2
    Clients = {c1, c2}
    m1 = m1
    m2 = m2
    m3 = m3
    Models = {m1, m2, m3}
    SpecsOf <- SmallSpecs
    Budgets <- SmallBudgets
    NoSpec = NoSpec
SPECIFICATION MCFairSpec
INVARIANTS
    EntriesConsistent
    BudgetKept
    NoLostWakeup
PROPERTY
    EveryCallReturns
