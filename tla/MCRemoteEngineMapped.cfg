CONSTANTS
    Callers = {c1, c2}
    None = None
    MaxWorkers = 2
    MaxRestarts = 1
    MaxDeaths = 2
    Scenes <- Dying
SPECIFICATION Spec
INVARIANTS
    HeldStaysMapped
