CONSTANTS
    Listings <- MCListings
    Asks <- MCAsks
    Turns <- MCTurns
    Revisions = {1, 2}
    Lengths <- MCLengths
    Announced <- MCAnnounced
    Catalogues <- MCCatalogues
    MaxRedirects = 1
    MaxFaults = 2
    MaxMoves = 2
    Options <- MCOptions
    Chunk = 3
    Keep = 4
    Unread = 4
    Reply = 2
    MaxUnits = 5
    MaxErrors = 1
SPECIFICATION MCSpec
INVARIANTS
    PulledIsChosen
    UtterancesExact
PROPERTIES
    PullsSucceed
    SigintEnds
