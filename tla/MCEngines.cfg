CONSTANTS
    Gens = {g1, g2, g3}
    Scenes <- AllScenes
    None = None
    Failed = Failed
    Layers = {"rounds", "requests", "loose", "sessions"}
SPECIFICATION MCSpec
SYMMETRY GenSymmetry
INVARIANTS
    FollowersAreServed
    StreamsAreOwn
    PromptsExact
    ScoresAreOwn
    EnginesReady
    AnswersAreOwn
