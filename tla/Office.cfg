SPECIFICATION TopicSpec
CONSTANTS
    Topics = {"office", "term"}
    Calls = {"x", "y", "z"}
    Scenarios <- OfficeScenarios
    Granted = "Acme Corp"
    Chains <- TwoChains
    Pieces = 2
    MaxSwitches = 1
INVARIANTS
    OwnershipReflectsTheFetch
    AnswersAreKept
    OneModePerFetch
CHECK_DEADLOCK FALSE
