SPECIFICATION Spec
CONSTANTS
    Crawls = {c1, c2}
    Numbers = {1, 2, 3, 4}
    Projects = {p}
    Kinds <- AllKinds
    Sources = {}
    NoNumber = 0
    Settings <- AllJobs
INVARIANTS RecordsAnswerToTheirNumber StoredFamilyIsShown
PROPERTIES  DoneMeansCached
CHECK_DEADLOCK FALSE
