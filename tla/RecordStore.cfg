SPECIFICATION Spec
CONSTANTS
    Numbers = {n1, n2, n3}
    Projects = {p}
    Kinds = {cites}
    Sources = {uspto}
    NoNumber = NoNumber
    Batches <- CrawlBatches
    MaxCalls = 4
SYMMETRY NumberSymmetry
INVARIANT ReferentialIntegrity
PROPERTIES MergeLosesNothing SoftDeleteKeepsReferencedOnly
CHECK_DEADLOCK FALSE
