SPECIFICATION FairSpec
CONSTANTS
    Numbers = {1, 2, 3}
    Projects = {"p", "q"}
    Kinds = {"cites"}
    Sources = {}
    NoNumber = 0
    Clients = {"a", "b"}
    Jobs = {1, 2}
    Plans <- WorkPlans
    Invention <- OneInvention
    Neighbours <- OneNeighbour
    Exact <- SearchedOnce
INVARIANTS AdditionsComeOut SuccessIsAnnounced
  
CHECK_DEADLOCK FALSE
