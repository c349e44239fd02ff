SPECIFICATION Spec
CONSTANTS
    Serves = {s1, s2}
    Tools = {t1}
    Origins <- AllOrigins
    Careful = TRUE
    Nobody = Nobody
SYMMETRY Symmetry
INVARIANTS
    NumberTellsTheTables
    RestorePointsAreKept
    
PROPERTY
    StoppedIsDown
CHECK_DEADLOCK FALSE
