CONSTANTS
    r1 = r1
    r2 = r2
    r3 = r3
    e1 = e1
    Runs = {r1, r2}
    ExplicitRuns = {}
    Length <- TwoChunks
    AttemptLimit = 3
    Overlap = TRUE
SPECIFICATION Spec
PROPERTY PublishedAreNeverOverwritten
