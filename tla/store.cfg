CONSTANTS
    r1 = r1
    r2 = r2
    r3 = r3
    e1 = e1
    Runs = {r1, r2, r3, e1}
    ExplicitRuns = {e1}
    Length <- Lengths
    AttemptLimit = 5
    Overlap = FALSE
SPECIFICATION Spec
INVARIANTS
    PublishedAreWhole
    AnswerIsTrue
PROPERTY
    PublishedAreNeverOverwritten
