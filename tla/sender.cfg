CONSTANTS
    MaxPacketSize = 10
    HeaderSize = 4
    PrefixSize = 2
    EndOfSessionCount = 4
    Lengths = {0, 1, 2, 4, 5, 11}
    MaxMessages = 5
    EndOfSessionRepeats = 2
SPECIFICATION Spec
INVARIANTS
    ViewReadsTheFileBack
    SequencesAreContiguous
    OnlyTheEndReadsAsTheEnd
PROPERTY
    EndsWithTheFileSent
