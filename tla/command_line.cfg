CONSTANTS
    Numerals <- MCNumerals
    MinusFirst <- MCMinusFirst
    UIntModulus = 1000000
    RingCapacity = 64
    Arguments <- MCArguments
    MaxArguments = 3
SPECIFICATION Spec
INVARIANTS
    NothingIsLeftOpen
    EveryTextIsADocument
    OneLinePerRun
    RecordedConfigurationIsTheOneThatRan
    IndexAgreesWithTheDocument
    FailuresAreRecorded
    SettingsTakeEffect
