SPECIFICATION GroupSpec
CONSTANTS
    NoValue = NoValue
    Failed = Failed
    Unparsable = Unparsable
    Malformed = Malformed
    WrongType = WrongType
    Huge = Huge
    Words <- MCWords
    MaxWords = 3
    Bits = 6
    Mantissa = 4
    PageExponent = 2
    MaxAfterglow = 3
    Content = {"a", "b"}
    Settings <- MCSettings
    MaxOps = 4
INVARIANTS
    CommandLineSound
    MostSpecificSource
    StartSound
    ParsedExactly
    Converged
    WatchesConsistent
CHECK_DEADLOCK FALSE
