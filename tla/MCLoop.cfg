SPECIFICATION Spec
CONSTANTS
    Options = {"d", "H", "h", "v", "n", "b", "p", "G", "?"}
    Numbers <- MCNumbers
    IntMax = 15
    Milli = 2
    Micro = 4
    Outer = 1
    Inner = 1
    MaxCalls = 1
    Keys = {"q", "f", "other"}
    MaxTime = 24
    MaxFrames = 6
CHECK_DEADLOCK FALSE
INVARIANT TypeOK
INVARIANT AsTold
INVARIANT ShowsAsked
PROPERTY QuitStops
PROPERTY IntervalExact
PROPERTY Ends
