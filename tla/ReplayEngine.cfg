CONSTANTS
    sA = sA
    sB = sB
    Strategies <- TwoStrategies
    NoStrategy = NoStrategy
    MaxRuns = 2
    NumItems = 1
    MaxSteps = 1
    MaxEpoch = 2
SPECIFICATION FairSpec
CONSTRAINTS
    FirstIsA
    StepsInFirstRun
INVARIANTS
    RunsMatch
    EndsAsAsked
PROPERTIES
    RunsAsPromised
    StopEventEndsThread
    StoppingEnds
CHECK_DEADLOCK FALSE
