SPECIFICATION ScriptFairSpec
CONSTANTS
    MaxGuiRuns = 1
    MaxItems = 1
    MaxLoads = 2
INVARIANTS
    StoppedMeansEnded
PROPERTIES
    CallsReturn
    StopReaches
CHECK_DEADLOCK FALSE
