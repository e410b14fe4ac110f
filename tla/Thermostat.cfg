SPECIFICATION FairSpec
CONSTANTS
    Temps = {0, 1, 2, 3}
    SummerTarget = 1
    WinterTarget = 3
    Speeds = {1, 2}
    Full = 2
    MaxInputs = 2
    MaxPreempts = 1
    MaxLogins = 2
INVARIANT NeedIsAsked
PROPERTY ReachesTarget
CHECK_DEADLOCK FALSE
