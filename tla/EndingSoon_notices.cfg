SPECIFICATION Spec
CONSTANTS
    Kinds = {watching}
    Items = {i1}
    Ends = {2, 3}
    Thresholds = {1, 2}
    Retention = 1
    MaxTime = 3
    MaxLives = 2
    MaxCrashes = 1
INVARIANTS TypeOK OneTimerPerItem OnceUnlessCrash SuppressedWasTold Covered
PROPERTY OnceLifetime
CHECK_DEADLOCK FALSE
