SPECIFICATION MCSpec
CONSTANTS
    t0 = t0
    t1 = t1
    line_a = line_a
    line_b = line_b
    line_c = line_c
    NoTag = NoTag
    NoWay = NoWay
    NumWays = 2
    StWayCount = 2
    NumL1Ways = 2
    Tags <- ThreeTags
    Threads <- TwoThreads
    UpgradePinsWay = TRUE
    LruNumWays = 2
    Sets <- TwoSets
INVARIANTS LineOnce Inclusion L1Fresh FillWaysAgree ExactlyOnce
PROPERTIES WritableNeedsGrant S3Moves
