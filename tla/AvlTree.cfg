SPECIFICATION AvSpec
CONSTANTS
    AvKeys = {1, 2, 3, 4, 5, 6}
    AvData = {0}
    AvSteps = 7
INVARIANT AvlBalanced
CHECK_DEADLOCK FALSE
