SPECIFICATION Spec
CONSTANTS
    NoLine = NoLine
    NumWays = 2
    Victims = {0, 1}
    Tags = {line_a, line_b}
INVARIANTS
    DataMatchesTag
