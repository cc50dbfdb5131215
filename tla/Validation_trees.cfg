\* Nested arguments, from the first call of inspect_value to the report.
SPECIFICATION Spec
CONSTANTS
    k1 = k1
    k2 = k2
    p1 = p1
    Keys <- MCKeys
    Patterns <- MCPatterns
    Values <- MCValues
    Arguments <- MCArguments
    ErrorLists <- MCErrorLists
    MaxDepth = 3
    Paths <- MCPaths
INVARIANTS
    ReportComplete
    DataOnlyIfClean
