\* A session that defines a function on one line and calls it on the next.
CONSTANTS
    MaxCallDepth = 1
    MaxLines = 2
    MaxScopes = 3
    MaxFns = 1
SPECIFICATION Spec
INVARIANT CallsRunLiveCode
CHECK_DEADLOCK FALSE
