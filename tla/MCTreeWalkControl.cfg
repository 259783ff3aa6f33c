\* Files and sessions of two lines: loops in calls, calls of two functions in
\* loops, and every exception in them.
CONSTANTS
    MaxCallDepth = 2
    MaxLines = 2
    MaxScopes = 7
    MaxFns = 2
SPECIFICATION FairSpec
CONSTRAINT Instance
INVARIANTS TypeOK ScopesFollowText CallStackIsTrue
PROPERTIES FramesRestoreScope SignalsStopAtTarget ExceptionsLand
CHECK_DEADLOCK FALSE
