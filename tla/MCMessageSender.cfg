SPECIFICATION FairSpec
CONSTANTS
    c1 = c1
    c2 = c2
    Callers = {c1, c2}
    Impatient = {c1, c2}
    streamReuseTries = 0
    MaxStreams = 3
INVARIANTS ResponseMatches NoStreamForgotten
PROPERTY CallsReturn
CHECK_DEADLOCK FALSE
