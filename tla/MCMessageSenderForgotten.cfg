SPECIFICATION Spec
CONSTANTS
    c1 = c1
    c2 = c2
    Callers = {c1, c2}
    Impatient = {c1, c2}
    streamReuseTries = 0
    MaxStreams = 1
INVARIANT SenderNotForgotten
CHECK_DEADLOCK FALSE
