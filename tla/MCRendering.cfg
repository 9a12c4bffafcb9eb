\* Two threads render at the same time.
SPECIFICATION Spec
CONSTANTS
    Thread = {t1, t2}
    Terminal = Terminal
    Headers = 2
    MaxRows = 1
    MaxRendered = 1
INVARIANT
    OwnLines
CHECK_DEADLOCK FALSE
