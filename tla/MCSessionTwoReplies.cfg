CONSTANTS
    Bevs   = {b1}
    Timers = {t1, t2}
    Nil    = Nil
    Env    = {}

SPECIFICATION Spec

INVARIANT OneFinalReply

\* the session may end: nothing is left to do then
CHECK_DEADLOCK FALSE
