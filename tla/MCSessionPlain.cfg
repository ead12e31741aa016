CONSTANTS
    Bevs   = {b1, b2}
    Timers = {t1, t2}
    Nil    = Nil
    Env    = {"pipeline", "multi", "neterr", "abort", "empty"}

SPECIFICATION Spec

INVARIANTS
    TimerSafety
    ListenerTimed
    AuthGate
    NothingStale
    CallbacksEquipped

SYMMETRY Symmetry

\* the session may end: nothing is left to do then
CHECK_DEADLOCK FALSE
