CONSTANTS
    Bevs   = {b1}
    Timers = {t1, t2}
    Nil    = Nil
    Env    = {"tls"}

SPECIFICATION Spec

INVARIANT TlsDownloadWhole

\* the session may end: nothing is left to do then
CHECK_DEADLOCK FALSE
