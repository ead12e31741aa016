CONSTANTS
    Bevs   = {b1}
    Timers = {t1, t2}
    Nil    = Nil
    Env    = {"tls", "eager", "early", "neterr", "abort", "io", "diskfull",
              "dirgone"}

SPECIFICATION FairSpec

INVARIANTS
    NoLoss
    NoLeak
    ActiveFaithful

PROPERTIES
    ConfirmedIsClosed
    TransferEnds
    UnauthSessionEnds
    ListenerCloses

\* the session may end: nothing is left to do then
CHECK_DEADLOCK FALSE
