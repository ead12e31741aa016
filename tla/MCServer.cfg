CONSTANTS
    N = 4
    max_connections = 4
    Env = {"forkfail", "spin", "kill"}

SPECIFICATION FairSpec

INVARIANTS
    Admission
    KillSwitchOrder
    AnswerMatches
    ZombiesSignalled

PROPERTIES
    KillSwitch
    AskReturns

\* the server may end, and all sessions with it
CHECK_DEADLOCK FALSE
