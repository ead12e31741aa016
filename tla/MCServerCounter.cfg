CONSTANTS
    N = 3
    max_connections = 3
    Env = {}

SPECIFICATION Spec

INVARIANT CounterIsActive

\* the server may end, and all sessions with it
CHECK_DEADLOCK FALSE
