CONSTANTS
    Commands <- MCCommands
    MAX_ARGS = 2
    MaxInput = 9
    MaxLines = 2
    Habits = {"whole", "split"}

SPECIFICATION FairSpec

CHECK_DEADLOCK FALSE

INVARIANTS
    TypeOK
    ExecutedAsSent

PROPERTY Answered
