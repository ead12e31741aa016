CONSTANTS
    Commands <- MCCommands
    MAX_ARGS = 2
    MaxInput = 9
    MaxLines = 2
    Habits = {"pipeline"}

SPECIFICATION Spec

CHECK_DEADLOCK FALSE

INVARIANT EveryLineExecuted
