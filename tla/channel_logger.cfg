SPECIFICATION Spec
CONSTANTS
    Setters = {task, thread}
    Listeners = {ui, api}
    Preemptive = FALSE
    MaxChanges = 4
CHECK_DEADLOCK FALSE
INVARIANTS
    LoggerPersists
