SPECIFICATION Spec
CONSTANTS
    Setters = {task, thread}
    Listeners = {ui, api}
    Preemptive = TRUE
    MaxChanges = 4
CHECK_DEADLOCK FALSE
PROPERTIES
    NotifiedInTurn
