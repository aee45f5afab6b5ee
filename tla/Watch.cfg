CONSTANTS
    MaxEvents = 3
    MaxSockets = 6
SPECIFICATION Spec
INVARIANTS
    TypeOK
    OneConnection
PROPERTIES
    Subscribes
    KeepsTrying
CHECK_DEADLOCK FALSE
