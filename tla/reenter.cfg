\* One signal, which may come while the main thread holds the lock of the stop event.
SPECIFICATION Spec
CONSTANTS
    MaxSignals = 1
    MaxVisits = 1
CHECK_DEADLOCK FALSE
PROPERTY SignalStops
