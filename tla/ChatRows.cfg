\* Two turns, a notice, a failed transaction, an exception and a stop.
SPECIFICATION Spec
CONSTANTS
    None = None
    MaxTurns = 2
    MaxMessages = 5
    MaxNotices = 1
    MaxFails = 1
    MaxCancels = 1
    MaxDbFails = 1
INVARIANTS
    RowsInThreadOrder
    ReportsReadOnce
    StampHoldsMessage
PROPERTIES
    WriteHeals
    StopClosesCalls
CHECK_DEADLOCK FALSE
