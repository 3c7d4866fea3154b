\* Two calls a response, one notice, seven messages over several runs; one
\* retry where the code has two.
SPECIFICATION Spec
CONSTANTS
    c1 = c1
    c2 = c2
    Calls = {c1, c2}
    NoCallId = NoCallId
    MaxRetries = 1
    MaxMessages = 7
    MaxDeliveries = 1
INVARIANTS
    HooksCannotLoop
    PayloadPaired
    NothingDropped
PROPERTIES
    OpenListReminded
CHECK_DEADLOCK FALSE
