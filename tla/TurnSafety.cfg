\* Plain messages, notices and openings; an exception or a stop, no restore.
SPECIFICATION Spec
CONSTANTS
    r1 = r1
    r2 = r2
    r3 = r3
    r4 = r4
    w1 = w1
    w2 = w2
    w3 = w3
    w4 = w4
    w5 = w5
    w6 = w6
    w7 = w7
    j1 = j1
    Requests = {r1, r2, r3}
    Wakes = {w1, w2, w3, w4, w5, w6}
    Jobs = {j1}
    Kinds = {"text", "notice", "empty", "started"}
    None = None
    MaxReports = 1
    MaxFails = 1
    MaxCancels = 1
    MaxBreaks = 1
    MaxRestores = 0
INVARIANTS
    TypeOK
    TurnsSerialised
    WakeSparesQuestion
    WakeHasNews
    MessageReachesGraph
    QueuedTurnReferenced
PROPERTIES
    QuestionClosedByAnswer
SYMMETRY RequestSymmetry
