\* An answer is stored on the Session, where any run may consume it.
SPECIFICATION Spec
CONSTANTS
    r1 = r1
    r2 = r2
    r3 = r3
    r4 = r4
    w1 = w1
    w2 = w2
    w3 = w3
    w4 = w4
    w5 = w5
    w6 = w6
    w7 = w7
    j1 = j1
    Requests = {r1, r2, r3}
    Wakes = {w1, w2, w3, w4, w5}
    Jobs = {j1}
    Kinds = {"text", "answer"}
    None = None
    MaxReports = 0
    MaxFails = 0
    MaxCancels = 0
    MaxBreaks = 0
    MaxRestores = 0
INVARIANTS
    MessageReachesGraph
