\* Restores of an earlier checkpoint at any moment.
SPECIFICATION Spec
CONSTANTS
    r1 = r1
    r2 = r2
    r3 = r3
    r4 = r4
    w1 = w1
    w2 = w2
    w3 = w3
    w4 = w4
    w5 = w5
    w6 = w6
    w7 = w7
    j1 = j1
    Requests = {r1, r2}
    Wakes = {w1, w2, w3, w4, w5, w6}
    Jobs = {j1}
    Kinds = {"text", "notice", "empty", "restore", "restoretext"}
    None = None
    MaxReports = 0
    MaxFails = 1
    MaxCancels = 1
    MaxBreaks = 2
    MaxRestores = 1
INVARIANTS
    LockExclusion
SYMMETRY RequestSymmetry
