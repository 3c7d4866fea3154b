\* Who closes and expires what, and in what order frames go out: two requests
\* and a wake-up, or one with more events; exceptions and stops.
SPECIFICATION Spec
CONSTANTS
    r1 = r1
    r2 = r2
    w1 = w1
    Requests = {r1, r2}
    Wakes = {w1}
    None = None
    Bounds <- MCBounds
INVARIANTS
    NothingNewAfterTerminal
    EndedTurnsSaySo
    QuestionKept
    DeltasInOpenBlocks
    ResultBeforeTerminal
SYMMETRY RequestSymmetry
CHECK_DEADLOCK FALSE
