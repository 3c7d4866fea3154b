\* What a rewind that is applied again does to the turns since: two requests, no
\* crash.
SPECIFICATION Spec
CONSTANTS
    r1 = r1
    r2 = r2
    skill = skill
    Requests = {r1, r2}
    None = None
    Undone = Undone
    Scratch = Scratch
    Kept = Kept
    Lost = Lost
    Left = {None}
    Configurations <- MCConfigurations
    BackoffStart = 1
    BackoffMax = 30
    MaxCrashes = 0
PROPERTIES
    RewindTakesOnlyUndone
CHECK_DEADLOCK FALSE
