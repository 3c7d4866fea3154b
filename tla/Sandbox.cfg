\* Two requests, and two crashes.
SPECIFICATION Spec
CONSTANTS
    r1 = r1
    r2 = r2
    skill = skill
    Requests = {r1, r2}
    None = None
    Undone = Undone
    Scratch = Scratch
    Kept = Kept
    Lost = Lost
    Left = {None, Kept, Lost}
    Configurations <- MCConfigurations
    BackoffStart = 1
    BackoffMax = 30
    MaxCrashes = 2
INVARIANTS
    UndoneStaysUndone
    ShellSeesSkills
    LastWriteReported
    NoAppLeft
PROPERTIES
    AppComesBack
CHECK_DEADLOCK FALSE
