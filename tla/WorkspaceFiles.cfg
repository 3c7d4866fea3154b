\* Four sessions; one file inside .global/ and one outside it, with two paths;
\* two contents; a subagent of each session; any two of the sessions; one refusal.
SPECIFICATION Spec
CONSTANTS
    b1 = b1
    b2 = b2
    play = play
    guest = guest
    app = app
    none = none
    Sessions = {b1, b2, play, guest}
    Apps = {app}
    App <- MCApp
    Workspace <- MCWorkspace
    NoApp = none
    Paths = {"notes.md"}
    Globals = {".global/brief.md"}
    Files <- MCFiles
    Subagents = {1}
    MaxActive = 2
    MaxWrites = 2
    MaxOutages = 1
SYMMETRY Symmetry
INVARIANTS
    ListedIsReadable
    ScopeIsolation
    TurnProjected
CHECK_DEADLOCK FALSE
