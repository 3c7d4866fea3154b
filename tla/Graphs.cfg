\* Three nodes; limits of one and two turns of a loop; a counter that no limit
\* bounds is followed to five.
SPECIFICATION Spec
CONSTANTS
    a = a
    b = b
    c = c
    end = end
    free = free
    none = none
    Ids = {a, b, c}
    EndTarget = end
    NoLimit = free
    NoGraph = none
    Graphs <- MCGraphs
    Definitions <- MCDefinitions
    RetryCap = 5
INVARIANTS
    RoutedNodesExist
    BudgetHolds
    JobsReachReporter
    PermissionsAccepted
PROPERTIES
    RunEnds
CHECK_DEADLOCK FALSE
