\* Two parallel calls, two jobs, one aborted turn.
SPECIFICATION Spec
CONSTANTS
    j1 = j1
    j2 = j2
    j3 = j3
    c1 = c1
    c2 = c2
    Jobs = {j1, j2}
    Calls = {c1, c2}
    MaxAborts = 1
INVARIANTS
    CommittedJobsTracked
    RemovedStaysOut
PROPERTIES
    DeliverySpec
