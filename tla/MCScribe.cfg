CONSTANTS
    j1 = j1
    j2 = j2
    l1 = l1
    l2 = l2
    Jobs = {j1, j2}
    Loops = {l1, l2}
    Queued = {j1}
    Workers = {w1, w2}
    MaxLines = 1
    Deployments <- MCDeployments
    DatabaseDies = TRUE
    NoJob = NoJob
    NoCall = NoCall

SPECIFICATION Spec

SYMMETRY Symmetry

CHECK_DEADLOCK FALSE

INVARIANTS
    OneRunPerJob
    LogIsWhole
    PageGoesForward
    JobIsFound
    AudioNotOlder
    NothingTranscribed
