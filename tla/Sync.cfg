SPECIFICATION Spec
CONSTANTS
    Request = {r1, r2}
    Kind <- MCKind
    Query <- MCQuery
    HitBy <- MCHitBy
    MatchBy <- MCMatchBy
    Policy <- BothPolicies
    PolicyChange <- NoChange
    Cap = {1, 2}
    CondStore = TRUE
    TTL = 0
    TicksPerSecond = 1
    Patience = 0
    MaxUid = 2
    MaxModSeq = 4
    MaxValidity = 2
    MaxTime = 0
INVARIANTS TypeOK MutexOK OneGeneration FastPathSound MixedRowsAreStale QuietCycleConverges
PROPERTIES GateBeforeContent ImplementsMirror
SYMMETRY Symmetry
