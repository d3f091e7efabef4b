SPECIFICATION Spec
CONSTANTS
    Request = {r1, r2}
    Kind <- MCKind
    Query <- MCQuery
    HitBy <- MCHitBy
    MatchBy <- MCMatchBy
    Policy <- BothPolicies
    PolicyChange <- NoChange
    Cap = {1, 3}
    CondStore = FALSE
    TTL = 0
    TicksPerSecond = 1
    Patience = 0
    MaxUid = 3
    MaxModSeq = 3
    MaxValidity = 2
    MaxTime = 0
INVARIANTS QuietCycleConverges
PROPERTIES PruneSparesLiveMessages
SYMMETRY Symmetry
