SPECIFICATION Spec
CONSTANTS
    Request = {r1, r2}
    Kind <- MCKind
    Query <- MCQuery
    HitBy <- MCHitBy
    MatchBy <- MCMatchBy
    Policy <- OnlyPrivate
    PolicyChange <- NoChange
    Cap = {2}
    CondStore = TRUE
    TTL = 2
    TicksPerSecond = 1
    Patience = 1
    MaxUid = 1
    MaxModSeq = 1
    MaxValidity = 1
    MaxTime = 4
INVARIANTS PurgeForgetsState
SYMMETRY Symmetry
