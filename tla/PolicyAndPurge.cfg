SPECIFICATION Spec
CONSTANTS
    Request = {r1}
    Kind <- MCKind
    Query <- MCQuery
    HitBy <- MCHitBy
    MatchBy <- MCMatchBy
    Policy <- BothPolicies
    PolicyChange <- Narrowing
    Cap = {2}
    CondStore = TRUE
    TTL = 2
    TicksPerSecond = 2
    Patience = 1
    MaxUid = 2
    MaxModSeq = 3
    MaxValidity = 1
    MaxTime = 5
INVARIANTS OnlyApprovedRows FastPathSound
