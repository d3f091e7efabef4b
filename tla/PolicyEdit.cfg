SPECIFICATION Spec
CONSTANTS
    Request = {r1}
    Kind <- MCKind
    Query <- MCQuery
    HitBy <- MCHitBy
    MatchBy <- MCMatchBy
    Policy <- BothPolicies
    PolicyChange <- BackAndForth
    Cap = {2}
    CondStore = TRUE
    TTL = 0
    TicksPerSecond = 1
    Patience = 0
    MaxUid = 1
    MaxModSeq = 1
    MaxValidity = 1
    MaxTime = 0
INVARIANTS OnlyApprovedRows
