SPECIFICATION FairSpec
CONSTANTS
    Request = {r1, r2}
    Kind <- InsideOnly
    Query <- MCQuery
    HitBy <- MCMatchBy
    MatchBy <- MCMatchBy
    Policy <- OnlyPrivate
    PolicyChange <- NoChange
    Cap = {2}
    CondStore = TRUE
    TTL = 2
    TicksPerSecond = 2
    Patience = 1
    MaxUid = 2
    MaxModSeq = 2
    MaxValidity = 1
    MaxTime = 3
INVARIANTS FastPathNeverStale
PROPERTIES PurgeSparesVerifiedRows RequestsFinish
