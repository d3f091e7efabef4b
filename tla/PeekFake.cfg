SPECIFICATION Spec
CONSTANTS
    from = from
    bcc = bcc
    other = other
    fake = fake
    Kinds = {from, fake}
    Defects = {"none"}
    Account <- MCAccount
    Query <- MCQuery
    Target <- MCTarget
    Kind <- MCKind
    HitBy <- MCHitBy
    Exact <- MCExact
    Quirks <- MCQuirks
    Source = {TRUE}
    ScanLimit = 1
    Budget = 1
    DialTimeout = 2
    Pause = 0
    ClientTimeout = 2
    MaxUid = 2
    MaxValidity = 1
    MaxChanges = 0
INVARIANT PeekOnlyApproved
