SPECIFICATION FairSpec
CONSTANTS
    from = from
    bcc = bcc
    other = other
    fake = fake
    Kinds = {from, other}
    Defects = {"none", "overbroad", "sloppy"}
    Account <- MCAccount
    Query <- MCQuery
    Target <- MCTarget
    Kind <- MCKind
    HitBy <- MCHitBy
    Exact <- MCExact
    Quirks <- MCQuirks
    Source = {TRUE, FALSE}
    ScanLimit = 2
    Budget = 2
    DialTimeout = 3
    Pause = 1
    ClientTimeout = 3
    MaxUid = 3
    MaxValidity = 2
    MaxChanges = 1
INVARIANT TypeOK
INVARIANT QuietVerdictsTrue
INVARIANT OverrunBounded
PROPERTY PeekOnlyMatching
PROPERTY NoLatePass
PROPERTY ProbesEnd
