SPECIFICATION FairDoctorSpec
CONSTANTS
    Operator = {o1}
    Account = {a1, a2}
    NoAccount = none
    MaxFailures = 3
INVARIANTS ConfiguredHasSecret DoneMeansReady NoFalseAlarm HealthyReportStands
PROPERTIES NothingLost RetryRecovers
