SPECIFICATION TelemetrySpec
CONSTANTS
    Streams = {user_data, website_access}
    MaxEvents = 3
    ChanCap = 1
    BatchSize = 2
    MaxOpened = 2
    MaxReports = 2
    NoReport = NoReport
CONSTRAINT MCBound
INVARIANTS
    AllTypeOK LossNeedsFault
    EveryConnectionReportedOnce UpstreamRowsFollowWorkerRow
PROPERTIES SinkSpec AcceptedSettle
CHECK_DEADLOCK FALSE
