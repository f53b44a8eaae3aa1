\* The network is lost and rejoined, and the gateway fails; schedules are refused
\* and REGISTERs not sent.
CONSTANTS
    Unscheduled = Unscheduled
    Led = {0, 1}
    MaxLate = 1
    CustomStartDelay = 1
    CustomPeriod = 2
    ReconnectDelay = 2
    RetryDelay = 3
    FirstPublishDelay = 1
    PublishPeriod = 3
    ButtonGap = 1
    MaxFailures = 2
    EnmsStartDelay = 1
    EnmsPeriod = 2
    Builds = {TRUE, FALSE}
    MaxJoins = 2
    StackRejoins = TRUE
SPECIFICATION FairSpec
INVARIANTS TypeOK QuietWhenLeft TaskHasSocket RunningIsRegistered NeverStranded
PROPERTIES ServiceRuns
