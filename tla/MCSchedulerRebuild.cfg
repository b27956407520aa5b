SPECIFICATION FairSpec
CONSTANTS
    s1 = s1
    s2 = s2
    h1 = h1
    daily = daily
    Everyday = Everyday
    q1 = q1
    q2 = q2
    r1 = r1
    r2 = r2
    r3 = r3
    j1 = j1
    Schedules <- OneSchedule
    Hosts <- OneHost
    CronSpecs <- Cron
    Words <- Friendly
    Descriptor <- Normal
    Requests <- TwoRequests
    Main = Main
    Registries <- ThreeRegistries
    Jobs <- OneJob
    None = None
    QueryFails = TRUE
INVARIANT TypeOK
INVARIANT OneRegistryTicks
INVARIANT RegistryMatchesTable
INVARIANT CurrentTicks
INVARIANT SilentAfterStop
PROPERTY EnabledScheduleTicks
