SPECIFICATION Spec
CONSTANTS
    Registry <- MCRegistry
    Texts = {"", "0", "1", "7", "9", "-1", "yes", ",", "hd,,sd", "hd,uhd"}
    PanelBots = {"main", "fleet"}
    Admin = 1
    KnownUsers = {7, 9}
    Slots = {1, 2}
    MaxMoves = 3
    Scenarios <- MCScenarios
    LinkPlatform <- MCLinkPlatform
    SwitchOf <- MCSwitchOf
    FleetPlatforms = {"spotify", "pinterest"}
    BannedLinks = {"b"}
    UserLimit = 1
    ChatLimit = 2
    RateWindow = 2
    DedupWindow = 2
    Videos <- MCVideos
    AllowedHeights = {3, 7}
    Ranges <- MCRanges
    CardSlots = {1, 2}
    MaxCards = 2
    MaxTaps = 3
    TestPlatform <- MCTestPlatform
    Runners = {"r1", "r2"}
    StaleAfter = 2
    MaxCrashes = 2
    MaxEdits = 4
    People = {"ann", "bob"}
    Boss = "boss"
    Bots = {"saveinator", "fleet"}
    Languages = {"en", "ru"}
    Ratios = {"ask", "9_16"}
    Charges <- MCCharges
    MaxActs = 2
    MaxMishaps = 1
    Parts = {"worker", "metrics"}
    StartSteps = 1
    QueueIds = {"i"}
    TempJobs <- MCTempJobs
    SweepAge = 2
    MaxEvents = 2
    MaxTicks = 2
    Visitors = {"op", "guest"}
    DashAdmins = {"op"}
    SessionTTL = 1
    AuthAge = 1
    MaxLogins = 2
    MaxDashTime = 3
INVARIANTS
    TypeOK
    SettingsUsable
    DedupOnce RateBound  RefusalsHold
    TaskFitsVideo
    ResultMatchesStatus OneRunnerPerRow
    EffectIsRecorded LanguageSticks
    RecoveryKeepsTasks JobKeepsItsDir
    DataForLiveSessions
PROPERTIES
    RowsEnd WorkerServesAgain
CHECK_DEADLOCK FALSE
