\* Two sockets of the link, two calls over a ledger of one entry, and small
\* instances of the other components.
CONSTANTS
    s1 = s1  s2 = s2  b1 = b1  b2 = b2
    a1 = a1  a2 = a2  a3 = a3  t1 = t1  t2 = t2  c1 = c1  c2 = c2
    \* BodyLink
    Sockets = {s1, s2}
    NoSocket = NoSocket
    AutoReconnect = TRUE
    UrlAllowed = TRUE
    MaxAttempt = 6
    MaxAuthRetries = 3
    \* ActionLedger
    Actions = {a1, a2, a3}
    Tasks = {t1, t2}
    Keys = {"tool"}
    Calls = {c1, c2}
    TaskOf <- MCTaskOf
    KeyOf <- MCKeyOf
    Idempotent = {a2}
    NeedsConfirm = {a1}
    Unsupported = {a3}
    MaxCache = 1
    MaxRetries = 1
    None = None
    \* RegistryFeed
    FeedBodies = {b1, b2}
    MaxFeedChanges = 3
    MaxFeedSockets = 2
    MaxFeedFetches = 1
    \* Deployment
    DpIds = {b1}
    MaxMachines = 2
    MaxInstances = 2
    MaxDpLives = 2
    \* DesktopShell
    MaxProcs = 3
    MaxVersion = 2
    MaxKills = 1
    \* ClientSession
    MaxPrompts = 2
    MaxDrops = 1
    MaxSent = 2
    MaxWire = 2
    \* VoiceInput
    MaxStarts = 2
    MaxTimers = 2
    \* WebAgent
    WebTabs = {1, 2}
    MaxWebJobs = 2
    MaxUpsets = 2
    \* BrowserActions
    BaTabs = {1, 2}
    BaUrls = {1, 2}
    MaxBaLoads = 5
    MaxBaJobs = 2
    \* WebTasks
    WtFields = {1, 2}
    WtFiles = {1, 2, 3}
    WtRows = 5
    ScanCap = 2
    MaxWtUpsets = 3
    MaxWtPolls = 4
    \* BulkFiles
    BfNames = {1, 2, 3}
    BfContents = {1}
    MaxBatches = 1
    \* ComputerControl
    CcPoints = {1, 7, 8, 12}
    CcWidths = {4, 8}
    CcWindows = {1, 2}
    MaxCcUpsets = 2
    MaxCcTasks = 2
    \* ProcessTools
    PtPids = {1, 2}
    PtShells = {1}
    MaxPtStarts = 2
    MaxPtKills = 1
    \* ModelRouting
    MrModels <- RoutedModels
    MrLocal = 3
    MrKeys = {1}
    MaxMrSteps = 3
    \* LocalRuntime
    LrModels = {"m1"}
    LrCreds = {"c1", "c2"}
    MaxLrOps = 4
    \* SavedState
    SvCap = 2
    SvBurst = 2
    MaxRecords = 4
    MaxTalk = 3
    MaxSvLives = 1
    \* SetupWizard
    SuCatalog <- OfferedModels
    SuLocal = 0
    MaxSuCalls = 2
    MaxSuSteps = 10
    \* SettingsDialog
    SeProviders = {1, 2}
    SeTools = {1}
    MaxSeCalls = 2
    MaxSeSteps = 4
    \* ModelsPage
    MaxMpFlows = 2
    MaxMpSteps = 3
    MaxMpNews = 1
    \* SystemSampler
    TmPids = {1}
    TmWindows = {1, 2}
    TmDisplays = {1, 2}
    TmWindowCap = 1
    MaxTmTime = 3
    MaxTmAsked = 3
    MaxTmWalks = 1
    MaxTmUpsets = 1
SPECIFICATION SuiteSpec
CHECK_DEADLOCK FALSE
INVARIANTS
    LinkIsAwake
      
    MirrorIsTrue
    CloudIsAsAsked
    PageIsTrue
    VoiceIsReal
    
PROPERTIES
    
    ShellHandsOver
    BrowserTellsTheTruth
    TaskVerdictsHold
    
    
    
    SavedIsKept
