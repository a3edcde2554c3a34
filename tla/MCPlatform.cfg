SPECIFICATION PlatformSpec
CONSTANTS
    Backends = {"json", "sqlite"}
    Autosaved = {"named", "unnamed"}
    Prompt <- SamePrompts
    Answer <- TwoAnswers
    TurnModes <- AgentThenChat
    UserNames = {"work"}
    KeepRecent = 2
    CompactAt = 4
    MaxSessions = 3
    MaxEvents = 1
    MaxStarts = 2
    Files = {"f", "g"}
    MaxWrites = 2
    MaxChanges = 3
    MaxUndos = 2
    PatchedTexts <- FoundTexts
    Additions <- NewLines
    Anchors = {"def"}
    EditedLine <- UsersLine
    MaxHunks = 2
    MaxRegion = 1
    Callers = {"c1","c2"}
    Transports = {"stdio","http","sse"}
    HasOperator = TRUE
    MaxServers = 2
    MaxCalls = 3
    MaxNoise = 1
    Urls = {"u"}
    Repos = {"r"}
    NameOf <- OwnNames
    FileOf <- OneFile
    RepoFiles = {"c","w1"}
    Size = 2
    MaxInstalls = 4
    MaxRemovals = 2
    LocalModels = {"a@1","b@1"}
    TooLarge = {"b@1"}
    Loadable = {"a@1"}
    Providers = {"p"}
    RemoteModels = {"gpt"}
    Endpoints = {"url1","url2"}
    MaxEdits = 6
    CaptureLimit = 2
    MaxOutput = 4
    Streams = 2
    Chunks = 2
    QueueLimit = 1
    HonoursCancel = FALSE
    Formats = {"openai","anthropic","rest"}
    CallCount = 2
    Fragments = 2
    MaxAttempts = 2
    MaxText = 1
    RecentKept = 2
    FallbackShows = 1
    DiffShown = 2
    WindowLimit = 4
    UserSizes = {1, 3}
    Pins = {"p"}
    MemoryItems = 2
    MaxInputs = 3
    MaxSideSteps = 1
    Postures = {"read-only", "workspace-write", "danger-full-access"}
    SandboxBackends = {"off", "auto", "macos-seatbelt", "linux-bwrap", "container-docker"}
    NetworkAccess = {"auto", "allow", "deny"}
    ExtraRoots = {"extra"}
    PlatformBackend = "linux-bwrap"
    Servers = {"s", "t"}
    ServerDir = "serverdir"
    Refreshes = FALSE
    MaxSettings = 2
    MaxSwitches = 1
    MaxBroken = 1
    Kinds = {"openai", "anthropic", "rest"}
    Policies = {"close_after_turn"}
    AsyncUsers = {"turn"}
    SyncUsers = {"agent"}
    RequestRetries = 1
    MaxRequests = 2
    MaxClients = 1
    MaxMessages = 5
    MaxWireCalls = 2
    Blocks <- ChannelBlocks
    Words = {"channel", "message", "end", "analysis", "final"}
    MaxBlocks = 3
    MaxChunk = 2
    Symbols <- AnswerSymbols
    Texts <- AnswerTexts
    MaxPiece = 3
    PersistentLane = FALSE
    DetailsKept = 2
    BatchLimit = 3
    CatchupLimit = 1
    HighWater = 2
    LowWater = 1
    MaxDetails = 3
    MaxLines = 2
INVARIANTS
    AutosaveHoldsItsSession
    ReplayIsIdempotent
    EveryChangeUndoable
    PatchLandsWhereMeant
    RequestCoversSession
    AnswerIsForItsCall
    OutputComplete
    ToolProcessesContained
    RegisteredIsWhole
    AnswerComesFromTarget
    OutcomeIsTheServers
    WireKeepsConversation
    StreamFaithful
    ToolCallsWhole
    MarkupSplitSafe
    ScreenInStep
PROPERTIES
    LoadRecoversCompletedTurns
    UndoAllRestoresWorkspace
CHECK_DEADLOCK FALSE
