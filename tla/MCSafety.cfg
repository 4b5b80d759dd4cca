SPECIFICATION Spec
CONSTANTS
    Collectors = {g1}
    Sessions = {s1}
    Items = {1}
    Copies = {1, 2}
    MaxGcFaults = 1
    MaxLog = 3
    MaxFlips = 2
    MaxRestarts = 1
    MaxLostMarks = 1
    Stores = {A, B}
    NoStore = NoStore
    HistoryLimit = 1
    MaxRows = 2
    MaxReads = 3
    MaxUiFaults = 1
    FormFields = {scope, budget}
    TextFields = {budget}
    Inject = inject
    Space = space
    scope = scope
    budget = budget
    MaxExternal = 1
    MaxPresses = 2
    MaxFormEdits = 2
    MaxWriteFaults = 1
    ItemLimit = 2
    PartsLimit = 2
    MaxEvents = 4
    MaxReopens = 1
    Adders = {a1}
    Handmade = {h1}
    Texts = {t1, t2}
    Unsafe = unsafe
    Blank = blank
    AdoptLimit = 1
    MaxHandEdits = 2
    MaxNoteFaults = 1
    MaxNoteRuns = 2
    AgentNotes = {n1}
    Steps = 3
    DiffBytes = 3
    PageBytes = 2
    ReadBudget = 3
    HistoryBudget = 5
    CallCap = 2
    JobIds = {j1}
    BatchLimit = 1
    SnapshotLimit = 2
    ReceiptLimit = 2
    AuditCap = 2
    PruneEvery = 3
    MaxAudit = 3
    MaxMoves = 2
    Statuses = {"pending", "completed"}
    NoticeChars = 3
    MiddleChars = 3
    PartialMarker = 1
    PartialFloor = 2
    FramingTokens = 1
    Radix = 2
    MaxChars = 6
    MaxLine = 2
    MaxLines = 3
    MaxBudget = 7
    Terms = {"x", "y"}
    Sentences <- Written
    DocLengths <- Lengths
    SummaryOf <- Summaries
    PendingDocs = {3}
    RelOrder <- Names
    KnownRollouts = {1, 2}
    Weight <- Rarity
    PhraseBonus = 4
    HitsPerFile = 2
    HitLimits = {1, 3}
    TokenLimits = {1, 2}
    LineLimits = {0, 1}
    Rollouts = {1, 2, 3}
    Topics = {"style", "style guide"}
    AdHoc = "ad hoc"
    Within <- Prefix
    Echoes <- Quotes
    Mentions = {3}
    Remembered = {n1}
    PageBlocks = 2
    MaxInputs = 2
    MaxStaged = 3
    Openers = {o1, o2}
    StageRows = {r1}
    StoredJobs = {q1, q2}
    CodexJobs = {q1}
VIEW View
INVARIANTS PartsTypeOK StoresAreKept WindowsAreKept PageIsTrue FramesArrive EvidenceIsTheSurface
           AppliedIsMerged CommitIsEarned ReceiptsArrive ReadPathIsRight HandbookIsCited OpenedIsMigrated
PROPERTIES NeverStartsEmpty SavesAreHonest NothingNewNothingQueued
CHECK_DEADLOCK FALSE
