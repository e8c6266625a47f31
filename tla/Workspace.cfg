\* The token store, and the commands beside it.
SPECIFICATION WorkspaceSpec
CONSTANTS
    Procs = {p1, p2}
    Keys = {user, send}
    SendKeys = {send}
    Tokens = {t1, t2, t3}
    NoToken = NoToken
    Every = 2
    MaxExp = 2
    MaxBackoff = 4
    MaxCycles = 16
    MaxVersion = 3
    MaxUpgrades = 3
    ModelSize = 3
    MaxDownloads = 4
    Contacts = {"ann", "bob"}
    MaxMade = 3
    MaxFaults = 1
    MaxEdits = 3
    MaxCopies = 4
    Scopes = {"mail", "sheets"}
    MaxCommands = 3
    ServiceAccounts = {"k1", "k2"}
    MaxCalls = 3
    MaxEvents = 4
    Profiles = {"ann", "bob"}
    Accounts = {"a1", "a2"}
    MaxLogins = 2
    BoxNames = {"work", "team", "Team"}
    LowerCase <- MCLowerCase
    MaxBoxCommands = 5
    UserLabels = {"vip"}
    Matches = {"from ann", "from bob"}
    MaxFilters = 4
    MaxSheetEdits = 4
    MaxSheetFaults = 4
    MaxDocEdits = 2
    MaxDocCommands = 2
    MaxContent = 2
    MaxContactTime = 6
    Correspondents <- MCCorrespondents
    Owner = {"me@x"}
    Slug <- MCSlug
    MaxAdditions = 3
    MaxMailBytes = 10
    RawChunk = 3
    MaxRead = 2
    MaxParts = 2
    Letters <- MCLetters
    NoId = "none"
    LetterId <- MCLetterId
    LetterStamp <- MCLetterStamp
    ThreadKeys <- MCThreadKeys
    LetterLabels <- MCLetterLabels
    Routing <- MCRouting
    MaxFetches = 3
    MaxRefetches = 1
    Exports <- MCExports
    MaxImports = 3
    VideoChunk = 2
    MaxVideo = 4
    MaxVideoEdits = 1
    MaxUploads = 2
    Meetings <- MCMeetings
    Recurring = {"weekly"}
    SeriesOf <- MCSeriesOf
    WholeDay = {"c"}
    ListLimit = 2
    CheckLimit = 2
    Horizon = 4
    MaxChanges = 1
    MaxCalendarCommands = 2
    VoiceNames <- MCVoiceNames
    Alike <- MCAlike
    MaxChunks = 2
    MaxUtterances = 2
    SpeakerLimit = 2
    MaxLow = 7
    MaxNew = 2
    MailTexts <- MCMailTexts
    AddressBook = {"ann", "bob"}
    MailInstants <- MCMailInstants
    LastInstant = 3
    MaxMailMerges = 4
    Recipients = {"ann"}
    Titles = {"Plan"}
    StatusWords = {"approved", "draft", "soon"}
    MaxDraftLines = 5
    MaxDraftTools = 2
    PostLimit = 3
    ImageLimit = 1
    MaxPostBody = 4
    MaxPostEdits = 1
    AnswerNames = {"ann", "Bob", "Unknown"}
    LowerName <- MCLowerName
    SpeakerNames <- MCSpeakerNames
    MaxNumbered = 3
    MaxLines = 2
SYMMETRY Symmetry
INVARIANTS
    TypeOK
    MessagesAreWhole
    ConversationsAreKept
    TextsAreReadBack
    ContactsAreKept
    NamesAgree
    PushReplacesAll
    LoginsAreAsGranted
    DocumentsAreWhole
    CalendarIsAsTold
    VideosAreWhole
    Paced
    DownloadsAreWhole
    SpeakersAreTold
PROPERTIES
    ImplementsRegisters
    OnlyRejectedIsCleared
    FilesAreKept
    TokensAreKept
CHECK_DEADLOCK FALSE
