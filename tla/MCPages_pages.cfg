SPECIFICATION PagesSpec
CONSTANTS
    StoreApp = {"a1", "a2", "a3"}
    NewestApp = "a3"
    Text = {"", "net"}
    Choice = {"all", "media"}
    Matching <- mcMatching
    PAGE_SIZE = 1
    MaxChanges = 1
    Tile = {a, b, c}
    NoDrag = NoDrag
    Reviewer = {"ana", "bia"}
    NoReviewer = "nobody"
    LocalUser = "me"
    MaxFlows = 2
    MaxUpsets = 1
    Username = {"ana", "bia"}
    NoUsername = "nobody"
    MaxCodes = 2
    MaxMishaps = 1
    Account = {me, ana}
    Me = me
    NoAccount = NoAccount
    MaxChallenges = 2
    MaxSlips = 1
    Families = 2
    Period = 2
    MaxDelay = 1
    Interval = {2, 4}
    NoQueue = NoQueue
    QueueSize = 4
    Remembered = 4
    Limit = 5
    MaxSamples = 3
    MaxTroubles = 2
    Client = {c1, c2}
    Closed = Closed
    Buffer = 2
    HistorySize = 3
    MaxEvents = 5
    MaxRestarts = 1
CHECK_DEADLOCK FALSE
INVARIANTS
    PagesTypeOK
    CardsAreTheResults
    PublishedAsShown
    CodesStayAtHand
    EnrolledCodesStayAtHand
    ReplayNeverBlocks
    DeliveryInOrder
    SnapshotsHold
PROPERTIES
    TilesMoveByDrop
    ReconnectResumes
