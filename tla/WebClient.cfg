CONSTANTS
    TableKeys = {1, 2, 3, 4, 5}
    PageSize = 2
    MaxLoads = 2
    MaxTurns = 1
    MaxPage = 2
    MaxWrites = 1
    GridKeys = {1, 2, 3}
    DraftKeys = {2, 3}
    MaxEdits = 2
    MaxReloads = 1
    MaxOthers = 1
    UpdateRows = {1, 3}
    DeleteRows = {2}
    MaxPages = 1
    GridColumns = {1, 2, 3}
    QueryTabIds = {1, 2}
    MaxRuns = 2
    MaxTxIds = 2
    MaxClicks = 2
    Items = {1, 2}
    MaxPosts = 2
    WatchJobs = {1, 2}
    MaxQuestions = 2
    MaxStarts = 1
    PlanInputs = {1, 2}
    MaxRequests = 2
    Suites = {1, 2, 3, 4}
    SuiteLimit = 2
    MaxSteps = 2
    Connections = {1, 2}
    MaxShows = 3
    RowCounts = {0, 4, 7}
    ChunkRows = 1
    PageRows = 2
    MaxLooks = 5
SPECIFICATION Spec
INVARIANTS
    WalkSkipsNothing FailuresNameTheirDrafts EditsStayOnTheirRows
     SomeColumnStaysVisible EveryTransactionHasItsTab EditsKeepTheRest CopiesAgreeWhenQuiet
    NoSilentStop ExecutesWhatIsShown ListedIsOfTheSuite ListsAreOfTheirConnection LookedAtStays
PROPERTIES
    SaveLosesNothing AndNextFinishesTheScope WaitingEnds
CHECK_DEADLOCK FALSE
