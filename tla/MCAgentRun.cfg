CONSTANTS
    c1 = c1  c2 = c2  readme = readme  main = main  dotMain = dotMain
    outside = outside  src = src  v1 = v1  v2 = v2  v3 = v3  needle = needle
    Root = Root  Absent = Absent  Unlocked = Unlocked  Refused = Refused
    Nothing = Nothing  Error = Error
    Commits = {c1, c2}
    Paths = {readme, main}
    Directories = {src}
    Above <- MainInSource
    Blobs = {v1, v2, v3}
    Version <- TwoVersions
    Binary = {}
    PerPage = 1
    MaxItems = 3
    Spellings = {readme, main, dotMain, outside, src, Root}
    CanonicalPath <- SpelledTwice
    Lines <- TwoLines
    RecentLimit = 2
    NoteLimit = 1
    ShownLimit = 1
    RelevantLimit = 1
    MaxReadLines = 2
    MaxEntries = 2
    MaxResult = 2
    Preview = 1
    Matches <- NeedleInMain
    TotalBudget = 12
    SectionBudget <- Budget
    SectionFloor <- Floor
    ReductionOrder <- CutOrder
    Joints = 0
    Questions <- TwoQuestions
    DocNames = {readme}
    MaxAttempts = 2
    PrefixLength = 5
    EntryLength = 2
    Words = {"w"}
    Lists <- SomeLists
    RemoteFaults = TRUE
SPECIFICATION FairSpec
INVARIANTS   PromptsAreTight
    ListsMissOnlyAfterRemovals
PROPERTIES EveryRunEnds
CHECK_DEADLOCK FALSE
