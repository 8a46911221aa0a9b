\* The class of the text against the animation it follows.
SPECIFICATION SiteSpec
CONSTANTS
    Duration = 3
    SeekThreshold = 1
    Unit = 2
    MaxScroll = 7
    Sections = {0, 7}
    Sizes <- MCSizes
    MaxLoops = 2
    Notes = 3
    Watched = 3
    NoteWidth = 3
    Border = 1
    Boards = {7, 9}
    Links = 2
    MaxTimers = 2
    Subjects <- MCSubjects
    MaxEvents = 3
    ClusterPolls = 2
    MaxChanges = 2
    FastPaths = {"server", "logs"}
    SlowPaths = {"availability", "response-times", "cluster", "visitors"}
    ServerPolls = 2
    MaxVersion = 2
    Windows = {3, 7, 9}
    MonthDays = 5
    MaxDays = 6
PROPERTIES
    SettledWhenMorphed
