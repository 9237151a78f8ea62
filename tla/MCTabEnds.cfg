SPECIFICATION FairTabSpec
CONSTANTS
    Streamed = {"dialog", "reboot"}
    Followed = {"check", "list"}
    Edited = {}
    Servers = {s1}
    MaxRuns = 2
    ListCap = 1
    JobIds = {"upgrade-all", "autoremove-all", "reboot-all", "check-all", "check-one"}
    RuntimePending = {2}
    MaxChecks = 2
    MaxAnswers = 2
    MaxStreams = 1
    MaxReboots = 2
    ProbeFails = 0
    Checkable = {c1}
    MaxStarts = 2
    MaxDue = 1
    CheckJob <- JobOf
    Machines = {m1}
    Cap = 1
    MaxLoads = 2
    MaxChanges = 1
    MaxOpen = 1
    MaxOut = 1
    MaxSaves = 2
    Packages = {p1, p2}
    Security = {p1}
    MaxLists = 2
    MaxHolds = 1
    MaxShells = 3
    MaxRows = 1
    Paths <- TwoPaths
    Deb822 <- SourcesFormat
    MaxWrites = 2
    MaxReads = 1
    MaxRequests = 2
    DiffLines = {l1, l2}
    MaxText = 3
    MaxOps = 7
PROPERTIES
    Reattachable
    RebootEnds
    FleetJobEnds
    BannerEnds
    ListSettles
