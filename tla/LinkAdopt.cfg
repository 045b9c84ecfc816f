CONSTANTS
    claude = claude
    opencode = opencode
    commit = commit
    x = x
    y = y
    socket = socket
    locked = locked
    None = None
    Root = Root
    Debris = Debris
    Tools <- MCTools
    Orders <- MCOrders
    Listing <- MCListing
    Contents <- MCContents
    Trees <- MCTrees
    Layouts <- MCLayouts
    Opaque = {socket}
    Unreadable = {locked}
    Saved = {y}
    Attempts = 3
    Rejected = {}
    Shared = {}
    Stuck = {claude}
    MaxEvents = 2
SPECIFICATION FairSpec
INVARIANTS
    TypeOK
    NothingLost
    EntriesKept
    DryRunTells
    ReportTells
    RunLinks
PROPERTIES
    RootKept
    RunEnds
