CONSTANTS
    claude = claude
    opencode = opencode
    commit = commit
    x = x
    y = y
    socket = socket
    locked = locked
    None = None
    Root = Root
    Debris = Debris
    Tools <- MCTools
    Orders <- AliasOrders
    Listing <- MCListing
    Contents <- MCContents
    Trees <- AliasTrees
    Layouts <- AliasLayouts
    Opaque = {socket}
    Unreadable = {locked}
    Saved = {y}
    Attempts = 3
    Rejected = {}
    Shared = {opencode}
    Stuck = {}
    MaxEvents = 0
SPECIFICATION Spec
INVARIANTS
    NothingEverLost
