CONSTANTS
    file = file
    dir = dir
    None = None
    Missing = Missing
    Unreadable = Unreadable
    Depth = 3
    Names = {1, 2}
    Kept = {file, dir}
    Versions <- MCVersions
    Portions = {0, 1, 3}
    MaxEdits = 2
SPECIFICATION Spec
INVARIANTS
    TypeOK
    ListingRight
    AnswerRight
    ListedIsLookedUp
    ErrorsAreTold
    ShadowsRight
    PortionsAddUp
