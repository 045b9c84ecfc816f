CONSTANTS
    base = base
    scratch = scratch
    other = other
    anchor = anchor
    None = None
    Hand = Hand
    e1 = e1
    e2 = e2
    Editors = {e1, e2}
    Names = {base, scratch, other}
    Anchors = {anchor}
    Values <- MCValues
    Default <- MCDefault
    Nested <- MCNested
    Commands <- MCCommands
    Written <- MCWritten
    MaxEdits = 3
    MaxEvents = 1
SYMMETRY MCSymmetry
SPECIFICATION Spec
CHECK_DEADLOCK FALSE
INVARIANTS
    TypeOK
    WrittenIsValid
    EditTakesHold
    ReportTells
