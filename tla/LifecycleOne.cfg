CONSTANTS
    p = p
    q = q
    c1 = c1
    c2 = c2
    a = a
    b = b
    None = None
    Names <- MCNames
    Daemons = {p}
    Clients = {c1}
    Commands <- AllCommands
    Detaching = {TRUE, FALSE}
    Flaky = {b}
    MaxStarts = 3
    MaxFaults = 2
SPECIFICATION Spec
INVARIANTS
    TypeOK
    WaitingIsReachable
    StatusTells
    EditsTakeEffect
    StaleIsReleased
PROPERTIES
    DetachTells
