CONSTANTS
    p = p
    q = q
    c1 = c1
    c2 = c2
    a = a
    b = b
    None = None
    Names = {a}
    Daemons = {p, q}
    Clients = {c1}
    Commands <- Requests
    Detaching = {FALSE}
    Flaky = {a}
    MaxStarts = 2
    MaxFaults = 2
SPECIFICATION FairSpec
INVARIANTS
    MountsAreRecorded
PROPERTIES
    StopEnds
    Answered
