CONSTANTS
    p = p
    q = q
    c1 = c1
    c2 = c2
    a = a
    b = b
    None = None
    Names <- MCNames
    Daemons = {p}
    Clients = {c1, c2}
    Commands <- Requests
    Detaching = {FALSE}
    Flaky = {}
    MaxStarts = 1
    MaxFaults = 0
SPECIFICATION Spec
PROPERTIES
    StopReleases
