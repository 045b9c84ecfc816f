CONSTANTS
    p = p
    q = q
    c1 = c1
    c2 = c2
    a = a
    b = b
    None = None
    Names <- MCNames
    Daemons = {p, q}
    Clients = {c1}
    Commands <- Requests
    Detaching = {FALSE}
    Flaky = {}
    MaxStarts = 2
    MaxFaults = 0
SPECIFICATION Spec
INVARIANTS
    OneDaemon
