SPECIFICATION Spec
CONSTANTS
    c1 = c1
    c2 = c2
    c3 = c3
    home = home
    office = office
    train = train
    NoClient = NoClient
    Clients <- ThreeClients
    IPs <- ThreeIPs
    MaxConns = 2
    MaxPerIP = 1
    ChanCap = 1
    Collects = FALSE
    Commands <- NoCommands
    SendCap = 1
CHECK_DEADLOCK FALSE
INVARIANTS
    TypeOK
    CountsExact
    WithinLimits
SYMMETRY Alike
