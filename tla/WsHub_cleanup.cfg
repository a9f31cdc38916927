SPECIFICATION FairSpec
CONSTANTS
    c1 = c1
    c2 = c2
    c3 = c3
    home = home
    office = office
    train = train
    NoClient = NoClient
    Clients <- TwoClients
    IPs <- OneIP
    MaxConns = 2
    MaxPerIP = 2
    ChanCap = 1
    Collects = TRUE
    Commands <- NoCommands
    SendCap = 1
CHECK_DEADLOCK FALSE
PROPERTY
    BrokenIsCleanedUp
