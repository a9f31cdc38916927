SPECIFICATION Spec
CONSTANTS
    t1 = t1
    t2 = t2
    r1 = r1
    r2 = r2
    home = home
    office = office
    admin = admin
    p1 = p1
    Tokens <- TwoTokens
    Requests <- TwoRequests
    IPs <- TwoIPs
    Users <- OneUser
    SessionTimeout = 2
    MaxAttempts = 2
    Window = 2
    Chats <- OneChat
    Probes <- OneProbe
    MaxRounds = 2
    MaxHistory = 2
    Histories <- ThreeHistories
    Prompts <- OnePrompt
    Deltas <- ThreeDeltas
    MaxDeltas = 3
    MaxChanges = 1
    Bounds <- FiveBounds
CHECK_DEADLOCK FALSE
INVARIANTS
    TypeOK
    LoggedOutForGood
    StaysLoggedIn
    LoginRate
    PromptFollowsHistory
    ToolTurnsMatched
    CallsAsStreamed
PROPERTIES
    IdleSessionRefused
SYMMETRY SameAddress
