SPECIFICATION HeadsetFairSpec
CONSTANTS
    a1 = a1
    a2 = a2
    a3 = a3
    a2dp = a2dp
    avrcp = avrcp
    Addrs = {a1, a2, a3}
    Profs = {a2dp, avrcp}
    NoAddr = NoAddr
    NoProf = NoProf
    NodeNum = 3
    MaxLinks = 2
    LinkNum = 3
    Rank <- MCRank
    Related <- MCRelated
    Bonds <- MCBondsThree
    Plans <- MCPlans
    PeerOpens <- MCOpensOne
    ProfWaits = 2
    LinkWaits = 2
    Inputs = {"pairing", "incoming", "refuse", "disconnect", "power_off"}
    StableOnly = {"pairing", "incoming", "disconnect"}
    LeConns = {c1, c2}
    LeStates = {"standby"}
INVARIANTS
    CountdownWhenIdle
    OneSearch
    StableIsIdle
PROPERTIES
    LinkbackEnds
    LeaversLeave
    PowerOffEnds
    ShutdownRunsOut
    ForgottenTurnsOff
