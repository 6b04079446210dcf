SPECIFICATION Spec
CONSTANTS
    a1 = a1
    a2 = a2
    a3 = a3
    a2dp = a2dp
    avrcp = avrcp
    Addrs = {a1, a2}
    Profs = {a2dp}
    NoAddr = NoAddr
    NoProf = NoProf
    NodeNum = 2
    MaxLinks = 1
    LinkNum = 2
    Rank <- MCRank
    Related <- MCRelated
    Bonds <- MCBondsOne
    Plans <- MCPlans
    PeerOpens <- MCOpensBonded
    ProfWaits = 2
    LinkWaits = 2
    Inputs = {"incoming", "connect", "pairing", "page_timeout", "late_page_timeout", "lost", "prof_lost", "timeout", "refuse", "conn_fail", "disconnect", "disconnect_all", "power_off"}
    StableOnly = {}
INVARIANTS
    TypeOK
    LinkTableInv
    OverLimitLeaves
PROPERTIES
    PairingNeedsRoom
