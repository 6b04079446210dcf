SPECIFICATION Spec
CONSTANTS
    a1 = a1
    a2 = a2
    a3 = a3
    a2dp = a2dp
    avrcp = avrcp
    Addrs = {a1, a2}
    Profs = {a2dp}
    NoAddr = NoAddr
    NoProf = NoProf
    NodeNum = 1
    MaxLinks = 1
    LinkNum = 1
    Rank <- MCRank
    Related <- MCRelated
    Bonds <- MCBondsOne
    Plans <- MCPlans
    PeerOpens <- MCOpensAny
    ProfWaits = 2
    LinkWaits = 2
    Inputs = {"incoming", "create", "page_timeout", "disconnect", "partial", "peer_race"}
    StableOnly = {}
PROPERTIES
    PagesRespectLimit
