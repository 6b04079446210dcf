SPECIFICATION FairSpec
CONSTANTS
    a1 = a1
    a2 = a2
    a3 = a3
    a2dp = a2dp
    avrcp = avrcp
    Addrs = {a1, a2}
    Profs = {a2dp, avrcp}
    NoAddr = NoAddr
    NoProf = NoProf
    NodeNum = 2
    MaxLinks = 2
    LinkNum = 2
    Rank <- MCRank
    Related <- MCRelated
    Bonds <- MCBondsBoth
    Plans <- MCPlans
    PeerOpens = {}
    ProfWaits = 2
    LinkWaits = 2
    Inputs = {"incoming", "timeout"}
    StableOnly = {}
PROPERTIES
    LinkbackEnds
