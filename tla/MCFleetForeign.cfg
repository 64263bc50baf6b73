SPECIFICATION Spec
CONSTANTS
    Total = 2
    LeaseTTL = 1
    Free = Free
    w1 = w1
    w2 = w2
    h1 = h1
    Workers = {w1, w2}
    h2 = h2
    Hosts = {h1}
    HostOf <- OneHost
    Campaigns = {len4, len5}
    NoFile = NoFile
    Torn = Torn
    NoShard = NoShard
    NoReply = NoReply
    NoRequest = NoRequest
    Nobody = Nobody
    MaxFaults = 1
SYMMETRY Swap
INVARIANTS
    FilesBelongToCampaign
