SPECIFICATION FairSpec
CONSTANTS
    Total = 1
    LeaseTTL = 1
    Free = Free
    w1 = w1
    w2 = w2
    h1 = h1
    h2 = h2
    Workers = {w1, w2}
    Hosts = {h1, h2}
    HostOf <- TwoHosts
    Campaigns = {len4}
    NoFile = NoFile
    Torn = Torn
    NoShard = NoShard
    NoReply = NoReply
    NoRequest = NoRequest
    Nobody = Nobody
    MaxFaults = 2
INVARIANTS
    DoneIsDurable
    AckedIsDurable
PROPERTIES
    ImplementsLedger
    CampaignFinishes
    ShutdownEnds
