SPECIFICATION FairSpec
CONSTANTS
    lan = lan
    mgmt = mgmt
    host = host
    a1 = a1
    a2 = a2
    Names = {host}
    Zones <- MCZones
    ZonesOf <- MCZonesOf
    Labels <- MCLabels
    Values = {a1, a2}
    Ids <- MCIds
    Threads <- MCThreads
    StartRecs <- MCStartRecs
    Faults = {"failed", "late", "crash"}
    Edits = {"ingress", "create", "delete", "adopt", "zone"}
    MaxFaults = 2
    MaxEdits = 1
    MayOverlap = TRUE
    Ttls = {0, 300}
    OtherViews = TRUE
INVARIANTS
    TypeOK
PROPERTIES
    DeletesSpare
    Converges
