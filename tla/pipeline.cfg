SPECIFICATION MCSpec
CONSTANTS
    lan = lan
    app = app
    other = other
    a1 = a1
    a2 = a2
    Names = {app, other}
    Values = {a1, a2}
    Zones = {lan}
    ZonesOf <- MCZonesOf
    Labels <- MCLabels
    Ids = {1, 2, 3, 4}
    Threads = {1}
    StartRecs <- MCStartRecs
    NPiholes = 1
    StartLines <- MCStartLines
    Delete = TRUE
    Faults = {"failed"}
    Edits = {"ingress", "delete", "zone"}
    SyncFaults = {"refused", "crash"}
    MaxFaults = 1
    MaxEdits = 1
    MaxSessions = 1
PROPERTIES
    IngressesAnswered
