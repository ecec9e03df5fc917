SPECIFICATION FairSpec
CONSTANTS
    lan = lan
    mgmt = mgmt
    app = app
    host = host
    other = other
    a1 = a1
    a2 = a2
    NPiholes = 2
    Names <- MCNames
    Zones <- MCZones
    ZonesOf <- MCZonesOf
    Values = {a1, a2}
    Records <- MCRecords
    StartLines <- MCStartLines
    Apply = TRUE
    Delete = TRUE
    Faults = {"refused", "lost", "crash", "unclosed"}
    MaxFaults = 1
    MaxEdits = 1
    MaxSessions = 2
INVARIANTS
    TypeOK
    NothingForgotten
    CleanMeansMirrored
    SessionsGivenBack
PROPERTIES
    ForeignLinesUntouched
    ImplementsMirror
    EventuallyMirrored
