SPECIFICATION Spec
CONSTANTS
    lan = lan
    mgmt = mgmt
    app = app
    host = host
    other = other
    a1 = a1
    a2 = a2
    NPiholes = 2
    Names <- MCNames
    Zones <- MCZones
    ZonesOf <- MCZonesOf
    Values = {a1, a2}
    Records <- MCRecords
    StartLines <- MCStartLines
    Apply = TRUE
    Delete = FALSE
    Faults = {"crash", "refused", "lost"}
    MaxFaults = 1
    MaxEdits = 1
    MaxSessions = 1
PROPERTIES
    VisitDropsNothing
