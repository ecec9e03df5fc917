SPECIFICATION Spec
CONSTANTS
    g1 = g1
    g2 = g2
    n1 = n1
    t1 = t1
    ag1 = ag1
    ag2 = ag2
    an1 = an1
    r1 = r1
    r2 = r2
    v1 = v1
    bridge = bridge
    port = port
    vlan = vlan
    Nobody = Nobody
    Other = Other
    Guests = {g1, g2}
    Nodes = {n1}
    Things = {t1}
    Addrs = {ag1, ag2, an1, r1, r2, v1}
    AddrOf <- MCAddrOf
    Pool = {v1}
    Reservable = {r1, r2}
    Zoned = {ag1, ag2, an1, r1}
    Ifaces = {bridge, port, vlan}
    NodeOf <- MCNodeOf
    Uses <- MCUses
    Pinned = {bridge}
    Jobs = {"seed", "guests", "termix"}
    Starts <- MCStartsAsLeft
    StartLive <- MCStartLive
    StartSynced <- MCStartSynced
    StartByHand = {{}}
    EditedStatuses = {"staged", "failed", "inventory"}
    Talos = {g1}
    Prune = TRUE
    MaxEvents = 2
PROPERTIES
    OwnersStatusKept
