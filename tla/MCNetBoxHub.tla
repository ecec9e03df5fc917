---------------------------- MODULE MCNetBoxHub ----------------------------
EXTENDS NetBoxHub

CONSTANTS g1, g2, n1, t1, ag1, ag2, an1, r1, r2, v1, bridge, port, vlan

MCAddrOf == [h \in {g1, g2, n1} |-> CASE h = g1 -> ag1 [] h = g2 -> ag2 [] OTHER -> an1]
MCNodeOf == [i \in {bridge, port, vlan} |-> n1]
MCUses == [i \in {bridge, port, vlan} |-> CASE i = vlan -> {port} [] i = port -> {bridge} [] OTHER -> {}]

Row(st, role, login) ==
    [status |-> st, mark |-> FALSE, role |-> role, shape |-> IF role THEN "small" ELSE "large", login |-> login]
Thing(st, mark) == [status |-> st, mark |-> mark, role |-> FALSE, shape |-> "small", login |-> "none"]
At(st, desc, on, dns) == [status |-> st, vip |-> desc = "lb", desc |-> desc, on |-> on, dns |-> dns]

\* NetBox empty; NetBox as runs and the owner left it; and NetBox as it was
\* before g1 was started, the port was there and r1 was reserved.
Empty == <<[o \in Objects |-> Row("absent", FALSE, "none")], [a \in Addrs |-> NoAddress], {}>>
Left(retiring) ==
    <<[o \in Objects |-> CASE o = g1 -> Row("active", TRUE, "key")
                           [] o = g2 -> IF retiring THEN Row("decommissioning", FALSE, "rdp") ELSE Row("active", TRUE, "rdp")
                           [] o = n1 -> Row("active", FALSE, "key")
                           [] OTHER -> Thing(IF retiring THEN "decommissioning" ELSE "active", TRUE)],
      [a \in Addrs |-> CASE a = ag1 -> At("active", "none", g1, "name")
                         [] a = ag2 -> At("active", "none", g2, "hand")
                         [] a = an1 -> At("active", "none", n1, "none")
                         [] a = v1 -> At("active", "lb", Nobody, "none")
                         [] a = r1 -> At("dhcp", "resv", t1, "none")
                         [] OTHER -> At("active", "hand", Nobody, "none")],
      Ifaces>>
Behind ==
    <<[Left(FALSE)[1] EXCEPT ![g1].status = "offline", ![t1].status = "absent"],
      [Left(FALSE)[2] EXCEPT ![r1] = NoAddress, ![ag1].dns = "none"], {bridge}>>

Begin(js, ts, n) == {[jobs |-> js, obj |-> t[1], addr |-> t[2], ifaces |-> t[3], events |-> n] : t \in ts}
MCStarts ==
    Begin({"seed"}, {Empty, Left(FALSE)}, 1)
        \cup Begin({"seed"}, {Behind, Left(TRUE)}, 0)
        \cup Begin({"guests"}, {Left(FALSE), Left(TRUE)}, 0)
        \cup Begin({"termix"}, {Left(FALSE)}, 0)
        \cup Begin({"seed", "termix"}, {Behind, Left(FALSE), Left(TRUE)}, 2)

MCStartsAsLeft == Begin({"seed"}, {Left(FALSE)}, 1)

MCStartLive ==
    {[guest |-> [g \in Guests |-> "running"], online |-> {n1},
      lease |-> [a \in Addrs |-> CASE a = r1 -> t1 [] a = r2 -> Other [] a = ag2 -> Other [] OTHER -> Nobody],
      lb |-> {v1}, ifaces |-> {bridge, port}, up |-> {bridge, port}]}

MCStartSynced ==
    {[o \in Objects |-> IF o \in {g1, t1} THEN [proto |-> "ssh", at |-> "name", cred |-> "named", rdpOn |-> FALSE, pin |-> TRUE]
                        ELSE NoHost]}
=============================================================================
