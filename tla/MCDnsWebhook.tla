--------------------------- MODULE MCDnsWebhook ---------------------------
(***************************************************************************)
(* A small instance of DnsWebhook: two nested zones, a name in both, two   *)
(* values and two TTLs.                                                    *)
(***************************************************************************)
EXTENDS DnsWebhook

CONSTANTS lan, mgmt, host, a1, a2

MCZones == {lan, mgmt}
MCZonesOf == [n \in Names |-> {lan, mgmt}]
MCLabels == [z \in MCZones |-> IF z = mgmt THEN 2 ELSE 1]
MCIds == 1..5
MCThreads == 1..2

R(n, v, m, z) == [name |-> n, value |-> v, ttl |-> 0, mark |-> m, zone |-> z]
One(r) == [i \in {1} |-> r]
Two(r, s) == [i \in {1, 2} |-> IF i = 1 THEN r ELSE s]

\* Nothing; a stale owned record; an owned record beside a hand-made one.
MCStartRecs == {[i \in {} |-> 0],
                One(R(host, a2, "external-dns", lan)),
                Two(R(host, a1, "hand", mgmt), R(host, a2, "external-dns", lan))}
=============================================================================
