--------------------------- MODULE MCPiholeSync ---------------------------
(***************************************************************************)
(* Small instances of PiholeSync: two nested zones, three local names and  *)
(* one outside every zone.                                                 *)
(***************************************************************************)
EXTENDS PiholeSync

CONSTANTS lan, mgmt, app, host, other, a1, a2

MCZones == {lan, mgmt}
MCNames == {app, host, other}
\* mgmt is a zone inside lan: a name in mgmt is in both.
MCZonesOf == [n \in MCNames |-> CASE n = app -> {lan}
                                  [] n = host -> {lan, mgmt}
                                  [] n = other -> {}]

H(ns, v) == [list |-> "hosts", names |-> ns, value |-> v]
C(n, v) == [list |-> "cnameRecords", names |-> {n}, value |-> v]
R(z, l, n, v) == [zone |-> z, list |-> l, name |-> n, value |-> v]

MCRecords == {R(lan, "hosts", app, a1), R(mgmt, "hosts", host, a1),
              R(lan, "cnameRecords", app, a2)}

\* Nothing; a shared line; a stale line, a foreign one and a shared one.
MCStartLines == {{},
                 {H({host, other}, a1), H({app}, a2)},
                 {H({app, host}, a1), H({other}, a2), C(app, a1)}}
=============================================================================
