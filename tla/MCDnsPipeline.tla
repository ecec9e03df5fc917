--------------------------- MODULE MCDnsPipeline ---------------------------
(* Small instances of DnsPipeline: one zone and a Pi-hole with a line that  *)
(* shares a local name with a foreign one.                                  *)
EXTENDS DnsPipeline

CONSTANTS lan, app, other, a1, a2

MCZonesOf == [n \in Names |-> IF n = other THEN {} ELSE {lan}]
MCLabels == [z \in Zones |-> 1]

H(ns, v) == [list |-> "hosts", names |-> ns, value |-> v]
MCStartLines == {{}, {H({app, other}, a1)}}

Held(m) == [i \in {1} |-> [name |-> app, value |-> a1, ttl |-> 0,
                           mark |-> m, zone |-> lan]]
MCStartRecs == {<<>>, Held("external-dns"), Held("hand")}

\* No Ingress asks for the foreign name at the start.
MCInit == Init /\ desired[other] = W!Nothing
MCSpec == MCInit /\ [][Next]_vars /\ Fairness
=============================================================================
