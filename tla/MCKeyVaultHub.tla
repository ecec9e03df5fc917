--------------------------- MODULE MCKeyVaultHub ---------------------------
(* A small instance of KeyVaultHub for TLC. *)
EXTENDS KeyVaultHub

CONSTANTS url, ips, dsn, inv, pw, t1, t2, k1, o1, o2, gA, gB, gC

MCOwnerValues == [n \in Names |->
    CASE n = url -> {Plain({t1}), Plain({t2})}
      [] n = inv -> {[parts |-> {t1}, as |-> "reworded"]}
      [] n = pw -> {[parts |-> {t2}, as |-> "base64"], Plain({t1})}
      [] OTHER -> {Plain({t2})}]

MCWay == [n \in Facts |-> CASE n = url -> "take" [] n = ips -> "collect" [] n = dsn -> "template" [] OTHER -> "view"]
MCRefs == [n \in Facts |-> CASE n = dsn -> {url, pw} [] n = inv -> {pw} [] OTHER -> {}]

MCDirect == [g \in Groups |-> IF g = gA THEN {url} ELSE IF g = gB THEN {dsn} ELSE {pw}]
MCTemplated == [g \in Groups |-> IF g = gA THEN {pw} ELSE IF g = gB THEN {url} ELSE {}]

MCExport == [n \in Exported |-> IF n = pw THEN Plain({t2}) ELSE Plain({t1})]
MCBuilt == {[names |-> {pw, url}, value |-> Plain({t1, t2})]}

HeldAs(v, tag) == [state |-> "held", val |-> v, tag |-> tag]
Base64(parts) == [parts |-> parts, as |-> "base64"]
Rows(f) == [n \in Names |-> IF n \in DOMAIN f THEN f[n] ELSE NoRow]

Tagged == Rows([n \in {url, pw} |-> IF n = url THEN HeldAs(Plain({t1}), [key |-> k1, of |-> Plain({t1})])
                                              ELSE HeldAs(Plain({t2}), NoTag)])
Reworded == Rows([n \in {inv, pw} |-> IF n = inv THEN HeldAs([parts |-> {t1, t2}, as |-> "reworded"], NoTag)
                                                 ELSE HeldAs(Plain({t2}), NoTag)])
Encodable == Rows([n \in {url, pw} |-> IF n = url THEN HeldAs(Plain({t1}), NoTag) ELSE HeldAs(Base64({t2}), NoTag)])
Stale == Rows([n \in {url, dsn, pw} |-> HeldAs(Plain({t2}), NoTag)])
Pw == Rows([n \in {pw} |-> HeldAs(Base64({t2}), NoTag)])

Claimed(f) == [o \in Objects |-> [text |-> IF o = o1 THEN t1 ELSE t2, usable |-> TRUE, claims |-> IF o = o1 THEN f ELSE {}]]

StartOf(its, v, e) ==
    [jobs |-> its, vault |-> v, fkey |-> k1, events |-> e, netbox |-> Claimed({url}), mapped |-> {url, dsn},
     groups |-> {gA}, encodes |-> {}, hold |-> FALSE]

MCStarts == {
    StartOf({"facts"}, Tagged, 2),
    [StartOf({"facts"}, Reworded, 3) EXCEPT !.mapped = {ips, inv}, !.netbox = Claimed({ips, inv})],
    [StartOf({"facts", "groups"}, Stale, 4) EXCEPT !.mapped = {url}],
    [StartOf({"groups"}, Tagged, 3) EXCEPT !.mapped = {}],
    [StartOf({"copy", "dockhand"}, Encodable, 0) EXCEPT !.hold = TRUE],
    [StartOf({"copy"}, Encodable, 1) EXCEPT !.encodes = {url}],
    [StartOf({"dockhand", "facts"}, Pw, 3) EXCEPT !.mapped = {url}]}
=============================================================================
