--------------------------- MODULE MCBackupContents ---------------------------
(* The cluster of MCBackupTree with something in its objects: an address    *)
(* and the domain in it, a shell script's variable, credentials, and the    *)
(* fields a cluster fills in.                                               *)
EXTENDS MCBackupTree, BackupContents

Domain == <<Word("home"), Word("net")>>
Address == <<Word("me"), Word("at")>> \o Domain
Secret(v) == <<Base64(v)>>

MCClusterSecrets == <<"OWNER_EMAIL", 1>> :> Address @@ <<"DB_PASSWORD", 1>> :> Secret("old")
                       @@ <<"EMPTY", 1>> :> <<>>
MCSettings == <<"PUID", 1>> :> <<Word("1000")>>
MCLocalFile == {[name |-> <<"OWNER_EMAIL", 1>>, literal |-> Address, replace |-> TRUE],
                [name |-> <<"BLANK", 1>>, literal |-> <<>>, replace |-> TRUE],
                [name |-> <<"PUID", 1>>, literal |-> <<Word("1000")>>, replace |-> FALSE]}
\* An address that is known, a server whose placeholder is taken, and hosts of
\* the own domain and of one that is somebody else's.
MCIdentities == <<[literal |-> Address, base |-> "ACME_EMAIL"],
                  [literal |-> <<Word("nas")>>, base |-> "OWNER_EMAIL"]>>
MCIngresses == <<<<Word("www")>> \o Domain, <<Word("other"), Word("net")>>, <<Word("nas")>>,
                 <<Word("db")>> \o Domain, <<Word("www")>> \o Domain>>

Hosts == {[ns |-> n1, class |-> "traefik", hosts |-> {"www"}],
          [ns |-> n1, class |-> "tunnel", hosts |-> {"db"}],
          [ns |-> "elsewhere", class |-> "tunnel", hosts |-> {"www", "db"}]}
MCClusters ==
    [claims : SUBSET {n1, "elsewhere"}, databases : SUBSET {n1}, ingresses : SUBSET Hosts]

Leaf(key, env, text) == [key |-> key, env |-> env, text |-> text]
Texts == {<<>>, <<Word("1000")>>, Address, Domain \o Domain,
          <<Word("www")>> \o Domain, <<Word("for"), Ref(<<"HOME", 1>>)>> \o Address,
          <<Ref(<<"PUID", 1>>)>>, <<Escaped(<<"HOME", 1>>)>>, <<Word("nas"), Word("me")>>}

NoFields == [x \in Fields |-> Absent]
With(kind, leaves, fields) == [kind |-> kind, leaves |-> leaves, fields |-> fields]

Services ==
    {With("Service", <<Leaf("host", "none", t)>>,
          [NoFields EXCEPT !.clusterIP = ip, !.nodePort = port, !.runtime = "1"]) :
        t \in Texts, ip \in {"None", "10.0.0.1"}, port \in {Absent, "30080"}}
Claims ==
    {With("PersistentVolumeClaim", <<>>,
          [NoFields EXCEPT !.volume = v, !.finalizers = "set", !.bookkeeping = "1"]) :
        v \in {Absent, "static", "pvc-1"}}
Deployments ==
    {With("Deployment", <<Leaf("value", "DB_HOST", t), Leaf("passwordRef", "none", u)>>,
          [NoFields EXCEPT !.restartedAt = r, !.bookkeeping = "1", !.fluxLabel = l]) :
        t \in Texts, u \in {Domain, <<Word("false")>>}, r \in {Absent, "1"}, l \in {Absent}}
Leaking ==
    {With("ConfigMap", <<Leaf("host", "none", Domain), l>>, NoFields) :
        l \in {Leaf("password", "none", <<Word("false")>>),
               Leaf("value", "DB_PASSWORD", <<Word("1000")>>),
               Leaf("script", "none", <<Word("use"), Word("AKIA")>>),
               Leaf("script", "none", <<Word("x8Kq")>>)}}
SecretsThere ==
    {With("Secret", <<Leaf("DB_PASSWORD", "none", t), Leaf("TOKEN", "none", u)>>, NoFields) :
        t \in {<<>>, Secret("old"), Secret("new")}, u \in {Secret("abc"), Secret("raw")}}

MCHolds == svc :> Services \cup Claims \cup Deployments @@ cm :> Leaking @@ sec :> SecretsThere
=============================================================================
