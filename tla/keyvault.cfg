SPECIFICATION Spec
CONSTANTS
    url = url
    ips = ips
    dsn = dsn
    inv = inv
    pw = pw
    t1 = t1
    t2 = t2
    k1 = k1
    o1 = o1
    o2 = o2
    gA = gA
    gB = gB
    gC = gC
    NoKey = NoKey
    NoTag = NoTag
    Missing = Missing
    Names = {url, ips, dsn, inv, pw}
    Texts = {t1, t2}
    Keys = {k1}
    Data = {inv}
    Jobs = {"facts", "groups", "copy", "dockhand"}
    Facts = {url, ips, dsn, inv}
    Objects = {o1, o2}
    Groups = {gA, gB, gC}
    Managed = {gA, gB}
    Mapped = {url, pw}
    Exported = {url, pw}
    MaxEvents = 5
    OwnerValues <- MCOwnerValues
    Way <- MCWay
    Refs <- MCRefs
    Direct <- MCDirect
    Templated <- MCTemplated
    Export <- MCExport
    Built <- MCBuilt
    Starts <- MCStarts
INVARIANTS
    TypeOK
    FingerprintTrue
    SharedSecretsAgree
    NeverEncodedTwice
PROPERTY NetBoxReachesTheGroups
CHECK_DEADLOCK FALSE
