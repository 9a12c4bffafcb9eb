\* One dialogue: any of the mechanisms of t.py, any client.
SPECIFICATION Spec
CONSTANTS
    monetdb = monetdb
    alice = alice
    NoName = NoName
    None = None
    pwBuiltin = pwBuiltin
    pwOther = pwOther
    krbServer = krbServer
    Name = {monetdb, alice}
    Password = {pwBuiltin, pwOther}
    Principal = {krbServer}
    BuiltinUser = monetdb
    BuiltinPassword = pwBuiltin
    HaveGssapi = TRUE
    OurPrincipal = krbServer
    CliCreds <- NoOptions
    Available = {"SHA256", "PLAIN", "SCRAM-SHA-256", "GSSAPI"}
    Nonce = {n1, n2}
    ContextFlags <- MCContextFlags
    Clients <- MCClients
    MaxLegs = 8
INVARIANTS
    DialogueTypeOK
    HappyIsEarned
    QualifiedIsHappy
