\* demoserver and democlient on one connection.
SPECIFICATION FairLogin
CONSTANTS
    monetdb = monetdb
    alice = alice
    NoName = NoName
    None = None
    pwBuiltin = pwBuiltin
    pwOld = pwOld
    pwNew = pwNew
    krbServer = krbServer
    krbAlice = krbAlice
    n1 = n1
    Name = {monetdb, alice}
    Password = {pwBuiltin, pwOld, pwNew}
    Principal = {krbServer, krbAlice}
    BuiltinUser = monetdb
    BuiltinPassword = pwBuiltin
    HaveGssapi = TRUE
    OurPrincipal = krbServer
    CliCreds <- MCCliCreds
    Available = {"SHA512", "SHA256", "PLAIN", "SCRAM-SHA-256", "GSSAPI"}
    Nonce = {n1}
    ContextFlags <- MCContextFlags
    Clients <- MCClients
    MaxLegs = 8
INVARIANTS
    LoginTypeOK
    Agreement
    HalfDuplex
    QualifiedNotRejected
    NoCrashByClient
PROPERTIES
    LoginEnds
    SessionReachesClient
