\* One connection of the server against an arbitrary client.
SPECIFICATION Spec
CONSTANTS
    monetdb = monetdb
    alice = alice
    NoName = NoName
    None = None
    pwBuiltin = pwBuiltin
    pwOld = pwOld
    pwNew = pwNew
    krbServer = krbServer
    krbAlice = krbAlice
    n1 = n1
    n2 = n2
    Name = {monetdb, alice}
    Password = {pwBuiltin, pwOld, pwNew}
    Principal = {krbServer, krbAlice}
    BuiltinUser = monetdb
    BuiltinPassword = pwBuiltin
    HaveGssapi = TRUE
    OurPrincipal = krbServer
    CliCreds <- MCCliCreds
    Available = {"SHA512", "SHA256", "PLAIN", "SCRAM-SHA-256", "GSSAPI"}
    Nonce = {n1, n2}
    ContextFlags <- MCContextFlags
SYMMETRY NonceSymmetry
INVARIANTS
    TypeOK
    IInv
    SessionEarned
    ActingRespected
    WelcomeMeansSession
    AssertionOnlyForEmptyName
PROPERTY
    ImplementsContract
