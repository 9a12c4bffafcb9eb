\* Up to two rounds in each call, three calls and two logins per connection.
SPECIFICATION FairSpec
CONSTANTS
    None = None
    Start <- MCStart
    Redirect <- MCRedirect
    Restart <- MCRestart
    Host = {"remote"}
    OwnSock = {"mine"}
    OtherSock = {"theirs"}
    User = {"alice", "bob", "merovingian"}
    Database = {"db1", "db2"}
    MaxRounds = 2
    MaxDepth = 3
    MaxLogins = 2
INVARIANTS
    ConnectTypeOK
    CallerUntouched
    CredentialsFit
    EffectiveTarget
    NobodySkipped
    ErrorKnown
PROPERTY
    ConnectEnds
