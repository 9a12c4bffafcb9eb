\* Two listeners and two connections with requests.  The server
\* waits for connections forever, so a state without a next step is normal.
SPECIFICATION FairSpec
CONSTANTS
    None = None
    Listener = {l1, l2}
    Conn = {c1, c2}
    MaxRequests = 2
INVARIANTS
    ServerTypeOK
    UniqueIds
    IdInv
    AnswersInStep
    OnlyFailuresEndServer
PROPERTIES
    EndedByOwnClient
    ConnectionServed
    RequestsTakenUp
CHECK_DEADLOCK FALSE
