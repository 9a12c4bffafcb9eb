\* framing.py with messages of at most one block, which is what every login
\* message is, and a writer that cuts long messages in its own way.
SPECIFICATION FairSpec
CONSTANTS
    CHUNK_SIZE = 2
    Radix = 4
    Writer = {"framing", "foreign"}
    Message <- MCMessage
    MaxSent <- MCMaxSent
INVARIANTS
    MapiTypeOK
    BlockedMeansUpToDate
PROPERTIES
    ImplementsChannel
    Arrives
