\* Messages longer than a block do not arrive whole.
SPECIFICATION Spec
CONSTANTS
    CHUNK_SIZE = 2
    Radix = 4
    Message <- MCLongMessage
    Writer = {"framing"}
    MaxSent <- MCLongMaxSent
INVARIANT
    Intact
