\* A stream that ends at a block boundary inside a message.
SPECIFICATION Spec
CONSTANTS
    CHUNK_SIZE = 2
    Radix = 4
    Message <- MCLongMessage
    Writer = {"framing"}
    MaxSent <- MCLongMaxSent
PROPERTY
    NoneAtBlockBoundary
