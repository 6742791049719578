CONSTANTS
    Chunk = {c1, c2, c3, c4}
    NULL = NULL
    Sizes = {1, 4, 5}
    Block = 4
    MaxUnused = 2
SPECIFICATION QueueSpec

PROPERTY OnlyReadLeave
