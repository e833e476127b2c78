\* Chunks smaller than the file: the second chunk is read.
CONSTANTS
    Users = {"a", "b"}
    NLines = 4
    BodyLengths = {0, 1}
    NWanted = 3
    MaxTweetId = 4
    ChunkSizes = {6}
    SmallChunkSize = 3
SPECIFICATION Spec
INVARIANT LookupCorrect
CHECK_DEADLOCK FALSE
