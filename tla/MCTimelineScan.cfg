\* Both regimes: a 512 MiB first chunk that holds the whole file (size 100
\* here), and chunks smaller than the file (size 6, one to two lines).
CONSTANTS
    Users = {"a", "b"}
    NLines = 4
    BodyLengths = {0, 1}
    NWanted = 3
    MaxTweetId = 5
    ChunkSizes = {6, 100}
    SmallChunkSize = 3
SPECIFICATION Spec
INVARIANT FirstChunkCorrect
PROPERTY LookupRefinement
CHECK_DEADLOCK FALSE
