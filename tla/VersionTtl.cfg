SPECIFICATION Spec
CONSTANTS
    Users = {u1}
    Builds = {"stable"}
    CacheTTL = 2
    Horizon = 3
    MaxLatest = 2
    Procs = {p1}
    Embedded = {"a1"}
    Blocks = 1
    Daemons = {d1}
    Projects <- MCProjects
    Ext <- MCExt
    Literal <- MCLiteral
    SearchTexts <- MCSearchTexts
    MaxToken = 3
    Streams <- MCStreams
    MaxChunk = 8
INVARIANTS CacheExpires
CHECK_DEADLOCK FALSE
