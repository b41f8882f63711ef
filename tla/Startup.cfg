SPECIFICATION Spec
CONSTANTS
    Users = {u1, u2}
    Builds = {"local", "compiled", "dev", "stable"}
    CacheTTL = 1
    Horizon = 1
    MaxLatest = 2
    Procs = {p1, p2, p3}
    Embedded = {"a1", "a2"}
    Blocks = 2
    Daemons = {d1, d2, d3}
    Projects <- MCProjects
    Ext <- MCExt
    Literal <- MCLiteral
    SearchTexts <- MCSearchTexts
    MaxToken = 3
    Streams <- MCStreams
    MaxChunk = 8
INVARIANTS BannerIsNews AgentWhole LockExclusive KmpExact VersionJustified FilterExact
PROPERTIES CheckNeverDelays RefusedForAReason
CHECK_DEADLOCK FALSE
