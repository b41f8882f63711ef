SPECIFICATION FairSpec
CONSTANTS
    Calls = {c1, c2}
    Timed = {c2}
    Cap = 1
INVARIANTS TypeOK ChannelsClosedOnce NoWaiterLeftBehind ErrorComesFirst
PROPERTIES CallIsRpc CloseUnblocks
CHECK_DEADLOCK FALSE
