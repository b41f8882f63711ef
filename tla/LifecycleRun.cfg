SPECIFICATION FairSpec
CONSTANTS
    Clients = {c1}
INVARIANTS TypeOK TerminalRestored CleanExitRemoves
PROPERTIES MkenvExits
CHECK_DEADLOCK FALSE
