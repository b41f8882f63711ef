SPECIFICATION Spec
CONSTANTS
    Ports = {p1, p2}
    OtherPorts = {p1, p2}
    ExposedPorts = {p1, p2}
    Apps = {a}
    ProxyPort = p2
    RevProxyPort = rev
INVARIANTS TypeOK ListenersAccounted PrebindsHoldSockets DaemonSurvives NoPendingKillForwarded
CHECK_DEADLOCK FALSE
