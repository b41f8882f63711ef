SPECIFICATION FairSpec
CONSTANTS
    Ports = {p1}
    OtherPorts = {p1}
    ExposedPorts = {p1}
    Apps = {a}
    ProxyPort = proxy
    RevProxyPort = rev
PROPERTIES PortsReleased StaleForwarderRemoved StalePrebindReleased
CHECK_DEADLOCK FALSE
