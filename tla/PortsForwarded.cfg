SPECIFICATION FairSpec
CONSTANTS
    Ports = {p1}
    OtherPorts = {p1}
    ExposedPorts = {p1}
    Apps = {a}
    ProxyPort = proxy
    RevProxyPort = rev
PROPERTY EventuallyForwarded
CHECK_DEADLOCK FALSE
