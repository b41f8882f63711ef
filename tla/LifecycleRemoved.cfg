SPECIFICATION Spec
CONSTANTS
    Clients = {c1}
INVARIANT ContainerDestroyed
CHECK_DEADLOCK FALSE
