CONSTANTS
    None = None
    NumInstances = 2
    NumLeases = 2
    MaxFaults = 2
    MaxCallers = 2
SPECIFICATION Spec
PROPERTIES RegistryConverges CallsRecover
CHECK_DEADLOCK FALSE
