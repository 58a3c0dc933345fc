SPECIFICATION BridgeSpec
CONSTANTS
    Connections = {c1}
    Peers = {local}
    Loopback = local
    MaxConnections = 1
    MaxPerPeer = 1
    DeviceNumbers = {1, 2}
    Targets = {2}
    MaxInputs = 1
    MaxReports = 4
    Needed = {2}
INVARIANTS
    LabelIsTrue
CHECK_DEADLOCK FALSE
