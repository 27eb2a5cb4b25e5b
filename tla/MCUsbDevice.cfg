SPECIFICATION DeviceSpec
CONSTANTS
    Packet = 2
    Timeout = 1
    Losses = 1
    Requests <- Transfers
    Hosts <- Repertoires
INVARIANTS
    DeviceTypeOK
PROPERTIES
    WakesWithTheBus
    ResetIsServed
    TransferEnds
