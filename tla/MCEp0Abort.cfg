SPECIFICATION FairSpec
CONSTANTS
    Packet = 2
    Timeout = 2
    Losses = 0
    Requests <- Addressing
PROPERTIES
    AddressChangesAtStatus
