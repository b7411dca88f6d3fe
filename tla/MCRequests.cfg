\* Every request primitive but WriteMultipleCoils against the protocol layouts,
\* the serial configuration exchange against the 16550 register layout, and the
\* table-driven CRC16 against the bitwise one.
CONSTANTS
    MaxPduLength = 254
    TidBits = 16
    SlaveId = 17
    Addresses <- MCAddresses
    Ops <- MCRegisterOps
    Quantities <- MCQuantities
    SubRequests <- MCSubRequests
    SerialSetups <- MCSerialSetups
    Messages <- MCMessages
SPECIFICATION Spec
INVARIANT RequestMatchesReference
INVARIANT SerialConfigMatchesReference
INVARIANT CrcMatchesReference
INVARIANT CrcDetectsByteChange
