-------------------------- MODULE MCModbusRequests --------------------------
(* Sampled parameters for the request builders: quantities on both sides  *)
(* of a byte boundary and at the register limits, and one and two file    *)
(* sub-requests; every serial setup the configuration message encodes;  *)
(* for the CRC, every one-byte message (every table entry) and the        *)
(* two-byte messages over a spread of byte values.                        *)
EXTENDS ModbusRequestsCheck

MCSampleBytes == {0, 1, 2, 64, 85, 127, 128, 170, 254, 255}
MCMessages ==
    {<<b>> : b \in Byte} \cup {<<a, b>> : a, b \in MCSampleBytes} \cup {<<>>}

MCQuantities == {2, 7, 8, 9, 15, 16, 17, 122, 123, 124, 125, 2000}
MCAddresses == {0, 1, 255, 258, 65535}
MCRegisterOps == {"ReadCoils", "ReadDiscreteInputs", "ReadMultipleHoldingRegisters",
                  "ReadInputRegisters", "WriteSingleCoil", "WriteSingleHoldingRegister",
                  "WriteMultipleHoldingRegisters", "ReadFile", "WriteFile", "WriteSerialConfig"}
\* Every supported rate with every duplex, parity, stop-bit and word-length option.
MCSerialSetups ==
    [rate : DOMAIN BAUD_SET, duplexMode : {FULL_DUPLEX_MODE, HALF_DUPLEX_MODE},
     parityState : {PARITY_OFF, PARITY_ON}, parityMode : {PARITY_ODD, PARITY_EVEN},
     stopBits : {1, 2}, wordLength : 5..8]
MCSubRequests == {<<<<4, 0, 4>>>>, <<<<1, 258, 2>>, <<6, 9000, 3>>>>}

=============================================================================
