--------------------------- MODULE ModbusRequests ---------------------------
(***************************************************************************)
(* The request PDUs the A7 request primitives of modbus.c build before     *)
(* handing them to ModBusWrite: SET_MODBUS_HEADER, the data part of the    *)
(* multiple writes, the file sub-request builders and the early returns   *)
(* of ReadFile.  Every operator gives the bytes the code passes to        *)
(* ModBusWrite, including the casts to uint8_t of counts and lengths.     *)
(***************************************************************************)
EXTENDS ModbusFraming, Functions

\* Fault model: the address written least significant byte first.
SET_MODBUS_HEADER_LowFirst(slaveID, fc, address, value) ==
    <<slaveID, fc, Lo(address), Hi(address), Hi(value), Lo(value)>>

\* SET_MODBUS_HEADER(_a, slave id, function code, first address, value).
SET_MODBUS_HEADER(slaveID, fc, address, value) ==
    <<slaveID, fc, Hi(address), Lo(address), Hi(value), Lo(value)>>

\* Two big-endian bytes per register, as the register loops write them.
RegisterBytes(registers, n) ==
    [j \in 1..(2 * n) |-> IF j % 2 = 1 THEN Hi(registers[(j + 1) \div 2])
                                       ELSE Lo(registers[j \div 2])]

\* ReadCoils, ReadDiscreteInputs, ReadMultipleHoldingRegisters and
\* ReadInputRegisters send the header alone; its value is the quantity.
ReadRequest(fc, slaveID, address, quantity) ==
    SET_MODBUS_HEADER(slaveID, fc, address, quantity)

WriteSingleCoilRequest(slaveID, address, bit) ==
    SET_MODBUS_HEADER(slaveID, WRITE_SINGLE_COIL, address, IF bit THEN 65280 ELSE 0)

WriteSingleHoldingRegisterRequest(slaveID, address, mbRegister) ==
    SET_MODBUS_HEADER(slaveID, WRITE_SINGLE_HOLDING_REGISTER, address, mbRegister)

(***************************************************************************)
(* WriteMultipleCoils: dataByteCount is                                    *)
(*   (uint8_t)(numToWrite / 8 + (numToWrite & 0x7) ? 1 : 0)               *)
(* where ?: binds looser than +, so the count is 1 for every nonzero      *)
(* numToWrite.  That many bytes of bitArray follow it.                     *)
(***************************************************************************)
CoilsDataByteCount(numToWrite) ==
    IF numToWrite \div 8 + (numToWrite % 8) # 0 THEN 1 ELSE 0

WriteMultipleCoilsRequest(slaveID, address, numToWrite, bitArray) ==
    LET dataByteCount == CoilsDataByteCount(numToWrite)
    IN SET_MODBUS_HEADER(slaveID, WRITE_MULTIPLE_COILS, address, numToWrite)
         \o <<dataByteCount>> \o SubSeq(bitArray, 1, dataByteCount)

(***************************************************************************)
(* WriteMultipleHoldingRegisters: dataByteCount = (uint8_t)(numToWrite*2), *)
(* dataByteCount/2 registers follow it and ModBusWrite is given           *)
(* (uint8_t)(7 + dataByteCount) bytes.                                     *)
(***************************************************************************)
WriteMultipleHoldingRegistersRequest(slaveID, address, numToWrite, registerArray) ==
    LET dataByteCount == (numToWrite * 2) % 256
        message == SET_MODBUS_HEADER(slaveID, WRITE_MULTIPLE_HOLDING_REGISTERS, address, numToWrite)
                     \o <<dataByteCount>> \o RegisterBytes(registerArray, dataByteCount \div 2)
    IN SubSeq(message, 1, (7 + dataByteCount) % 256)

(***************************************************************************)
(* The file sub-request builders: reference type 6, file number, record    *)
(* number, a zero byte and the record length (and, to write, the records).*)
(* The index they return is a uint8_t.                                    *)
(***************************************************************************)
ReadFileSubRequest(fileNumber, recordNumber, recordLength) ==
    <<6, Hi(fileNumber), Lo(fileNumber), Hi(recordNumber), Lo(recordNumber), 0, recordLength>>

WriteFileSubRequest(fileNumber, recordNumber, recordLength, record) ==
    ReadFileSubRequest(fileNumber, recordNumber, recordLength) \o RegisterBytes(record, recordLength)

\* The index the builders return after appending `sub` at currentMessageIndex.
NextMessageIndex(currentMessageIndex, sub) == (currentMessageIndex + Len(sub)) % 256

(***************************************************************************)
(* ReadFile up to ModBusWrite: a messageLength of MAX_PDU_LENGTH or more   *)
(* fails with MESSAGE_SEND_FAIL before any I/O; otherwise the PDU is       *)
(* slave id, READ_FILE, messageLength and the sub-requests, and the       *)
(* expected response length sums 2 * recordLength + 2 over the            *)
(* sub-requests (every byte i with i % 7 = 6).  Nothing else is checked.  *)
(***************************************************************************)
ExpectedMessageLength(messageArray, messageLength) ==
    SumFunctionOnSet([i \in 0..(messageLength - 1) |-> messageArray[i + 1] * 2 + 2],
                     {i \in 0..(messageLength - 1) : i % 7 = 6}) % 65536

ReadFileRequest(slaveID, messageArray, messageLength) ==
    IF messageLength >= MaxPduLength
    THEN [sent |-> FALSE, code |-> MESSAGE_SEND_FAIL, pdu |-> <<>>, expected |-> 0]
    ELSE [sent |-> TRUE, code |-> 0,
          pdu |-> <<slaveID, READ_FILE, messageLength>> \o SubSeq(messageArray, 1, messageLength),
          expected |-> ExpectedMessageLength(messageArray, messageLength)]

\* WriteFile sends slave id, WRITE_FILE, messageLength and the sub-requests.
WriteFileRequest(slaveID, messageArray, messageLength) ==
    [sent |-> TRUE, code |-> 0,
     pdu |-> <<slaveID, WRITE_FILE, messageLength>> \o SubSeq(messageArray, 1, messageLength),
     expected |-> messageLength]

=============================================================================
