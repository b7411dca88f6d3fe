------------------------- MODULE ModbusRequestsCheck -------------------------
(***************************************************************************)
(* The pure operators of the library against reference definitions, one  *)
(* case per initial state.  The CRC16 of the RTU framing is checked on    *)
(* sampled messages (ModbusCrc).                                           *)
(*                                                                         *)
(* The request builders of ModbusRequests against the request layouts of  *)
(* the Modbus Application Protocol specification, over sampled legal      *)
(* parameters.  Each initial state is one call of one request primitive.  *)
(* The A7 ReadFile and WriteFile are given sub-requests built by the      *)
(* library's own sub-request builders, as the application does.           *)
(* WriteSerialConfig, the request ModbusConnectRtu sends for a serial      *)
(* setup, is followed through the M4 and back (UartSerialConfig).         *)
(***************************************************************************)
EXTENDS ModbusRequests, UartSerialConfig, ModbusCrc

CONSTANTS
    Ops,            \* request primitives checked
    Quantities,     \* bit and register counts tried (kept to the legal range)
    SubRequests,    \* sequences of <<file, record, count>> file sub-requests
    SlaveId,
    Addresses,      \* first addresses tried
    SerialSetups,   \* serial setups tried, with the rate in bits/s
    Messages        \* byte sequences the CRC is checked on

VARIABLE req
vars == <<req>>

FileOps == {"ReadFile", "WriteFile"}

\* Legal quantities per function code (Modbus Application Protocol 6.1-6.12).
LegalQuantity(op, q) ==
    CASE op \in {"ReadCoils", "ReadDiscreteInputs"} -> q \in 1..2000
      [] op \in {"ReadMultipleHoldingRegisters", "ReadInputRegisters"} -> q \in 1..125
      [] op = "WriteMultipleCoils" -> q \in 1..1968
      [] op = "WriteMultipleHoldingRegisters" -> q \in 1..123
      [] OTHER -> q \in {0, 1}

\* Caller data: distinct, nonzero bytes and registers with distinct halves.
BitArray == [i \in 1..256 |-> (i * 37 + 5) % 256]
RegisterArray == [i \in 1..125 |-> (i * 263 + 1) % 65536]

ConfigOps == {"WriteSerialConfig"}

\* The application's rtuSetup (A7 main.c), for the requests that do not use it.
AppSetup == [rate |-> 9600, duplexMode |-> HALF_DUPLEX_MODE, parityMode |-> PARITY_ODD,
             parityState |-> PARITY_OFF, stopBits |-> 1, wordLength |-> 8]

Cases ==
    {[op |-> op, address |-> a, quantity |-> q, subs |-> <<>>, setup |-> AppSetup, msg |-> <<>>] :
        op \in Ops \ (FileOps \cup ConfigOps), a \in Addresses, q \in Quantities \cup {0, 1}}
    \cup {[op |-> op, address |-> 0, quantity |-> 0, subs |-> s, setup |-> AppSetup, msg |-> <<>>] :
            op \in Ops \cap FileOps, s \in SubRequests}
    \cup {[op |-> op, address |-> 0, quantity |-> 0, subs |-> <<>>, setup |-> s, msg |-> <<>>] :
            op \in Ops \cap ConfigOps, s \in SerialSetups}
    \cup {[op |-> "CRC", address |-> 0, quantity |-> 0, subs |-> <<>>, setup |-> AppSetup, msg |-> m] :
            m \in Messages}

Init == req \in {c \in Cases : LegalQuantity(c.op, c.quantity)}
Next == UNCHANGED vars
Spec == Init /\ [][Next]_vars

-----------------------------------------------------------------------------
(* The library side: what the primitive hands to ModBusWrite. *)
SubBytes(op, sub) ==
    IF op = "ReadFile" THEN ReadFileSubRequest(sub[1], sub[2], sub[3])
    ELSE WriteFileSubRequest(sub[1], sub[2], sub[3], RegisterArray)

\* The application's messageArray and the uint8_t index the builders return.
MessageArray(c) == FlattenSeq([i \in 1..Len(c.subs) |-> SubBytes(c.op, c.subs[i])])
MessageLength(c) ==
    FoldLeft(LAMBDA idx, sub : NextMessageIndex(idx, SubBytes(c.op, sub)), 0, c.subs)

Built(c) ==
    LET q == c.quantity
        Address == c.address
        plain(pdu) == [sent |-> TRUE, code |-> 0, pdu |-> pdu, expected |-> 0]
    IN CASE c.op = "ReadCoils" -> plain(ReadRequest(READ_COILS, SlaveId, Address, q))
         [] c.op = "ReadDiscreteInputs" -> plain(ReadRequest(READ_DISCRETE_INPUTS, SlaveId, Address, q))
         [] c.op = "ReadMultipleHoldingRegisters" ->
                plain(ReadRequest(READ_MULTIPLE_HOLDING_REGISTERS, SlaveId, Address, q))
         [] c.op = "ReadInputRegisters" -> plain(ReadRequest(READ_INPUT_REGISTERS, SlaveId, Address, q))
         [] c.op = "WriteSingleCoil" -> plain(WriteSingleCoilRequest(SlaveId, Address, q = 1))
         [] c.op = "WriteSingleHoldingRegister" ->
                plain(WriteSingleHoldingRegisterRequest(SlaveId, Address, RegisterArray[1]))
         [] c.op = "WriteMultipleCoils" -> plain(WriteMultipleCoilsRequest(SlaveId, Address, q, BitArray))
         [] c.op = "WriteMultipleHoldingRegisters" ->
                plain(WriteMultipleHoldingRegistersRequest(SlaveId, Address, q, RegisterArray))
         [] c.op = "ReadFile" -> ReadFileRequest(SlaveId, MessageArray(c), MessageLength(c))
         [] c.op = "WriteFile" -> WriteFileRequest(SlaveId, MessageArray(c), MessageLength(c))

-----------------------------------------------------------------------------
(* The protocol side: the request PDU the specification prescribes. *)
Be16(x) == <<(x \div 256) % 256, x % 256>>

\* The first n registers of regs, each as two big-endian bytes.
SeqOfBe16(regs, n) == [j \in 1..(2 * n) |-> Be16(regs[(j + 1) \div 2])[2 - (j % 2)]]

RefSub(op, sub) ==
    <<6>> \o Be16(sub[1]) \o Be16(sub[2]) \o Be16(sub[3])
      \o (IF op = "WriteFile"
          THEN SeqOfBe16(RegisterArray, sub[3]) ELSE <<>>)

RefPdu(c) ==
    LET q == c.quantity
        head(fc, v) == <<SlaveId, fc>> \o Be16(c.address) \o Be16(v)
        subs == FlattenSeq([i \in 1..Len(c.subs) |-> RefSub(c.op, c.subs[i])])
    IN CASE c.op = "ReadCoils" -> head(READ_COILS, q)
         [] c.op = "ReadDiscreteInputs" -> head(READ_DISCRETE_INPUTS, q)
         [] c.op = "ReadMultipleHoldingRegisters" -> head(READ_MULTIPLE_HOLDING_REGISTERS, q)
         [] c.op = "ReadInputRegisters" -> head(READ_INPUT_REGISTERS, q)
         [] c.op = "WriteSingleCoil" -> head(WRITE_SINGLE_COIL, IF q = 1 THEN 65280 ELSE 0)
         [] c.op = "WriteSingleHoldingRegister" -> head(WRITE_SINGLE_HOLDING_REGISTER, RegisterArray[1])
         [] c.op = "WriteMultipleCoils" ->
                LET n == (q + 7) \div 8
                IN head(WRITE_MULTIPLE_COILS, q) \o <<n>> \o SubSeq(BitArray, 1, n)
         [] c.op = "WriteMultipleHoldingRegisters" ->
                head(WRITE_MULTIPLE_HOLDING_REGISTERS, q) \o <<2 * q>>
                  \o SeqOfBe16(RegisterArray, q)
         [] c.op \in FileOps ->
                <<SlaveId, IF c.op = "ReadFile" THEN READ_FILE ELSE WRITE_FILE, Len(subs)>> \o subs

\* A file read answer carries, per sub-request, a length byte, the
\* reference type and two bytes per record.
RefExpected(c) ==
    IF c.op = "ReadFile"
    THEN FoldLeft(LAMBDA acc, sub : acc + 2 * sub[3] + 2, 0, c.subs)
    ELSE IF c.op = "WriteFile" THEN Len(RefPdu(c)) - PDU_HEADER_LENGTH ELSE 0

\* Every record a sub-request names lies below record 10000.
InRange(c) == \A i \in 1..Len(c.subs) : c.subs[i][2] + c.subs[i][3] < 10000

-----------------------------------------------------------------------------
(***************************************************************************)
(* Every request primitive, given legal parameters, sends exactly the PDU  *)
(* the protocol prescribes (byte counts, byte order and data), and         *)
(* ReadFile expects an answer of the length the protocol gives it.        *)
(***************************************************************************)
RequestMatchesReference ==
    req.op \in Ops \ ConfigOps /\ InRange(req) =>
        /\ Built(req).sent
        /\ Built(req).pdu = RefPdu(req)
        /\ Built(req).expected = RefExpected(req)

-----------------------------------------------------------------------------
(* The configuration exchange for setup s, from a fresh boot of the M4. *)

\* The UART registers before the first Uart_Init of UartIsu0.
NotProgrammed == [dlm |-> -1, dll |-> -1, lcr |-> -1]

\* The handle as WriteSerialConfig leaves it waiting for the answer.
CfgWaiting ==
    [type |-> "rtu", state |-> "WaitingForResponse", transactionId |-> 0,
     lastTransactionId |-> 0, buf |-> <<>>, pdu |-> <<>>, pduLength |-> 0, isCFG |-> TRUE]

ConfigExchange(s) ==
    LET frame == ModbusConnectRtu([baudRate |-> BAUD_SET[s.rate]] @@ s)
        m4 == HandleUARTRequest(frame, BootUart, NotProgrammed)
    IN [protocol |-> MessageProtocol(frame), m4 |-> m4,
        a7 |-> MessageHandler(CfgWaiting, m4.reply, Len(m4.reply), 0)]

\* The 16550 line control register: word length - 5 in bits 0-1, two stop
\* bits in bit 2, parity enable in bit 3, even parity in bit 4.
RefLcr(s) ==
    (s.wordLength - 5) + (IF s.stopBits = 2 THEN 2^2 ELSE 0)
    + (IF s.parityState = PARITY_ON THEN 2^3 ELSE 0)
    + (IF s.parityMode = PARITY_EVEN THEN 2^4 ELSE 0)

\* The divisor latch for `rate` on the 115200-baud base the table assumes.
RefDivisor(rate) == 115200 \div rate

(***************************************************************************)
(* For every serial setup the application may give ModbusConnectRtu, the   *)
(* configuration message WriteSerialConfig sends reaches HandleUARTRequest *)
(* (protocol UART), SetSerialConfig accepts it and Uart_Init programs      *)
(* UartIsu0 with the 16550 LCR of the setup and the divisor of its rate,  *)
(* half duplex is on exactly when the setup asks for it, and the A7's     *)
(* MessageHandler, in its configuration mode, takes the M4's answer as    *)
(* the one-byte PDU 1 (success).                                           *)
(***************************************************************************)
SerialConfigMatchesReference ==
    req.op \in ConfigOps =>
        LET s == req.setup
            x == ConfigExchange(s)
        IN /\ x.protocol = UART
           /\ x.m4.registers = [dlm |-> Hi(RefDivisor(s.rate)), dll |-> Lo(RefDivisor(s.rate)),
                                lcr |-> RefLcr(s)]
           /\ x.m4.uart.halfDuplexEnabled <=> s.duplexMode = HALF_DUPLEX_MODE
           /\ x.a7.ret = "success" /\ x.a7.hndl.pdu = <<1>>

-----------------------------------------------------------------------------
(***************************************************************************)
(* GetCRC, with its 256-entry table and its uint8_t index                 *)
(* (message[i] ^ crcVal truncated to 8 bits), computes CRC16/MODBUS.      *)
(***************************************************************************)
CrcMatchesReference == req.op = "CRC" => CrcAgrees(req.msg)

(***************************************************************************)
(* A frame built by AddCRC passes ValidateCRC, and changing any one byte   *)
(* of it (data or trailer) makes ValidateCRC fail: the trailer byte order  *)
(* of AddCRC is the one ValidateCRC reads.                                 *)
(***************************************************************************)
CrcDetectsByteChange == req.op = "CRC" => CrcRoundTrip(req.msg)

=============================================================================
