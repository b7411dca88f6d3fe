--------------------------- MODULE ModbusFraming ---------------------------
(***************************************************************************)
(* The byte-level part of the A7 Modbus master library                     *)
(* (src/ModbusOnSphereA7/modbus.c): how a request PDU is framed for each   *)
(* transport (ModBusWrite), how the length of a response is derived from   *)
(* its function code (GetFcodeLength), how the TCP transaction id of a     *)
(* response is classified (the correlator inside MessageHandler), the      *)
(* CRC16 of the RTU framing (GetCRC / AddCRC of the slave simulator, whose *)
(* table is the reflected 0xA001 polynomial) and the reassembly step       *)
(* MessageHandler itself.  Everything here is a pure operator: the state   *)
(* that these operators read and write lives in ModbusHandle.              *)
(*                                                                         *)
(* Bytes are naturals in 0..255 and buffers are sequences of bytes.  The   *)
(* C arrays bufferedMessage and pdu are MAX_PDU_LENGTH bytes long; the     *)
(* model keeps in `buf` only the bytes bufferedMessageLength counts, and    *)
(* in `pdu` every byte ever written (bytes past pduLength stay readable    *)
(* in C and are read by the callers when pduLength is short).              *)
(***************************************************************************)
EXTENDS Integers, Sequences, SequencesExt, Bitwise

CONSTANTS
    MaxPduLength,   \* MAX_PDU_LENGTH (254 in modbusCommon.h)
    TidBits         \* width of the uint16_t transaction counters (16)

ASSUME MaxPduLength \in Nat /\ TidBits \in 1..16

\* Function codes and error codes of modbusCommon.h.
READ_COILS == 1
READ_DISCRETE_INPUTS == 2
READ_MULTIPLE_HOLDING_REGISTERS == 3
READ_INPUT_REGISTERS == 4
WRITE_SINGLE_COIL == 5
WRITE_SINGLE_HOLDING_REGISTER == 6
READ_EXCEPTION_STATUS == 7
WRITE_MULTIPLE_COILS == 15
WRITE_MULTIPLE_HOLDING_REGISTERS == 16
READ_FILE == 20
WRITE_FILE == 21
MODBUS_TIMEOUT == 20
MESSAGE_SEND_FAIL == 21
HANDLE_IN_USE == 22
INVALID_RESPONSE == 23
PDU_HEADER_LENGTH == 3
ERROR_CODE_LENGTH == 3
CRC_FOOTER_LENGTH == 2
TCP_HEADER_LENGTH == 6
MESSAGE_HEADER_LENGTH == 4
UART_CFG_MESSAGE_RESP_LENGTH == 1
\* Intercore message header: protocols and commands of modbusCommon.h.
UART == 1
MODBUS == 2
UART_CFG_MESSAGE == 1
MODBUS_DATA_MESSAGE == 1
FCODE_ERROR_OFFSET == 128
FCODE_RANGE == 32

Transports == {"tcp", "rtuOverTcp", "rtu"}
Byte == 0..255
TidSpace == 0..(2^TidBits - 1)

Hi(x) == (x \div 256) % 256
Lo(x) == x % 256

\* Byte i (0-based, as in C) of buffer b; a byte past the end of the
\* valid data is the stale content `junk` of the array.
ByteAt(b, i, junk) == IF i < Len(b) THEN b[i + 1] ELSE junk

\* Fault model: a read response sized one byte short.
GetFcodeLengthShortRead(fCode, dataLength) ==
    IF fCode > FCODE_ERROR_OFFSET /\ fCode <= FCODE_ERROR_OFFSET + FCODE_RANGE
    THEN ERROR_CODE_LENGTH
    ELSE IF fCode \in {READ_COILS, READ_DISCRETE_INPUTS,
                       READ_MULTIPLE_HOLDING_REGISTERS, READ_INPUT_REGISTERS,
                       READ_FILE, WRITE_FILE}
    THEN PDU_HEADER_LENGTH + dataLength - 1
    ELSE IF fCode \in {WRITE_SINGLE_COIL, WRITE_SINGLE_HOLDING_REGISTER,
                       WRITE_MULTIPLE_COILS, WRITE_MULTIPLE_HOLDING_REGISTERS}
    THEN PDU_HEADER_LENGTH + 3
    ELSE IF fCode = READ_EXCEPTION_STATUS
    THEN PDU_HEADER_LENGTH
    ELSE 0

(***************************************************************************)
(* GetFcodeLength: the PDU length (slave id, function code, byte count    *)
(* and data) announced by a response whose function code is fCode and     *)
(* whose third byte is dataLength.  0 for an unsupported function code.   *)
(***************************************************************************)
GetFcodeLength(fCode, dataLength) ==
    IF fCode > FCODE_ERROR_OFFSET /\ fCode <= FCODE_ERROR_OFFSET + FCODE_RANGE
    THEN ERROR_CODE_LENGTH
    ELSE IF fCode \in {READ_COILS, READ_DISCRETE_INPUTS,
                       READ_MULTIPLE_HOLDING_REGISTERS, READ_INPUT_REGISTERS,
                       READ_FILE, WRITE_FILE}
    THEN PDU_HEADER_LENGTH + dataLength
    ELSE IF fCode \in {WRITE_SINGLE_COIL, WRITE_SINGLE_HOLDING_REGISTER,
                       WRITE_MULTIPLE_COILS, WRITE_MULTIPLE_HOLDING_REGISTERS}
    THEN PDU_HEADER_LENGTH + 3
    ELSE IF fCode = READ_EXCEPTION_STATUS
    THEN PDU_HEADER_LENGTH
    ELSE 0

(***************************************************************************)
(* CRC16/MODBUS as GetCRC computes it: the 256-entry table is the         *)
(* reflected polynomial 0xA001 applied eight times to each index, and the *)
(* loop folds each byte into crcVal starting from 0xFFFF.                 *)
(***************************************************************************)
RECURSIVE CrcShift(_, _)
CrcShift(v, n) ==
    IF n = 0 THEN v
    ELSE CrcShift(IF v % 2 = 1 THEN (v \div 2) ^^ 40961 ELSE v \div 2, n - 1)

CRCTable == [i \in 0..255 |-> CrcShift(i, 8)]

\* Fault model: the CRC register starts at 0 instead of 0xFFFF.
GetCRCInitZero(message) ==
    FoldLeft(LAMBDA crcVal, b : (crcVal \div 256) ^^ CRCTable[(b ^^ crcVal) % 256],
             0, message)

GetCRC(message) ==
    FoldLeft(LAMBDA crcVal, b : (crcVal \div 256) ^^ CRCTable[(b ^^ crcVal) % 256],
             65535, message)

\* Fault model: the CRC appended most significant byte first.
AddCRCBigEndian(message) ==
    LET crcVal == GetCRC(message) IN message \o <<Hi(crcVal), Lo(crcVal)>>

\* AddCRC: the CRC appended least significant byte first.
AddCRC(message) ==
    LET crcVal == GetCRC(message) IN message \o <<Lo(crcVal), Hi(crcVal)>>

\* ValidateCRC(message, n): the last two of the n bytes, least significant
\* first, are the CRC of the others.  (crc-util.c is not part of the
\* sources; this is the check the RTU framing and the M4 relay rely on.)
ValidateCRC(message) ==
    LET n == Len(message)
    IN /\ n >= CRC_FOOTER_LENGTH
       /\ GetCRC(SubSeq(message, 1, n - CRC_FOOTER_LENGTH)) = message[n - 1] + 256 * message[n]

(***************************************************************************)
(* ModBusWrite: the frame sent for request PDU `pdu`.  TCP prefixes the    *)
(* MBAP header with the current global transactionIdentifier, RTU over     *)
(* TCP appends the CRC, and the intercore RTU transport prefixes the      *)
(* 4-byte message header (protocol, command, header length, and a fourth  *)
(* byte the code never writes and the M4 never reads: 0 here): UART and   *)
(* UART_CFG_MESSAGE for the configuration, MODBUS and MODBUS_DATA_MESSAGE *)
(* for a request.                                                          *)
(***************************************************************************)
ModBusWriteFrame(type, isCFG, transactionIdentifier, pdu) ==
    CASE type = "tcp" ->
            <<Hi(transactionIdentifier), Lo(transactionIdentifier), 0, 0,
              Hi(Len(pdu)), Lo(Len(pdu))>> \o pdu
      [] type = "rtuOverTcp" -> AddCRC(pdu)
      [] type = "rtu" ->
            <<IF isCFG THEN UART ELSE MODBUS,
              IF isCFG THEN UART_CFG_MESSAGE ELSE MODBUS_DATA_MESSAGE,
              MESSAGE_HEADER_LENGTH, 0>> \o pdu

(***************************************************************************)
(* The correlator of MessageHandler: the verdict on a complete TCP frame   *)
(* carrying transaction id rx while the handle expects tid and last        *)
(* accepted lastTid.  "future" aborts the transaction, "stale" discards    *)
(* the frame and keeps waiting.                                            *)
(***************************************************************************)
TransactionCheck(tid, lastTid, rx) ==
    IF tid = rx THEN "match"
    ELSE IF tid > lastTid
         THEN IF rx > tid \/ rx <= lastTid THEN "future" ELSE "stale"
         ELSE IF rx >= lastTid \/ rx < tid THEN "stale" ELSE "future"

\* Transport-dependent parameters set at the top of MessageHandler.
HeaderLength(type) ==
    CASE type = "rtu" -> MESSAGE_HEADER_LENGTH
      [] type = "tcp" -> TCP_HEADER_LENGTH
      [] type = "rtuOverTcp" -> 0
\* Fault model: a CRC footer expected on every transport.
FooterLengthAlways(type) == CRC_FOOTER_LENGTH
FooterLength(type) == IF type = "rtuOverTcp" THEN CRC_FOOTER_LENGTH ELSE 0
MinLength(type) == HeaderLength(type) + FooterLength(type) + PDU_HEADER_LENGTH

\* pdu after memcpy of `bytes` to its start: later bytes are kept.
Overwrite(old, bytes) ==
    bytes \o SubSeq(old, Len(bytes) + 1, Len(old))

(***************************************************************************)
(* MessageHandler(h, message, inputLength, junk): one call on the handle   *)
(* fields h (a record with the fields of struct _modbus_t it touches)      *)
(* with the inputLength bytes `message` just received.  inputLength is     *)
(* the uint16_t cast of recv's result, so a failed recv arrives as 65535   *)
(* with no bytes.  `junk` is the stale array content read when an rtu     *)
(* buffer is shorter than the offsets it reads.  The result is h updated  *)
(* and the verdict ret.  At most one frame is consumed per call.          *)
(***************************************************************************)
Handled(h, ret) == [hndl |-> h, ret |-> ret]

MessageHandler(h, message, inputLength, junk) ==
    IF h.state # "WaitingForResponse" \/ Len(h.buf) + inputLength >= MaxPduLength
    THEN Handled([h EXCEPT !.buf = <<>>], "waiting")
    ELSE
    LET buf == h.buf \o message
        hdr == HeaderLength(h.type)
        ftr == FooterLength(h.type)
        canSize == Len(buf) >= MinLength(h.type) \/ h.type = "rtu"
        pduLen == IF ~canSize THEN 0
                  ELSE IF h.isCFG THEN UART_CFG_MESSAGE_RESP_LENGTH
                  ELSE GetFcodeLength(ByteAt(buf, hdr + 1, junk), ByteAt(buf, hdr + 2, junk))
        total == pduLen + hdr + ftr
        rx == ByteAt(buf, 0, junk) * 256 + ByteAt(buf, 1, junk)
        verdict == IF h.type = "tcp"
                   THEN TransactionCheck(h.transactionId, h.lastTransactionId, rx)
                   ELSE "match"
        crcOk == h.type # "rtuOverTcp" \/ ValidateCRC(SubSeq(buf, 1, pduLen + CRC_FOOTER_LENGTH))
        accept == pduLen <= MaxPduLength /\ verdict = "match" /\ crcOk
        rest == SubSeq(buf, total + 1, Len(buf))
    IN CASE ~(canSize /\ Len(buf) >= total) ->
              Handled([h EXCEPT !.buf = buf], "waiting")
         [] verdict = "future" ->
              Handled([h EXCEPT !.buf = <<>>], "failure")
         [] accept ->
              Handled([h EXCEPT !.buf = rest, !.pduLength = pduLen,
                                !.lastTransactionId = rx,
                                !.pdu = Overwrite(h.pdu, SubSeq(buf, hdr + 1, hdr + pduLen))],
                      "success")
         [] OTHER ->
              Handled([h EXCEPT !.buf = rest], "waiting")

=============================================================================
