------------------------ MODULE ModbusSlaveSimulator ------------------------
(***************************************************************************)
(* The file server of the slave simulator (src/SlaveSimulator): the main   *)
(* loop takes one received message per iteration, processIncomingMessage  *)
(* runs requestRead or requestWrite over its file sub-requests against    *)
(* the global fileStore, and the loop sends messageOut with AddCRC.        *)
(*                                                                         *)
(* fileStore is uint8_t[6][20000]: the model keeps rows 0..5 and the      *)
(* bytes of records 0..RecordCount-1, which are all the requests name.    *)
(* fileRead and fileWrite accept file numbers 1..6; row 6 lies past the   *)
(* array, so a read of it returns whatever is there (a choice from        *)
(* JunkBytes) and a write of it does not reach fileStore.  messageOut is  *)
(* a local array of main reused by every iteration and never cleared: it  *)
(* starts as stack garbage and keeps the bytes of earlier answers.        *)
(***************************************************************************)
EXTENDS ModbusRequests

CONSTANTS
    RecordCount,    \* records modelled per file, from record 0
    SlaveId,        \* the slave id the master addresses
    Requests,       \* [op, subs, value]: file requests the master may send
    JunkBytes,      \* what uninitialised or out-of-bounds memory may hold
    MaxRequests,    \* bound on the requests served
    OutBytes        \* leading bytes of messageOut modelled (all a reply uses)

VARIABLES
    fileStore,      \* uint8_t fileStore[6][20000], records 0..RecordCount-1
    messageOut,     \* main's uint8_t messageOut[256]
    request,        \* the request served last
    reply,          \* the bytes sent for it
    served          \* number of requests served

vars == <<fileStore, messageOut, request, reply, served>>

HEADER_LENGTH == 3
SUBREQUEST_LENGTH == 7
REFERENCE_TYPE == 6
NO_ERROR == 0
ILLEGAL_FUNCTION == 1
ILLEGAL_DATA_ADDRESS == 2
ILLEGAL_DATA_VALUE == 3
MESSAGE_OUT_SIZE == 256
ASSUME OutBytes <= MESSAGE_OUT_SIZE
FileRows == 0..5
RowBytes == 0..(2 * RecordCount - 1)

\* Byte k (0-based) of the received message; the rest of messageIn is
\* never read for the requests modelled.
In(m, k) == ByteAt(m, k, 0)

\* memcpy(&out[pos], bytes, Len(bytes)) on a 0-based array.
Memcpy(out, pos, bytes) ==
    [k \in DOMAIN out |-> IF k - 1 >= pos /\ k - 1 < pos + Len(bytes)
                          THEN bytes[k - pos] ELSE out[k]]

\* The 2 * n bytes of records recordNo.. of fileStore row f.
StoreBytes(store, f, recordNo, n) == [k \in 1..(2 * n) |-> store[f][2 * recordNo + k - 1]]

\* Fault model: the lower bound of the file number check written as 0 <= fileNo.
FileReadFromZero(out, pos, store, fileNo, recordNo, n, junk) ==
    IF 0 <= fileNo /\ fileNo <= 6
    THEN [ret |-> NO_ERROR,
          out |-> Memcpy(out, pos, IF fileNo <= 5 THEN StoreBytes(store, fileNo, recordNo, n)
                                   ELSE [k \in 1..(2 * n) |-> junk])]
    ELSE [ret |-> ILLEGAL_DATA_ADDRESS, out |-> out]

(***************************************************************************)
(* fileRead: 0 < fileNo <= 6 copies the records to messageOut; row 6 is    *)
(* the memory behind fileStore.  Any other file number gives               *)
(* ILLEGAL_DATA_ADDRESS and copies nothing.                                *)
(***************************************************************************)
FileRead(out, pos, store, fileNo, recordNo, n, junk) ==
    IF 0 < fileNo /\ fileNo <= 6
    THEN [ret |-> NO_ERROR,
          out |-> Memcpy(out, pos, IF fileNo <= 5 THEN StoreBytes(store, fileNo, recordNo, n)
                                   ELSE [k \in 1..(2 * n) |-> junk])]
    ELSE [ret |-> ILLEGAL_DATA_ADDRESS, out |-> out]

\* fileWrite: the records are stored, then echoed to messageOut.
FileWrite(m, inPos, out, outPos, store, fileNo, recordNo, n) ==
    LET data == [k \in 1..(2 * n) |-> In(m, inPos + k - 1)]
        lo == 2 * recordNo
    IN IF 0 < fileNo /\ fileNo <= 6
       THEN [ret |-> NO_ERROR, out |-> Memcpy(out, outPos, data),
             store |-> IF fileNo <= 5
                       THEN [store EXCEPT ![fileNo] =
                               [b \in RowBytes |-> IF b >= lo /\ b < lo + 2 * n
                                                   THEN data[b - lo + 1] ELSE @[b]]]
                       ELSE store]
       ELSE [ret |-> ILLEGAL_DATA_ADDRESS, out |-> out, store |-> store]

\* The fields of the sub-request at inPtr (0-based offset inPos).
SubFileNo(m, inPos) == In(m, inPos + 2) + 256 * In(m, inPos + 1)
SubRecordNo(m, inPos) == In(m, inPos + 4) + 256 * In(m, inPos + 3)
SubCount(m, inPos) == In(m, inPos + 6)

(***************************************************************************)
(* requestRead: the byte count must lie in 7..0xF5; each of the           *)
(* messageIn[2] / 7 sub-requests needs reference type 6 and record        *)
(* number + count < 10000 (else the matching exception at once), writes   *)
(* its length byte and reference type and calls fileRead.  `ret` keeps    *)
(* the result of the LAST fileRead only.  messageOut[2] = totalLength.    *)
(***************************************************************************)
RECURSIVE ReadLoop(_, _, _, _, _, _, _, _, _)
ReadLoop(m, i, inPos, outPos, total, ret, out, store, junk) ==
    IF i >= In(m, 2) \div SUBREQUEST_LENGTH
    THEN [ret |-> ret, out |-> [out EXCEPT ![3] = total % 256], store |-> store]
    ELSE LET n == SubCount(m, inPos)
             recordNo == SubRecordNo(m, inPos)
             out1 == [out EXCEPT ![outPos + 1] = (n * 2) % 256, ![outPos + 2] = REFERENCE_TYPE]
             fr == FileRead(out1, outPos + 2, store, SubFileNo(m, inPos), recordNo, n, junk)
         IN CASE In(m, inPos) # REFERENCE_TYPE ->
                   [ret |-> ILLEGAL_DATA_VALUE, out |-> out, store |-> store]
              [] recordNo + n >= 10000 ->
                   [ret |-> ILLEGAL_DATA_ADDRESS, out |-> out, store |-> store]
              [] OTHER ->
                   ReadLoop(m, i + 1, inPos + SUBREQUEST_LENGTH, outPos + 2 * n + 2,
                            total + 2 * n + 2, fr.ret, fr.out, store, junk)

RequestRead(m, out, store, junk) ==
    IF 7 <= In(m, 2) /\ In(m, 2) <= 245
    THEN ReadLoop(m, 0, HEADER_LENGTH, HEADER_LENGTH, 0, NO_ERROR, out, store, junk)
    ELSE [ret |-> ILLEGAL_DATA_VALUE, out |-> out, store |-> store]

(***************************************************************************)
(* requestWrite: while dataRead < messageIn[2], each sub-request needs    *)
(* reference type 6; its header is echoed to messageOut, the range is      *)
(* checked, and fileWrite stores and echoes its records.  The first error *)
(* returns at once; the sub-requests before it stay written.              *)
(***************************************************************************)
RECURSIVE WriteLoop(_, _, _, _, _, _)
WriteLoop(m, inPos, outPos, dataRead, out, store) ==
    IF dataRead >= In(m, 2)
    THEN [ret |-> NO_ERROR, out |-> [out EXCEPT ![3] = dataRead % 256], store |-> store]
    ELSE LET n == SubCount(m, inPos)
             recordNo == SubRecordNo(m, inPos)
             out1 == Memcpy(out, outPos, <<REFERENCE_TYPE, In(m, inPos + 1), In(m, inPos + 2),
                                           In(m, inPos + 3), In(m, inPos + 4), 0, n>>)
             fw == FileWrite(m, inPos + 7, out1, outPos + 7, store, SubFileNo(m, inPos), recordNo, n)
         IN CASE In(m, inPos) # REFERENCE_TYPE ->
                   [ret |-> ILLEGAL_DATA_VALUE, out |-> out, store |-> store]
              [] recordNo + n >= 10000 ->
                   [ret |-> ILLEGAL_DATA_ADDRESS, out |-> out1, store |-> store]
              [] fw.ret # NO_ERROR -> fw
              [] OTHER ->
                   WriteLoop(m, inPos + 2 * n + 7, outPos + 2 * n + 7, dataRead + 2 * n + 7,
                             fw.out, fw.store)

\* processIncomingMessage: copy slave id and function code, then dispatch.
ProcessIncomingMessage(m, out, store, junk) ==
    LET out0 == [out EXCEPT ![1] = In(m, 0), ![2] = In(m, 1)]
    IN CASE In(m, 1) = READ_FILE -> RequestRead(m, out0, store, junk)
         [] In(m, 1) = WRITE_FILE -> WriteLoop(m, HEADER_LENGTH, HEADER_LENGTH, 0, out0, store)
         [] OTHER -> [ret |-> ILLEGAL_FUNCTION, out |-> out0, store |-> store]

\* AddCRC(message, inputLength, 256) on messageOut: the CRC is written
\* into the array behind the first inputLength bytes.
AddCRCInPlace(out, inputLength) ==
    LET crcVal == GetCRC(SubSeq(out, 1, inputLength))
    IN [out EXCEPT ![inputLength + 1] = Lo(crcVal), ![inputLength + 2] = Hi(crcVal)]

\* The frame the A7 ReadFile / WriteFile sends for a request record over
\* RTU over TCP: the sub-requests built by the library's builders, each
\* record of a write holding `value`, and the CRC footer.
SubRequestBytes(req, sub) ==
    IF req.op = "ReadFile" THEN ReadFileSubRequest(sub[1], sub[2], sub[3])
    ELSE WriteFileSubRequest(sub[1], sub[2], sub[3], [k \in 1..sub[3] |-> req.value])

RequestPdu(req) ==
    LET subs == FlattenSeq([i \in 1..Len(req.subs) |-> SubRequestBytes(req, req.subs[i])])
    IN IF req.op = "ReadFile" THEN ReadFileRequest(SlaveId, subs, Len(subs)).pdu
       ELSE WriteFileRequest(SlaveId, subs, Len(subs)).pdu

Frame(req) == AddCRC(RequestPdu(req))

-----------------------------------------------------------------------------
Init ==
    /\ fileStore = [f \in FileRows |-> [b \in RowBytes |-> 0]]
    /\ \E b \in JunkBytes : messageOut = [k \in 1..OutBytes |-> b]
    /\ request = <<>> /\ reply = <<>> /\ served = 0

(***************************************************************************)
(* One iteration of main's loop: recv one message, processIncomingMessage, *)
(* and send the answer: messageOut[2] + 5 bytes with the CRC, or on an     *)
(* error the exception (function code | 0x80, the code) with its CRC.     *)
(***************************************************************************)
Serve(req) ==
    LET m == Frame(req) IN
    /\ served < MaxRequests
    /\ \E junk \in JunkBytes :
         LET r == ProcessIncomingMessage(m, messageOut, fileStore, junk)
             exc == [r.out EXCEPT ![2] = @ + 128 - (IF @ >= 128 THEN 128 ELSE 0), ![3] = r.ret]
             len == IF r.ret = NO_ERROR THEN r.out[3] + 3 ELSE 3
             out2 == AddCRCInPlace(IF r.ret = NO_ERROR THEN r.out ELSE exc, len)
         IN /\ messageOut' = out2
            /\ reply' = SubSeq(out2, 1, len + 2)
            /\ fileStore' = r.store
    /\ request' = req
    /\ served' = served + 1

Next == \E req \in Requests : Serve(req)

Spec == Init /\ [][Next]_vars

-----------------------------------------------------------------------------
(***************************************************************************)
(* What the Modbus Application Protocol (6.14, 6.15) prescribes for a file *)
(* request to a slave whose files are rows 1..5 of fileStore: exception 2  *)
(* if any sub-request names a file that does not exist; else, to a read,  *)
(* per sub-request its length, reference type 6 and the stored records,   *)
(* and to a write an echo of the request, with the records stored.        *)
(***************************************************************************)
Existing == 1..5

AllFilesExist(req) == \A i \in 1..Len(req.subs) : req.subs[i][1] \in Existing

RefReadData(req, store) ==
    FlattenSeq([i \in 1..Len(req.subs) |->
        LET s == req.subs[i] IN <<2 * s[3], REFERENCE_TYPE>> \o StoreBytes(store, s[1], s[2], s[3])])

RefReply(req, store) ==
    CASE ~AllFilesExist(req) ->
            AddCRC(<<SlaveId, RequestPdu(req)[2] + 128, ILLEGAL_DATA_ADDRESS>>)
      [] req.op = "ReadFile" ->
            AddCRC(<<SlaveId, READ_FILE, Len(RefReadData(req, store))>> \o RefReadData(req, store))
      [] OTHER -> Frame(req)

RefStore(req, store) ==
    [f \in FileRows |-> [b \in RowBytes |->
        IF \E i \in 1..Len(req.subs) : req.subs[i][1] = f
                                      /\ b \in (2 * req.subs[i][2])..(2 * (req.subs[i][2] + req.subs[i][3]) - 1)
        THEN Lo(req.value) + (Hi(req.value) - Lo(req.value)) * (1 - (b % 2))
        ELSE store[f][b]]]

(***************************************************************************)
(* Every answer the simulator sends is the one the protocol prescribes for *)
(* the request and the file contents before it (no byte of an earlier     *)
(* answer left in messageOut, no error of one sub-request lost behind a   *)
(* later one), and a write that succeeds stores every record it names.    *)
(***************************************************************************)
AnswersFollowProtocol ==
    [][served' # served =>
         /\ reply' = RefReply(request', fileStore)
         /\ (request'.op = "WriteFile" /\ AllFilesExist(request')
                => fileStore' = RefStore(request', fileStore))]_vars

=============================================================================
