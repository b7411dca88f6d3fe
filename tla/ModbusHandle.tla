---------------------------- MODULE ModbusHandle ----------------------------
(***************************************************************************)
(* One Modbus handle of the A7 master library (modbus.c) used by one      *)
(* application thread, with the epoll thread that feeds it and a slave    *)
(* at the far end of the connection.                                       *)
(*                                                                         *)
(*  - the caller runs one of the ten request primitives:                  *)
(*    the Idle check and ModBusWrite up to send (Call), the tail of        *)
(*    SendToSlave (Sent), the polling loop of WaitForData (WaitLoop) and   *)
(*    the state reset and response checks after it (Finish);              *)
(*  - the epoll thread (EpollThread) receives a chunk of bytes and runs    *)
(*    MessageHandler on it (Receive), then stores the verdict and any     *)
(*    hang-up in mh->state (SetState).  mh->state is a plain field shared  *)
(*    by both threads without a lock, so every read and write of it is a   *)
(*    step of its own;                                                     *)
(*  - the slave answers a request, answers it with an exception, or never  *)
(*    answers; the connection may be hung up by the peer.                  *)
(*                                                                         *)
(* The slave's data for address a is a itself, so a result that carries   *)
(* another address's data is visible in `result`.                         *)
(***************************************************************************)
EXTENDS ModbusRequests, FiniteSets

CONSTANTS
    Transport,      \* hndl->type of the handle
    Timeouts,       \* timeout arguments the caller passes to the primitives, in polls
    MaxCalls,       \* bound on the number of request primitive calls
    Ops,            \* request primitives the caller uses
    Addrs,          \* register addresses the caller asks for
    SlaveId,        \* slave id the caller addresses
    SlaveDrops,     \* whether the slave may leave a request unanswered
    PeerHangsUp,    \* whether the peer may close the connection
    SlowAnswers,    \* no answer arrives before SendToSlave has stored WaitingForResponse
    AnswersBeatTimeout, \* the caller times out only once no answer is on its way
    JunkBytes,      \* values a stale byte of bufferedMessage may hold
    InitCounter     \* possible values of transactionIdentifier at connect

ASSUME /\ Transport \in Transports
       /\ Timeouts \subseteq Nat /\ MaxCalls \in Nat
       /\ AnswersBeatTimeout \in BOOLEAN
       /\ Addrs \subseteq Byte /\ SlaveId \in Byte
       /\ InitCounter \subseteq TidSpace

VARIABLES
    hndl,                   \* the fields of struct _modbus_t
    transactionIdentifier,  \* the global request counter of modbus.c
    callerPc, call, polls, calls, result,
    pendingWrites,          \* mh->state writes the epoll thread still has to do
    toSlave,                \* request frames in flight to the slave
    toMaster,               \* response bytes in flight to the master
    hup,                    \* the peer has hung up
    disconnected,           \* ghost: the epoll thread has stored Disconnected
    registered,             \* the descriptor is in the epoll set, pointing at hndl
    freed,                  \* ModbusClose has freed the handle
    event,                  \* the epoll thread holds an event for the handle
    epollThreadContinue,    \* the loop flag of EpollThread
    threadExited            \* EpollThread has returned

handleVars == <<hndl, transactionIdentifier>>
callerVars == <<callerPc, call, polls, calls, result>>
netVars == <<toSlave, toMaster, hup>>
lifeVars == <<registered, freed, event, epollThreadContinue, threadExited>>
vars == <<handleVars, callerVars, pendingWrites, netVars, disconnected, lifeVars>>

States == {"Idle", "SendingRequest", "WaitingForResponse", "DataReceived",
           "TransactionFailed", "Disconnected"}
\* DEVICE_DISCONNECTED is not defined in the sources; any value distinct
\* from the other codes serves.
DEVICE_DISCONNECTED == 24
NoResult == [op |-> "none", addr |-> 0, ok |-> FALSE, code |-> 0, data |-> 0,
             overrun |-> FALSE]

-----------------------------------------------------------------------------
(***************************************************************************)
(* The request primitives and what each sends (ModbusRequests).  Every    *)
(* call asks for one item at address `addr`: one coil or input, one       *)
(* register, or one record of file FILE_NUMBER, as the devices and the     *)
(* RTU-over-TCP application do; writes write the value addr.              *)
(***************************************************************************)
Primitives == {"ReadCoils", "ReadDiscreteInputs", "ReadMultipleHoldingRegisters",
               "ReadInputRegisters", "WriteSingleCoil", "WriteSingleHoldingRegister",
               "WriteMultipleCoils", "WriteMultipleHoldingRegisters", "ReadFile", "WriteFile"}
BitReads == {"ReadCoils", "ReadDiscreteInputs"}
RegisterReads == {"ReadMultipleHoldingRegisters", "ReadInputRegisters"}
EchoWrites == {"WriteSingleCoil", "WriteSingleHoldingRegister",
               "WriteMultipleCoils", "WriteMultipleHoldingRegisters"}
FILE_NUMBER == 4
FILE_RECORDS == 1   \* records per file request (RECORD_COUNT of the application)

ASSUME Ops \subseteq Primitives

OpFcode(op) ==
    [ReadCoils |-> READ_COILS, ReadDiscreteInputs |-> READ_DISCRETE_INPUTS,
     ReadMultipleHoldingRegisters |-> READ_MULTIPLE_HOLDING_REGISTERS,
     ReadInputRegisters |-> READ_INPUT_REGISTERS, WriteSingleCoil |-> WRITE_SINGLE_COIL,
     WriteSingleHoldingRegister |-> WRITE_SINGLE_HOLDING_REGISTER,
     WriteMultipleCoils |-> WRITE_MULTIPLE_COILS,
     WriteMultipleHoldingRegisters |-> WRITE_MULTIPLE_HOLDING_REGISTERS,
     ReadFile |-> READ_FILE, WriteFile |-> WRITE_FILE][op]

FileRequest(op, addr) ==
    IF op = "ReadFile"
    THEN ReadFileRequest(SlaveId, ReadFileSubRequest(FILE_NUMBER, addr, FILE_RECORDS), 7)
    ELSE WriteFileRequest(SlaveId, WriteFileSubRequest(FILE_NUMBER, addr, FILE_RECORDS, <<addr>>),
                          7 + 2 * FILE_RECORDS)

RequestPdu(op, addr) ==
    CASE op \in BitReads \cup RegisterReads -> ReadRequest(OpFcode(op), SlaveId, addr, 1)
      [] op = "WriteSingleCoil" -> WriteSingleCoilRequest(SlaveId, addr, TRUE)
      [] op = "WriteSingleHoldingRegister" -> WriteSingleHoldingRegisterRequest(SlaveId, addr, addr)
      [] op = "WriteMultipleCoils" -> WriteMultipleCoilsRequest(SlaveId, addr, 1, <<1>>)
      [] op = "WriteMultipleHoldingRegisters" ->
            WriteMultipleHoldingRegistersRequest(SlaveId, addr, 1, <<addr>>)
      [] op \in {"ReadFile", "WriteFile"} -> FileRequest(op, addr).pdu

\* The readArray bytes the caller provides: what the request asks for, and
\* for the file primitives the application's dataRead / dataWrite arrays of
\* RECORD_COUNT * 2 bytes.
Capacity(op) ==
    CASE op \in BitReads -> 1
      [] op \in RegisterReads -> 2
      [] op \in {"ReadFile", "WriteFile"} -> 2 * FILE_RECORDS
      [] OTHER -> 4

\* NotReadyReason
NotReadyReason(state) ==
    IF state = "Disconnected" THEN DEVICE_DISCONNECTED ELSE HANDLE_IN_USE

\* Fault model: the PDU header not subtracted.
PduDataLengthWhole(pduLength) == pduLength % 65536

\* PduDataLength: pduLength - PDU_HEADER_LENGTH as a uint16_t (its
\* `expected` argument only feeds a log message).
PduDataLength(pduLength) == (pduLength - PDU_HEADER_LENGTH) % 65536

\* Byte i of the pdu array: the array is zeroed at connect.
PduByte(i) == ByteAt(hndl.pdu, i, 0)

(***************************************************************************)
(* The data a successful primitive hands back, read where the caller      *)
(* reads it: the coil byte, the first register (written only when the     *)
(* register loop runs at least once), the echoed address of a write, the  *)
(* first record of a file read and the echoed record number of a file     *)
(* write.  -1 stands for "not written".                                    *)
(***************************************************************************)
ResultData(op) ==
    CASE op \in BitReads -> PduByte(3)
      [] op \in RegisterReads ->
            IF PduDataLength(hndl.pduLength) \div 2 >= 1 THEN PduByte(3) * 256 + PduByte(4) ELSE -1
      [] op \in EchoWrites -> PduByte(3)
      [] op = "ReadFile" -> PduByte(5) * 256 + PduByte(6)
      [] op = "WriteFile" -> PduByte(6) * 256 + PduByte(7)

\* The bytes the primitive writes into readArray on success.
CopiedBytes(op) ==
    CASE op \in RegisterReads -> 2 * (PduDataLength(hndl.pduLength) \div 2)
      [] op \in EchoWrites -> 4
      [] OTHER -> PduDataLength(hndl.pduLength)

Failed(c) == [op |-> call.op, addr |-> call.addr, ok |-> FALSE, code |-> c,
              data |-> 0, overrun |-> FALSE]

-----------------------------------------------------------------------------
Init ==
    /\ hndl = [type |-> Transport, state |-> "Idle", transactionId |-> 0,
               lastTransactionId |-> 0, buf |-> <<>>, pdu |-> <<>>,
               pduLength |-> 0, isCFG |-> FALSE]
    /\ transactionIdentifier \in InitCounter
    /\ callerPc = "idle" /\ call = [op |-> "none", addr |-> 0, timeout |-> 0]
    /\ polls = 0 /\ calls = 0 /\ result = NoResult
    /\ pendingWrites = <<>>
    /\ toSlave = <<>> /\ toMaster = <<>> /\ hup = FALSE
    /\ disconnected = FALSE
    /\ registered = TRUE /\ freed = FALSE /\ event = FALSE
    /\ epollThreadContinue = TRUE /\ threadExited = FALSE

(***************************************************************************)
(* Caller: a request primitive up to the send of ModBusWrite.  A handle    *)
(* that is not Idle refuses the call with NotReadyReason.  Otherwise the   *)
(* state becomes SendingRequest and the frame is sent; after a hang-up    *)
(* the send may fail (SendToSlave then sets Idle) or succeed into a dead   *)
(* connection.                                                             *)
(***************************************************************************)
Call(op, addr, timeout) ==
    /\ callerPc = "idle" /\ calls < MaxCalls
    /\ calls' = calls + 1
    /\ call' = [op |-> op, addr |-> addr, timeout |-> timeout]
    /\ IF hndl.state # "Idle"
       THEN /\ result' = [Failed(NotReadyReason(hndl.state)) EXCEPT !.op = op, !.addr = addr]
            /\ UNCHANGED <<handleVars, callerPc, polls, netVars>>
       ELSE LET frame == ModBusWriteFrame(Transport, FALSE, transactionIdentifier,
                                          RequestPdu(op, addr))
                sending == [hndl EXCEPT !.isCFG = FALSE, !.state = "SendingRequest",
                                        !.pduLength = 0]
            IN \/ /\ callerPc' = "sent"
                  /\ hndl' = sending
                  /\ toSlave' = IF hup THEN toSlave ELSE Append(toSlave, frame)
                  /\ UNCHANGED <<result, polls, transactionIdentifier, toMaster, hup>>
               \/ /\ hup
                  /\ hndl' = [sending EXCEPT !.state = "Idle"]
                  /\ result' = [Failed(MESSAGE_SEND_FAIL) EXCEPT !.op = op, !.addr = addr]
                  /\ UNCHANGED <<callerPc, polls, transactionIdentifier, netVars>>
    /\ UNCHANGED <<pendingWrites, disconnected, lifeVars>>

\* Caller: the tail of SendToSlave after a complete send.
\* Fault model: the counter kept in a wider type that never wraps.
SentNoWrap ==
    /\ callerPc = "sent"
    /\ hndl' = [hndl EXCEPT !.transactionId = transactionIdentifier,
                            !.state = "WaitingForResponse"]
    /\ transactionIdentifier' = transactionIdentifier + 1
    /\ callerPc' = "wait" /\ polls' = 0
    /\ UNCHANGED <<call, calls, result, pendingWrites, netVars, disconnected, lifeVars>>

Sent ==
    /\ callerPc = "sent"
    /\ hndl' = [hndl EXCEPT !.transactionId = transactionIdentifier,
                            !.state = "WaitingForResponse"]
    /\ transactionIdentifier' = (transactionIdentifier + 1) % 2^TidBits
    /\ callerPc' = "wait" /\ polls' = 0
    /\ UNCHANGED <<call, calls, result, pendingWrites, netVars, disconnected, lifeVars>>

(***************************************************************************)
(* Caller: one iteration of the WaitForData loop.  It leaves when the      *)
(* state is DataReceived, TransactionFailed or Disconnected; otherwise it  *)
(* sleeps and, with a nonzero timeout, leaves once the poll counter has    *)
(* passed the timeout (counter++ > timeout).  With timeout 0 it polls     *)
(* forever, which changes nothing.  Under AnswersBeatTimeout the timeout  *)
(* fires only once nothing is InFlight: an answer that comes at all comes *)
(* within the timeout.                                                    *)
(***************************************************************************)
WaitDone ==
    /\ callerPc = "wait"
    /\ hndl.state \in {"DataReceived", "TransactionFailed", "Disconnected"}
    /\ callerPc' = "finish"
    /\ UNCHANGED <<handleVars, call, polls, calls, result, pendingWrites, netVars, disconnected, lifeVars>>

\* An answer, a verdict or a wake-up of the epoll thread is still to come.
InFlight == toSlave # <<>> \/ toMaster # <<>> \/ event \/ pendingWrites # <<>>

WaitSleep ==
    /\ callerPc = "wait" /\ call.timeout > 0
    /\ hndl.state \notin {"DataReceived", "TransactionFailed", "Disconnected"}
    /\ \/ polls <= call.timeout /\ polls' = polls + 1 /\ UNCHANGED callerPc
       \/ /\ polls > call.timeout /\ (AnswersBeatTimeout => ~InFlight)
          /\ callerPc' = "finish" /\ UNCHANGED polls
    /\ UNCHANGED <<handleVars, call, calls, result, pendingWrites, netVars, disconnected, lifeVars>>

(***************************************************************************)
(* Caller: the end of WaitForData (read the state, then set Idle) and the  *)
(* response checks every primitive repeats: an exception response passes   *)
(* its code, a wrong function code gives INVALID_RESPONSE, otherwise the   *)
(* data is copied out of pdu (ResultData, CopiedBytes).  overrun records  *)
(* a copy larger than the readArray the request asked for.                *)
(***************************************************************************)
Finish ==
    /\ callerPc = "finish"
    /\ hndl' = [hndl EXCEPT !.state = "Idle"]
    /\ result' =
         CASE hndl.state # "DataReceived" -> Failed(MODBUS_TIMEOUT)
           [] PduByte(1) >= 128 -> Failed(PduByte(2))
           [] PduByte(1) # OpFcode(call.op) -> Failed(INVALID_RESPONSE)
           [] OTHER -> [op |-> call.op, addr |-> call.addr, ok |-> TRUE, code |-> 0,
                        data |-> ResultData(call.op),
                        overrun |-> CopiedBytes(call.op) > Capacity(call.op)]
    /\ callerPc' = "idle"
    /\ UNCHANGED <<transactionIdentifier, call, polls, calls, pendingWrites, netVars, disconnected, lifeVars>>

(***************************************************************************)
(* Caller: the application's CloseHandlers, after its main loop, closes   *)
(* the handle (ModbusClose).  Only a TCP handle is taken out of the epoll *)
(* set and has its descriptor closed; every handle is freed.              *)
(***************************************************************************)
ModbusClose ==
    /\ callerPc = "idle"
    /\ callerPc' = "closed"
    /\ registered' = (registered /\ hndl.type # "tcp")
    /\ freed' = TRUE
    /\ UNCHANGED <<handleVars, call, polls, calls, result, pendingWrites, netVars, disconnected,
                   event, epollThreadContinue, threadExited>>

\* Caller: ModbusExit clears epollThreadContinue and blocks in pthread_join.
ModbusExit ==
    /\ callerPc = "closed"
    /\ epollThreadContinue' = FALSE /\ callerPc' = "joining"
    /\ UNCHANGED <<handleVars, call, polls, calls, result, pendingWrites, netVars, disconnected,
                   registered, freed, event, threadExited>>

\* Caller: pthread_join returns once EpollThread has returned.
Joined ==
    /\ callerPc = "joining" /\ threadExited
    /\ callerPc' = "exited"
    /\ UNCHANGED <<handleVars, call, polls, calls, result, pendingWrites, netVars, disconnected,
                   lifeVars>>

-----------------------------------------------------------------------------
(***************************************************************************)
(* Epoll thread: one pass of the while (epollThreadContinue) loop.         *)
(* epoll_wait returns an event for the handle while its descriptor is      *)
(* registered and has bytes or a hang-up to report (or times out after    *)
(* 1000 ms, which changes nothing); the thread then holds event.data.ptr.  *)
(***************************************************************************)
EpollWait ==
    /\ epollThreadContinue /\ ~event /\ pendingWrites = <<>>
    /\ registered /\ (toMaster # <<>> \/ hup)
    /\ event' = TRUE
    /\ UNCHANGED <<handleVars, callerVars, pendingWrites, netVars, disconnected, registered,
                   freed, epollThreadContinue, threadExited>>

\* The event is skipped while mh->state is Disconnected.
SkipDisconnected ==
    /\ event /\ hndl.state = "Disconnected"
    /\ event' = FALSE
    /\ UNCHANGED <<handleVars, callerVars, pendingWrites, netVars, disconnected, registered,
                   freed, epollThreadContinue, threadExited>>

\* The loop test fails once ModbusExit has cleared epollThreadContinue.
ThreadExit ==
    /\ ~epollThreadContinue /\ ~event /\ pendingWrites = <<>> /\ ~threadExited
    /\ threadExited' = TRUE
    /\ UNCHANGED <<handleVars, callerVars, pendingWrites, netVars, disconnected, registered,
                   freed, event, epollThreadContinue>>

(***************************************************************************)
(* Epoll thread: the event's EPOLLIN: recv up to MAX_PDU_LENGTH bytes (any *)
(* prefix of what has arrived; 0 or -1 once the peer has hung up and      *)
(* nothing is left) and MessageHandler; its verdict and then a hang-up    *)
(* are the state writes still to do.                                       *)
(***************************************************************************)
RecvResults ==
    IF toMaster # <<>>
    THEN 1..(IF Len(toMaster) < MaxPduLength THEN Len(toMaster) ELSE MaxPduLength)
    ELSE {0, 65535}

Receive ==
    /\ event /\ hndl.state # "Disconnected"
    /\ \E n \in RecvResults, junk \in JunkBytes :
         LET got == IF n = 65535 THEN <<>> ELSE SubSeq(toMaster, 1, n)
             r == MessageHandler(hndl, got, n, junk)
             verdict == CASE r.ret = "success" -> <<"DataReceived">>
                          [] r.ret = "failure" -> <<"TransactionFailed">>
                          [] OTHER -> <<>>
         IN /\ hndl' = r.hndl
            /\ toMaster' = SubSeq(toMaster, Len(got) + 1, Len(toMaster))
            /\ pendingWrites' = verdict \o (IF hup THEN <<"Disconnected">> ELSE <<>>)
    /\ event' = FALSE
    /\ UNCHANGED <<transactionIdentifier, callerVars, toSlave, hup, disconnected, registered,
                   freed, epollThreadContinue, threadExited>>

\* Epoll thread: the next write of mh->state.
SetState ==
    /\ pendingWrites # <<>>
    /\ hndl' = [hndl EXCEPT !.state = Head(pendingWrites)]
    /\ pendingWrites' = Tail(pendingWrites)
    /\ disconnected' = (disconnected \/ Head(pendingWrites) = "Disconnected")
    /\ UNCHANGED <<transactionIdentifier, callerVars, netVars, lifeVars>>

-----------------------------------------------------------------------------
(***************************************************************************)
(* The slave (environment): it takes the oldest request and answers it    *)
(* with the data of the address, with an ILLEGAL_DATA_ADDRESS exception,   *)
(* or, if SlaveDrops, not at all.  TCP answers echo the transaction id.    *)
(* With SlowAnswers the answer takes longer than the two stores the       *)
(* caller makes after send() returns.                                     *)
(***************************************************************************)
ILLEGAL_DATA_ADDRESS == 2

RequestOf(frame) ==
    CASE Transport = "tcp" -> SubSeq(frame, TCP_HEADER_LENGTH + 1, Len(frame))
      [] Transport = "rtuOverTcp" -> SubSeq(frame, 1, Len(frame) - CRC_FOOTER_LENGTH)
      [] Transport = "rtu" -> SubSeq(frame, MESSAGE_HEADER_LENGTH + 1, Len(frame))

ReplyPdu(req, exception) ==
    LET fc == req[2]
        addr == req[3] * 256 + req[4]
    IN CASE exception -> <<req[1], fc + FCODE_ERROR_OFFSET, ILLEGAL_DATA_ADDRESS>>
         [] fc \in {READ_COILS, READ_DISCRETE_INPUTS} -> <<req[1], fc, 1, Lo(addr)>>
         [] fc \in {READ_MULTIPLE_HOLDING_REGISTERS, READ_INPUT_REGISTERS} ->
               <<req[1], fc, 2, Hi(addr), Lo(addr)>>
         [] fc \in {WRITE_MULTIPLE_COILS, WRITE_MULTIPLE_HOLDING_REGISTERS} -> SubSeq(req, 1, 6)
         \* the slave simulator's layout: data length, 2 * count, reference
         \* type and the record, whose value is its record number
         [] fc = READ_FILE -> <<req[1], fc, 4, 2, 6, req[7], req[8]>>
         [] OTHER -> req

ReplyFrame(frame, pdu) ==
    CASE Transport = "tcp" -> <<frame[1], frame[2], 0, 0, Hi(Len(pdu)), Lo(Len(pdu))>> \o pdu
      [] Transport = "rtuOverTcp" -> AddCRC(pdu)
      [] Transport = "rtu" -> <<MODBUS, MODBUS_DATA_MESSAGE, MESSAGE_HEADER_LENGTH, 0>> \o pdu

SlaveAnswer ==
    /\ toSlave # <<>> /\ ~hup
    /\ SlowAnswers => callerPc # "sent"
    /\ \E exception \in BOOLEAN :
         toMaster' = toMaster \o ReplyFrame(Head(toSlave), ReplyPdu(RequestOf(Head(toSlave)), exception))
    /\ toSlave' = Tail(toSlave)
    /\ UNCHANGED <<handleVars, callerVars, pendingWrites, hup, disconnected, lifeVars>>

SlaveDrop ==
    /\ SlaveDrops \/ hup
    /\ toSlave # <<>>
    /\ toSlave' = Tail(toSlave)
    /\ UNCHANGED <<handleVars, callerVars, pendingWrites, toMaster, hup, disconnected, lifeVars>>

HangUp ==
    /\ PeerHangsUp /\ ~hup
    /\ hup' = TRUE
    /\ UNCHANGED <<handleVars, callerVars, pendingWrites, toSlave, toMaster, disconnected, lifeVars>>

Next ==
    \/ \E op \in Ops, addr \in Addrs, t \in Timeouts : Call(op, addr, t)
    \/ Sent \/ WaitDone \/ WaitSleep \/ Finish
    \/ ModbusClose \/ ModbusExit \/ Joined
    \/ EpollWait \/ SkipDisconnected \/ Receive \/ SetState \/ ThreadExit
    \/ SlaveAnswer \/ SlaveDrop \/ HangUp

\* Both threads are scheduled by the OS and the network delivers; the
\* slave takes up every request (answering it or not).
Fairness ==
    /\ WF_vars(Sent) /\ WF_vars(WaitDone) /\ WF_vars(WaitSleep) /\ WF_vars(Finish)
    /\ WF_vars(ModbusExit) /\ WF_vars(Joined)
    /\ WF_vars(EpollWait) /\ WF_vars(SkipDisconnected) /\ WF_vars(Receive) /\ WF_vars(SetState)
    /\ WF_vars(ThreadExit)
    /\ WF_vars(SlaveAnswer \/ SlaveDrop)

Spec == Init /\ [][Next]_vars /\ Fairness

-----------------------------------------------------------------------------
TypeOK ==
    /\ hndl.state \in States
    /\ hndl.transactionId \in TidSpace /\ transactionIdentifier \in TidSpace
    /\ hndl.buf \in Seq(Byte) /\ Len(hndl.buf) < MaxPduLength
    /\ hndl.pdu \in Seq(Byte) /\ hndl.pduLength \in 0..MaxPduLength
    /\ callerPc \in {"idle", "sent", "wait", "finish", "closed", "joining", "exited"}
    /\ calls \in 0..MaxCalls /\ polls \in Nat /\ \E t \in Timeouts : polls <= t + 1
    /\ pendingWrites \in Seq(States)
    /\ toMaster \in Seq(Byte) /\ hup \in BOOLEAN
    /\ registered \in BOOLEAN /\ freed \in BOOLEAN /\ event \in BOOLEAN
    /\ epollThreadContinue \in BOOLEAN /\ threadExited \in BOOLEAN

(***************************************************************************)
(* A request primitive that reports success hands back the data of the    *)
(* address it asked for: the pdu the epoll thread stored and the caller   *)
(* copies out (Finish) belongs to this call's request, never to an        *)
(* earlier, abandoned one (the Correlator and Reassembler of MessageHandler *)
(* together with the state handshake of WaitForData).                     *)
(***************************************************************************)
ResultMatchesRequest == result.ok => result.data = result.addr

(***************************************************************************)
(* Between two calls, once the epoll thread has finished its writes of    *)
(* mh->state, the handle is Idle (or Disconnected): the next request      *)
(* primitive is not refused with HANDLE_IN_USE.  A verdict of             *)
(* MessageHandler stored after WaitForData has reset the state to Idle    *)
(* would leave the handle stuck.                                           *)
(***************************************************************************)
HandleReusable ==
    (callerPc = "idle" /\ pendingWrites = <<>>) => hndl.state \in {"Idle", "Disconnected"}

(***************************************************************************)
(* Every request primitive returns (WaitForData ends and the primitive     *)
(* goes back to idle).                                                     *)
(***************************************************************************)
CallReturns == callerPc \in {"sent", "wait", "finish"} ~> callerPc = "idle"

(***************************************************************************)
(* A late answer never aborts the request the handle now waits for.  The  *)
(* slave answers over TCP in order, so every frame that reaches            *)
(* MessageHandler answers a request this handle sent, possibly one that   *)
(* timed out calls ago and whose id lies on the other side of the         *)
(* counter's wrap.  The correlator (TransactionCheck, with its wrap-around *)
(* branch) must take such a frame as stale and keep waiting, never as a   *)
(* frame "from the future" that fails the current call.                   *)
(***************************************************************************)
NoFalseFutureAbort ==
    /\ hndl.state # "TransactionFailed"
    /\ \A i \in 1..Len(pendingWrites) : pendingWrites[i] # "TransactionFailed"

(***************************************************************************)
(* Once the epoll thread has marked the handle Disconnected after a       *)
(* hang-up, every later request primitive is refused with                  *)
(* DEVICE_DISCONNECTED and does no I/O (NotReadyReason in the Idle check). *)
(***************************************************************************)
DisconnectedRefusesCalls ==
    [][disconnected /\ calls' = calls + 1 =>
         callerPc' = "idle" /\ result'.code = DEVICE_DISCONNECTED]_vars

(***************************************************************************)
(* A complete frame is never left in bufferedMessage while the handle      *)
(* waits for its answer and no byte is left to arrive: MessageHandler     *)
(* consumes every frame of a chunk that carries several (pipelining).     *)
(***************************************************************************)
FrameBuffered(h) ==
    LET b == h.buf
        hdr == HeaderLength(h.type)
        need == hdr + FooterLength(h.type)
                + GetFcodeLength(ByteAt(b, hdr + 1, 0), ByteAt(b, hdr + 2, 0))
    IN Len(b) >= MinLength(h.type) /\ Len(b) >= need

NoStrandedFrame ==
    (hndl.state = "WaitingForResponse" /\ toMaster = <<>> /\ ~hup)
        => ~FrameBuffered(hndl)

(***************************************************************************)
(* A primitive that succeeds copies into readArray no more bytes than its  *)
(* caller provides: PduDataLength (pduLength - 3 as a uint16_t) of the    *)
(* PDU the epoll thread stored fits the array the request was sized for,  *)
(* and ReadFile / WriteFile fit the application's dataRead / dataWrite.   *)
(***************************************************************************)
NoReadArrayOverrun == ~result.overrun

(***************************************************************************)
(* Once ModbusClose has freed the handle, the epoll thread holds no        *)
(* pointer to it: it neither has an event whose data.ptr is the handle nor *)
(* still has to store a verdict in mh->state.  Spec 4.6 asks Close to      *)
(* deregister the descriptor from the multiplexed wait; the thread         *)
(* dereferences whatever it holds.                                        *)
(***************************************************************************)
NoDanglingHandle == freed => (~event /\ pendingWrites = <<>>)

=============================================================================
