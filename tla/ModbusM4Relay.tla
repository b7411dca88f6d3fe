---------------------------- MODULE ModbusM4Relay ----------------------------
(***************************************************************************)
(* The real-time core's relay of the intercore `rtu` transport            *)
(* (ModbusOnSphereM4/main.c, message-handler, mt3620-uart).               *)
(*                                                                         *)
(* Request path: the timer callback ReceiveCommandFromA7 reads a request  *)
(* of the A7 and Uart_EnqueueData puts it, with its CRC, into the TX ring *)
(* and switches the half-duplex transceiver to transmit; the TX interrupt *)
(* moves up to 16 bytes at a time into the TX FIFO, and the main loop,    *)
(* spinning on CheckForCompletedTranmission after each round of callbacks,*)
(* switches the transceiver back to receive once the line is empty.       *)
(*                                                                         *)
(* Answer path: the answer's bytes reach the RX FIFO one by one, the RX    *)
(* interrupt moves them into the rxBuffer ring, and the deferred callback *)
(* HandleUartIsu0RxIrqDeferred collects them in UartIsu0RxBuffer until     *)
(* GetFcodeLength bytes are there, validates the CRC and sends the PDU to *)
(* the A7.                                                                 *)
(*                                                                         *)
(* The state starts after ModbusConnectRtu's configuration message has    *)
(* enabled half duplex on UartIsu0.  Both rings' counters keep            *)
(* EnqCtrType's wrap-around with CtrBits bits (16 in the code; both       *)
(* buffer sizes divide 2^CtrBits as they divide 2^16).  Interrupts        *)
(* preempt the main loop: a pending TX interrupt is taken before the main *)
(* loop's next step and within the character time on the line.           *)
(***************************************************************************)
EXTENDS ModbusFraming

CONSTANTS
    RequestPdus,    \* request PDUs the A7 may send
    Answers,        \* answer PDUs the slave may give
    MaxRequests,    \* requests the A7 sends
    CtrBits,        \* width of the EnqCtrType counters
    InitCtr,        \* their values at start (every value is reachable)
    MsgBytes,       \* bytes of UartIsu0RxBuffer's data modelled
    FastTurnaround  \* the slave may answer before the pin is back in receive mode

VARIABLES
    a7Waiting,      \* the A7 has a request outstanding
    requests,       \* requests the A7 has sent
    mailbox,        \* intercore messages not yet read by the M4
    slaveRx,        \* bytes of the current frame the slave has heard
    slavePending,   \* requests the slave has received and not answered
    wire,           \* bytes of the answer still to reach the RX FIFO
    fifo,           \* the UART's RX FIFO
    rxBuffer, rxEnqueuedBytes, rxDequeuedBytes,
    txBuffer, txEnqueuedBytes, txDequeuedBytes,
    txFifo,         \* the UART's TX FIFO
    shiftReg,       \* the byte in the transmit shift register, or NoByte
    txIrqEnabled,   \* IER[ETBEI]
    oneByteLeft, txStarted,
    txMode,         \* the half-duplex pin: TRUE = transmit
    mainPc,         \* RTCoreMain: "invoke" (callbacks) or "check" (the spin)
    enqueued,       \* the deferred callback's CallbackNode.enqueued
    running,        \* HandleUartIsu0RxIrqDeferred is inside its for (;;)
    msgData, msgLength,  \* UartIsu0RxBuffer: data bytes and GetMessageLength
    sent,           \* the answer PDUs the slave sent (history)
    delivered,      \* the PDUs the M4 sent to the A7 (history)
    ringOut,        \* bytes the callback took from the RX ring (history)
    txOut,          \* bytes the TX interrupt took from the TX ring (history)
    lostAt          \* answers sent when an answer byte was first lost, or 0

a7Vars == <<a7Waiting, requests, mailbox>>
slaveVars == <<slaveRx, slavePending, wire, sent, lostAt>>
rxVars == <<fifo, rxBuffer, rxEnqueuedBytes, rxDequeuedBytes, ringOut>>
txVars == <<txBuffer, txEnqueuedBytes, txDequeuedBytes, txFifo, shiftReg, txIrqEnabled,
            oneByteLeft, txStarted, txMode, txOut>>
m4Vars == <<mainPc, enqueued, running, msgData, msgLength, delivered>>
vars == <<a7Vars, slaveVars, rxVars, txVars, m4Vars>>

RX_BUFFER_SIZE == 32
RX_BUFFER_MASK == RX_BUFFER_SIZE - 1
RX_TRIGGER == 12            \* FCR[RFTL] = 2: 12-element RX FIFO trigger
TX_BUFFER_SIZE == 256
TX_BUFFER_MASK == TX_BUFFER_SIZE - 1
TX_FIFO_DEPTH == 16
CtrMod == 2 ^ CtrBits
NoByte == -1

ASSUME /\ CtrMod % TX_BUFFER_SIZE = 0 /\ CtrMod % RX_BUFFER_SIZE = 0
       /\ InitCtr \subseteq 0..(CtrMod - 1)

\* Uart_HandleIrq, RX case: free space in the ring, as the code computes it.
AvailSpace(enq, deq) ==
    IF enq >= deq THEN (RX_BUFFER_SIZE - (enq - deq)) % CtrMod
    ELSE ((deq % RX_BUFFER_SIZE) - enq) % CtrMod

\* Fault model: the wrapped branch of Uart_DequeueData without the mask.
AvailDataNoMask(enq, deq) ==
    IF enq >= deq THEN enq - deq
    ELSE (RX_BUFFER_SIZE - (deq - enq)) % CtrMod

\* Uart_DequeueData: the bytes available, as the code computes them.
AvailData(enq, deq) ==
    IF enq >= deq THEN enq - deq
    ELSE (RX_BUFFER_SIZE - ((deq % RX_BUFFER_SIZE) - enq)) % CtrMod

\* The bytes Uart_DequeueData copies: one memcpy, or the end then the start.
DequeuedBytes(buf, enq, deq) ==
    LET enqueueIndex == enq % RX_BUFFER_SIZE
        dequeueIndex == deq % RX_BUFFER_SIZE
        from(i, n) == [j \in 1..n |-> IF i + j - 1 < RX_BUFFER_SIZE THEN buf[i + j - 1] ELSE 0]
    IN IF enqueueIndex > dequeueIndex
       THEN from(dequeueIndex, AvailData(enq, deq))
       ELSE from(dequeueIndex, RX_BUFFER_SIZE - dequeueIndex) \o from(0, enqueueIndex)

\* Uart_EnqueueData: free space in the TX ring, as the code computes it.
TxAvailSpace(enq, deq) ==
    IF enq >= deq THEN (TX_BUFFER_SIZE - (enq - deq)) % CtrMod
    ELSE ((deq % TX_BUFFER_SIZE) - enq) % CtrMod

\* Fault model: the TX interrupt stores txEnqueuedBytes as dequeued.
TxDequeuedAfterIrqAll(enq, deq, n) == enq

\* Uart_HandleIrq, TX case: txDequeuedBytes once n bytes went to the FIFO.
TxDequeuedAfterIrq(enq, deq, n) == (deq + n) % CtrMod

\* Fault model: read answers counted with their CRC footer.
M4GetFcodeLengthWithCrc(fCode, dataLength) ==
    CASE fCode > FCODE_ERROR_OFFSET -> ERROR_CODE_LENGTH
      [] fCode \in {READ_COILS, READ_DISCRETE_INPUTS, READ_MULTIPLE_HOLDING_REGISTERS,
                    READ_INPUT_REGISTERS} -> PDU_HEADER_LENGTH + dataLength + CRC_FOOTER_LENGTH
      [] OTHER -> PDU_HEADER_LENGTH + 3

\* The M4's GetFcodeLength: the error test's second operand is a nonzero
\* constant, and READ_FILE / WRITE_FILE fall to the default 0.
M4GetFcodeLength(fCode, dataLength) ==
    CASE fCode > FCODE_ERROR_OFFSET -> ERROR_CODE_LENGTH
      [] fCode \in {READ_COILS, READ_DISCRETE_INPUTS, READ_MULTIPLE_HOLDING_REGISTERS,
                    READ_INPUT_REGISTERS} -> PDU_HEADER_LENGTH + dataLength
      [] fCode \in {WRITE_SINGLE_COIL, WRITE_SINGLE_HOLDING_REGISTER, WRITE_MULTIPLE_COILS,
                    WRITE_MULTIPLE_HOLDING_REGISTERS} -> PDU_HEADER_LENGTH + 3
      [] fCode = READ_EXCEPTION_STATUS -> PDU_HEADER_LENGTH
      [] OTHER -> 0

\* UartIsu0RxBuffer's data after `bytes` are copied in after byte `at`.
Store(data, at, bytes) ==
    [k \in DOMAIN data |-> IF k > at /\ k <= at + Len(bytes) THEN bytes[k - at] ELSE data[k]]

\* LSR[TEMT]: the TX FIFO and the shift register are empty.
TEMT == txFifo = <<>> /\ shiftReg = NoByte

\* The TX interrupt is pending: enabled, and the FIFO at its trigger (0).
ThrePending == txIrqEnabled /\ txFifo = <<>>

\* The relay has nothing in hand: the A7's timeout (1 s against a few ms of
\* UART time) only expires once the answer is delivered or lost.
Quiet ==
    /\ mailbox = <<>> /\ slaveRx = <<>> /\ slavePending = 0 /\ wire = <<>> /\ fifo = <<>>
    /\ rxEnqueuedBytes = rxDequeuedBytes /\ ~enqueued /\ ~running
    /\ txEnqueuedBytes = txDequeuedBytes /\ TEMT /\ ~txIrqEnabled
-----------------------------------------------------------------------------
Init ==
    /\ a7Waiting = FALSE /\ requests = 0 /\ mailbox = <<>>
    /\ slaveRx = <<>> /\ slavePending = 0 /\ wire = <<>> /\ fifo = <<>>
    /\ rxBuffer = [i \in 0..RX_BUFFER_MASK |-> 0]
    /\ rxEnqueuedBytes \in InitCtr /\ rxDequeuedBytes = rxEnqueuedBytes
    /\ txBuffer = [i \in 0..TX_BUFFER_MASK |-> 0]
    /\ txEnqueuedBytes \in InitCtr /\ txDequeuedBytes = txEnqueuedBytes
    /\ txFifo = <<>> /\ shiftReg = NoByte /\ txIrqEnabled = FALSE
    /\ oneByteLeft = FALSE /\ txStarted = FALSE /\ txMode = FALSE
    /\ mainPc = "invoke" /\ enqueued = FALSE /\ running = FALSE
    /\ msgData = [k \in 1..MsgBytes |-> 0] /\ msgLength = 0
    /\ sent = <<>> /\ delivered = <<>> /\ ringOut = <<>> /\ txOut = <<>> /\ lostAt = 0

-----------------------------------------------------------------------------
\* The A7 application sends a request when none is outstanding.
CanSendRequest == ~a7Waiting /\ requests < MaxRequests
A7SendRequest ==
    /\ CanSendRequest
    /\ \E pdu \in RequestPdus : mailbox' = Append(mailbox, pdu)
    /\ a7Waiting' = TRUE /\ requests' = requests + 1
    /\ UNCHANGED <<slaveVars, rxVars, txVars, m4Vars>>

\* The A7 gives up on an answer the relay has lost.
CanTimeout == a7Waiting /\ Quiet
A7Timeout ==
    /\ CanTimeout
    /\ a7Waiting' = FALSE
    /\ UNCHANGED <<requests, mailbox, slaveVars, rxVars, txVars, m4Vars>>

\* Fault model: txStarted not set, so the spin never sees a started
\* transmission.
Uart_EnqueueDataNoStarted(bytes) ==
    LET enq == txEnqueuedBytes
        space == TxAvailSpace(enq, txDequeuedBytes)
        n == IF space >= Len(bytes) THEN Len(bytes) ELSE space
    IN IF space = 0
       THEN UNCHANGED <<txBuffer, txEnqueuedBytes, txStarted, txMode, txIrqEnabled>>
       ELSE /\ UNCHANGED txStarted /\ txMode' = TRUE
            /\ txBuffer' = [i \in 0..TX_BUFFER_MASK |->
                              LET j == ((i - enq) % TX_BUFFER_SIZE) + 1
                              IN IF j <= n THEN bytes[j] ELSE txBuffer[i]]
            /\ txEnqueuedBytes' = (enq + n) % CtrMod
            /\ txIrqEnabled' = TRUE

(***************************************************************************)
(* Uart_EnqueueData: with no room it returns at once; otherwise it marks   *)
(* txStarted, switches the half-duplex pin to transmit, copies what fits  *)
(* (the rest is lost), publishes txEnqueuedBytes and enables the TX       *)
(* interrupt.                                                              *)
(***************************************************************************)
Uart_EnqueueData(bytes) ==
    LET enq == txEnqueuedBytes
        space == TxAvailSpace(enq, txDequeuedBytes)
        n == IF space >= Len(bytes) THEN Len(bytes) ELSE space
    IN IF space = 0
       THEN UNCHANGED <<txBuffer, txEnqueuedBytes, txStarted, txMode, txIrqEnabled>>
       ELSE /\ txStarted' = TRUE /\ txMode' = TRUE
            /\ txBuffer' = [i \in 0..TX_BUFFER_MASK |->
                              LET j == ((i - enq) % TX_BUFFER_SIZE) + 1
                              IN IF j <= n THEN bytes[j] ELSE txBuffer[i]]
            /\ txEnqueuedBytes' = (enq + n) % CtrMod
            /\ txIrqEnabled' = TRUE

(***************************************************************************)
(* The timer callback ReceiveCommandFromA7 with HandleModbusRequest: a PDU *)
(* longer than MAX_PDU_LENGTH is dropped, any other is given its CRC and  *)
(* enqueued for the UART.                                                  *)
(***************************************************************************)
CanReceiveCommand == mainPc = "invoke" /\ mailbox # <<>> /\ ~running /\ ~ThrePending
ReceiveCommandFromA7 ==
    /\ CanReceiveCommand
    /\ mailbox' = Tail(mailbox)
    /\ IF Len(Head(mailbox)) > MaxPduLength
       THEN UNCHANGED <<txBuffer, txEnqueuedBytes, txStarted, txMode, txIrqEnabled>>
       ELSE Uart_EnqueueData(AddCRC(Head(mailbox)))
    /\ UNCHANGED <<a7Waiting, requests, slaveVars, rxVars, txDequeuedBytes, txFifo, shiftReg,
                   oneByteLeft, txOut, m4Vars>>

(***************************************************************************)
(* Uart_HandleIrq, TX case: it writes ring bytes to the FIFO while there   *)
(* are some and the FIFO has room.  Its test for "all sent" reads          *)
(* txDequeuedBytes before its own store, so the interrupt is disabled,    *)
(* and oneByteLeft set, by the interrupt after the last bytes went out.   *)
(***************************************************************************)
Uart_HandleIrqTx ==
    /\ ThrePending
    /\ LET deq == txDequeuedBytes
           queued == (txEnqueuedBytes - deq) % CtrMod
           n == IF queued < TX_FIFO_DEPTH THEN queued ELSE TX_FIFO_DEPTH
           written == [j \in 1..n |-> txBuffer[(deq + j - 1) % TX_BUFFER_SIZE]]
       IN /\ txFifo' = written
          /\ txOut' = txOut \o written
          /\ txDequeuedBytes' = TxDequeuedAfterIrq(txEnqueuedBytes, deq, n)
          /\ IF txEnqueuedBytes = deq
             THEN txIrqEnabled' = FALSE /\ oneByteLeft' = TRUE
             ELSE UNCHANGED <<txIrqEnabled, oneByteLeft>>
    /\ UNCHANGED <<a7Vars, slaveVars, rxVars, txBuffer, txEnqueuedBytes, shiftReg, txStarted,
                   txMode, m4Vars>>

\* The transmitter moves the next FIFO byte into the empty shift register.
CanLoad == shiftReg = NoByte /\ txFifo # <<>>
TxLoad ==
    /\ CanLoad
    /\ shiftReg' = Head(txFifo) /\ txFifo' = Tail(txFifo)
    /\ UNCHANGED <<a7Vars, slaveVars, rxVars, txBuffer, txEnqueuedBytes, txDequeuedBytes,
                   txIrqEnabled, oneByteLeft, txStarted, txMode, txOut, m4Vars>>

\* The shift register's byte goes out; the slave hears it only while the
\* transceiver transmits.  A pending TX interrupt is served before it ends.
CanShiftOut == shiftReg # NoByte /\ ~ThrePending
TxShiftOut ==
    /\ CanShiftOut
    /\ slaveRx' = IF txMode THEN Append(slaveRx, shiftReg) ELSE slaveRx
    /\ shiftReg' = NoByte
    /\ UNCHANGED <<a7Vars, slavePending, wire, sent, lostAt, rxVars, txBuffer, txEnqueuedBytes,
                   txDequeuedBytes, txFifo, txIrqEnabled, oneByteLeft, txStarted, txMode, txOut,
                   m4Vars>>

\* After the line falls silent the slave takes the frame if its CRC is right.
CanSlaveReceive == slaveRx # <<>> /\ TEMT /\ ~ThrePending
SlaveReceive ==
    /\ CanSlaveReceive
    /\ slavePending' = IF ValidateCRC(slaveRx) THEN slavePending + 1 ELSE slavePending
    /\ slaveRx' = <<>>
    /\ UNCHANGED <<a7Vars, wire, sent, lostAt, rxVars, txVars, m4Vars>>

(***************************************************************************)
(* The slave answers a request once the line is free.  Its turnaround     *)
(* (3.5 characters) normally outlasts the M4's reaction to TEMT, so it    *)
(* starts after CheckForCompletedTranmission has ended the transmission   *)
(* the TX interrupt marked complete.  With FastTurnaround one answer, the *)
(* first to lose a byte, may start earlier: Uart_SetHalfDuplexMode does    *)
(* not wait (its TODO).                                                    *)
(***************************************************************************)
EarlyAnswer == FastTurnaround /\ lostAt = 0
CanAnswer == slavePending > 0 /\ wire = <<>> /\ (EarlyAnswer \/ ~(oneByteLeft /\ txStarted))
SlaveAnswer ==
    /\ CanAnswer
    /\ \E a \in Answers : wire' = AddCRC(a) /\ sent' = Append(sent, a)
    /\ slavePending' = slavePending - 1
    /\ UNCHANGED <<a7Vars, slaveRx, lostAt, rxVars, txVars, m4Vars>>

\* The slave does not answer (off line, or the request was corrupted).
SlaveSilent ==
    /\ CanAnswer
    /\ slavePending' = slavePending - 1
    /\ UNCHANGED <<a7Vars, slaveRx, wire, sent, lostAt, rxVars, txVars, m4Vars>>

\* A byte of the answer reaches the RX FIFO, unless the transceiver still
\* transmits.  The RX interrupt is taken within one character time, so the
\* FIFO never holds more than the trigger level.
CanArrive == wire # <<>> /\ Len(fifo) < RX_TRIGGER
ByteArrives ==
    /\ CanArrive
    /\ fifo' = IF txMode THEN fifo ELSE Append(fifo, Head(wire))
    /\ wire' = Tail(wire)
    /\ lostAt' = IF txMode /\ lostAt = 0 THEN Len(sent) ELSE lostAt
    /\ UNCHANGED <<a7Vars, slaveRx, slavePending, sent, rxBuffer, rxEnqueuedBytes,
                   rxDequeuedBytes, ringOut, txVars, m4Vars>>

(***************************************************************************)
(* Uart_HandleIrq, RX case, with HandleUartIsu0RxIrq: taken at the trigger *)
(* level or, once the line is idle, on the RX timeout.  It stores as many *)
(* FIFO bytes as its availSpace allows, publishes rxEnqueuedBytes and     *)
(* enqueues the deferred callback (EnqueueCallback).                      *)
(***************************************************************************)
RxIrqPending == fifo # <<>> /\ (Len(fifo) >= RX_TRIGGER \/ wire = <<>>)
Uart_HandleIrq ==
    /\ RxIrqPending
    /\ LET enq == rxEnqueuedBytes
           space == AvailSpace(enq, rxDequeuedBytes)
           n == IF space < Len(fifo) THEN space ELSE Len(fifo)
           taken == SubSeq(fifo, 1, n)
       IN /\ rxBuffer' = [i \in 0..RX_BUFFER_MASK |->
                              LET j == ((i - enq) % RX_BUFFER_SIZE) + 1
                              IN IF j <= n THEN taken[j] ELSE rxBuffer[i]]
          /\ rxEnqueuedBytes' = (enq + n) % CtrMod
          /\ fifo' = SubSeq(fifo, n + 1, Len(fifo))
    /\ enqueued' = TRUE
    /\ UNCHANGED <<a7Vars, slaveVars, rxDequeuedBytes, ringOut, txVars, mainPc, running,
                   msgData, msgLength, delivered>>

\* InvokeCallbacks pops the deferred callback's node and calls it.
CanInvoke == mainPc = "invoke" /\ enqueued /\ ~running /\ ~ThrePending
InvokeCallbacks ==
    /\ CanInvoke
    /\ enqueued' = FALSE /\ running' = TRUE
    /\ UNCHANGED <<a7Vars, slaveVars, rxVars, txVars, mainPc, msgData, msgLength, delivered>>

\* Fault model: the message length left as it is after a frame.
LengthAfterFrameKept(currentLength) == currentLength

\* SetMessageLength(&UartIsu0RxBuffer, 0) once a frame is handled.
LengthAfterFrame(currentLength) == 0

(***************************************************************************)
(* One pass of the for (;;) of HandleUartIsu0RxIrqDeferred: Uart_DequeueData*)
(* appends the ring's bytes to UartIsu0RxBuffer (the size it is given is   *)
(* not used); with nothing dequeued the callback returns.  From three      *)
(* bytes on, GetFcodeLength of bytes 2 and 3 is the PDU length; once the   *)
(* message holds that many bytes, ValidateCRC checks that many plus the    *)
(* two CRC bytes of the buffer, whatever they hold, the PDU goes to the A7 *)
(* if it passes, and the message is emptied either way.                    *)
(***************************************************************************)
CanDeferred == running /\ ~ThrePending
HandleUartIsu0RxIrqDeferred ==
    /\ CanDeferred
    /\ LET enq == rxEnqueuedBytes
           deq == rxDequeuedBytes
           availBytes == AvailData(enq, deq)
           data == Store(msgData, msgLength, DequeuedBytes(rxBuffer, enq, deq))
           currentLength == msgLength + availBytes
           expectedLength == M4GetFcodeLength(data[2], data[3])
           checked == [k \in 1..(expectedLength + CRC_FOOTER_LENGTH) |->
                          IF k <= MsgBytes THEN data[k] ELSE 0]
           frameDone == currentLength >= PDU_HEADER_LENGTH /\ currentLength >= expectedLength
       IN IF availBytes = 0
          THEN /\ running' = FALSE
               /\ UNCHANGED <<rxDequeuedBytes, msgData, msgLength, delivered, a7Waiting, ringOut>>
          ELSE /\ rxDequeuedBytes' = (deq + availBytes) % CtrMod
               /\ msgData' = data
               /\ ringOut' = ringOut \o [j \in 1..availBytes |-> data[msgLength + j]]
               /\ msgLength' = IF frameDone THEN LengthAfterFrame(currentLength) ELSE currentLength
               /\ IF frameDone /\ ValidateCRC(checked)
                  THEN /\ delivered' = Append(delivered, SubSeq(data, 1, expectedLength))
                       /\ a7Waiting' = FALSE
                  ELSE UNCHANGED <<delivered, a7Waiting>>
               /\ UNCHANGED running
    /\ UNCHANGED <<requests, mailbox, slaveVars, fifo, rxBuffer, rxEnqueuedBytes, txVars,
                   mainPc, enqueued>>

\* RTCoreMain: InvokeCallbacks returns once no callback is queued, and the
\* loop spins on CheckForCompletedTranmission.
CanEndCallbacks == mainPc = "invoke" /\ ~enqueued /\ ~running /\ ~ThrePending
EndCallbacks ==
    /\ CanEndCallbacks
    /\ mainPc' = "check"
    /\ UNCHANGED <<a7Vars, slaveVars, rxVars, txVars, enqueued, running, msgData, msgLength,
                   delivered>>

\* Fault model: the transmission taken as complete without waiting for TEMT.
CanCheckTxNoTemt == mainPc = "check" /\ ~ThrePending

(***************************************************************************)
(* The spin of RTCoreMain ends when CheckForCompletedTranmission returns   *)
(* true: at once unless the TX interrupt has marked a started transmission *)
(* complete, and then only at TEMT, after switching the transceiver back  *)
(* to receive and clearing both flags.  The loop then waits (wfi) for the  *)
(* next interrupt and runs the callbacks it queued.                        *)
(***************************************************************************)
CanCheckTx == mainPc = "check" /\ ~ThrePending /\ ((oneByteLeft /\ txStarted) => TEMT)
CheckForCompletedTranmission ==
    /\ CanCheckTx
    /\ mainPc' = "invoke"
    /\ IF oneByteLeft /\ txStarted
       THEN txMode' = FALSE /\ oneByteLeft' = FALSE /\ txStarted' = FALSE
       ELSE UNCHANGED <<txMode, oneByteLeft, txStarted>>
    /\ UNCHANGED <<a7Vars, slaveVars, rxVars, txBuffer, txEnqueuedBytes, txDequeuedBytes,
                   txFifo, shiftReg, txIrqEnabled, txOut, enqueued, running, msgData,
                   msgLength, delivered>>

Next ==
    \/ A7SendRequest \/ A7Timeout \/ ReceiveCommandFromA7
    \/ Uart_HandleIrqTx \/ TxLoad \/ TxShiftOut \/ SlaveReceive
    \/ SlaveAnswer \/ SlaveSilent \/ ByteArrives \/ Uart_HandleIrq
    \/ InvokeCallbacks \/ HandleUartIsu0RxIrqDeferred
    \/ EndCallbacks \/ CheckForCompletedTranmission

Spec == Init /\ [][Next]_vars

(***************************************************************************)
(* Fairness.  Each action below is enabled exactly when its named guard   *)
(* holds, and is weakly fair: it is taken infinitely often or its guard is *)
(* infinitely often false.  Some guard holds in every state, so a         *)
(* behaviour takes infinitely many steps and that is one step formula,    *)
(* []<><<~G \/ A>>_vars, which keeps TLC from evaluating the CRC folds    *)
(* under ENABLED.  The UART, its interrupts, the slave and the main loop  *)
(* keep running.  The timer callback is strongly fair: the main loop      *)
(* leaves "invoke" between ticks, and the timer, relaunched on every tick,*)
(* reads a waiting message at a later one.  The A7 need not send.         *)
(***************************************************************************)
Fairness ==
    /\ <>[]~CanReceiveCommand \/ []<><<ReceiveCommandFromA7>>_vars
    /\ []<><<~ThrePending \/ Uart_HandleIrqTx>>_vars
    /\ []<><<~CanLoad \/ TxLoad>>_vars
    /\ []<><<~CanShiftOut \/ TxShiftOut>>_vars
    /\ []<><<~CanSlaveReceive \/ SlaveReceive>>_vars
    /\ []<><<~CanAnswer \/ SlaveAnswer \/ SlaveSilent>>_vars
    /\ []<><<~CanArrive \/ ByteArrives>>_vars
    /\ []<><<~RxIrqPending \/ Uart_HandleIrq>>_vars
    /\ []<><<~CanInvoke \/ InvokeCallbacks>>_vars
    /\ []<><<~CanDeferred \/ HandleUartIsu0RxIrqDeferred>>_vars
    /\ []<><<~CanEndCallbacks \/ EndCallbacks>>_vars
    /\ []<><<~CanCheckTx \/ CheckForCompletedTranmission>>_vars
-----------------------------------------------------------------------------
TypeOK ==
    /\ a7Waiting \in BOOLEAN /\ requests \in 0..MaxRequests
    /\ rxEnqueuedBytes \in 0..(CtrMod - 1) /\ rxDequeuedBytes \in 0..(CtrMod - 1)
    /\ txEnqueuedBytes \in 0..(CtrMod - 1) /\ txDequeuedBytes \in 0..(CtrMod - 1)
    /\ rxBuffer \in [0..RX_BUFFER_MASK -> Byte] /\ Len(fifo) <= RX_TRIGGER
    /\ txFifo \in Seq(Byte) /\ Len(txFifo) <= TX_FIFO_DEPTH /\ shiftReg \in Byte \cup {NoByte}
    /\ msgData \in [1..MsgBytes -> Byte] /\ msgLength \in 0..MsgBytes
    /\ {enqueued, running, txIrqEnabled, oneByteLeft, txStarted, txMode} \subseteq BOOLEAN
    /\ mainPc \in {"invoke", "check"}

\* The bytes in a ring, oldest first, by the true fill (enqueued - dequeued
\* modulo the counter width).
Contents(buf, size, enq, deq) ==
    [j \in 1..((enq - deq) % CtrMod) |-> buf[(deq + j - 1) % size]]
RingContents == Contents(rxBuffer, RX_BUFFER_SIZE, rxEnqueuedBytes, rxDequeuedBytes)
TxRingContents == Contents(txBuffer, TX_BUFFER_SIZE, txEnqueuedBytes, txDequeuedBytes)

\* Each ring seen as the queue it implements: its contents are the queue,
\* what its consumer dequeued is what was taken.
RxQueue == INSTANCE UartByteQueue WITH
    queue <- RingContents, taken <- ringOut, Capacity <- RX_BUFFER_SIZE, Bytes <- Byte
TxQueue == INSTANCE UartByteQueue WITH
    queue <- TxRingContents, taken <- txOut, Capacity <- TX_BUFFER_SIZE, Bytes <- Byte

(***************************************************************************)
(* The RX ring is a FIFO of bytes: every Uart_HandleIrq only appends to    *)
(* its contents, never past RX_BUFFER_SIZE, and every Uart_DequeueData     *)
(* hands HandleUartIsu0RxIrqDeferred exactly the bytes it holds, in order, *)
(* and empties it -- also when the 16-bit counters have wrapped and       *)
(* availData takes its wrapped branch.                                     *)
(***************************************************************************)
RingImplementsQueue == RxQueue!Spec

(***************************************************************************)
(* The TX ring is a FIFO of bytes: Uart_EnqueueData only appends, within  *)
(* TX_BUFFER_SIZE, and each TX interrupt hands the FIFO the oldest bytes, *)
(* in order, as many as fit, keeping the rest for the next interrupt --   *)
(* across the wrap of the counters.                                        *)
(***************************************************************************)
TxRingImplementsQueue == TxQueue!Spec

(***************************************************************************)
(* The half-duplex pin is in receive mode only when no request byte is    *)
(* waiting in the TX ring, the TX FIFO or the shift register:              *)
(* CheckForCompletedTranmission never turns the transceiver around while  *)
(* the request is still going out, whatever the order of the TX          *)
(* interrupts, the callbacks and the main loop's spin.                     *)
(***************************************************************************)
NoTransmitInReceiveMode == ~txMode => (TxRingContents = <<>> /\ TEMT)

(***************************************************************************)
(* The A7 receives only answers the slave sent, in the order sent, each at *)
(* most once: HandleUartIsu0RxIrqDeferred never passes on a stale or       *)
(* repeated message from UartIsu0RxBuffer.                                 *)
(***************************************************************************)
RelayedInOrder == IsPrefix(delivered, sent)

(***************************************************************************)
(* Every answer the slave sends eventually reaches the A7: each request    *)
(* gets out whole, the transceiver is back in receive mode for the answer, *)
(* the deferred callback waits until GetFcodeLength says the frame is      *)
(* complete and never drops a frame whose CRC is right.  It fails for     *)
(* answers of 13 and 14 bytes (the length test without the CRC at main.c  *)
(* line 208), which the passing run does not send.                        *)
(***************************************************************************)
AnswersReachA7 == Fairness => <>[](delivered = sent)

(***************************************************************************)
(* The transceiver always turns back to receive: once Uart_EnqueueData    *)
(* has switched the half-duplex pin to transmit, the pin returns to       *)
(* receive mode.  This needs txStarted set by the enqueue, the TX         *)
(* interrupt that finds the ring empty only after its last FIFO load      *)
(* (the test at part_006 line 164 reads the counter before its own store) *)
(* to set oneByteLeft, and RTCoreMain's spin to wait for TEMT -- an order  *)
(* of interrupt, timer callback and main loop that no single path fixes.  *)
(* A pin left in transmit mode would lose every later answer.              *)
(***************************************************************************)
TransceiverReturnsToReceive == Fairness => (txMode ~> ~txMode)

(***************************************************************************)
(* The relay recovers from an answer that lost bytes on the line: once a  *)
(* later answer has been sent, beyond the one that may meet the damaged    *)
(* one's remains in UartIsu0RxBuffer, the last answer the slave sent       *)
(* reaches the A7.  HandleUartIsu0RxIrqDeferred delimits frames only by    *)
(* GetFcodeLength of the bytes it holds, never by a silent line.           *)
(***************************************************************************)
RelayResynchronises ==
    Fairness => <>[](Len(sent) > lostAt + 1 => delivered # <<>> /\ Last(delivered) = Last(sent))
====
