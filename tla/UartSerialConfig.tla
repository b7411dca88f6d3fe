-------------------------- MODULE UartSerialConfig --------------------------
(***************************************************************************)
(* The serial configuration of the intercore `rtu` transport, end to end. *)
(* ModbusConnectRtu copies the caller's serialSetup into the handle and    *)
(* WriteSerialConfig sends its seven bytes through ModBusWrite with the   *)
(* UART / UART_CFG_MESSAGE header (modbus.c).  On the real-time core,      *)
(* ReceiveCommandFromA7 dispatches the message on its protocol byte,       *)
(* HandleUARTRequest hands the data to SetSerialConfig, which builds the  *)
(* LCR and the divisor latch of UartIsu0, enables half duplex when asked   *)
(* and calls Uart_Init to program the registers, and the M4 answers with  *)
(* one byte, 1 for success (ModbusOnSphereM4/main.c, mt3620-uart).  The    *)
(* A7's MessageHandler takes that byte as the PDU of the answer.           *)
(*                                                                         *)
(* Everything here is a pure operator.  A UART unit is the record of the  *)
(* UartInfo fields SetSerialConfig writes, with the driver's two statics  *)
(* halfDuplexUart and halfDuplexEnabled; the 20-byte component prefix the *)
(* M4 copies from the request into its answer is left out.                 *)
(***************************************************************************)
EXTENDS ModbusFraming

\* serialSetup values and the configuration message layout (modbusCommon.h).
HALF_DUPLEX_MODE == 1
FULL_DUPLEX_MODE == 0
PARITY_ON == 1
PARITY_OFF == 0
PARITY_EVEN == 1
PARITY_ODD == 0
UART_CFG_MESSAGE_LENGTH == 7
BAUD_RATE_OFFSET_UPPER == 0
BAUD_RATE_OFFSET_LOWER == 1
DUPLEX_MODE_OFFSET == 2
PARITY_STATE_OFFSET == 3
PARITY_MODE_OFFSET == 4
STOP_BITS_OFFSET == 5
WORD_LENGTH_OFFSET == 6
PROTOCOL_OFFSET == 0
COMMAND_OFFSET == 1
HEADER_LENGTH_OFFSET == 2

\* BAUD_SET_<rate>, the divisor the A7 sends for each supported rate.
BAUD_SET ==
    (300 :> 384) @@ (600 :> 192) @@ (1200 :> 96) @@ (2400 :> 48) @@ (4800 :> 24)
    @@ (9600 :> 12) @@ (14400 :> 8) @@ (19200 :> 6) @@ (38400 :> 3) @@ (57600 :> 2)
    @@ (115200 :> 1)

\* The LCR bits of the M4's UART driver.
PARITY_BIT_ON == 8
PARITY_BIT_EVEN == 16
STOP_BITS_2 == 4
WORD_LENGTH_6 == 1
WORD_LENGTH_7 == 2
WORD_LENGTH_8 == 3

\* Byte `offset` (0-based, as in C) of a configuration message.
At(cfg, offset) == cfg[offset + 1]

\* ModbusConnectRtu: hndl->connectData.RTU from the caller's serialSetup.
ConnectDataRTU(setup) ==
    [baudRate |-> setup.baudRate, halfDuplexMode |-> setup.duplexMode,
     parityState |-> setup.parityState, parityMode |-> setup.parityMode,
     wordLength |-> setup.wordLength, stopBits |-> setup.stopBits]

\* WriteSerialConfig: serialConfigMessage, one byte per offset.
SerialConfigMessage(rtu) ==
    <<Hi(rtu.baudRate), Lo(rtu.baudRate), rtu.halfDuplexMode, rtu.parityState,
      rtu.parityMode, rtu.stopBits, rtu.wordLength>>

\* WriteSerialConfig: the frame ModBusWrite sends with isCFG set.  Its
\* verdict tests receivedMessage[0], which nothing writes; the caller
\* ignores it, and it is left out.
WriteSerialConfig(rtu) == ModBusWriteFrame("rtu", TRUE, 0, SerialConfigMessage(rtu))

\* ModbusConnectRtu: once malloc, Application_Socket and epoll_ctl have
\* succeeded, the handle's RTU data and the configuration frame sent; its
\* failure exits return NULL before anything is sent.
ModbusConnectRtu(setup) == WriteSerialConfig(ConnectDataRTU(setup))

\* GetMessageProtocol, GetMessageCommand and GetMessageDataPtr with
\* GetMessageLength: the header's protocol and command bytes, and the data
\* after the header length the header gives.
MessageProtocol(msg) == msg[PROTOCOL_OFFSET + 1]
MessageCommand(msg) == msg[COMMAND_OFFSET + 1]
MessageData(msg) == SubSeq(msg, msg[HEADER_LENGTH_OFFSET + 1] + 1, Len(msg))

\* The UartId of ISU0, its index in uarts[] after UartCM4Debug.
UartIsu0 == 1

\* The static uarts[UartIsu0] entry (115200-8-N-1) and the drivers' statics
\* at boot.
BootUart ==
    [lcr |-> 3, upperDivisor |-> 0, lowerDivisor |-> 1,
     halfDuplexUart |-> -1, halfDuplexEnabled |-> FALSE]

\* Fault model: the parity-enable and even-parity bits exchanged.
SetSerialConfigLcrSwapParity(cfg) ==
    (IF At(cfg, PARITY_STATE_OFFSET) # 0 THEN PARITY_BIT_EVEN ELSE 0)
    + (IF At(cfg, PARITY_MODE_OFFSET) # 0 THEN PARITY_BIT_ON ELSE 0)
    + (IF At(cfg, STOP_BITS_OFFSET) = 2 THEN STOP_BITS_2 ELSE 0)
    + (CASE At(cfg, WORD_LENGTH_OFFSET) = 6 -> WORD_LENGTH_6
         [] At(cfg, WORD_LENGTH_OFFSET) = 7 -> WORD_LENGTH_7
         [] At(cfg, WORD_LENGTH_OFFSET) = 8 -> WORD_LENGTH_8
         [] OTHER -> 0)

\* SetSerialConfig: the LCR built from 0 by |= of disjoint bits (a word
\* length other than 6, 7 or 8 leaves the 5-bit default).
SetSerialConfigLcr(cfg) ==
    (IF At(cfg, PARITY_STATE_OFFSET) # 0 THEN PARITY_BIT_ON ELSE 0)
    + (IF At(cfg, PARITY_MODE_OFFSET) # 0 THEN PARITY_BIT_EVEN ELSE 0)
    + (IF At(cfg, STOP_BITS_OFFSET) = 2 THEN STOP_BITS_2 ELSE 0)
    + (CASE At(cfg, WORD_LENGTH_OFFSET) = 6 -> WORD_LENGTH_6
         [] At(cfg, WORD_LENGTH_OFFSET) = 7 -> WORD_LENGTH_7
         [] At(cfg, WORD_LENGTH_OFFSET) = 8 -> WORD_LENGTH_8
         [] OTHER -> 0)

\* Uart_EnableHalfDuplex(UartIsu0): the GPIO set-up of the first call has
\* no state the model keeps.
Uart_EnableHalfDuplex(unit) ==
    [unit EXCEPT !.halfDuplexUart = UartIsu0, !.halfDuplexEnabled = TRUE]

\* SetSerialConfig(configSetup, len, UartIsu0, ...): false on a short
\* message, else the unit's new settings; half duplex is only ever enabled.
SetSerialConfig(cfg, len, unit) ==
    IF len < UART_CFG_MESSAGE_LENGTH
    THEN [rc |-> FALSE, unit |-> unit]
    ELSE LET set == [unit EXCEPT !.lcr = SetSerialConfigLcr(cfg),
                                 !.upperDivisor = At(cfg, BAUD_RATE_OFFSET_UPPER),
                                 !.lowerDivisor = At(cfg, BAUD_RATE_OFFSET_LOWER)]
         IN [rc |-> TRUE,
             unit |-> IF At(cfg, DUPLEX_MODE_OFFSET) # 0 THEN Uart_EnableHalfDuplex(set) ELSE set]

\* Uart_Init: the divisor latch and the LCR it writes from the unit.
Uart_Init(unit) == [dlm |-> unit.upperDivisor, dll |-> unit.lowerDivisor, lcr |-> unit.lcr]

(***************************************************************************)
(* HandleUARTRequest: for UART_CFG_MESSAGE, SetSerialConfig on the data,  *)
(* then the answer UART / UART_CFG_MESSAGE with the one byte rc ? 1 : 0;  *)
(* any other command is ignored.  `uart` is the unit as it ends up and    *)
(* `registers` the UART's divisor latch and LCR, `regs` before the call.   *)
(***************************************************************************)
HandleUARTRequest(msg, unit, regs) ==
    IF MessageCommand(msg) # UART_CFG_MESSAGE
    THEN [reply |-> <<>>, uart |-> unit, registers |-> regs]
    ELSE LET r == SetSerialConfig(MessageData(msg), Len(MessageData(msg)), unit)
         IN [reply |-> <<UART, UART_CFG_MESSAGE, MESSAGE_HEADER_LENGTH, 0,
                         IF r.rc THEN 1 ELSE 0>>,
             uart |-> r.unit,
             registers |-> IF r.rc THEN Uart_Init(r.unit) ELSE regs]
====
