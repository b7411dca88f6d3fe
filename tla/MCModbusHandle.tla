--------------------------- MODULE MCModbusHandle ---------------------------
(***************************************************************************)
(* Model-checking instances of ModbusHandle.  MAX_PDU_LENGTH keeps its    *)
(* real value; the transaction counters are TidBits wide and may start    *)
(* just below their wrap, as after many earlier requests.                 *)
(***************************************************************************)
EXTENDS ModbusHandle

MCTidBits == 3
MCInitCounter == {0, 6}
MCJunkBytes == {0}
MCCounterNearWrap == {6}

\* one primitive of each answer layout: bit read, register read, echoed write
MCLayoutOps == {"ReadCoils", "ReadMultipleHoldingRegisters", "WriteSingleCoil"}
MCFileOps == {"ReadFile", "WriteFile"}

=============================================================================
