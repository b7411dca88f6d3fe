----------------------------- MODULE ModbusCrc -----------------------------
(***************************************************************************)
(* The table-driven CRC16 of the RTU framing (GetCRC, AddCRC and           *)
(* ValidateCRC of ModbusFraming) against the bit-at-a-time definition of  *)
(* CRC16/MODBUS: register 0xFFFF, each byte xored into the low end, eight  *)
(* shifts right, xor with 0xA001 when a one is shifted out.  The checks   *)
(* are stated on one message; ModbusRequestsCheck runs them.              *)
(***************************************************************************)
EXTENDS ModbusFraming

RECURSIVE RefShift(_, _)
RefShift(reg, bits) ==
    IF bits = 0 THEN reg
    ELSE LET out == reg % 2
             shifted == reg \div 2
         IN RefShift(IF out = 1 THEN shifted ^^ 40961 ELSE shifted, bits - 1)

RECURSIVE RefCrc(_, _)
RefCrc(reg, bytes) ==
    IF bytes = <<>> THEN reg
    ELSE RefCrc(RefShift(reg ^^ Head(bytes), 8), Tail(bytes))

\* GetCRC agrees with CRC16/MODBUS on msg.
CrcAgrees(msg) == GetCRC(msg) = RefCrc(65535, msg)

\* AddCRC(msg) passes ValidateCRC, and no one-byte change of it does.
CrcRoundTrip(msg) ==
    LET frame == AddCRC(msg)
    IN /\ ValidateCRC(frame)
       /\ \A i \in 1..Len(frame), d \in {1, 2, 128, 255} :
             ~ValidateCRC([frame EXCEPT ![i] = (@ + d) % 256])

=============================================================================
