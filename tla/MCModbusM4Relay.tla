--------------------------- MODULE MCModbusM4Relay ---------------------------
(***************************************************************************)
(* Answers for the relay: an exception (5-byte frame), a coil read         *)
(* (6 bytes) and a five-register read (15 bytes, split at the RX trigger),*)
(* and a four-register read (13 bytes: its CRC arrives after the trigger). *)
(* Requests: a five-register read (8-byte frame) and a four-register     *)
(* write (17 bytes: one more than the TX FIFO holds).                     *)
(***************************************************************************)
EXTENDS ModbusM4Relay

MCRequestPdus == {<<17, 3, 0, 0, 0, 5>>, <<17, 16, 0, 0, 0, 4, 8, 0, 1, 0, 2, 0, 3, 0, 4>>}
Registers(n) == <<17, 3, 2 * n>> \o [j \in 1..(2 * n) |-> (j * 29) % 256]
MCAnswersSafe == {<<17, 131, 2>>, <<17, 1, 1, 5>>, Registers(5)}
MCAnswersSplitCrc == {<<17, 1, 1, 5>>, Registers(4)}
====
