------------------------------ MODULE MCModbusApp ------------------------------
(* Two ADAM-4150 outputs and one input, the TCW241's four relays, and a   *)
(* budget of faults shared by the Modbus calls, the network and the hub.   *)
EXTENDS ModbusApp

====
