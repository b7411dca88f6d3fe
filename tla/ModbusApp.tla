------------------------------ MODULE ModbusApp ------------------------------
(***************************************************************************)
(* The A7 application (ModbusOnSphereA7/main.c) with the device drivers    *)
(* it polls and the Azure IoT client it reports through.                   *)
(*                                                                         *)
(* The application is one thread running an epoll loop with two periodic  *)
(* timers, so each handler runs to completion and is one step:             *)
(*  - TimerEventHandler, every 10 s, runs TCW241_ReadModbusData for the    *)
(*    TCP device and Adam4150_DigitalControl and Adam4150_UpdateDeviceTwin *)
(*    for the RTU device;                                                  *)
(*  - AzureTimerEventHandler runs AzureIoT_EventHandler: it creates the    *)
(*    IoT Hub client when the network is ready and none is authenticated   *)
(*    (AzureIoT_SetupClient), and lets the client work (DoWork), which     *)
(*    sends the queued reported properties and calls the twin callback.    *)
(*                                                                         *)
(* A Modbus call is one outcome: the device applied a write and the call   *)
(* returned true ("ok"), the device applied it but the answer was lost so  *)
(* the call failed ("lost"), or the request never reached it ("failed").   *)
(* ModbusHandle shows that a call returns its own answer, which this       *)
(* composition takes as given.  The hub keeps the device twin: the         *)
(* reported properties it last received and the desired ones it sets.      *)
(***************************************************************************)
EXTENDS Naturals, FiniteSets, FiniteSetsExt

CONSTANTS
    Devices,            \* the connection types main's arguments name: "tcp", "rtu"
    NUM_OUTPUTS,        \* digital outputs of the ADAM-4150 the driver toggles
    NUM_INPUTS,         \* digital inputs of the ADAM-4150 the driver reads
    MaxFaults,          \* bound on failed calls, network and provisioning faults
    MaxInputChanges,    \* bound on changes of the ADAM-4150's inputs
    MaxDesiredChanges,  \* bound on desired-property updates made at the hub
    NONE                \* no value: a property absent from a report or the twin

ASSUME Devices \subseteq {"tcp", "rtu"} /\ Devices # {}
ASSUME NUM_OUTPUTS \in Nat \ {0} /\ NUM_INPUTS \in Nat \ {0}

VARIABLES
    adam,           \* the static variables of adam4150.c
    coils, inputs,  \* the ADAM-4150's outputs and inputs
    counterTCP,     \* the static counter of TCW241_ReadModbusData
    relays,         \* the TCW241's relays
    cleanRounds,    \* ghost: rounds in a row whose relay writes all succeeded
    client,         \* the static client state of azure_iot.c
    azureRan,       \* the Azure timer (5 s) has fired; it fires before the Modbus timer (10 s)
    reported,       \* the twin's reported properties, as the hub holds them
    desired,        \* the twin's desired outputs, set at the hub
    faults, inputChanges, desiredChanges

deviceVars == <<coils, inputs, relays>>
hubVars == <<reported, desired>>
boundVars == <<faults, inputChanges, desiredChanges>>
vars == <<adam, counterTCP, cleanRounds, client, azureRan, deviceVars, hubVars, boundVars>>

Outputs == 0 .. NUM_OUTPUTS - 1
Inputs == 0 .. NUM_INPUTS - 1
RELAY_COUNT == 4
Relays == 0 .. RELAY_COUNT - 1   \* WRITE_RELAY_ADDRESS_1 + i is relay i
NoReports == [out |-> NONE, in |-> NONE]
Outcomes == {"ok", "lost", "failed"}
Applied(o) == o \in {"ok", "lost"}
Faults(os) == Cardinality({i \in DOMAIN os : os[i] # "ok"})

-----------------------------------------------------------------------------
(***************************************************************************)
(* TCW241 (tcw241.c).  Each round switches relay counterTCP off and the    *)
(* next one on.  The coil, input and register reads that follow only fill  *)
(* the telemetry arrays, which no property looks at.                       *)
(***************************************************************************)
TcwNextCounterWide(c) == (c + 1) % 8
TcwNextCounterUnmasked(c) == c + 1
TcwNextCounter(c) == (c + 1) % 4    \* (counterTCP + 1) & 3

\* WriteSingleCoil to WRITE_RELAY_ADDRESS_1 + i; another address is
\* answered with an exception and changes nothing.
WriteRelay(r, i, v, o) ==
    IF Applied(o) /\ i \in Relays THEN [r EXCEPT ![i] = v] ELSE r

TCW241_ReadModbusData(o) ==
    LET next == TcwNextCounter(counterTCP)
    IN /\ relays' = WriteRelay(WriteRelay(relays, counterTCP, FALSE, o[1]), next, TRUE, o[2])
       /\ counterTCP' = next
       /\ cleanRounds' = IF Faults(o) = 0 THEN Min({cleanRounds + 1, RELAY_COUNT}) ELSE 0

-----------------------------------------------------------------------------
(***************************************************************************)
(* ADAM-4150 (adam4150.c).                                                 *)
(***************************************************************************)
SetOutputNoFlag(s, pin, state, o) ==
    IF o = "ok" THEN [s EXCEPT !.digitalOutState[pin] = state] ELSE s

\* SetOutput: the driver records the state only when the write succeeded.
SetOutput(s, pin, state, o) ==
    IF o = "ok"
    THEN [s EXCEPT !.digitalOutState[pin] = state, !.outputTwinUpdateRequired = TRUE]
    ELSE s

SetCoil(c, pin, state, o) == IF Applied(o) THEN [c EXCEPT ![pin] = state] ELSE c

NextCounterRTU(c) == (c + 1) % NUM_OUTPUTS    \* (counterRTU + 1) & 7

\* The read of the inputs: a changed input is stored and flags an update.
ReadInputs(s, ok) ==
    IF ok /\ s.digitalInState # inputs
    THEN [s EXCEPT !.digitalInState = inputs, !.inputTwinUpdateRequired = TRUE]
    ELSE s

\* Adam4150_DigitalControl's new driver state: toggle the next output as
\* the driver believes it is, then read the inputs.
Adam4150_DigitalControl(s, w, readOk) ==
    LET c == NextCounterRTU(s.counterRTU)
    IN ReadInputs(SetOutput([s EXCEPT !.counterRTU = c], c, ~s.digitalOutState[c], w), readOk)

\* The properties Adam4150_UpdateDeviceTwin hands to AzureIoT_TwinReportState
\* (the formatted twin always fits its 1024 bytes).
TwinReports(s) ==
    [out |-> IF s.outputTwinUpdateRequired THEN s.digitalOutState ELSE NONE,
     in  |-> IF s.inputTwinUpdateRequired THEN s.digitalInState ELSE NONE]

\* Adam4150_UpdateDeviceTwin clears both flags once it has called
\* AzureIoT_TwinReportState, whatever became of the report.
Adam4150_UpdateDeviceTwin(s) ==
    [s EXCEPT !.outputTwinUpdateRequired = FALSE, !.inputTwinUpdateRequired = FALSE]

-----------------------------------------------------------------------------
(***************************************************************************)
(* Azure IoT client (azure_iot.c).  `client` holds iothubClientHandle      *)
(* ("null" or "live"), iothubAuthenticated, whether the twin and           *)
(* connection-status callbacks are registered on the handle, the reported  *)
(* properties the client has accepted and not yet sent (one per key, a     *)
(* later report of a key replacing an earlier one), and the outputs whose  *)
(* desired value the hub has still to deliver to the twin callback.        *)
(***************************************************************************)
\* AzureIoT_TwinReportState: without a client handle the report is dropped.
AzureIoT_TwinReportState(cl, r) ==
    IF cl.handle = "live"
    THEN [cl EXCEPT !.queued = [k \in {"out", "in"} |-> IF r[k] # NONE THEN r[k] ELSE @[k]]]
    ELSE cl

\* AzureIoT_SetupClient, reached when not authenticated: destroy the old
\* handle with whatever it still queued, then create a new one.  A failed
\* provisioning leaves no handle.  iothubAuthenticated is set before
\* IoTHubDeviceClient_LL_SetOption; if that fails the function returns
\* before registering the callbacks.  On registration the hub sends the
\* whole twin, so every desired output is delivered again.
AzureIoT_SetupClient(cl, provOk, optionOk) ==
    LET fresh == [cl EXCEPT !.queued = NoReports, !.callbacksSet = FALSE]
    IN IF ~provOk THEN [fresh EXCEPT !.handle = "null"]
       ELSE IF ~optionOk THEN [fresh EXCEPT !.handle = "live", !.auth = TRUE]
       ELSE [fresh EXCEPT !.handle = "live", !.auth = TRUE, !.callbacksSet = TRUE,
                          !.twinDelta = {p \in Outputs : desired[p] # NONE}]

\* AzureIoT_EventHandler up to DoWork: Networking_IsNetworkingReady, and
\* AzureIoT_SetupClient when the network is ready and not authenticated.
AzureIoT_EventHandler(cl, ready, provOk, optionOk) ==
    IF ready /\ ~cl.auth THEN AzureIoT_SetupClient(cl, provOk, optionOk) ELSE cl

\* AzureIoT_ConnectionStatusCallback, called from DoWork when the SDK finds
\* the connection gone (an expired SAS token, a dropped link).
AzureIoT_ConnectionStatusCallback(cl) == [cl EXCEPT !.auth = FALSE]

\* AzureIoT_TwinCallback calls Adam4150_TwinUpdateCallback, hence SetOutput,
\* for every output present in the payload, in the order they were added.
TwinSetOutputs(s, ps, os) ==
    FoldSet(LAMBDA p, acc : SetOutput(acc, p, desired[p], os[p]), s, ps)
TwinSetCoils(c, ps, os) ==
    FoldSet(LAMBDA p, acc : SetCoil(acc, p, desired[p], os[p]), c, ps)

Merge(old, r) == [k \in {"out", "in"} |-> IF r[k] # NONE THEN r[k] ELSE old[k]]

-----------------------------------------------------------------------------
Init ==
    /\ adam = [digitalOutState |-> [p \in Outputs |-> FALSE],
               digitalInState |-> [i \in Inputs |-> FALSE],
               outputTwinUpdateRequired |-> TRUE,   \* "Always update on boot"
               inputTwinUpdateRequired |-> TRUE,
               counterRTU |-> 0]
    \* A device keeps its outputs across a restart of the application; a
    \* device that is not connected stays as it is and is left out.
    /\ coils \in IF "rtu" \in Devices THEN [Outputs -> BOOLEAN] ELSE {[p \in Outputs |-> FALSE]}
    /\ inputs \in IF "rtu" \in Devices THEN [Inputs -> BOOLEAN] ELSE {[i \in Inputs |-> FALSE]}
    /\ counterTCP = 0
    /\ relays \in IF "tcp" \in Devices THEN [Relays -> BOOLEAN] ELSE {[r \in Relays |-> FALSE]}
    /\ cleanRounds = 0
    /\ client = [handle |-> "null", auth |-> FALSE, callbacksSet |-> FALSE,
                 queued |-> NoReports, twinDelta |-> {}]
    /\ azureRan = FALSE
    \* The twin of a newly registered device: nothing reported or desired.
    /\ reported = NoReports
    /\ desired = [p \in Outputs |-> NONE]
    /\ faults = 0 /\ inputChanges = 0 /\ desiredChanges = 0

\* TimerEventHandler: for each connection, TCW241_ReadModbusData for a tcp
\* one, Adam4150_DigitalControl and Adam4150_UpdateDeviceTwin for an rtu one.
\* A device that is not connected makes no call: its outcomes are "ok".
TimerEventHandler ==
    \E tcw \in [1 .. 2 -> Outcomes], w \in Outcomes, readOk \in BOOLEAN :
        LET tcp == "tcp" \in Devices
            rtu == "rtu" \in Devices
            n == faults + Faults(tcw) + (IF w = "ok" THEN 0 ELSE 1) + (IF readOk THEN 0 ELSE 1)
            c == NextCounterRTU(adam.counterRTU)
            s == Adam4150_DigitalControl(adam, w, readOk)
        IN /\ azureRan
           /\ n <= MaxFaults
           /\ tcp \/ (w = "ok" /\ readOk)
           /\ rtu \/ Faults(tcw) = 0
           /\ IF tcp THEN TCW241_ReadModbusData(tcw)
                     ELSE UNCHANGED <<counterTCP, relays, cleanRounds>>
           /\ IF rtu THEN /\ coils' = SetCoil(coils, c, ~adam.digitalOutState[c], w)
                          /\ adam' = Adam4150_UpdateDeviceTwin(s)
                          /\ client' = AzureIoT_TwinReportState(client, TwinReports(s))
                     ELSE UNCHANGED <<coils, adam, client>>
           /\ faults' = n
           /\ UNCHANGED <<azureRan, inputs, hubVars, inputChanges, desiredChanges>>

\* AzureTimerEventHandler, i.e. AzureIoT_EventHandler: set up a client when
\* the network is ready and none is authenticated, then, if authenticated,
\* IoTHubDeviceClient_LL_DoWork.  DoWork either reaches the hub, which
\* takes the queued reports and delivers the pending desired outputs to the
\* twin callback, or finds the connection lost, which the connection-status
\* callback turns into iothubAuthenticated = false if it is registered.
AzureTimerEventHandler ==
    \E ready, provOk, optionOk, linkUp \in BOOLEAN :
        LET setup == ready /\ ~client.auth
            cl == AzureIoT_EventHandler(client, ready, provOk, optionOk)
            up == cl.auth /\ linkUp
            ps == IF up /\ cl.callbacksSet THEN cl.twinDelta ELSE {}
        IN \* the choices that make no difference are fixed
           /\ client.auth => ready
           /\ setup \/ (provOk /\ optionOk)
           /\ cl.auth \/ linkUp
           /\ \E os \in [ps -> Outcomes] :
                LET n == faults + (IF ready THEN 0 ELSE 1)
                                + (IF provOk THEN 0 ELSE 1)
                                + (IF optionOk THEN 0 ELSE 1)
                                + (IF linkUp THEN 0 ELSE 1)
                                + Faults(os)
                IN /\ n <= MaxFaults
                   /\ client' = IF up THEN [cl EXCEPT !.queued = NoReports, !.twinDelta = @ \ ps]
                                ELSE IF cl.auth /\ cl.callbacksSet
                                     THEN AzureIoT_ConnectionStatusCallback(cl)
                                ELSE cl
                   /\ reported' = IF up THEN Merge(reported, cl.queued) ELSE reported
                   /\ adam' = TwinSetOutputs(adam, ps, os)
                   /\ coils' = TwinSetCoils(coils, ps, os)
                   /\ faults' = n
           /\ azureRan' = TRUE
           /\ UNCHANGED <<counterTCP, cleanRounds, inputs, relays, desired,
                          inputChanges, desiredChanges>>

\* An input of the ADAM-4150 changes.
InputChange(i) ==
    /\ inputChanges < MaxInputChanges
    /\ inputs' = [inputs EXCEPT ![i] = ~@]
    /\ inputChanges' = inputChanges + 1
    /\ UNCHANGED <<adam, counterTCP, cleanRounds, client, azureRan, coils, relays, hubVars,
                   faults, desiredChanges>>

\* A desired output is set at the hub, which notifies the client.
HubSetDesired(p, v) ==
    /\ desiredChanges < MaxDesiredChanges
    /\ desired' = [desired EXCEPT ![p] = v]
    /\ client' = [client EXCEPT !.twinDelta = @ \cup {p}]
    /\ desiredChanges' = desiredChanges + 1
    /\ UNCHANGED <<adam, counterTCP, cleanRounds, azureRan, deviceVars, reported, faults, inputChanges>>

Next ==
    \/ TimerEventHandler
    \/ AzureTimerEventHandler
    \/ "rtu" \in Devices /\ \E i \in Inputs : InputChange(i)
    \/ \E p \in Outputs, v \in BOOLEAN : HubSetDesired(p, v)

\* Both handlers are periodic timers of the one epoll loop, which runs
\* every handler to completion; the devices and the hub owe nothing.
Spec == Init /\ [][Next]_vars
        /\ WF_vars(TimerEventHandler) /\ WF_vars(AzureTimerEventHandler)

-----------------------------------------------------------------------------
Reports(S) == S \cup {NONE}

TypeOK ==
    /\ adam \in [digitalOutState : [Outputs -> BOOLEAN], digitalInState : [Inputs -> BOOLEAN],
                 outputTwinUpdateRequired : BOOLEAN, inputTwinUpdateRequired : BOOLEAN,
                 counterRTU : Outputs]
    /\ coils \in [Outputs -> BOOLEAN] /\ inputs \in [Inputs -> BOOLEAN]
    /\ counterTCP \in Relays /\ relays \in [Relays -> BOOLEAN] /\ cleanRounds \in 0 .. RELAY_COUNT
    /\ client \in [handle : {"null", "live"}, auth : BOOLEAN, callbacksSet : BOOLEAN,
                   queued : [out : Reports([Outputs -> BOOLEAN]), in : Reports([Inputs -> BOOLEAN])],
                   twinDelta : SUBSET Outputs]
    /\ reported \in [out : Reports([Outputs -> BOOLEAN]), in : Reports([Inputs -> BOOLEAN])]
    /\ desired \in [Outputs -> Reports(BOOLEAN)]
    /\ azureRan \in BOOLEAN
    /\ faults \in 0 .. MaxFaults

\* TCW241_ReadModbusData switches relay counterTCP off and the next one on.
\* Whatever state the relays were left in by an earlier run or by failed
\* writes, RELAY_COUNT - 1 rounds in a row whose writes all reach the device
\* leave exactly one relay on: relay counterTCP.
RelaysSettle ==
    cleanRounds >= RELAY_COUNT - 1 => {i \in Relays : relays[i]} = {counterTCP}

\* The device twin's reported outputs keep coming back to the ADAM-4150's
\* actual outputs: SetOutput flags every successful write and
\* Adam4150_UpdateDeviceTwin reports it, despite reports dropped before the
\* client exists or lost with a destroyed handle, and writes whose answer
\* was lost.
OutputTwinTracksCoils == []<>(reported.out = coils)

====
