\* The application connected to a TCW241 and an ADAM-4150, one fault.
CONSTANTS
    Devices = {"tcp", "rtu"}
    NUM_OUTPUTS = 2
    NUM_INPUTS = 1
    MaxFaults = 1
    MaxInputChanges = 1
    MaxDesiredChanges = 1
    NONE = NONE
SPECIFICATION Spec
INVARIANT TypeOK
INVARIANT RelaysSettle
PROPERTY OutputTwinTracksCoils
