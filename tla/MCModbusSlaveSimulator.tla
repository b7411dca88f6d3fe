----------------------- MODULE MCModbusSlaveSimulator -----------------------
(* Model values for ModbusSlaveSimulator. *)
EXTENDS ModbusSlaveSimulator

\* <<file, record, count>> sub-requests within the records modelled.
SubsOf(files) == {s \in files \X (0..(RecordCount - 1)) \X (1..RecordCount) : s[2] + s[3] <= RecordCount}

RequestsOf(singles, pairs) ==
    {[op |-> op, subs |-> <<s>>, value |-> 258] : op \in {"ReadFile", "WriteFile"}, s \in SubsOf(singles)}
    \cup {[op |-> op, subs |-> <<s, t>>, value |-> 258] :
            op \in {"ReadFile", "WriteFile"}, s \in pairs \X {0} \X {1}, t \in pairs \X {1} \X {1}}

\* Missing files (0, 7) alone, existing files (4, 5) alone, and pairs of
\* files 0, 4 and 5, so that a missing file may come first or second.
MCRequests == RequestsOf({0, 4, 5, 7}, {0, 4, 5})

=============================================================================
