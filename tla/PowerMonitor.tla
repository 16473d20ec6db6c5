---------------------------- MODULE PowerMonitor ----------------------------
(***************************************************************************)
(* The power meter of wohl-power, as the hub links it: consumption is a    *)
(* watchpoint of relay-lc with the circuit's own id, spikes are told from  *)
(* the circuit's last reading.                                             *)
(***************************************************************************)
EXTENDS Watchpoints, SequencesExt

CONSTANT MaxCircuits    \* MAX_CIRCUITS (16)

ASSUME PowerAssumption == MaxCircuits \in Nat

VARIABLE power      \* the circuits with their last reading, and the watchpoints

NewPower == [circuits |-> <<>>, limits |-> <<>>]

Circuit(c) == [circuit_id |-> c.circuit_id, max |-> c.max, spike |-> c.spike,
               last_watts |-> 0, last_time |-> 0]

\* register_circuit
RegisterPower(m, c) ==
    IF Len(m.circuits) >= MaxCircuits THEN m
    ELSE [circuits |-> Append(m.circuits, Circuit(c)),
          limits |-> AddWatchpoint(m.limits, Watchpoint(c.circuit_id, "GreaterThan", c.max))]

\* The monitor after a call for each of cs in turn.
PowerWith(cs) ==
    LET monitor[n \in 0 .. Len(cs)] ==
            IF n = 0 THEN NewPower ELSE RegisterPower(monitor[n - 1], cs[n])
    IN  monitor[Len(cs)]

-----------------------------------------------------------------------------
(***************************************************************************)
(* process_reading(id, w, t).                                              *)
(***************************************************************************)
CircuitEntries(id) ==
    {i \in DOMAIN power.circuits : power.circuits[i].circuit_id = id}
CircuitEntry(id) ==
    CHOOSE i \in CircuitEntries(id) : \A j \in CircuitEntries(id) : i <= j

PowerAlert(id, type, threshold) == [zone |-> id, type |-> type, threshold |-> threshold]

AbsDiff(a, b) == IF a > b THEN a - b ELSE b - a

\* A circuit without a reading, whose last_time is 0, has no spike.
SpikeAlerts(id, w) ==
    IF CircuitEntries(id) = {} THEN <<>>
    ELSE LET e == power.circuits[CircuitEntry(id)]
         IN  IF e.last_time > 0 /\ AbsDiff(w, e.last_watts) > e.spike
             THEN <<PowerAlert(id, "power_spike", e.spike)>> ELSE <<>>

PowerAlerts(id, w) ==
    AlertOnViolation(power.limits, id, w, id, "overconsumption") \o SpikeAlerts(id, w)

\* Mutant: the time of a reading is not kept.
KeepWattsOnly(id, w, t) ==
    power' = IF CircuitEntries(id) = {} THEN power
             ELSE [power EXCEPT !.circuits[CircuitEntry(id)].last_watts = w]

KeepWatts(id, w, t) ==
    power' = IF CircuitEntries(id) = {} THEN power
             ELSE [power EXCEPT !.circuits[CircuitEntry(id)].last_watts = w,
                                !.circuits[CircuitEntry(id)].last_time = t]

=============================================================================
