---------------------------- MODULE PowerComponent ----------------------------
(***************************************************************************)
(* The WASM component of wohl-power (wasm_component.rs): a meter of its    *)
(* own source in a static table, reset by the export init.                 *)
(***************************************************************************)
EXTENDS Integers, Sequences

CONSTANTS
    Ids, Watts,             \* what a reading may hold
    Times,                  \* what the clock may show
    Lists,                  \* lists of circuits its host may register
    MaxCircuits,            \* MAX_CIRCUITS (16)
    U32Max, MaxWatchpoints, MaxViolations

VARIABLES
    table,      \* TABLE: circuits and watchpoints
    alerts,     \* the list the last process_reading returned, less what was read
    now         \* its caller's clock, by which readings are dated

\* The component's copy of relay-lc.
RelayLc == INSTANCE Watchpoints

\* A circuit configured, without a reading.
Circuit(c) == [circuit_id |-> c.circuit_id, max |-> c.max, spike |-> c.spike,
               last_watts |-> 0, last_time |-> 0]

Registered(m, c) ==
    IF Len(m.circuits) >= MaxCircuits THEN m
    ELSE [circuits |-> Append(m.circuits, Circuit(c)),
          limits |-> RelayLc!AddWatchpoint(m.limits,
                         RelayLc!Watchpoint(c.circuit_id, "GreaterThan", c.max))]

Reset == [circuits |-> <<>>, limits |-> <<>>]

Matching(id) == {i \in DOMAIN table.circuits : table.circuits[i].circuit_id = id}
First(id) == CHOOSE i \in Matching(id) : \A j \in Matching(id) : i <= j

Spike(e, id, w) ==
    LET diff == IF w > e.last_watts THEN w - e.last_watts ELSE e.last_watts - w
    IN  IF e.last_time > 0 /\ diff > e.spike
        THEN <<[zone |-> id, type |-> "power_spike", threshold |-> e.spike]>> ELSE <<>>

Consumption(id, w) ==
    RelayLc!AlertOnViolation(table.limits, id, w, id, "overconsumption")

-----------------------------------------------------------------------------
\* A host calls init, then register_circuit for each of cs.
Starts(cs) ==
    LET after[n \in 0 .. Len(cs)] == IF n = 0 THEN Reset ELSE Registered(after[n - 1], cs[n])
    IN  after[Len(cs)]

Init == \E cs \in Lists : table = Starts(cs) /\ alerts = <<>> /\ now \in Times

Start == \E cs \in Lists : table' = Starts(cs) /\ alerts' = <<>> /\ UNCHANGED now

ProcessReading(id, w) ==
    /\ alerts = <<>>
    /\ UNCHANGED now
    /\ \/ /\ Matching(id) = {}
          /\ alerts' = Consumption(id, w)
          /\ UNCHANGED table
       \/ /\ Matching(id) # {}
          /\ alerts' = Consumption(id, w) \o Spike(table.circuits[First(id)], id, w)
          /\ table' = [table EXCEPT !.circuits[First(id)].last_watts = w,
                                    !.circuits[First(id)].last_time = now]

TakeAlert == alerts # <<>> /\ alerts' = Tail(alerts) /\ UNCHANGED <<table, now>>

ClockMoves == now' \in Times /\ UNCHANGED <<table, alerts>>

Next ==
    \/ Start
    \/ \E id \in Ids, w \in Watts : ProcessReading(id, w)
    \/ TakeAlert
    \/ ClockMoves

Spec == Init /\ [][Next]_<<table, alerts, now>>

=============================================================================
