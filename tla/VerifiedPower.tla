---------------------------- MODULE VerifiedPower ----------------------------
(***************************************************************************)
(* The power meter that Verus verifies (wohl-power/src/engine.rs).  A      *)
(* spike carries the difference as its value where the engine the hub      *)
(* links puts the reading; values of alerts are left out here.             *)
(***************************************************************************)
EXTENDS Integers, Sequences

CONSTANTS
    Ids, Watts,             \* what a reading may hold
    Times,                  \* what the clock may show
    Lists,                  \* lists of circuits it may be started with
    MaxCircuits,            \* MAX_CIRCUITS (16)
    MaxAlertsPerReading     \* 4

VARIABLES
    circuits,   \* configs and states, up to circuit_count
    alerts,     \* alerts of the last reading its caller has still to take
    now         \* its caller's clock, by which readings are dated

\* A circuit configured, without a reading.
Circuit(c) == [circuit_id |-> c.circuit_id, max |-> c.max, spike |-> c.spike,
               last_watts |-> 0, last_time |-> 0]

Alert(id, type, threshold) == [zone |-> id, type |-> type, threshold |-> threshold]

Registered(table, c) ==
    IF Len(table) >= MaxCircuits THEN table ELSE Append(table, Circuit(c))

Started(cs) ==
    LET after[n \in 0 .. Len(cs)] == IF n = 0 THEN <<>> ELSE Registered(after[n - 1], cs[n])
    IN  after[Len(cs)]

Matching(id) == {i \in DOMAIN circuits : circuits[i].circuit_id = id}
First(id) == CHOOSE i \in Matching(id) : \A j \in Matching(id) : i <= j

Difference(a, b) == IF a >= b THEN a - b ELSE b - a

\* POWER-P01 and P02.
AlertsOf(e, id, w) ==
    (IF w > e.max THEN <<Alert(id, "overconsumption", e.max)>> ELSE <<>>)
    \o (IF Difference(w, e.last_watts) > e.spike /\ e.last_time > 0
        THEN <<Alert(id, "power_spike", e.spike)>> ELSE <<>>)

-----------------------------------------------------------------------------
Init == \E cs \in Lists : circuits = Started(cs) /\ alerts = <<>> /\ now \in Times

Start == \E cs \in Lists : circuits' = Started(cs) /\ alerts' = <<>> /\ UNCHANGED now

ProcessReading(id, w) ==
    /\ alerts = <<>>
    /\ UNCHANGED now
    /\ IF Matching(id) = {} THEN UNCHANGED <<circuits, alerts>>
       ELSE /\ alerts' = AlertsOf(circuits[First(id)], id, w)
            /\ circuits' = [circuits EXCEPT ![First(id)].last_watts = w,
                                            ![First(id)].last_time = now]

TakeAlert == alerts # <<>> /\ alerts' = Tail(alerts) /\ UNCHANGED <<circuits, now>>

ClockMoves == now' \in Times /\ UNCHANGED <<circuits, alerts>>

Next ==
    \/ Start
    \/ \E id \in Ids, w \in Watts : ProcessReading(id, w)
    \/ TakeAlert
    \/ ClockMoves

Spec == Init /\ [][Next]_<<circuits, alerts, now>>

=============================================================================
