---------------------------- MODULE VerifiedTemp ----------------------------
(***************************************************************************)
(* The temperature monitor that Verus verifies (wohl-temp/src/engine.rs):  *)
(* the thresholds are compared with the zone's own, without watchpoints,   *)
(* and differences are plain.  It is stated for whoever starts a monitor   *)
(* with some list of zones, gives it readings and takes the alerts of one  *)
(* reading before the next.                                                *)
(***************************************************************************)
EXTENDS Integers, Sequences

CONSTANTS
    Ids, Values,            \* what a reading may hold
    Times,                  \* what the clock may show
    Lists,                  \* lists of zones it may be started with
    MaxZones,               \* MAX_ZONES (32)
    MaxAlertsPerReading     \* 4

VARIABLES
    zones,      \* configs and states, up to zone_count
    alerts,     \* alerts of the last reading its caller has still to take
    now         \* its caller's clock, by which readings are dated

\* A zone configured, without a reading.
Zone(c) == [zone_id |-> c.zone_id, freeze |-> c.freeze, overheat |-> c.overheat,
            rate |-> c.rate, last_value |-> 0, last_time |-> 0]

Alert(z, check) == [zone |-> z, type |-> check.type, threshold |-> check.threshold]

Registered(table, c) ==
    IF Len(table) >= MaxZones THEN table ELSE Append(table, Zone(c))

Started(cs) ==
    LET after[n \in 0 .. Len(cs)] == IF n = 0 THEN <<>> ELSE Registered(after[n - 1], cs[n])
    IN  after[Len(cs)]

Matching(z) == {i \in DOMAIN zones : zones[i].zone_id = z}
First(z) == CHOOSE i \in Matching(z) : \A j \in Matching(z) : i <= j

\* TEMP-P03 to P05: the four checks, in order.
Checks(e, v) ==
    <<[holds |-> v <= e.freeze, type |-> "freeze", threshold |-> e.freeze],
      [holds |-> v >= e.overheat, type |-> "overheat", threshold |-> e.overheat],
      [holds |-> e.last_time > 0 /\ e.last_value - v > e.rate,
       type |-> "rapid_drop", threshold |-> e.rate],
      [holds |-> e.last_time > 0 /\ v - e.last_value > e.rate,
       type |-> "rapid_rise", threshold |-> e.rate]>>

Added(list, z, check) ==
    IF check.holds /\ Len(list) < MaxAlertsPerReading THEN Append(list, Alert(z, check)) ELSE list

AlertsOf(e, z, v) ==
    LET after[n \in 0 .. 4] ==
            IF n = 0 THEN <<>> ELSE Added(after[n - 1], z, Checks(e, v)[n])
    IN  after[4]

-----------------------------------------------------------------------------
Init == \E cs \in Lists : zones = Started(cs) /\ alerts = <<>> /\ now \in Times

Start == \E cs \in Lists : zones' = Started(cs) /\ alerts' = <<>> /\ UNCHANGED now

ProcessReading(z, v) ==
    /\ alerts = <<>>
    /\ UNCHANGED now
    /\ IF Matching(z) = {} THEN UNCHANGED <<zones, alerts>>
       ELSE /\ alerts' = AlertsOf(zones[First(z)], z, v)
            /\ zones' = [zones EXCEPT ![First(z)].last_value = v, ![First(z)].last_time = now]

TakeAlert == alerts # <<>> /\ alerts' = Tail(alerts) /\ UNCHANGED <<zones, now>>

ClockMoves == now' \in Times /\ UNCHANGED <<zones, alerts>>

Next ==
    \/ Start
    \/ \E z \in Ids, v \in Values : ProcessReading(z, v)
    \/ TakeAlert
    \/ ClockMoves

Spec == Init /\ [][Next]_<<zones, alerts, now>>

=============================================================================
