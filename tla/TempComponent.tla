---------------------------- MODULE TempComponent ----------------------------
(***************************************************************************)
(* The WASM component of wohl-temp (wasm_component.rs): a monitor of its   *)
(* own source in a static table, reset by the export init.  It differs     *)
(* from the one the hub links in its arithmetic, which wraps in a release  *)
(* build where the hub's saturates.                                        *)
(***************************************************************************)
EXTENDS Integers, Sequences

CONSTANTS
    Ids, Values,            \* what a reading may hold
    Times,                  \* what the clock may show
    Lists,                  \* lists of zones its host may register
    MaxZones,               \* MAX_ZONES (32)
    U32Max, I32Min, I32Max,
    MaxWatchpoints, MaxViolations

VARIABLES
    table,      \* TABLE: zones and watchpoints
    alerts,     \* the list the last process_reading returned, less what was read
    now         \* its caller's clock, by which readings are dated

\* The component's copy of relay-lc.
RelayLc == INSTANCE Watchpoints

WrapU32(n) == n % (U32Max + 1)
WrapI32(n) == I32Min + ((n - I32Min) % (I32Max - I32Min + 1))

FreezeId(z) == WrapU32(z * 2)
OverheatId(z) == WrapU32(WrapU32(z * 2) + 1)

\* A zone configured, without a reading.
Zone(c) == [zone_id |-> c.zone_id, freeze |-> c.freeze, overheat |-> c.overheat,
            rate |-> c.rate, last_value |-> 0, last_time |-> 0]

Alert(z, type, threshold) == [zone |-> z, type |-> type, threshold |-> threshold]

Registered(m, c) ==
    IF Len(m.zones) >= MaxZones THEN m
    ELSE LET lower == RelayLc!Watchpoint(FreezeId(c.zone_id), "LessOrEqual", c.freeze)
             upper == RelayLc!Watchpoint(OverheatId(c.zone_id), "GreaterOrEqual", c.overheat)
         IN  [zones |-> Append(m.zones, Zone(c)),
              limits |-> RelayLc!AddWatchpoint(RelayLc!AddWatchpoint(m.limits, lower), upper)]

Reset == [zones |-> <<>>, limits |-> <<>>]

Matching(z) == {i \in DOMAIN table.zones : table.zones[i].zone_id = z}
First(z) == CHOOSE i \in Matching(z) : \A j \in Matching(z) : i <= j

Changed(e, z, change, type) ==
    IF e.last_time > 0 /\ WrapI32(change) > e.rate
    THEN <<Alert(z, type, e.rate)>> ELSE <<>>

Thresholds(z, v) ==
    RelayLc!AlertOnViolation(table.limits, FreezeId(z), v, z, "freeze")
    \o RelayLc!AlertOnViolation(table.limits, OverheatId(z), v, z, "overheat")

-----------------------------------------------------------------------------
\* A host calls init, then register_zone for each of cs.
Starts(cs) ==
    LET after[n \in 0 .. Len(cs)] == IF n = 0 THEN Reset ELSE Registered(after[n - 1], cs[n])
    IN  after[Len(cs)]

Init == \E cs \in Lists : table = Starts(cs) /\ alerts = <<>> /\ now \in Times

Start == \E cs \in Lists : table' = Starts(cs) /\ alerts' = <<>> /\ UNCHANGED now

ProcessReading(z, v) ==
    /\ alerts = <<>>
    /\ UNCHANGED now
    /\ \/ /\ Matching(z) = {}
          /\ alerts' = Thresholds(z, v)
          /\ UNCHANGED table
       \/ /\ Matching(z) # {}
          /\ LET e == table.zones[First(z)]
             IN  alerts' = Thresholds(z, v)
                           \o Changed(e, z, e.last_value - v, "rapid_drop")
                           \o Changed(e, z, v - e.last_value, "rapid_rise")
          /\ table' = [table EXCEPT !.zones[First(z)].last_value = v,
                                    !.zones[First(z)].last_time = now]

TakeAlert == alerts # <<>> /\ alerts' = Tail(alerts) /\ UNCHANGED <<table, now>>

ClockMoves == now' \in Times /\ UNCHANGED <<table, alerts>>

Next ==
    \/ Start
    \/ \E z \in Ids, v \in Values : ProcessReading(z, v)
    \/ TakeAlert
    \/ ClockMoves

Spec == Init /\ [][Next]_<<table, alerts, now>>

=============================================================================
