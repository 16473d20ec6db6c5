---------------------------- MODULE AirComponent ----------------------------
(***************************************************************************)
(* The WASM component of wohl-air (wasm_component.rs): a monitor of its    *)
(* own source in a static table, reset by the export init.  The ids of its *)
(* watchpoints wrap where those of the hub's monitor saturate.             *)
(***************************************************************************)
EXTENDS Integers, Sequences

CONSTANTS
    Ids, Readings,          \* what a reading may hold
    Lists,                  \* lists of zones its host may register
    MaxZones,               \* MAX_ZONES (16)
    U32Max, MaxWatchpoints, MaxViolations

VARIABLES
    table,      \* TABLE: how many zones, and their watchpoints
    alerts      \* the list the last process_reading returned, less what was read

\* The component's copy of relay-lc.
RelayLc == INSTANCE Watchpoints

Types == <<"co2_warning", "co2_critical", "pm25_warning", "pm25_critical",
           "voc_warning", "voc_critical">>

SensorId(z, i) == (z * 6 + i - 1) % (U32Max + 1)

\* The six watchpoints of a zone.
WithLimits(limits, c) ==
    LET after[n \in 0 .. 6] ==
            IF n = 0 THEN limits
            ELSE RelayLc!AddWatchpoint(after[n - 1],
                     RelayLc!Watchpoint(SensorId(c.zone_id, n), "GreaterOrEqual", c.thresholds[n]))
    IN  after[6]

Registered(m, c) ==
    IF m.zone_count >= MaxZones THEN m
    ELSE [zone_count |-> m.zone_count + 1, limits |-> WithLimits(m.limits, c)]

Reset == [zone_count |-> 0, limits |-> <<>>]

Compared(r) == <<r.co2, r.co2, r.pm25, r.pm25, r.voc, r.voc>>

AlertsOf(z, r) ==
    LET after[n \in 0 .. 6] ==
            IF n = 0 THEN <<>>
            ELSE after[n - 1] \o RelayLc!AlertOnViolation(table.limits, SensorId(z, n),
                                                         Compared(r)[n], z, Types[n])
    IN  after[6]

-----------------------------------------------------------------------------
\* A host calls init, then register_zone for each of cs.
Starts(cs) ==
    LET after[n \in 0 .. Len(cs)] == IF n = 0 THEN Reset ELSE Registered(after[n - 1], cs[n])
    IN  after[Len(cs)]

Init == \E cs \in Lists : table = Starts(cs) /\ alerts = <<>>

Start == \E cs \in Lists : table' = Starts(cs) /\ alerts' = <<>>

ProcessReading(z, r) ==
    /\ alerts = <<>>
    /\ alerts' = AlertsOf(z, r)
    /\ UNCHANGED table

TakeAlert == alerts # <<>> /\ alerts' = Tail(alerts) /\ UNCHANGED table

Next ==
    \/ Start
    \/ \E z \in Ids, r \in Readings : ProcessReading(z, r)
    \/ TakeAlert

Spec == Init /\ [][Next]_<<table, alerts>>

=============================================================================
