----------------------------- MODULE AirMonitor -----------------------------
(***************************************************************************)
(* The air quality monitor of wohl-air, as the hub links it: six           *)
(* watchpoints of relay-lc per zone and no state of its own.               *)
(*                                                                         *)
(* The base of a zone's six ids saturates but the sum with the offset does *)
(* not: in the release build, which wraps, the largest zones reach the ids *)
(* of zone 0 (a build with overflow checks panics instead).                *)
(***************************************************************************)
EXTENDS Watchpoints, SequencesExt

CONSTANT MaxAirZones    \* MAX_ZONES (16)

ASSUME AirAssumption == MaxAirZones \in Nat

VARIABLE air        \* how many zones were registered, and their watchpoints

\* ALERT_TYPES
AirAlertTypes == <<"co2_warning", "co2_critical", "pm25_warning", "pm25_critical",
                   "voc_warning", "voc_critical">>

\* Mutant: five ids are left between two zones.
AirWpIdOfFive(z, i) == ((IF z * 5 > U32Max THEN U32Max ELSE z * 5) + i - 1) % (U32Max + 1)

AirWpId(z, i) == ((IF z * 6 > U32Max THEN U32Max ELSE z * 6) + i - 1) % (U32Max + 1)

NewAir == [zone_count |-> 0, limits |-> <<>>]

\* A zone's six watchpoints; c.thresholds are in the order of AirAlertTypes.
WithLimits(table, c) ==
    LET limits[n \in 0 .. 6] ==
            IF n = 0 THEN table
            ELSE AddWatchpoint(limits[n - 1],
                     Watchpoint(AirWpId(c.zone_id, n), "GreaterOrEqual", c.thresholds[n]))
    IN  limits[6]

\* register_zone
RegisterAir(m, c) ==
    IF m.zone_count >= MaxAirZones THEN m
    ELSE [zone_count |-> m.zone_count + 1, limits |-> WithLimits(m.limits, c)]

\* The monitor after a call for each of cs in turn.
AirWith(cs) ==
    LET monitor[n \in 0 .. Len(cs)] ==
            IF n = 0 THEN NewAir ELSE RegisterAir(monitor[n - 1], cs[n])
    IN  monitor[Len(cs)]

-----------------------------------------------------------------------------
\* Mutant: two of the metrics are swapped.
ComparedSwapped(r) == <<r.co2, r.co2, r.voc, r.voc, r.pm25, r.pm25>>

\* Each metric is compared with its warning and with its critical threshold.
Compared(r) == <<r.co2, r.co2, r.pm25, r.pm25, r.voc, r.voc>>

\* process_reading: the alerts of a reading, a warning before its critical.
AirAlerts(z, r) ==
    LET alerts[n \in 0 .. 6] ==
            IF n = 0 THEN <<>>
            ELSE alerts[n - 1] \o AlertOnViolation(air.limits, AirWpId(z, n), Compared(r)[n],
                                                  z, AirAlertTypes[n])
    IN  alerts[6]

=============================================================================
