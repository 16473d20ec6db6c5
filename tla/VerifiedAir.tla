----------------------------- MODULE VerifiedAir -----------------------------
(***************************************************************************)
(* The air quality monitor that Verus verifies (wohl-air/src/engine.rs).   *)
(* Of each metric a reading raises the critical alert or the warning, not  *)
(* both: AIR-P04, "Critical supersedes".                                   *)
(***************************************************************************)
EXTENDS Integers, Sequences

CONSTANTS
    Ids, Readings,          \* what a reading may hold
    Lists,                  \* lists of zones it may be started with
    MaxZones,               \* MAX_ZONES (16)
    MaxAlertsPerReading     \* 6

VARIABLES
    zones,      \* configs, up to zone_count
    alerts      \* alerts of the last reading its caller has still to take

Alert(z, type, threshold) == [zone |-> z, type |-> type, threshold |-> threshold]

Registered(table, c) == IF Len(table) >= MaxZones THEN table ELSE Append(table, c)

Started(cs) ==
    LET after[n \in 0 .. Len(cs)] == IF n = 0 THEN <<>> ELSE Registered(after[n - 1], cs[n])
    IN  after[Len(cs)]

Matching(z) == {i \in DOMAIN zones : zones[i].zone_id = z}
First(z) == CHOOSE i \in Matching(z) : \A j \in Matching(z) : i <= j

\* One metric; i is the place of its warning threshold.
Metric(z, c, v, i, warning, critical) ==
    IF v >= c.thresholds[i + 1] THEN <<Alert(z, critical, c.thresholds[i + 1])>>
    ELSE IF v >= c.thresholds[i] THEN <<Alert(z, warning, c.thresholds[i])>>
    ELSE <<>>

\* One alert per metric at most, so the result always has room.
AlertsOf(z, c, r) ==
    Metric(z, c, r.co2, 1, "co2_warning", "co2_critical")
    \o Metric(z, c, r.pm25, 3, "pm25_warning", "pm25_critical")
    \o Metric(z, c, r.voc, 5, "voc_warning", "voc_critical")

-----------------------------------------------------------------------------
Init == \E cs \in Lists : zones = Started(cs) /\ alerts = <<>>

Start == \E cs \in Lists : zones' = Started(cs) /\ alerts' = <<>>

ProcessReading(z, r) ==
    /\ alerts = <<>>
    /\ alerts' = IF Matching(z) = {} THEN <<>> ELSE AlertsOf(z, zones[First(z)], r)
    /\ UNCHANGED zones

TakeAlert == alerts # <<>> /\ alerts' = Tail(alerts) /\ UNCHANGED zones

Next ==
    \/ Start
    \/ \E z \in Ids, r \in Readings : ProcessReading(z, r)
    \/ TakeAlert

Spec == Init /\ [][Next]_<<zones, alerts>>

=============================================================================
