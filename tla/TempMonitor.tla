---------------------------- MODULE TempMonitor ----------------------------
(***************************************************************************)
(* The temperature monitor of wohl-temp, as the hub links it: freeze and   *)
(* overheat are watchpoints of relay-lc, rapid changes are told from the   *)
(* last reading of the zone.                                               *)
(*                                                                         *)
(* The two watchpoints of a zone have the ids 2z and 2z + 1.  Zone ids     *)
(* come from the configuration and from the readings, unchecked; the ids   *)
(* saturate, so zones from half the range of a u32 on share one.           *)
(***************************************************************************)
EXTENDS Watchpoints, SequencesExt

CONSTANTS
    MaxTempZones,   \* MAX_ZONES (32)
    I32Min,         \* i32::MIN
    I32Max          \* i32::MAX

ASSUME TempAssumption ==
    /\ MaxTempZones \in Nat
    /\ I32Min \in Int
    /\ I32Max \in Nat

VARIABLE temp       \* the zones with their last reading, and the watchpoints

SatU32(n) == IF n > U32Max THEN U32Max ELSE n
SatI32(n) == IF n > I32Max THEN I32Max ELSE IF n < I32Min THEN I32Min ELSE n

\* Mutant: the zone id is not doubled.
FreezeWpIdPlain(z) == SatU32(z)

FreezeWpId(z) == SatU32(z * 2)
OverheatWpId(z) == SatU32(SatU32(z * 2) + 1)

NewTemp == [zones |-> <<>>, limits |-> <<>>]

\* A configured zone without a reading: last_time is 0.
TempZone(c) == [zone_id |-> c.zone_id, freeze |-> c.freeze, overheat |-> c.overheat,
                rate |-> c.rate, last_value |-> 0, last_time |-> 0]

\* Mutant: the zone table has no limit.
RegisterTempUnbounded(m, c) ==
    [zones |-> Append(m.zones, TempZone(c)),
     limits |->
       AddWatchpoint(
         AddWatchpoint(m.limits, Watchpoint(FreezeWpId(c.zone_id), "LessOrEqual", c.freeze)),
         Watchpoint(OverheatWpId(c.zone_id), "GreaterOrEqual", c.overheat))]

\* register_zone
RegisterTemp(m, c) ==
    IF Len(m.zones) >= MaxTempZones THEN m
    ELSE [zones |-> Append(m.zones, TempZone(c)),
          limits |->
            AddWatchpoint(
              AddWatchpoint(m.limits, Watchpoint(FreezeWpId(c.zone_id), "LessOrEqual", c.freeze)),
              Watchpoint(OverheatWpId(c.zone_id), "GreaterOrEqual", c.overheat))]

\* The monitor after a call for each of cs in turn.
TempWith(cs) ==
    LET monitor[n \in 0 .. Len(cs)] ==
            IF n = 0 THEN NewTemp ELSE RegisterTemp(monitor[n - 1], cs[n])
    IN  monitor[Len(cs)]

-----------------------------------------------------------------------------
(***************************************************************************)
(* process_reading(z, v, t).                                               *)
(***************************************************************************)
TempEntries(z) == {i \in DOMAIN temp.zones : temp.zones[i].zone_id = z}
TempEntry(z) == CHOOSE i \in TempEntries(z) : \A j \in TempEntries(z) : i <= j

TempAlert(z, type, threshold) == [zone |-> z, type |-> type, threshold |-> threshold]

RateAlert(z, change, type) ==
    LET e == temp.zones[TempEntry(z)]
    IN  IF e.last_time > 0 /\ SatI32(change) > e.rate
        THEN <<TempAlert(z, type, e.rate)>> ELSE <<>>

\* The zone's last value is compared with the reading, both ways.
RateAlerts(z, v) ==
    IF TempEntries(z) = {} THEN <<>>
    ELSE LET last == temp.zones[TempEntry(z)].last_value
         IN  RateAlert(z, last - v, "rapid_drop") \o RateAlert(z, v - last, "rapid_rise")

\* The alerts of a reading, in order; they are never more than the four the
\* result has room for.
TempAlerts(z, v) ==
    AlertOnViolation(temp.limits, FreezeWpId(z), v, z, "freeze")
    \o AlertOnViolation(temp.limits, OverheatWpId(z), v, z, "overheat")
    \o RateAlerts(z, v)

\* Mutant: the time of the reading is not kept.
KeepValueOnly(z, v, t) ==
    temp' = IF TempEntries(z) = {} THEN temp
            ELSE [temp EXCEPT !.zones[TempEntry(z)].last_value = v]

KeepReading(z, v, t) ==
    temp' = IF TempEntries(z) = {} THEN temp
            ELSE [temp EXCEPT !.zones[TempEntry(z)].last_value = v,
                              !.zones[TempEntry(z)].last_time = t]

=============================================================================
