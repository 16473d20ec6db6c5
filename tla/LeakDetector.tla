---------------------------- MODULE LeakDetector ----------------------------
(***************************************************************************)
(* The water leak monitor of wohl-leak: one wet flag per registered zone,  *)
(* set by the first wet reading and cleared by a dry one only.             *)
(*                                                                         *)
(* One action per value process_event returns.  The hub raises an alert    *)
(* for NewLeak and for nothing else.                                       *)
(***************************************************************************)
EXTENDS Integers, Sequences

CONSTANT MaxLeakZones   \* MAX_ZONES (32)

ASSUME LeakAssumption == MaxLeakZones \in Nat

VARIABLE leakZones      \* the first zone_count entries of the zones array

DryZone(z) == [zone_id |-> z, wet |-> FALSE, detected_at |-> 0]

\* Mutant: the check on the length of the array is dropped.
RegisteredZonesUnbounded(ids) == [i \in DOMAIN ids |-> DryZone(ids[i])]

\* The table after a call of register_zone for each of ids in turn.  A zone id
\* registered twice has two entries; calls on a full table are refused.
RegisteredZones(ids) ==
    [i \in {j \in DOMAIN ids : j <= MaxLeakZones} |-> DryZone(ids[i])]

\* The entry process_event works on: the first with the zone's id.
EntriesOf(z) == {i \in DOMAIN leakZones : leakZones[i].zone_id = z}
Known(z) == EntriesOf(z) # {}
EntryOf(z) == CHOOSE i \in EntriesOf(z) : \A j \in EntriesOf(z) : i <= j
Wet(z) == Known(z) /\ leakZones[EntryOf(z)].wet
DetectedAt(z) == leakZones[EntryOf(z)].detected_at

-----------------------------------------------------------------------------
\* Mutant: a wet reading of a wet zone is a leak again.
NewLeakAgain(z, t) ==
    /\ Known(z)
    /\ leakZones' = [leakZones EXCEPT ![EntryOf(z)].wet = TRUE,
                                      ![EntryOf(z)].detected_at = t]

NewLeak(z, t) ==
    /\ Known(z)
    /\ ~ Wet(z)
    /\ leakZones' = [leakZones EXCEPT ![EntryOf(z)].wet = TRUE,
                                      ![EntryOf(z)].detected_at = t]

AlreadyWet(z) ==
    /\ Wet(z)
    /\ UNCHANGED leakZones

Cleared(z) ==
    /\ Wet(z)
    /\ leakZones' = [leakZones EXCEPT ![EntryOf(z)].wet = FALSE]

AlreadyDry(z) ==
    /\ Known(z)
    /\ ~ Wet(z)
    /\ UNCHANGED leakZones

Unknown(z) ==
    /\ ~ Known(z)
    /\ UNCHANGED leakZones

=============================================================================
