---------------------------- MODULE VerifiedLeak ----------------------------
(***************************************************************************)
(* The leak monitor that Verus verifies (wohl-leak/src/engine.rs), as a    *)
(* function of its readings: LEAK-P01, P03 and P04.                        *)
(***************************************************************************)
EXTENDS Integers, Sequences

CONSTANTS
    Ids,            \* what a reading may hold
    Times,          \* what the clock may show
    Lists,          \* lists of zones it may be started with
    MaxZones        \* MAX_ZONES (32)

VARIABLES
    zones,      \* the zones, up to zone_count
    now         \* its caller's clock, by which readings are dated

Dry(z) == [zone_id |-> z, wet |-> FALSE, detected_at |-> 0]

Registered(table, z) == IF Len(table) >= MaxZones THEN table ELSE Append(table, Dry(z))

Started(zs) ==
    LET after[n \in 0 .. Len(zs)] == IF n = 0 THEN <<>> ELSE Registered(after[n - 1], zs[n])
    IN  after[Len(zs)]

Matching(z) == {i \in DOMAIN zones : zones[i].zone_id = z}
First(z) == CHOOSE i \in Matching(z) : \A j \in Matching(z) : i <= j

-----------------------------------------------------------------------------
Init == \E zs \in Lists : zones = Started(zs) /\ now \in Times

Start == \E zs \in Lists : zones' = Started(zs) /\ UNCHANGED now

\* Only the reading that makes a dry zone wet dates the leak.
ProcessEvent(z, wet) ==
    /\ Matching(z) # {}
    /\ UNCHANGED now
    /\ LET i == First(z)
           dated == IF wet /\ ~ zones[i].wet THEN now ELSE zones[i].detected_at
       IN  zones' = [zones EXCEPT ![i].wet = wet, ![i].detected_at = dated]

ClockMoves == now' \in Times /\ UNCHANGED zones

Next ==
    \/ Start
    \/ \E z \in Ids, wet \in BOOLEAN : ProcessEvent(z, wet)
    \/ ClockMoves

Spec == Init /\ [][Next]_<<zones, now>>

=============================================================================
