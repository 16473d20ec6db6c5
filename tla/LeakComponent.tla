---------------------------- MODULE LeakComponent ----------------------------
(***************************************************************************)
(* The WASM component of wohl-leak (wasm_component.rs): a detector of its  *)
(* own source in a static table, reset by the export init.                 *)
(***************************************************************************)
EXTENDS Integers, Sequences

CONSTANTS
    Ids,            \* what a reading may hold
    Times,          \* what the clock may show
    Lists,          \* lists of zones its host may register
    MaxZones        \* MAX_ZONES (32)

VARIABLES
    table,      \* TABLE: the zones, up to zone_count
    now         \* its host's clock, by which readings are dated

Dry(z) == [zone_id |-> z, wet |-> FALSE, detected_at |-> 0]

Registered(zones, z) == IF Len(zones) >= MaxZones THEN zones ELSE Append(zones, Dry(z))

Reset == <<>>

IsFirst(i, z) == table[i].zone_id = z /\ \A j \in 1 .. i - 1 : table[j].zone_id # z

-----------------------------------------------------------------------------
\* A host calls init, then register_zone for each of zs.
Starts(zs) ==
    LET after[n \in 0 .. Len(zs)] == IF n = 0 THEN Reset ELSE Registered(after[n - 1], zs[n])
    IN  after[Len(zs)]

Init == \E zs \in Lists : table = Starts(zs) /\ now \in Times

Start == \E zs \in Lists : table' = Starts(zs) /\ UNCHANGED now

WetReading(z) ==
    /\ UNCHANGED now
    /\ \E i \in DOMAIN table :
          /\ IsFirst(i, z)
          /\ ~ table[i].wet
          /\ table' = [table EXCEPT ![i].wet = TRUE, ![i].detected_at = now]

DryReading(z) ==
    /\ UNCHANGED now
    /\ \E i \in DOMAIN table :
          /\ IsFirst(i, z)
          /\ table[i].wet
          /\ table' = [table EXCEPT ![i].wet = FALSE]

ClockMoves == now' \in Times /\ UNCHANGED table

\* The other readings leave the table alone.
Next ==
    \/ Start
    \/ \E z \in Ids : WetReading(z) \/ DryReading(z)
    \/ ClockMoves

Spec == Init /\ [][Next]_<<table, now>>

=============================================================================
