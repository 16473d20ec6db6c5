---------------------------- MODULE Watchpoints ----------------------------
(***************************************************************************)
(* The watchpoint table of relay-lc, which the temperature, air and power  *)
(* monitors leave their thresholds to.  The hub links the crate; each of   *)
(* the WASM components carries its source, and that is what is translated. *)
(*                                                                         *)
(* Every watchpoint of a monitor has persistence 1 and is enabled: one     *)
(* reading is enough, so the count of readings in a row decides nothing    *)
(* and is left out with the flag.                                          *)
(***************************************************************************)
EXTENDS Integers, Sequences, FiniteSets

CONSTANTS
    MaxWatchpoints,     \* MAX_WATCHPOINTS (128)
    MaxViolations,      \* MAX_VIOLATIONS_PER_CYCLE (32)
    U32Max              \* u32::MAX, the largest sensor id

ASSUME WatchpointsAssumption ==
    /\ MaxWatchpoints \in Nat
    /\ MaxViolations \in Nat \ {0}
    /\ U32Max \in Nat

Watchpoint(id, op, threshold) == [sensor_id |-> id, op |-> op, threshold |-> threshold]

\* Mutant: the limits themselves are within bounds.
CompareStrict(v, op, threshold) ==
    CASE op = "LessOrEqual" -> v < threshold
      [] op = "GreaterOrEqual" -> v > threshold
      [] op = "GreaterThan" -> v > threshold

Compare(v, op, threshold) ==
    CASE op = "LessOrEqual" -> v <= threshold
      [] op = "GreaterOrEqual" -> v >= threshold
      [] op = "GreaterThan" -> v > threshold

\* A full table is left as it is.
AddWatchpoint(table, w) ==
    IF Len(table) < MaxWatchpoints THEN Append(table, w) ELSE table

\* The positions of the watchpoints that a reading violates.
Violated(table, id, v) ==
    {i \in DOMAIN table :
        table[i].sensor_id = id /\ Compare(v, table[i].op, table[i].threshold)}

\* Those that are reported: the first MaxViolations.
Evaluate(table, id, v) ==
    {i \in Violated(table, id, v) :
        Cardinality({j \in Violated(table, id, v) : j < i}) < MaxViolations}

\* What a monitor makes of them: an alert with the threshold of the first.
AlertOnViolation(table, id, v, zone, type) ==
    LET found == Evaluate(table, id, v)
        first == CHOOSE i \in found : \A j \in found : i <= j
    IN  IF found = {} THEN <<>>
        ELSE <<[zone |-> zone, type |-> type, threshold |-> table[first].threshold]>>

=============================================================================
