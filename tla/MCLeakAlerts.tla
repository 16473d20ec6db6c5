---------------------------- MODULE MCLeakAlerts ----------------------------
(***************************************************************************)
(* An instance of LeakAlerts for TLC: two zones and one competing monitor. *)
(***************************************************************************)
EXTENDS LeakAlerts

MCZones == {1, 2}
MCConfigs == {[water |-> <<1, 2>>, keys |-> SetToSeq(Key)]}

=============================================================================
