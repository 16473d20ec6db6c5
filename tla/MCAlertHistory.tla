--------------------------- MODULE MCAlertHistory ---------------------------
(***************************************************************************)
(* Instances of DispatcherCopies for TLC: a handful of zones and of time   *)
(* units, with the three periods of the code in the same order of size     *)
(* (a minute is shorter than a cooldown).                                  *)
(***************************************************************************)
EXTENDS DispatcherCopies

\* Zone 5 shares its message id with zone 1 when ZoneSpan = 4.
MCZones == {1, 2, 5}
MCTwoZones == {1, 2}

=============================================================================
