-------------------------- MODULE DispatcherCopies --------------------------
(***************************************************************************)
(* The dispatcher the hub links, in front of which AlertHistory puts any   *)
(* caller, against the three other sources of the same dispatcher in this  *)
(* repository: the one Verus verifies, the WASM component, and the ghost   *)
(* model whose theorems Verus proves.  None of them has subscriptions:     *)
(* what the table filters out never reaches them.                          *)
(***************************************************************************)
EXTENDS AlertHistory

CONSTANT WordSpan       \* 2^64, where the component's additions wrap

\* No clock comes within a period of the end of the word.
ASSUME WordAssumption ==
    WordSpan \in Nat /\ WordSpan > MaxTime + Cooldown /\ WordSpan > MaxTime + MinuteSec

\* An alert that is not subscribed has no answer of the filters behind.
Answer == IF result.action = "NotSubscribed" THEN None ELSE result

VerifiedDispatcher == INSTANCE VerifiedDispatcher WITH
    minute_count <- minuteCount, minute_start <- minuteStart, answer <- Answer,
    Alerts <- Key, Times <- Time, MaxRecentAlerts <- MaxRecent, DedupCooldown <- Cooldown,
    Minute <- MinuteSec, MaxAlertsPerMinute <- MaxPerMinute

DispatcherComponent == INSTANCE DispatcherComponent WITH
    table <- [recent |-> recent, minute_count |-> minuteCount, minute_start |-> minuteStart],
    answer <- Answer,
    Alerts <- Key, Times <- Time, MaxRecentAlerts <- MaxRecent, DedupCooldown <- Cooldown,
    Minute <- MinuteSec, MaxAlertsPerMinute <- MaxPerMinute

\* To every alert the owner subscribed to, the dispatcher answers as the
\* verified one would, saturating where that one adds, and keeps the same
\* table and budget, whatever subscriptions come and go.
DispatcherAsVerified == VerifiedDispatcher!Spec

\* Likewise for the component.
DispatcherAsComponent == DispatcherComponent!Spec

GhostDispatcher == INSTANCE GhostDispatcher WITH
    Alerts <- Key, DedupCooldownSec <- Cooldown, MaxAlertsPerMinute <- MaxPerMinute,
    MaxRecentAlerts <- MaxRecent, MinuteSec <- MinuteSec

\* The dispatcher's state, as a state of the ghost model.
AsGhost == [recent |-> recent, minute_count |-> minuteCount, minute_start |-> minuteStart]

\* "asserts the DispatchActions agree at every step" (alert_dedup.rs): whatever
\* came before, housekeeping and reconfiguration included, the answer to every
\* alert that is subscribed and the state it leaves are the ghost model's, with
\* a full table as well.
DispatcherAsGhost ==
    [][\A k \in Key :
           (Raise(k) /\ result'.action # "NotSubscribed") =>
               /\ result'.action = GhostDispatcher!Answer(AsGhost, k, now)
               /\ AsGhost' = GhostDispatcher!Processed(AsGhost, k, now)]_vars

=============================================================================
