------------------------- MODULE VerifiedDispatcher -------------------------
(***************************************************************************)
(* The dispatcher that Verus verifies (wohl-alert/src/engine.rs), for a    *)
(* caller that offers it any alert at any time and may forget an answer.   *)
(* It knows no subscriptions, and adds periods to timestamps where the     *)
(* dispatcher the hub links saturates.                                     *)
(***************************************************************************)
EXTENDS Integers, FiniteSets

CONSTANTS
    Alerts,             \* pairs of a zone_id and an alert_type
    Times,              \* what the caller's clock may show
    MaxRecentAlerts,    \* MAX_RECENT_ALERTS (64)
    DedupCooldown,      \* DEDUP_COOLDOWN_SEC (300)
    Minute,             \* the literal 60 of process_alert
    MaxAlertsPerMinute  \* MAX_ALERTS_PER_MINUTE (10)

VARIABLES
    recent, minute_count, minute_start,
    answer,     \* what the last process_alert returned, if its caller still has it
    now         \* its caller's clock

NoAnswer == [action |-> "None"]

\* A dispatcher just made by new.
New == recent = {} /\ minute_count = 0 /\ minute_start = 0

Init == New /\ answer = NoAnswer /\ now \in Times

-----------------------------------------------------------------------------
\* The minute the alert falls in, and what was sent in it.
Renews == now >= minute_start + Minute
Start == IF Renews THEN now ELSE minute_start
Sent == IF Renews THEN 0 ELSE minute_count

\* ALERT-P01 and P02.
Decision(k) ==
    IF \E e \in recent : e.key = k /\ now < e.time + DedupCooldown THEN "Deduplicated"
    ELSE IF Sent >= MaxAlertsPerMinute THEN "RateLimited"
    ELSE "Send"

\* ALERT-P03.
Noted(k) ==
    IF Cardinality(recent) < MaxRecentAlerts
    THEN recent \cup {[key |-> k, time |-> now]} ELSE recent

ProcessAlert(k) ==
    /\ answer' = [key |-> k, time |-> now, action |-> Decision(k)]
    /\ minute_start' = Start
    /\ minute_count' = IF Decision(k) = "Send" THEN Sent + 1 ELSE Sent
    /\ recent' = IF Decision(k) = "Send" THEN Noted(k) ELSE recent
    /\ UNCHANGED now

ClearExpired ==
    /\ recent' = {e \in recent : e.time + DedupCooldown >= now}
    /\ UNCHANGED <<minute_count, minute_start, answer, now>>

Forget == answer' = NoAnswer /\ UNCHANGED <<recent, minute_count, minute_start, now>>

ClockMoves == now' \in Times /\ UNCHANGED <<recent, minute_count, minute_start, answer>>

Next ==
    \/ \E k \in Alerts : ProcessAlert(k)
    \/ ClearExpired
    \/ Forget
    \/ ClockMoves

Spec == Init /\ [][Next]_<<recent, minute_count, minute_start, answer, now>>

=============================================================================
