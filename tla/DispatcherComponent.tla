------------------------- MODULE DispatcherComponent -------------------------
(***************************************************************************)
(* The WASM component of wohl-alert (wasm_component.rs): a dispatcher of   *)
(* its own source in a static table, without the subscriptions of the one  *)
(* the hub links, and with the additions of a release build, which wrap.   *)
(***************************************************************************)
EXTENDS Integers, FiniteSets

CONSTANTS
    Alerts,             \* pairs of a zone_id and an alert_type
    Times,              \* what the host's clock may show
    WordSpan,           \* 2^64
    MaxRecentAlerts, DedupCooldown, Minute, MaxAlertsPerMinute

VARIABLES
    table,      \* TABLE: recent, minute_count and minute_start
    answer,     \* what process_alert last returned, if its host still has it
    now         \* its host's clock

Plus(t, d) == (t + d) % WordSpan

Reset == [recent |-> {}, minute_count |-> 0, minute_start |-> 0]

NoAnswer == [action |-> "None"]

Init == table = Reset /\ answer = NoAnswer /\ now \in Times

-----------------------------------------------------------------------------
\* The table once the minute was looked at.
Rolled ==
    IF now >= Plus(table.minute_start, Minute)
    THEN [table EXCEPT !.minute_count = 0, !.minute_start = now] ELSE table

Suppressed(k) ==
    \E e \in table.recent : e.key = k /\ now < Plus(e.time, DedupCooldown)

Spent == Rolled.minute_count >= MaxAlertsPerMinute

Returns(k, action) == answer' = [key |-> k, time |-> now, action |-> action] /\ UNCHANGED now

Deduplicate(k) ==
    /\ Suppressed(k)
    /\ table' = Rolled
    /\ Returns(k, "Deduplicated")

RateLimit(k) ==
    /\ ~ Suppressed(k) /\ Spent
    /\ table' = Rolled
    /\ Returns(k, "RateLimited")

SendOn(k) ==
    /\ ~ Suppressed(k) /\ ~ Spent
    /\ table' = [recent |-> IF Cardinality(table.recent) < MaxRecentAlerts
                            THEN table.recent \cup {[key |-> k, time |-> now]}
                            ELSE table.recent,
                 minute_count |-> Rolled.minute_count + 1,
                 minute_start |-> Rolled.minute_start]
    /\ Returns(k, "Send")

ClearExpired ==
    /\ table' = [table EXCEPT !.recent = {e \in @ : Plus(e.time, DedupCooldown) >= now}]
    /\ UNCHANGED <<answer, now>>

Forget == answer' = NoAnswer /\ UNCHANGED <<table, now>>

ClockMoves == now' \in Times /\ UNCHANGED <<table, answer>>

\* The host calls the export init.
InitExport == table' = Reset /\ UNCHANGED <<answer, now>>

Next ==
    \/ \E k \in Alerts : Deduplicate(k) \/ RateLimit(k) \/ SendOn(k)
    \/ ClearExpired
    \/ Forget
    \/ ClockMoves
    \/ InitExport

Spec == Init /\ [][Next]_<<table, answer, now>>

=============================================================================
