--------------------------- MODULE GhostDispatcher ---------------------------
(***************************************************************************)
(* The dispatcher as proofs/verus/alert_dedup.rs specifies it: the filters *)
(* of process_alert behind the subscriptions, as functions of a state, an  *)
(* alert and a time.  Numbers are unbounded and nothing ever expires.      *)
(*                                                                         *)
(* The sequence of recent alerts is only searched, and an alert it has     *)
(* already is never pushed, so it is kept as a set.                        *)
(***************************************************************************)
EXTENDS Integers, FiniteSets

CONSTANTS
    Alerts,             \* pairs of a zone_id and an alert_type
    DedupCooldownSec,   \* DEDUP_COOLDOWN_SEC (300)
    MaxAlertsPerMinute, \* MAX_ALERTS_PER_MINUTE (10)
    MaxRecentAlerts,    \* MAX_RECENT_ALERTS (64)
    MinuteSec           \* MINUTE_SEC (60)

GhostEntry == [key : Alerts, time : Nat]

Ghost == [recent : SUBSET GhostEntry, minute_count : Nat, minute_start : Nat]

Empty == [recent |-> {}, minute_count |-> 0, minute_start |-> 0]

HasRoom(d) == Cardinality(d.recent) < MaxRecentAlerts

-----------------------------------------------------------------------------
EntryShadows(e, k, t) == e.key = k /\ t < e.time + DedupCooldownSec

WouldDedup(d, k, t) == \E e \in d.recent : EntryShadows(e, k, t)

AfterMinuteReset(d, t) ==
    IF t >= d.minute_start + MinuteSec
    THEN [recent |-> d.recent, minute_count |-> 0, minute_start |-> t] ELSE d

WouldRateLimit(d, t) == AfterMinuteReset(d, t).minute_count >= MaxAlertsPerMinute

\* What ghost_process_alert answers.
Answer(d, k, t) ==
    IF WouldDedup(AfterMinuteReset(d, t), k, t) THEN "Deduplicated"
    ELSE IF WouldRateLimit(d, t) THEN "RateLimited"
    ELSE "Send"

\* The state ghost_process_alert leaves.
Processed(d, k, t) ==
    LET d1 == AfterMinuteReset(d, t)
    IN  IF Answer(d, k, t) # "Send" THEN d1
        ELSE [recent |-> IF HasRoom(d1) THEN d1.recent \cup {[key |-> k, time |-> t]}
                         ELSE d1.recent,
              minute_count |-> d1.minute_count + 1,
              minute_start |-> d1.minute_start]

=============================================================================
