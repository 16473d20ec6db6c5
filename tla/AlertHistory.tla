---------------------------- MODULE AlertHistory ----------------------------
(***************************************************************************)
(* What the dispatcher promises any caller: every alert of every monitor,  *)
(* reconfiguration and housekeeping in any order, at any times.            *)
(***************************************************************************)
EXTENDS Alerting

vars == alertingVars

Init == AlertingInit

Configure(k) ==
    /\ Subscribe(k) \/ Unsubscribe(k)
    /\ UNCHANGED historyVars

Next ==
    \/ \E k \in Key : Raise(k) \/ Configure(k)
    \/ HouseKeeping
    \/ ClockStep

Spec == Init /\ [][Next]_vars

-----------------------------------------------------------------------------
(***************************************************************************)
(* Properties.                                                             *)
(***************************************************************************)

\* Every field stays within its array and its type; in particular the table
\* never holds more than MaxRecent entries.
TypeOK == AlertingTypeOK

\* Two entries of the table for the same zone and type are a full cooldown
\* apart: process_alert never records an alert the table already suppresses.
\* Holds for any order of timestamps.
DedupSpacing ==
    \A e, f \in recent :
        (e.key = f.key /\ e # f) =>
            \/ f.time >= SatAdd(e.time, Cooldown)
            \/ e.time >= SatAdd(f.time, Cooldown)

\* With a clock that never goes back, an alert that was recorded is not sent
\* again for the same zone and type before its cooldown has passed, whatever
\* housekeeping, rate limiting and reconfiguration come in between.
NoRepeatWithinCooldown ==
    \A a, b \in delivered :
        (a.key = b.key /\ a.recorded /\ a.time < b.time) =>
            b.time >= SatAdd(a.time, Cooldown)

\* Suppression as a duplicate is always backed by an alert that really was
\* sent for the same zone and type, less than a cooldown before or stamped
\* later: a suppressed alert never prolongs the suppression.
DedupIsBacked ==
    result.action = "Deduplicated" =>
        \E d \in delivered :
            /\ d.recorded
            /\ d.key = result.key
            /\ result.time < SatAdd(d.time, Cooldown)

\* With a clock that never goes back, an alert is refused over budget only
\* when the whole budget was sent in the MinuteSec that end with it.
RateLimitIsBacked ==
    result.action = "RateLimited" =>
        SentBetween(result.time - MinuteSec + 1, result.time) >= MaxPerMinute

\* With a clock that never goes back, no MinuteSec hold more than two
\* budgets: the end of one minute and the start of the next.
SlidingRateBound ==
    \A t \in Time : SentBetween(t, t + MinuteSec - 1) <= 2 * MaxPerMinute

\* An entry clear_expired drops could not have suppressed any alert stamped
\* at or after the time it was dropped.
ForgottenEntriesAreDead ==
    [][\A e \in recent \ recent' :
           \A t \in Time : t >= now => t >= SatAdd(e.time, Cooldown)]_vars

=============================================================================
