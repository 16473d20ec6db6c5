------------------------------ MODULE Alerting ------------------------------
(***************************************************************************)
(* The dispatcher under a clock, with the history of what it sent: what    *)
(* WohlHub::try_dispatch offers the monitors of the hub.                   *)
(*                                                                         *)
(* The hub stamps an alert with the time of the event that raised it: the  *)
(* wall clock in CCSDS mode, the "time" field of the line in JSON mode.    *)
(* ClockGoesBack says whether that time may go back (a JSON feed replayed  *)
(* or merged out of order, a wall clock stepped by NTP).                   *)
(*                                                                         *)
(* delivered and sends are history: no action decides by them.             *)
(***************************************************************************)
EXTENDS Dispatcher

CONSTANT ClockGoesBack

ASSUME ClockAssumption == ClockGoesBack \in BOOLEAN

VARIABLES
    now,        \* time carried by the event being handled
    result,     \* what the last process_alert returned, to whom and when
    delivered,  \* the alerts sent, and whether the table could record them
    sends       \* every alert sent: when, and how many were sent then before it

historyVars == <<now, result, delivered, sends>>
alertingVars == <<dispatcherVars, historyVars>>

Action == {"Send", "Deduplicated", "RateLimited", "NotSubscribed"}
None == [action |-> "None"]
Result == [key : Key, time : Time, action : Action]
Delivery == [key : Key, time : Time, recorded : BOOLEAN]
Sending == [time : Time, nth : Nat]

\* How many alerts were sent at the times a .. b.
SentBetween(a, b) == Cardinality({s \in sends : a <= s.time /\ s.time <= b})

HistoryInit ==
    /\ now \in Time
    /\ result = None
    /\ delivered = {}
    /\ sends = {}

AlertingInit == DispatcherInit /\ HistoryInit

-----------------------------------------------------------------------------
Returns(k, a) == result' = [key |-> k, time |-> now, action |-> a]

RaiseUnsubscribed(k) ==
    /\ NotSubscribed(k, now)
    /\ Returns(k, "NotSubscribed")
    /\ UNCHANGED <<now, delivered, sends>>

RaiseDuplicate(k) ==
    /\ Deduplicated(k, now)
    /\ Returns(k, "Deduplicated")
    /\ UNCHANGED <<now, delivered, sends>>

RaiseOverBudget(k) ==
    /\ RateLimited(k, now)
    /\ Returns(k, "RateLimited")
    /\ UNCHANGED <<now, delivered, sends>>

RaiseSent(k) ==
    /\ Send(k, now)
    /\ Returns(k, "Send")
    /\ delivered' = delivered \cup
         {[key |-> k, time |-> now, recorded |-> Cardinality(recent) < MaxRecent]}
    /\ sends' = sends \cup {[time |-> now, nth |-> SentBetween(now, now)]}
    /\ UNCHANGED now

Raise(k) ==
    \/ RaiseUnsubscribed(k)
    \/ RaiseDuplicate(k)
    \/ RaiseOverBudget(k)
    \/ RaiseSent(k)

\* The hub runs clear_expired on every Tick event, with the event's time.
HouseKeeping == ClearExpired(now) /\ UNCHANGED historyVars

ClockStep ==
    /\ \E t \in Time : (t > now \/ ClockGoesBack) /\ now' = t
    /\ UNCHANGED <<dispatcherVars, result, delivered, sends>>

-----------------------------------------------------------------------------
AlertingTypeOK ==
    /\ DispatcherTypeOK
    /\ now \in Time
    /\ result \in Result \cup {None}
    /\ delivered \subseteq Delivery
    /\ sends \subseteq Sending
    /\ IsFiniteSet(sends)

=============================================================================
