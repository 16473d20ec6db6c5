----------------------------- MODULE Dispatcher -----------------------------
(***************************************************************************)
(* The alert dispatcher of wohl-alert: every alert a monitor raises goes   *)
(* through AlertDispatcher::process_alert, which decides whether the home  *)
(* owner hears of it.  Three filters in order: the subscription table, the *)
(* (zone, type) cooldown kept in a bounded table of recent alerts, and a   *)
(* per-minute budget.                                                      *)
(*                                                                         *)
(* The module has the state of the struct and one action per return of     *)
(* process_alert, plus clear_expired, subscribe and unsubscribe.  Who      *)
(* calls them, and at which times, is left to the modules that extend it.  *)
(***************************************************************************)
EXTENDS Integers, Sequences, FiniteSets

CONSTANTS
    Zones,              \* zone ids alerts are raised for (u32)
    AlertTypes,         \* alert type codes (u8)
    ZoneSpan,           \* 2^24: zone ids that fit a subscription message id
    MaxSubscriptions,   \* capacity of relay-to's table (128)
    MaxRecent,          \* MAX_RECENT_ALERTS (64)
    Cooldown,           \* DEDUP_COOLDOWN_SEC (300)
    MinuteSec,          \* the literal 60 of process_alert
    MaxPerMinute,       \* MAX_ALERTS_PER_MINUTE (10)
    MaxTime             \* u64::MAX, where saturating_add stops

ASSUME DispatcherAssumption ==
    /\ Zones \subseteq Nat
    /\ ZoneSpan \in Nat \ {0}
    /\ MaxSubscriptions \in Nat
    /\ MaxRecent \in Nat
    /\ Cooldown \in Nat
    /\ MinuteSec \in Nat \ {0}
    /\ MaxPerMinute \in Nat
    /\ MaxTime \in Nat \ {0}

VARIABLES
    recent,         \* the first recent_count entries of the recent array
    minuteCount,    \* minute_count
    minuteStart,    \* minute_start
    subscriptions   \* message ids enabled in the subscription table

dispatcherVars == <<recent, minuteCount, minuteStart, subscriptions>>

(***************************************************************************)
(* An alert is told apart by its zone and type.  Timestamps stop short of  *)
(* MaxTime itself: only an entry stamped with u64::MAX fails to suppress   *)
(* its own repetition, so below it all entries of the table are distinct   *)
(* and the array is a set (its order decides nothing).                     *)
(***************************************************************************)
Key == [zone : Zones, type : AlertTypes]

Time == 0 .. MaxTime - 1

AlertEntry == [key : Key, time : Time]

\* u64::saturating_add
SatAdd(t, d) == IF t + d < MaxTime THEN t + d ELSE MaxTime

\* subscription_msg_id: 8 bits of type above 24 bits of zone.
MsgId(k) == <<k.type, k.zone % ZoneSpan>>

DispatcherInit ==
    /\ recent = {}
    /\ minuteCount = 0
    /\ minuteStart = 0
    /\ subscriptions = {}

-----------------------------------------------------------------------------
(***************************************************************************)
(* Subscriptions.  The table is relay-to's; the code here relies on        *)
(* subscribe failing without effect when the table is full, and on the     *)
(* message id being all the table knows of an alert.                       *)
(***************************************************************************)
IsSubscribed(k) == MsgId(k) \in subscriptions

\* The table after one call of subscribe: a full table is left as it is.
WithSubscription(table, k) ==
    IF MsgId(k) \in table \/ Cardinality(table) < MaxSubscriptions
    THEN table \cup {MsgId(k)}
    ELSE table

\* The table after a call for each of keys in turn.
SubscribedTo(keys) ==
    LET table[n \in 0 .. Len(keys)] ==
            IF n = 0 THEN {} ELSE WithSubscription(table[n - 1], keys[n])
    IN  table[Len(keys)]

Subscribe(k) ==
    /\ subscriptions' = WithSubscription(subscriptions, k)
    /\ UNCHANGED <<recent, minuteCount, minuteStart>>

Unsubscribe(k) ==
    /\ subscriptions' = subscriptions \ {MsgId(k)}
    /\ UNCHANGED <<recent, minuteCount, minuteStart>>

-----------------------------------------------------------------------------
(***************************************************************************)
(* process_alert(zone, type, time).                                        *)
(***************************************************************************)

\* The budget of the minute is renewed by the first alert after it.
NewMinute(t) == t >= SatAdd(minuteStart, MinuteSec)

MinuteStartAt(t) == IF NewMinute(t) THEN t ELSE minuteStart

\* Mutant: the count survives the minute.
MinuteCountKept(t) == minuteCount

MinuteCountAt(t) == IF NewMinute(t) THEN 0 ELSE minuteCount

\* Mutants: the cooldown ends a second early; an entry stamped later than the
\* alert is passed over.
DuplicateShort(k, t) ==
    \E e \in recent : e.key = k /\ t + 1 < SatAdd(e.time, Cooldown)
DuplicateElapsed(k, t) ==
    \E e \in recent : e.key = k /\ e.time <= t /\ t - e.time < Cooldown

Duplicate(k, t) ==
    \E e \in recent : e.key = k /\ t < SatAdd(e.time, Cooldown)

\* Mutant: the check on the length of the array is dropped.
RecordUnbounded(k, t) == recent \cup {[key |-> k, time |-> t]}

\* A full table records nothing: no entry is evicted.
Record(k, t) ==
    IF Cardinality(recent) < MaxRecent
    THEN recent \cup {[key |-> k, time |-> t]}
    ELSE recent

NotSubscribed(k, t) ==
    /\ ~ IsSubscribed(k)
    /\ UNCHANGED dispatcherVars

\* The minute is rolled over before the cooldown is looked at, so even an
\* alert that is then suppressed renews the budget.
RollMinute(t) ==
    /\ minuteStart' = MinuteStartAt(t)
    /\ minuteCount' = MinuteCountAt(t)

Deduplicated(k, t) ==
    /\ IsSubscribed(k)
    /\ Duplicate(k, t)
    /\ RollMinute(t)
    /\ UNCHANGED <<recent, subscriptions>>

\* Mutant: an alert over budget is recorded as if it had been sent.
RateLimitedRecording(k, t) ==
    /\ IsSubscribed(k)
    /\ ~ Duplicate(k, t)
    /\ MinuteCountAt(t) >= MaxPerMinute
    /\ RollMinute(t)
    /\ recent' = Record(k, t)
    /\ UNCHANGED subscriptions

RateLimited(k, t) ==
    /\ IsSubscribed(k)
    /\ ~ Duplicate(k, t)
    /\ MinuteCountAt(t) >= MaxPerMinute
    /\ RollMinute(t)
    /\ UNCHANGED <<recent, subscriptions>>

\* Mutant: an off-by-one in the budget test.
SendOneMore(k, t) ==
    /\ IsSubscribed(k)
    /\ ~ Duplicate(k, t)
    /\ MinuteCountAt(t) <= MaxPerMinute
    /\ recent' = Record(k, t)
    /\ minuteStart' = MinuteStartAt(t)
    /\ minuteCount' = MinuteCountAt(t) + 1
    /\ UNCHANGED subscriptions

Send(k, t) ==
    /\ IsSubscribed(k)
    /\ ~ Duplicate(k, t)
    /\ MinuteCountAt(t) < MaxPerMinute
    /\ recent' = Record(k, t)
    /\ minuteStart' = MinuteStartAt(t)
    /\ minuteCount' = MinuteCountAt(t) + 1
    /\ UNCHANGED subscriptions

-----------------------------------------------------------------------------
\* Mutant: the entry's own time is compared, not the end of its cooldown.
UnexpiredAtOnce(t) == {e \in recent : e.time >= t}

\* The entries clear_expired(t) keeps.
Unexpired(t) == {e \in recent : SatAdd(e.time, Cooldown) >= t}

ClearExpired(t) ==
    /\ recent' = Unexpired(t)
    /\ UNCHANGED <<minuteCount, minuteStart, subscriptions>>

-----------------------------------------------------------------------------
(***************************************************************************)
(* The bounds of the struct's fields.                                      *)
(***************************************************************************)
DispatcherTypeOK ==
    /\ recent \subseteq AlertEntry
    /\ IsFiniteSet(recent)
    /\ Cardinality(recent) <= MaxRecent
    /\ minuteCount \in 0 .. MaxPerMinute
    /\ minuteStart \in Time
    /\ subscriptions \subseteq (AlertTypes \X (0 .. ZoneSpan - 1))
    /\ IsFiniteSet(subscriptions)
    /\ Cardinality(subscriptions) <= MaxSubscriptions

=============================================================================
