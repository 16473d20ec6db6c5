------------------------ MODULE AlertHistory_proofs ------------------------
(***************************************************************************)
(* What the dispatcher guarantees for every table size, cooldown, budget   *)
(* and set of zones.  Type correctness comes first, then one inductive     *)
(* invariant that ties the table to the history of sends.                  *)
(*                                                                         *)
(* The last part shows that the dispatcher the hub links implements the    *)
(* verified one and the WASM component, step by step.  All that has to be  *)
(* seen is that saturating, plain and wrapping additions decide every      *)
(* comparison alike.                                                       *)
(***************************************************************************)
EXTENDS DispatcherCopies, Alerting_proofs

LEMMA TypeInit == Init => TypeOK
  BY AlertingTypeInit DEF Init, TypeOK

LEMMA ConfigureType ==
    ASSUME TypeOK, NEW k \in Key, Configure(k)
    PROVE  TypeOK'
<1> USE DEF TypeOK, AlertingTypeOK, DispatcherTypeOK
<1>1. CASE Subscribe(k) /\ UNCHANGED historyVars
  <2>1. CASE subscriptions' = subscriptions
    BY <1>1, <2>1 DEF Subscribe, historyVars
  <2>2. CASE /\ subscriptions' = subscriptions \cup {MsgId(k)}
             /\ MsgId(k) \notin subscriptions
             /\ Cardinality(subscriptions) < MaxSubscriptions
    <3>1. MsgId(k) \in AlertTypes \X (0 .. ZoneSpan - 1)
      BY MsgIdType
    <3>2. /\ IsFiniteSet(subscriptions')
          /\ Cardinality(subscriptions') = Cardinality(subscriptions) + 1
          /\ Cardinality(subscriptions) \in Nat
      BY <2>2, FS_AddElement, FS_CardinalityType
    <3>3. Cardinality(subscriptions') <= MaxSubscriptions
      BY <2>2, <3>2, DispatcherAssumption
    <3>4. QED
      BY <1>1, <2>2, <3>1, <3>2, <3>3 DEF Subscribe, historyVars
  <2>3. QED
    BY <1>1, <2>1, <2>2 DEF Subscribe, WithSubscription
<1>2. CASE Unsubscribe(k) /\ UNCHANGED historyVars
  <2>1. /\ IsFiniteSet(subscriptions')
        /\ Cardinality(subscriptions') <= Cardinality(subscriptions)
        /\ Cardinality(subscriptions') \in Nat
        /\ Cardinality(subscriptions) \in Nat
    BY <1>2, FS_Subset, FS_CardinalityType DEF Unsubscribe
  <2>2. Cardinality(subscriptions') <= MaxSubscriptions
    BY <2>1, DispatcherAssumption
  <2>3. QED
    BY <1>2, <2>1, <2>2 DEF Unsubscribe, historyVars
<1>3. QED
  BY <1>1, <1>2 DEF Configure

LEMMA TypeNext == TypeOK /\ [Next]_vars => TypeOK'
<1> SUFFICES ASSUME TypeOK, [Next]_vars PROVE TypeOK'
  OBVIOUS
<1>1. CASE \E k \in Key : Raise(k)
  BY <1>1, RaiseType DEF TypeOK, AlertingTypeOK
<1>2. CASE \E k \in Key : Configure(k)
  BY <1>2, ConfigureType
<1>3. CASE HouseKeeping
  BY <1>3, HouseKeepingType DEF TypeOK, AlertingTypeOK
<1>4. CASE ClockStep
  BY <1>4 DEF ClockStep, dispatcherVars, TypeOK, AlertingTypeOK, DispatcherTypeOK
<1>5. CASE UNCHANGED vars
  BY <1>5 DEF vars, alertingVars, dispatcherVars, historyVars, TypeOK, AlertingTypeOK, DispatcherTypeOK
<1>6. QED
  BY <1>1, <1>2, <1>3, <1>4, <1>5 DEF Next

\* Every field of the dispatcher keeps its type, and the table and the
\* subscriptions never outgrow their arrays.
THEOREM TypeCorrect == Spec => []TypeOK
  BY TypeInit, TypeNext, PTL DEF Spec

-----------------------------------------------------------------------------
(***************************************************************************)
(* The table against the history.                                          *)
(***************************************************************************)

Sent(e) == [key |-> e.key, time |-> e.time, recorded |-> TRUE]

\* Every entry of the table stands for an alert that was sent.
RecentWasSent == \A e \in recent : Sent(e) \in delivered

BackedInv == RecentWasSent /\ DedupIsBacked

\* Nothing was sent in the future, and a recorded alert leaves the table only
\* once its cooldown has passed.
RecordedUntilExpired ==
    \A d \in delivered :
        /\ d.time <= now
        /\ d.recorded => \/ [key |-> d.key, time |-> d.time] \in recent
                         \/ now >= SatAdd(d.time, Cooldown)

RepeatInv == RecordedUntilExpired /\ NoRepeatWithinCooldown

-----------------------------------------------------------------------------
\* Entries of one key are a cooldown apart, in any order of timestamps.
THEOREM SpacingHolds == Spec => []DedupSpacing
<1>1. Init => DedupSpacing
  BY DEF Init, AlertingInit, HistoryInit, DispatcherInit, DedupSpacing
<1>2. TypeOK /\ DedupSpacing /\ [Next]_vars => DedupSpacing'
  <2> SUFFICES ASSUME TypeOK, DedupSpacing, [Next]_vars
               PROVE  DedupSpacing'
    OBVIOUS
  <2>1. CASE recent' \subseteq recent
    BY <2>1 DEF DedupSpacing
  <2>2. ASSUME NEW k \in Key, RaiseSent(k)
        PROVE  DedupSpacing'
    <3> DEFINE new == [key |-> k, time |-> now]
    <3>1. recent' \subseteq recent \cup {new}
      BY <2>2 DEF RaiseSent, Send, Record
    <3>2. \A e \in recent : e.key = k => now >= SatAdd(e.time, Cooldown)
      <4> SUFFICES ASSUME NEW e \in recent, e.key = k
                   PROVE  now >= SatAdd(e.time, Cooldown)
        OBVIOUS
      <4>1. ~ (now < SatAdd(e.time, Cooldown))
        BY <2>2 DEF RaiseSent, Send, Duplicate
      <4>2. e.time \in Time /\ now \in Time
        BY DEF TypeOK, AlertingTypeOK, DispatcherTypeOK, AlertEntry
      <4>3. SatAdd(e.time, Cooldown) \in Nat
        BY <4>2, SatAddBounds, DispatcherAssumption
      <4>4. QED
        BY <4>1, <4>2, <4>3 DEF Time
    <3>3. new.key = k /\ new.time = now
      OBVIOUS
    <3> SUFFICES ASSUME NEW e \in recent', NEW f \in recent', e.key = f.key, e # f
                 PROVE  \/ f.time >= SatAdd(e.time, Cooldown)
                        \/ e.time >= SatAdd(f.time, Cooldown)
      BY DEF DedupSpacing
    <3> HIDE DEF new
    <3>4. CASE e \in recent /\ f \in recent
      BY <3>4 DEF DedupSpacing
    <3>5. CASE e \in recent /\ f = new
      BY <3>2, <3>3, <3>5
    <3>6. CASE e = new /\ f \in recent
      BY <3>2, <3>3, <3>6
    <3>7. QED
      BY <3>1, <3>4, <3>5, <3>6
  <2>3. ASSUME NEW k \in Key, Raise(k), ~ RaiseSent(k)
        PROVE  recent' = recent
    BY <2>3 DEF Raise, RaiseUnsubscribed, NotSubscribed, dispatcherVars,
                RaiseDuplicate, Deduplicated, RaiseOverBudget, RateLimited
  <2>4. ASSUME NEW k \in Key, Configure(k)
        PROVE  recent' = recent
    BY <2>4 DEF Configure, Subscribe, Unsubscribe, dispatcherVars
  <2>5. HouseKeeping => recent' \subseteq recent
    BY DEF HouseKeeping, ClearExpired, Unexpired
  <2>6. ClockStep \/ UNCHANGED vars => recent' = recent
    BY DEF ClockStep, vars, alertingVars, dispatcherVars
  <2>7. QED
    BY <2>1, <2>2, <2>3, <2>4, <2>5, <2>6 DEF Next
<1>3. QED
  BY <1>1, <1>2, TypeCorrect, PTL DEF Spec

-----------------------------------------------------------------------------
\* An alert is suppressed as a duplicate only of one that was sent.
THEOREM BackedHolds == Spec => []DedupIsBacked
<1>1. Init => BackedInv
  BY DEF Init, AlertingInit, HistoryInit, DispatcherInit, BackedInv, RecentWasSent, DedupIsBacked, None
<1>2. TypeOK /\ BackedInv /\ [Next]_vars => BackedInv'
  <2> SUFFICES ASSUME TypeOK, BackedInv, [Next]_vars
               PROVE  BackedInv'
    OBVIOUS
  <2> USE DEF BackedInv
  <2>1. ASSUME NEW k \in Key, RaiseSent(k)
        PROVE  BackedInv'
    <3>1. RecentWasSent'
      <4>1. recent' \subseteq recent \/ Cardinality(recent) < MaxRecent
        BY <2>1 DEF RaiseSent, Send, Record
      <4>2. CASE recent' \subseteq recent
        BY <4>2, <2>1 DEF RecentWasSent, RaiseSent, Sent
      <4>3. CASE Cardinality(recent) < MaxRecent
        <5>1. recent' = recent \cup {[key |-> k, time |-> now]}
          BY <2>1, <4>3 DEF RaiseSent, Send, Record
        <5>2. delivered' =
                delivered \cup {[key |-> k, time |-> now, recorded |-> TRUE]}
          BY <2>1, <4>3 DEF RaiseSent
        <5>3. \A e \in recent : Sent(e) \in delivered'
          BY <5>2 DEF RecentWasSent
        <5>4. Sent([key |-> k, time |-> now]) \in delivered'
          BY <5>2 DEF Sent
        <5>5. QED
          BY <5>1, <5>3, <5>4 DEF RecentWasSent, Sent
      <4>4. QED
        BY <4>1, <4>2, <4>3
    <3>2. DedupIsBacked'
      BY <2>1 DEF RaiseSent, Returns, DedupIsBacked
    <3>3. QED
      BY <3>1, <3>2
  <2>2. ASSUME NEW k \in Key, RaiseDuplicate(k)
        PROVE  BackedInv'
    <3>1. UNCHANGED <<recent, delivered>>
      BY <2>2 DEF RaiseDuplicate, Deduplicated
    <3>2. RecentWasSent'
      BY <3>1 DEF RecentWasSent, Sent
    <3>3. PICK e \in recent : e.key = k /\ now < SatAdd(e.time, Cooldown)
      BY <2>2 DEF RaiseDuplicate, Deduplicated, Duplicate
    <3>4. Sent(e) \in delivered'
      BY <3>1, <3>3 DEF RecentWasSent
    <3>5. result' = [key |-> k, time |-> now, action |-> "Deduplicated"]
      BY <2>2 DEF RaiseDuplicate, Returns
    <3>6. /\ Sent(e).recorded
          /\ Sent(e).key = result'.key
          /\ result'.time < SatAdd(Sent(e).time, Cooldown)
      BY <3>3, <3>5 DEF Sent
    <3>7. DedupIsBacked'
      BY <3>4, <3>6 DEF DedupIsBacked, SatAdd
    <3>8. QED
      BY <3>2, <3>7
  <2>3. ASSUME NEW k \in Key, RaiseUnsubscribed(k) \/ RaiseOverBudget(k)
        PROVE  BackedInv'
    <3>1. UNCHANGED <<recent, delivered>>
      BY <2>3 DEF RaiseUnsubscribed, NotSubscribed, dispatcherVars,
                  RaiseOverBudget, RateLimited
    <3>2. result'.action # "Deduplicated"
      BY <2>3 DEF RaiseUnsubscribed, RaiseOverBudget, Returns
    <3>3. QED
      BY <3>1, <3>2 DEF RecentWasSent, Sent, DedupIsBacked
  <2>4. CASE recent' \subseteq recent /\ UNCHANGED <<delivered, result>>
    BY <2>4 DEF RecentWasSent, Sent, DedupIsBacked
  <2>5. ASSUME NEW k \in Key, Configure(k)
        PROVE  recent' \subseteq recent /\ UNCHANGED <<delivered, result>>
    BY <2>5 DEF Configure, Subscribe, Unsubscribe, dispatcherVars,
                historyVars
  <2>6. HouseKeeping => recent' \subseteq recent /\ UNCHANGED <<delivered, result>>
    BY DEF HouseKeeping, ClearExpired, Unexpired, historyVars
  <2>7. ClockStep \/ UNCHANGED vars =>
            recent' \subseteq recent /\ UNCHANGED <<delivered, result>>
    BY DEF ClockStep, vars, alertingVars, dispatcherVars, historyVars
  <2>8. QED
    BY <2>1, <2>2, <2>3, <2>4, <2>5, <2>6, <2>7 DEF Next, Raise
<1>3. QED
  BY <1>1, <1>2, TypeCorrect, PTL DEF Spec, BackedInv

-----------------------------------------------------------------------------
\* With a clock that never goes back, no recorded alert is repeated within its
\* cooldown.  The table forgets nothing that still matters: that is what
\* RecordedUntilExpired says, and process_alert then cannot miss a duplicate.
THEOREM NoRepeatHolds ==
    ASSUME ~ ClockGoesBack
    PROVE  Spec => []NoRepeatWithinCooldown
<1>1. Init => RepeatInv
  BY DEF Init, AlertingInit, HistoryInit, DispatcherInit, RepeatInv, RecordedUntilExpired, NoRepeatWithinCooldown
<1>2. TypeOK /\ RepeatInv /\ [Next]_vars => RepeatInv'
  <2> SUFFICES ASSUME TypeOK, RepeatInv, [Next]_vars
               PROVE  RepeatInv'
    OBVIOUS
  <2> USE DEF RepeatInv
  <2>0. /\ now \in Time
        /\ \A d \in delivered : d.time \in Time /\ SatAdd(d.time, Cooldown) \in Nat
        /\ \A e \in recent : e.time \in Time /\ SatAdd(e.time, Cooldown) \in Nat
    <3>1. /\ now \in Time
          /\ \A d \in delivered : d.time \in Time
          /\ \A e \in recent : e.time \in Time
      BY DEF TypeOK, AlertingTypeOK, DispatcherTypeOK, Delivery, AlertEntry
    <3>2. QED
      BY <3>1, SatAddBounds, DispatcherAssumption
  <2>1. ASSUME NEW k \in Key, RaiseSent(k)
        PROVE  RepeatInv'
    <3> DEFINE room == Cardinality(recent) < MaxRecent
               new == [key |-> k, time |-> now, recorded |-> room]
    <3>1. delivered' = delivered \cup {new} /\ now' = now
      BY <2>1 DEF RaiseSent
    <3>2. recent \subseteq recent'
      BY <2>1 DEF RaiseSent, Send, Record
    <3>3. room => [key |-> k, time |-> now] \in recent'
      BY <2>1 DEF RaiseSent, Send, Record
    <3>4. new.key = k /\ new.time = now /\ new.recorded = room
      OBVIOUS
    <3> HIDE DEF new, room
    <3>5. RecordedUntilExpired'
      <4> SUFFICES ASSUME NEW d \in delivered'
                   PROVE  /\ d.time <= now'
                          /\ d.recorded => \/ [key |-> d.key, time |-> d.time] \in recent'
                                           \/ now' >= SatAdd(d.time, Cooldown)
        BY DEF RecordedUntilExpired, SatAdd
      <4>1. CASE d \in delivered
        BY <4>1, <3>1, <3>2 DEF RecordedUntilExpired
      <4>2. CASE d = new
        BY <4>2, <3>1, <3>3, <3>4, <2>0 DEF Time
      <4>3. QED
        BY <3>1, <4>1, <4>2
    <3>6. \A a \in delivered : a.key = k /\ a.recorded =>
              now >= SatAdd(a.time, Cooldown)
      <4> SUFFICES ASSUME NEW a \in delivered, a.key = k, a.recorded
                   PROVE  now >= SatAdd(a.time, Cooldown)
        OBVIOUS
      <4>1. CASE [key |-> a.key, time |-> a.time] \in recent
        <5>1. ~ (now < SatAdd(a.time, Cooldown))
          BY <4>1, <2>1 DEF RaiseSent, Send, Duplicate
        <5>2. QED
          BY <5>1, <2>0 DEF Time
      <4>2. QED
        BY <4>1 DEF RecordedUntilExpired
    <3>7. NoRepeatWithinCooldown'
      <4> SUFFICES ASSUME NEW a \in delivered', NEW b \in delivered',
                          a.key = b.key, a.recorded, a.time < b.time
                   PROVE  b.time >= SatAdd(a.time, Cooldown)
        BY DEF NoRepeatWithinCooldown, SatAdd
      <4>1. CASE a \in delivered /\ b \in delivered
        BY <4>1 DEF NoRepeatWithinCooldown
      <4>2. CASE a \in delivered /\ b = new
        BY <4>2, <3>4, <3>6
      <4>3. CASE a = new
        <5>1. b.time <= now
          BY <3>1, <3>5 DEF RecordedUntilExpired
        <5>2. b.time \in Time
          BY <3>1, <3>4, <2>0
        <5>3. QED
          BY <4>3, <5>1, <5>2, <3>4, <2>0 DEF Time
      <4>4. QED
        BY <3>1, <4>1, <4>2, <4>3
    <3>8. QED
      BY <3>5, <3>7
  <2>2. ASSUME NEW k \in Key, Raise(k), ~ RaiseSent(k)
        PROVE  UNCHANGED <<recent, delivered, now>>
    BY <2>2 DEF Raise, RaiseUnsubscribed, NotSubscribed, dispatcherVars,
                RaiseDuplicate, Deduplicated, RaiseOverBudget, RateLimited
  <2>3. ASSUME NEW k \in Key, Configure(k)
        PROVE  UNCHANGED <<recent, delivered, now>>
    BY <2>3 DEF Configure, Subscribe, Unsubscribe, dispatcherVars,
                historyVars
  <2>4. CASE UNCHANGED <<recent, delivered, now>>
    BY <2>4 DEF RecordedUntilExpired, NoRepeatWithinCooldown, SatAdd
  <2>5. CASE HouseKeeping
    <3>1. UNCHANGED <<delivered, now>>
      BY <2>5 DEF HouseKeeping, historyVars
    <3>2. \A e \in recent : e \in recent' \/ now >= SatAdd(e.time, Cooldown)
      <4>1. \A e \in recent : ~ (SatAdd(e.time, Cooldown) >= now) =>
                now >= SatAdd(e.time, Cooldown)
        BY <2>0 DEF Time
      <4>2. QED
        BY <4>1, <2>5 DEF HouseKeeping, ClearExpired, Unexpired
    <3>3. RecordedUntilExpired'
      <4> SUFFICES ASSUME NEW d \in delivered
                   PROVE  /\ d.time <= now
                          /\ d.recorded => \/ [key |-> d.key, time |-> d.time] \in recent'
                                           \/ now >= SatAdd(d.time, Cooldown)
        BY <3>1 DEF RecordedUntilExpired, SatAdd
      <4> DEFINE e == [key |-> d.key, time |-> d.time]
      <4>1. e \in recent => e \in recent' \/ now >= SatAdd(d.time, Cooldown)
        BY <3>2
      <4>2. QED
        BY <4>1 DEF RecordedUntilExpired
    <3>4. QED
      BY <3>1, <3>3 DEF NoRepeatWithinCooldown, SatAdd
  <2>6. CASE ClockStep
    <3>1. now' \in Time /\ now' > now /\ UNCHANGED <<recent, delivered>>
      BY <2>6 DEF ClockStep, dispatcherVars
    <3>2. RecordedUntilExpired'
      <4> SUFFICES ASSUME NEW d \in delivered
                   PROVE  /\ d.time <= now'
                          /\ d.recorded => \/ [key |-> d.key, time |-> d.time] \in recent
                                           \/ now' >= SatAdd(d.time, Cooldown)
        BY <3>1 DEF RecordedUntilExpired, SatAdd
      <4>1. d.time <= now
        BY DEF RecordedUntilExpired
      <4>2. d.recorded => \/ [key |-> d.key, time |-> d.time] \in recent
                          \/ now >= SatAdd(d.time, Cooldown)
        BY DEF RecordedUntilExpired
      <4>3. QED
        BY <4>1, <4>2, <3>1, <2>0 DEF Time
    <3>3. QED
      BY <3>1, <3>2 DEF NoRepeatWithinCooldown, SatAdd
  <2>7. UNCHANGED vars => UNCHANGED <<recent, delivered, now>>
    BY DEF vars, alertingVars, dispatcherVars, historyVars
  <2>8. QED
    BY <2>1, <2>2, <2>3, <2>4, <2>5, <2>6, <2>7 DEF Next
<1>3. QED
  BY <1>1, <1>2, TypeCorrect, PTL DEF Spec, RepeatInv

-----------------------------------------------------------------------------
(***************************************************************************)
(* The budget.  BudgetInv (Alerting_proofs) says what the current minute   *)
(* holds; the minute before it has to be remembered as well, for a window  *)
(* that reaches back into it.                                              *)
(***************************************************************************)
LastMinuteBounded ==
    SentBetween(minuteStart - MinuteSec + 1, minuteStart - 1) <= MaxPerMinute

SlidingInv == BudgetInv /\ LastMinuteBounded /\ SlidingRateBound

\* Steps that neither send nor touch the minute.
BudgetFrame == UNCHANGED <<sends, minuteStart, minuteCount>>

LEMMA OtherStepsFrame ==
    ASSUME [Next]_vars, ~ \E k \in Key : Raise(k)
    PROVE  /\ BudgetFrame
           /\ UNCHANGED result
           /\ ~ ClockStep => UNCHANGED now
<1> USE DEF BudgetFrame
<1>1. ASSUME NEW k \in Key, Configure(k)
      PROVE  BudgetFrame /\ UNCHANGED <<result, now>>
  BY <1>1 DEF Configure, Subscribe, Unsubscribe, historyVars
<1>2. HouseKeeping => BudgetFrame /\ UNCHANGED <<result, now>>
  BY DEF HouseKeeping, ClearExpired, historyVars
<1>3. ClockStep => BudgetFrame /\ UNCHANGED result
  BY DEF ClockStep, dispatcherVars
<1>4. UNCHANGED vars => BudgetFrame /\ UNCHANGED <<result, now>>
  BY DEF vars, alertingVars, dispatcherVars, historyVars
<1>5. QED
  BY <1>1, <1>2, <1>3, <1>4 DEF Next

LEMMA BudgetInit == Init => BudgetInv
  BY FreshBudget DEF Init, AlertingInit, HistoryInit, DispatcherInit

LEMMA BudgetNext ==
    ASSUME ~ ClockGoesBack, TypeOK, BudgetInv, [Next]_vars
    PROVE  BudgetInv'
<1>1. CASE \E k \in Key : Raise(k)
  BY <1>1, RaiseBudget DEF TypeOK
<1>2. CASE ClockStep
  BY <1>2, ClockBudget DEF TypeOK
<1>3. CASE (~ \E k \in Key : Raise(k)) /\ ~ ClockStep
  BY <1>3, OtherStepsFrame DEF BudgetFrame, BudgetInv, SendsNumbered, SentBetween, SatAdd
<1>4. QED
  BY <1>1, <1>2, <1>3

\* With a clock that never goes back, an alert is refused over budget only when
\* the whole budget was sent in the MinuteSec that end with it.
THEOREM BudgetBackedHolds ==
    ASSUME ~ ClockGoesBack
    PROVE  Spec => []RateLimitIsBacked
<1>1. Init => RateLimitIsBacked
  BY DEF Init, AlertingInit, HistoryInit, RateLimitIsBacked, None
<1>2. TypeOK /\ BudgetInv /\ RateLimitIsBacked /\ [Next]_vars => RateLimitIsBacked'
  <2> SUFFICES ASSUME TypeOK, BudgetInv, RateLimitIsBacked, [Next]_vars
               PROVE  RateLimitIsBacked'
    OBVIOUS
  <2>1. ASSUME NEW k \in Key, RaiseOverBudget(k)
        PROVE  RateLimitIsBacked'
    <3>1. SentBetween(now - MinuteSec + 1, now) >= MaxPerMinute
      BY <2>1, OverBudgetBacked DEF TypeOK
    <3>2. result'.time = now /\ sends' = sends
      BY <2>1 DEF RaiseOverBudget, Returns
    <3>3. QED
      BY <3>1, <3>2 DEF RateLimitIsBacked, SentBetween
  <2>2. ASSUME NEW k \in Key, Raise(k), ~ RaiseOverBudget(k)
        PROVE  result'.action # "RateLimited"
    BY <2>2 DEF Raise, RaiseUnsubscribed, RaiseDuplicate, RaiseSent, Returns
  <2>3. CASE ~ \E k \in Key : Raise(k)
    BY <2>3, OtherStepsFrame DEF BudgetFrame, RateLimitIsBacked, SentBetween
  <2>4. QED
    BY <2>1, <2>2, <2>3 DEF RateLimitIsBacked
<1>3. TypeOK /\ BudgetInv /\ [Next]_vars => BudgetInv'
  BY BudgetNext
<1>4. QED
  BY <1>1, <1>2, <1>3, BudgetInit, TypeCorrect, PTL DEF Spec

-----------------------------------------------------------------------------
\* What was sent in the minute before the one an alert falls in.
LEMMA LastMinuteAt ==
    ASSUME TypeOK, BudgetInv, LastMinuteBounded
    PROVE  SentBetween(MinuteStartAt(now) - MinuteSec + 1, MinuteStartAt(now) - 1) <= MaxPerMinute
<1>1. CASE NewMinute(now)
  <2>1. /\ now \in Nat /\ minuteStart \in Nat /\ minuteStart + MinuteSec <= now
        /\ MinuteSec \in Nat /\ MaxPerMinute \in Nat
        /\ minuteCount \in 0 .. MaxPerMinute
    BY <1>1, DispatcherAssumption
       DEF NewMinute, SatAdd, TypeOK, AlertingTypeOK, DispatcherTypeOK, Time
  <2>2. /\ SentBetween(now - MinuteSec + 1, now - 1) \in Nat
        /\ SentBetween(now - MinuteSec + 1, now - 1) <= SentBetween(minuteStart, now)
    BY <2>1, SentBetweenGrows DEF TypeOK
  <2>3. SentBetween(minuteStart, now) = minuteCount
    BY DEF BudgetInv
  <2>4. QED
    BY <1>1, <2>1, <2>2, <2>3 DEF MinuteStartAt
<1>2. CASE ~ NewMinute(now)
  BY <1>2 DEF MinuteStartAt, LastMinuteBounded
<1>3. QED
  BY <1>1, <1>2

\* A window around now has room for one more while the minute has.
LEMMA WindowHasRoom ==
    ASSUME TypeOK, BudgetInv, LastMinuteBounded, NEW t \in Time,
           t <= now, now <= t + MinuteSec - 1, MinuteCountAt(now) < MaxPerMinute
    PROVE  SentBetween(t, t + MinuteSec - 1) + 1 <= 2 * MaxPerMinute
<1>1. PICK m \in Nat : m = MinuteStartAt(now)
  BY MinuteAt DEF TypeOK, Time
<1>2. /\ m <= now /\ SentBetween(m, now) = MinuteCountAt(now)
      /\ SentBetween(m - MinuteSec + 1, m - 1) <= MaxPerMinute
      /\ MinuteSec \in Nat /\ MaxPerMinute \in Nat /\ now \in Nat /\ t \in Nat
      /\ \A s \in sends : s.time <= now /\ s.time \in Nat
  BY <1>1, MinuteAt, LastMinuteAt, DispatcherAssumption
     DEF TypeOK, AlertingTypeOK, Sending, BudgetInv, Time
<1> DEFINE S(a, b) == {s \in sends : a <= s.time /\ s.time <= b}
           W == S(t, t + MinuteSec - 1)
           A == S(m - MinuteSec + 1, m - 1)
           B == S(m, now)
<1>3. /\ IsFiniteSet(A) /\ IsFiniteSet(B) /\ IsFiniteSet(W)
      /\ Cardinality(A) \in Nat /\ Cardinality(B) \in Nat /\ Cardinality(W) \in Nat
  <2>1. A \in SUBSET sends /\ B \in SUBSET sends /\ W \in SUBSET sends /\ IsFiniteSet(sends)
    BY DEF TypeOK, AlertingTypeOK
  <2> HIDE DEF A, B, W
  <2>2. QED
    BY <2>1, FS_Subset, FS_CardinalityType
<1>4. W \subseteq A \cup B
  BY <1>2
<1>5. Cardinality(A) <= MaxPerMinute /\ Cardinality(B) < MaxPerMinute
  BY <1>2 DEF SentBetween
<1>6. SentBetween(t, t + MinuteSec - 1) = Cardinality(W)
  BY DEF SentBetween
<1> HIDE DEF A, B, W
<1>7. /\ IsFiniteSet(A \cup B)
      /\ Cardinality(A \cup B) = Cardinality(A) + Cardinality(B) - Cardinality(A \cap B)
      /\ Cardinality(A \cap B) \in Nat
  BY <1>3, FS_Union, FS_Intersection, FS_CardinalityType
<1>8. Cardinality(W) <= Cardinality(A \cup B)
  BY <1>4, <1>7, FS_Subset
<1>9. QED
  BY <1>2, <1>3, <1>5, <1>6, <1>7, <1>8

LEMMA RaiseSliding ==
    ASSUME TypeOK, SlidingInv, NEW k \in Key, Raise(k)
    PROVE  LastMinuteBounded' /\ SlidingRateBound'
<1> USE DEF SlidingInv
<1>1. CASE RaiseUnsubscribed(k)
  BY <1>1 DEF RaiseUnsubscribed, NotSubscribed, dispatcherVars, LastMinuteBounded,
              SlidingRateBound, SentBetween
<1>2. CASE RaiseDuplicate(k) \/ RaiseOverBudget(k)
  <2>1. sends' = sends /\ minuteStart' = MinuteStartAt(now)
    BY <1>2 DEF RaiseDuplicate, Deduplicated, RaiseOverBudget, RateLimited, RollMinute
  <2>2. QED
    BY <2>1, LastMinuteAt DEF LastMinuteBounded, SlidingRateBound, SentBetween
<1>3. CASE RaiseSent(k)
  <2>1. minuteStart' = MinuteStartAt(now) /\ MinuteCountAt(now) < MaxPerMinute
    BY <1>3 DEF RaiseSent, Send
  <2>2. \A a, b \in Int :
            SentBetween(a, b)' = IF a <= now /\ now <= b THEN SentBetween(a, b) + 1
                                 ELSE SentBetween(a, b)
    BY <1>3, OneMoreSent DEF BudgetInv, TypeOK
  <2>3. LastMinuteBounded'
    <3>1. PICK m \in Nat : m = MinuteStartAt(now)
      BY MinuteAt DEF TypeOK, Time
    <3>2. m <= now /\ now \in Nat /\ MinuteSec \in Nat
      BY <3>1, MinuteAt, DispatcherAssumption DEF TypeOK, AlertingTypeOK, Time
    <3>3. PICK a \in Int, b \in Int : a = m - MinuteSec + 1 /\ b = m - 1
      BY <3>2
    <3>4. SentBetween(a, b)' = SentBetween(a, b)
      BY <2>2, <3>2, <3>3
    <3>5. SentBetween(a, b) <= MaxPerMinute
      BY <3>1, <3>3, LastMinuteAt
    <3>6. a = minuteStart' - MinuteSec + 1 /\ b = minuteStart' - 1
      BY <2>1, <3>1, <3>3
    <3>7. QED
      BY <3>4, <3>5, <3>6 DEF LastMinuteBounded, SentBetween
  <2>4. ASSUME NEW t \in Time
        PROVE  SentBetween(t, t + MinuteSec - 1)' <= 2 * MaxPerMinute
    <3>1. t \in Int /\ t + MinuteSec - 1 \in Int
      BY DispatcherAssumption DEF Time
    <3>2. SentBetween(t, t + MinuteSec - 1) <= 2 * MaxPerMinute
      BY DEF SlidingRateBound
    <3>3. CASE t <= now /\ now <= t + MinuteSec - 1
      BY <2>1, <2>2, <3>1, <3>3, WindowHasRoom
    <3>4. CASE ~ (t <= now /\ now <= t + MinuteSec - 1)
      BY <2>2, <3>1, <3>2, <3>4
    <3>5. QED
      BY <3>3, <3>4
  <2>5. QED
    BY <2>3, <2>4 DEF SlidingRateBound, Time
<1>4. QED
  BY <1>1, <1>2, <1>3 DEF Raise

\* With a clock that never goes back, no MinuteSec hold more than two budgets.
THEOREM SlidingBoundHolds ==
    ASSUME ~ ClockGoesBack
    PROVE  Spec => []SlidingRateBound
<1>1. Init => SlidingInv
  <2> SUFFICES ASSUME Init PROVE SlidingInv
    OBVIOUS
  <2>1. \A a, b : SentBetween(a, b) = 0
    <3>1. sends = {}
      BY DEF Init, AlertingInit, HistoryInit
    <3>2. \A a, b : {s \in sends : a <= s.time /\ s.time <= b} = {}
      BY <3>1
    <3>3. QED
      BY <3>2, FS_EmptySet DEF SentBetween
  <2>2. QED
    BY <2>1, BudgetInit, DispatcherAssumption DEF SlidingInv, LastMinuteBounded, SlidingRateBound
<1>2. TypeOK /\ SlidingInv /\ [Next]_vars => SlidingInv'
  <2> SUFFICES ASSUME TypeOK, SlidingInv, [Next]_vars
               PROVE  LastMinuteBounded' /\ SlidingRateBound'
    BY BudgetNext DEF SlidingInv
  <2>1. CASE \E k \in Key : Raise(k)
    BY <2>1, RaiseSliding
  <2>2. CASE ~ \E k \in Key : Raise(k)
    BY <2>2, OtherStepsFrame
       DEF BudgetFrame, SlidingInv, LastMinuteBounded, SlidingRateBound, SentBetween
  <2>3. QED
    BY <2>1, <2>2
<1>3. SlidingInv => SlidingRateBound
  BY DEF SlidingInv
<1>4. QED
  BY <1>1, <1>2, <1>3, TypeCorrect, PTL DEF Spec

-----------------------------------------------------------------------------
\* What clear_expired drops could not have suppressed an alert any more.  Holds
\* for any order of timestamps.
THEOREM ForgottenHolds == Spec => ForgottenEntriesAreDead
<1> DEFINE Dead == \A e \in recent \ recent' :
                       \A t \in Time : t >= now => t >= SatAdd(e.time, Cooldown)
<1>1. TypeOK /\ [Next]_vars => [Dead]_vars
  <2> SUFFICES ASSUME TypeOK, [Next]_vars, NEW e \in recent, e \notin recent',
                      NEW t \in Time, t >= now
               PROVE  t >= SatAdd(e.time, Cooldown)
    OBVIOUS
  <2>1. ASSUME NEW k \in Key, Raise(k)
        PROVE  recent \subseteq recent'
    BY <2>1 DEF Raise, RaiseUnsubscribed, NotSubscribed, dispatcherVars, RaiseDuplicate,
                Deduplicated, RaiseOverBudget, RateLimited, RaiseSent, Send, Record
  <2>2. ASSUME NEW k \in Key, Configure(k)
        PROVE  recent' = recent
    BY <2>2 DEF Configure, Subscribe, Unsubscribe
  <2>3. ClockStep \/ UNCHANGED vars => recent' = recent
    BY DEF ClockStep, vars, alertingVars, dispatcherVars
  <2>4. CASE HouseKeeping
    <3>1. /\ now \in Nat /\ t \in Nat /\ e.time \in Time /\ Cooldown \in Nat
      BY DispatcherAssumption
         DEF TypeOK, AlertingTypeOK, DispatcherTypeOK, AlertEntry, Time
    <3>2. SatAdd(e.time, Cooldown) \in Nat
      BY <3>1, SatAddBounds
    <3>3. ~ (SatAdd(e.time, Cooldown) >= now)
      BY <2>4 DEF HouseKeeping, ClearExpired, Unexpired
    <3>4. QED
      BY <3>1, <3>2, <3>3
  <2>5. QED
    BY <2>1, <2>2, <2>3, <2>4 DEF Next
<1>2. QED
  BY <1>1, TypeCorrect, PTL DEF Spec, ForgottenEntriesAreDead

-----------------------------------------------------------------------------
(***************************************************************************)
(* The dispatcher against its copies.                                      *)
(***************************************************************************)
\* A saturated sum compares with a time as the sum itself does.
LEMMA SatAddDecides ==
    ASSUME NEW s \in Time, NEW t \in Time, NEW d \in Nat
    PROVE  /\ t >= SatAdd(s, d) <=> t >= s + d
           /\ t < SatAdd(s, d) <=> t < s + d
           /\ SatAdd(s, d) >= t <=> s + d >= t
  BY DispatcherAssumption DEF SatAdd, Time

\* The component's sums do not wrap.
LEMMA NothingWraps ==
    ASSUME NEW s \in Time
    PROVE  /\ DispatcherComponent!Plus(s, Cooldown) = s + Cooldown
           /\ DispatcherComponent!Plus(s, MinuteSec) = s + MinuteSec
<1>1. /\ s + Cooldown \in 0 .. WordSpan - 1
      /\ s + MinuteSec \in 0 .. WordSpan - 1
  BY DispatcherAssumption, WordAssumption DEF Time
<1>2. \A n \in 0 .. WordSpan - 1 : n % WordSpan = n
  BY WordAssumption
<1>3. QED
  BY <1>1, <1>2 DEF DispatcherComponent!Plus

\* An instance has a Cardinality of its own; it is the same.
LEMMA CardinalityOfCopies ==
    ASSUME NEW S
    PROVE  /\ VerifiedDispatcher!Cardinality(S) = Cardinality(S)
           /\ DispatcherComponent!Cardinality(S) = Cardinality(S)
  BY DEF VerifiedDispatcher!Cardinality, DispatcherComponent!Cardinality, Cardinality

LEMMA Times ==
    ASSUME TypeOK
    PROVE  /\ now \in Time /\ minuteStart \in Time
           /\ \A e \in recent : e.time \in Time
           /\ Cooldown \in Nat /\ MinuteSec \in Nat
  BY DispatcherAssumption DEF TypeOK, AlertingTypeOK, DispatcherTypeOK, AlertEntry

-----------------------------------------------------------------------------
(***************************************************************************)
(* The verified dispatcher.                                                *)
(***************************************************************************)
LEMMA VerifiedMinute ==
    ASSUME TypeOK
    PROVE  /\ VerifiedDispatcher!Start = MinuteStartAt(now)
           /\ VerifiedDispatcher!Sent = MinuteCountAt(now)
<1>1. VerifiedDispatcher!Renews <=> NewMinute(now)
  BY Times, SatAddDecides DEF VerifiedDispatcher!Renews, NewMinute
<1>2. QED
  BY <1>1 DEF VerifiedDispatcher!Start, VerifiedDispatcher!Sent, MinuteStartAt, MinuteCountAt

LEMMA VerifiedDecision ==
    ASSUME TypeOK, NEW k \in Key
    PROVE  VerifiedDispatcher!Decision(k) =
             IF Duplicate(k, now) THEN "Deduplicated"
             ELSE IF MinuteCountAt(now) >= MaxPerMinute THEN "RateLimited" ELSE "Send"
<1>1. Duplicate(k, now) <=> \E e \in recent : e.key = k /\ now < e.time + Cooldown
  BY Times, SatAddDecides DEF Duplicate
<1>2. QED
  BY <1>1, VerifiedMinute DEF VerifiedDispatcher!Decision

LEMMA RaiseAsVerified ==
    ASSUME TypeOK, NEW k \in Key, Raise(k)
    PROVE  VerifiedDispatcher!ProcessAlert(k) \/ VerifiedDispatcher!Forget
<1> USE VerifiedMinute, VerifiedDecision DEF VerifiedDispatcher!ProcessAlert
<1>1. CASE RaiseUnsubscribed(k)
  <2>1. Answer' = None /\ UNCHANGED <<recent, minuteCount, minuteStart, now>>
    BY <1>1 DEF RaiseUnsubscribed, NotSubscribed, dispatcherVars, Returns, Answer
  <2>2. QED
    BY <2>1 DEF VerifiedDispatcher!Forget, VerifiedDispatcher!NoAnswer, None
<1>2. CASE RaiseDuplicate(k)
  <2>1. Answer' = [key |-> k, time |-> now, action |-> "Deduplicated"]
    BY <1>2 DEF RaiseDuplicate, Returns, Answer
  <2>2. QED
    BY <1>2, <2>1 DEF RaiseDuplicate, Deduplicated, RollMinute
<1>3. CASE RaiseOverBudget(k)
  <2>1. Answer' = [key |-> k, time |-> now, action |-> "RateLimited"]
    BY <1>3 DEF RaiseOverBudget, Returns, Answer
  <2>2. QED
    BY <1>3, <2>1 DEF RaiseOverBudget, RateLimited, RollMinute
<1>4. CASE RaiseSent(k)
  <2>1. Answer' = [key |-> k, time |-> now, action |-> "Send"]
    BY <1>4 DEF RaiseSent, Returns, Answer
  <2>2. VerifiedDispatcher!Decision(k) = "Send"
    BY <1>4, DispatcherAssumption
    DEF RaiseSent, Send, TypeOK, AlertingTypeOK, DispatcherTypeOK, MinuteCountAt
  <2>3. /\ recent' = VerifiedDispatcher!Noted(k)
        /\ minuteStart' = MinuteStartAt(now) /\ minuteCount' = MinuteCountAt(now) + 1
        /\ now' = now
    <3>1. VerifiedDispatcher!Noted(k) = Record(k, now)
      BY CardinalityOfCopies DEF Record, VerifiedDispatcher!Noted
    <3>2. QED
      BY <1>4, <3>1 DEF RaiseSent, Send
  <2>4. QED
    BY <2>1, <2>2, <2>3
<1>5. QED
  BY <1>1, <1>2, <1>3, <1>4 DEF Raise

\* Whatever the capacities and periods, and however the clock moves: to every
\* alert that is subscribed the dispatcher answers as the verified one.
THEOREM ImplementsVerified == Spec => DispatcherAsVerified
<1>1. Init => VerifiedDispatcher!Init
  BY DEF Init, AlertingInit, DispatcherInit, HistoryInit, VerifiedDispatcher!Init,
         VerifiedDispatcher!New, VerifiedDispatcher!NoAnswer, Answer, None
<1>2. TypeOK /\ [Next]_vars =>
        [VerifiedDispatcher!Next]_<<recent, minuteCount, minuteStart, Answer, now>>
  <2> SUFFICES ASSUME TypeOK, [Next]_vars
               PROVE  \/ VerifiedDispatcher!Next
                      \/ UNCHANGED <<recent, minuteCount, minuteStart, Answer, now>>
    OBVIOUS
  <2>1. ASSUME NEW k \in Key, Raise(k) PROVE VerifiedDispatcher!Next
    BY <2>1, RaiseAsVerified DEF VerifiedDispatcher!Next
  <2>2. ASSUME NEW k \in Key, Configure(k)
        PROVE  UNCHANGED <<recent, minuteCount, minuteStart, Answer, now>>
    BY <2>2 DEF Configure, Subscribe, Unsubscribe, historyVars, Answer
  <2>3. CASE HouseKeeping
    <3>1. Unexpired(now) = {e \in recent : e.time + Cooldown >= now}
      BY Times, SatAddDecides DEF Unexpired
    <3>2. VerifiedDispatcher!ClearExpired
      BY <2>3, <3>1 DEF HouseKeeping, ClearExpired, historyVars, Answer,
                        VerifiedDispatcher!ClearExpired
    <3>3. QED
      BY <3>2 DEF VerifiedDispatcher!Next
  <2>4. CASE ClockStep
    <3>1. VerifiedDispatcher!ClockMoves
      BY <2>4 DEF ClockStep, dispatcherVars, Answer, VerifiedDispatcher!ClockMoves
    <3>2. QED
      BY <3>1 DEF VerifiedDispatcher!Next
  <2>5. CASE UNCHANGED vars
    BY <2>5 DEF vars, alertingVars, dispatcherVars, historyVars, Answer
  <2>6. QED
    BY <2>1, <2>2, <2>3, <2>4, <2>5 DEF Next
<1>3. QED
  BY <1>1, <1>2, TypeCorrect, PTL DEF Spec, DispatcherAsVerified, VerifiedDispatcher!Spec

-----------------------------------------------------------------------------
(***************************************************************************)
(* The component.                                                          *)
(***************************************************************************)
Table == [recent |-> recent, minute_count |-> minuteCount, minute_start |-> minuteStart]

LEMMA ComponentMinute ==
    ASSUME TypeOK
    PROVE  DispatcherComponent!Rolled =
             [recent |-> recent, minute_count |-> MinuteCountAt(now),
              minute_start |-> MinuteStartAt(now)]
<1>1. NewMinute(now) <=> now >= DispatcherComponent!Plus(minuteStart, MinuteSec)
  BY Times, SatAddDecides, NothingWraps DEF NewMinute
<1>2. QED
  BY <1>1 DEF DispatcherComponent!Rolled, MinuteCountAt, MinuteStartAt

LEMMA ComponentFilters ==
    ASSUME TypeOK, NEW k \in Key
    PROVE  /\ DispatcherComponent!Suppressed(k) <=> Duplicate(k, now)
           /\ DispatcherComponent!Spent <=> MinuteCountAt(now) >= MaxPerMinute
<1>1. \A e \in recent : now < DispatcherComponent!Plus(e.time, Cooldown)
                        <=> now < SatAdd(e.time, Cooldown)
  BY Times, SatAddDecides, NothingWraps
<1>2. DispatcherComponent!Suppressed(k) <=> Duplicate(k, now)
  BY <1>1 DEF DispatcherComponent!Suppressed, Duplicate
<1>3. QED
  BY <1>2, ComponentMinute DEF DispatcherComponent!Spent

LEMMA RaiseAsComponent ==
    ASSUME TypeOK, NEW k \in Key, Raise(k)
    PROVE  \/ DispatcherComponent!Deduplicate(k) \/ DispatcherComponent!RateLimit(k)
           \/ DispatcherComponent!SendOn(k) \/ DispatcherComponent!Forget
<1> USE ComponentMinute, ComponentFilters
<1>1. CASE RaiseUnsubscribed(k)
  <2>1. Answer' = None /\ UNCHANGED <<recent, minuteCount, minuteStart, now>>
    BY <1>1 DEF RaiseUnsubscribed, NotSubscribed, dispatcherVars, Returns, Answer
  <2>2. QED
    BY <2>1 DEF DispatcherComponent!Forget, DispatcherComponent!NoAnswer, None
<1>2. CASE RaiseDuplicate(k)
  <2>1. Answer' = [key |-> k, time |-> now, action |-> "Deduplicated"]
    BY <1>2 DEF RaiseDuplicate, Returns, Answer
  <2>2. DispatcherComponent!Deduplicate(k)
    BY <1>2, <2>1 DEF RaiseDuplicate, Deduplicated, RollMinute,
                      DispatcherComponent!Deduplicate, DispatcherComponent!Returns
  <2>3. QED
    BY <2>2
<1>3. CASE RaiseOverBudget(k)
  <2>1. Answer' = [key |-> k, time |-> now, action |-> "RateLimited"]
    BY <1>3 DEF RaiseOverBudget, Returns, Answer
  <2>2. DispatcherComponent!RateLimit(k)
    BY <1>3, <2>1 DEF RaiseOverBudget, RateLimited, RollMinute,
                      DispatcherComponent!RateLimit, DispatcherComponent!Returns
  <2>3. QED
    BY <2>2
<1>4. CASE RaiseSent(k)
  <2>1. Answer' = [key |-> k, time |-> now, action |-> "Send"]
    BY <1>4 DEF RaiseSent, Returns, Answer
  <2>2. ~ Duplicate(k, now) /\ ~ (MinuteCountAt(now) >= MaxPerMinute)
    BY <1>4, DispatcherAssumption
    DEF RaiseSent, Send, TypeOK, AlertingTypeOK, DispatcherTypeOK, MinuteCountAt
  <2>3. /\ recent' = Record(k, now)
        /\ minuteStart' = MinuteStartAt(now) /\ minuteCount' = MinuteCountAt(now) + 1
        /\ now' = now
    BY <1>4 DEF RaiseSent, Send
  <2>4. DispatcherComponent!SendOn(k)
    <3>1. Table' = [recent |-> Record(k, now), minute_count |-> MinuteCountAt(now) + 1,
                    minute_start |-> MinuteStartAt(now)]
      BY <2>3 DEF Table
    <3>2. Record(k, now) = IF DispatcherComponent!Cardinality(recent) < MaxRecent
                           THEN recent \cup {[key |-> k, time |-> now]} ELSE recent
      BY CardinalityOfCopies DEF Record
    <3>3. /\ DispatcherComponent!Rolled.minute_count = MinuteCountAt(now)
          /\ DispatcherComponent!Rolled.minute_start = MinuteStartAt(now)
      OBVIOUS
    <3>4. QED
      BY <2>1, <2>2, <2>3, <3>1, <3>2, <3>3
      DEF Table, DispatcherComponent!SendOn, DispatcherComponent!Returns
  <2>5. QED
    BY <2>4
<1>5. QED
  BY <1>1, <1>2, <1>3, <1>4 DEF Raise

\* The same of the component, for clocks that stay a period away from the end
\* of the word.
THEOREM ImplementsComponent == Spec => DispatcherAsComponent
<1>1. Init => DispatcherComponent!Init
  BY DEF Init, AlertingInit, DispatcherInit, HistoryInit, DispatcherComponent!Init,
         DispatcherComponent!Reset, DispatcherComponent!NoAnswer, Answer, None
<1>2. TypeOK /\ [Next]_vars => [DispatcherComponent!Next]_<<Table, Answer, now>>
  <2> SUFFICES ASSUME TypeOK, [Next]_vars
               PROVE  DispatcherComponent!Next \/ UNCHANGED <<Table, Answer, now>>
    OBVIOUS
  <2>1. ASSUME NEW k \in Key, Raise(k) PROVE DispatcherComponent!Next
    BY <2>1, RaiseAsComponent DEF DispatcherComponent!Next
  <2>2. ASSUME NEW k \in Key, Configure(k) PROVE UNCHANGED <<Table, Answer, now>>
    BY <2>2 DEF Configure, Subscribe, Unsubscribe, historyVars, Answer, Table
  <2>3. CASE HouseKeeping
    <3>1. \A e \in recent : DispatcherComponent!Plus(e.time, Cooldown) >= now
                            <=> SatAdd(e.time, Cooldown) >= now
      BY Times, SatAddDecides, NothingWraps
    <3>2. Unexpired(now) = {e \in recent : DispatcherComponent!Plus(e.time, Cooldown) >= now}
      BY <3>1 DEF Unexpired
    <3>3. DispatcherComponent!ClearExpired
      BY <2>3, <3>2 DEF HouseKeeping, ClearExpired, historyVars, Answer,
                        DispatcherComponent!ClearExpired
    <3>4. QED
      BY <3>3 DEF DispatcherComponent!Next
  <2>4. CASE ClockStep
    <3>1. DispatcherComponent!ClockMoves
      BY <2>4 DEF ClockStep, dispatcherVars, Answer, DispatcherComponent!ClockMoves
    <3>2. QED
      BY <3>1 DEF DispatcherComponent!Next
  <2>5. CASE UNCHANGED vars
    BY <2>5 DEF vars, alertingVars, dispatcherVars, historyVars, Answer, Table
  <2>6. QED
    BY <2>1, <2>2, <2>3, <2>4, <2>5 DEF Next
<1>3. QED
  BY <1>1, <1>2, TypeCorrect, PTL
  DEF Spec, DispatcherAsComponent, DispatcherComponent!Spec, Table

-----------------------------------------------------------------------------
(***************************************************************************)
(* The ghost model.                                                        *)
(***************************************************************************)
LEMMA GhostCardinality ==
    ASSUME NEW S
    PROVE  GhostDispatcher!Cardinality(S) = Cardinality(S)
  BY DEF GhostDispatcher!Cardinality, Cardinality

LEMMA GhostMinute ==
    ASSUME TypeOK
    PROVE  GhostDispatcher!AfterMinuteReset(AsGhost, now) =
             [recent |-> recent, minute_count |-> MinuteCountAt(now),
              minute_start |-> MinuteStartAt(now)]
<1>1. NewMinute(now) <=> now >= minuteStart + MinuteSec
  BY Times, SatAddDecides DEF NewMinute
<1>2. QED
  BY <1>1 DEF GhostDispatcher!AfterMinuteReset, AsGhost, MinuteCountAt, MinuteStartAt

LEMMA GhostAnswer ==
    ASSUME TypeOK, NEW k \in Key
    PROVE  GhostDispatcher!Answer(AsGhost, k, now) =
             IF Duplicate(k, now) THEN "Deduplicated"
             ELSE IF MinuteCountAt(now) >= MaxPerMinute THEN "RateLimited" ELSE "Send"
<1> DEFINE d == [recent |-> recent, minute_count |-> MinuteCountAt(now),
                 minute_start |-> MinuteStartAt(now)]
<1>1. GhostDispatcher!WouldDedup(d, k, now) <=> Duplicate(k, now)
  BY Times, SatAddDecides
  DEF GhostDispatcher!WouldDedup, GhostDispatcher!EntryShadows, Duplicate
<1>2. GhostDispatcher!WouldRateLimit(AsGhost, now) <=> MinuteCountAt(now) >= MaxPerMinute
  BY GhostMinute DEF GhostDispatcher!WouldRateLimit
<1>3. QED
  BY <1>1, <1>2, GhostMinute DEF GhostDispatcher!Answer

\* For every capacity, period and budget: what the repository samples by
\* property tests, the answers of dispatcher and ghost model being the same.
THEOREM ConformsToGhost == Spec => DispatcherAsGhost
<1>1. ASSUME TypeOK, NEW k \in Key, Raise(k), result'.action # "NotSubscribed"
      PROVE  /\ result'.action = GhostDispatcher!Answer(AsGhost, k, now)
             /\ AsGhost' = GhostDispatcher!Processed(AsGhost, k, now)
  <2> USE GhostMinute, GhostAnswer DEF GhostDispatcher!Processed
  <2>1. CASE RaiseUnsubscribed(k)
    BY <1>1, <2>1 DEF RaiseUnsubscribed, Returns
  <2>2. CASE RaiseDuplicate(k)
    BY <1>1, <2>2 DEF RaiseDuplicate, Returns, Deduplicated, RollMinute, AsGhost
  <2>3. CASE RaiseOverBudget(k)
    BY <1>1, <2>3 DEF RaiseOverBudget, Returns, RateLimited, RollMinute, AsGhost
  <2>4. CASE RaiseSent(k)
    <3>1. /\ GhostDispatcher!Answer(AsGhost, k, now) = "Send"
          /\ result'.action = "Send"
      BY <1>1, <2>4, DispatcherAssumption
      DEF RaiseSent, Returns, Send, TypeOK, AlertingTypeOK, DispatcherTypeOK, MinuteCountAt
    <3>2. AsGhost' = [recent |-> Record(k, now), minute_count |-> MinuteCountAt(now) + 1,
                      minute_start |-> MinuteStartAt(now)]
      BY <2>4 DEF RaiseSent, Send, AsGhost
    <3>3. Record(k, now) =
            IF GhostDispatcher!HasRoom(GhostDispatcher!AfterMinuteReset(AsGhost, now))
            THEN recent \cup {[key |-> k, time |-> now]} ELSE recent
      BY <1>1, GhostCardinality DEF Record, GhostDispatcher!HasRoom
    <3>4. QED
      BY <1>1, <3>1, <3>2, <3>3
  <2>5. QED
    BY <1>1, <2>1, <2>2, <2>3, <2>4 DEF Raise
<1>2. TypeOK /\ [Next]_vars =>
        [\A k \in Key :
             (Raise(k) /\ result'.action # "NotSubscribed") =>
                 /\ result'.action = GhostDispatcher!Answer(AsGhost, k, now)
                 /\ AsGhost' = GhostDispatcher!Processed(AsGhost, k, now)]_vars
  BY <1>1
<1>3. QED
  BY <1>2, TypeCorrect, PTL DEF Spec, DispatcherAsGhost

-----------------------------------------------------------------------------
(***************************************************************************)
(* The theorems of proofs/verus/alert_dedup.rs, for every value of the     *)
(* constants.                                                              *)
(***************************************************************************)

\* Looking at the minute leaves the recent alerts alone.
LEMMA ResetKeepsRecent ==
    ASSUME NEW d \in GhostDispatcher!Ghost, NEW t \in Nat
    PROVE  /\ GhostDispatcher!AfterMinuteReset(d, t) \in GhostDispatcher!Ghost
           /\ GhostDispatcher!AfterMinuteReset(d, t).recent = d.recent
  BY DEF GhostDispatcher!AfterMinuteReset, GhostDispatcher!Ghost

\* lemma_send_records_entry: an alert that is sent while there is room is on
\* record afterwards.
LEMMA SendRecordsEntry ==
    ASSUME NEW d \in GhostDispatcher!Ghost, NEW k \in Key, NEW t \in Nat,
           GhostDispatcher!HasRoom(d), GhostDispatcher!Answer(d, k, t) = "Send"
    PROVE  [key |-> k, time |-> t] \in GhostDispatcher!Processed(d, k, t).recent
<1>1. GhostDispatcher!HasRoom(GhostDispatcher!AfterMinuteReset(d, t))
  BY ResetKeepsRecent DEF GhostDispatcher!HasRoom
<1>2. QED
  BY <1>1 DEF GhostDispatcher!Processed

\* A call keeps the state well formed.
LEMMA ProcessedIsGhost ==
    ASSUME NEW d \in GhostDispatcher!Ghost, NEW k \in Key, NEW t \in Nat
    PROVE  GhostDispatcher!Processed(d, k, t) \in GhostDispatcher!Ghost
<1> DEFINE d1 == GhostDispatcher!AfterMinuteReset(d, t)
<1>1. d1 \in GhostDispatcher!Ghost
  BY ResetKeepsRecent
<1>2. [key |-> k, time |-> t] \in GhostDispatcher!GhostEntry
  BY DEF GhostDispatcher!GhostEntry
<1>3. CASE GhostDispatcher!Answer(d, k, t) # "Send"
  BY <1>1, <1>3 DEF GhostDispatcher!Processed
<1>4. CASE GhostDispatcher!Answer(d, k, t) = "Send"
  <2> DEFINE r == IF GhostDispatcher!HasRoom(d1)
                  THEN d1.recent \cup {[key |-> k, time |-> t]} ELSE d1.recent
  <2>1. /\ r \in SUBSET GhostDispatcher!GhostEntry
        /\ d1.minute_count + 1 \in Nat
        /\ d1.minute_start \in Nat
    BY <1>1, <1>2 DEF GhostDispatcher!Ghost
  <2>2. GhostDispatcher!Processed(d, k, t) =
          [recent |-> r, minute_count |-> d1.minute_count + 1,
           minute_start |-> d1.minute_start]
    BY <1>4 DEF GhostDispatcher!Processed
  <2> HIDE DEF r, d1
  <2>3. QED
    BY <2>1, <2>2 DEF GhostDispatcher!Ghost
<1>5. QED
  BY <1>3, <1>4

\* theorem_dedup_invariant: while there is room, an alert sent at t1 and raised
\* again at t2, before its cooldown is over, is a duplicate.
THEOREM DedupInvariant ==
    ASSUME NEW d \in GhostDispatcher!Ghost, NEW k \in Key, NEW t1 \in Nat, NEW t2 \in Nat,
           GhostDispatcher!HasRoom(d), t1 <= t2, t2 < t1 + Cooldown,
           GhostDispatcher!Answer(d, k, t1) = "Send"
    PROVE  GhostDispatcher!Answer(GhostDispatcher!Processed(d, k, t1), k, t2) = "Deduplicated"
<1> DEFINE d1 == GhostDispatcher!Processed(d, k, t1)
           e == [key |-> k, time |-> t1]
<1>1. e \in GhostDispatcher!AfterMinuteReset(d1, t2).recent
  BY SendRecordsEntry, ProcessedIsGhost, ResetKeepsRecent
<1>2. GhostDispatcher!EntryShadows(e, k, t2)
  BY DEF GhostDispatcher!EntryShadows
<1>3. GhostDispatcher!WouldDedup(GhostDispatcher!AfterMinuteReset(d1, t2), k, t2)
  BY <1>1, <1>2 DEF GhostDispatcher!WouldDedup
<1>4. QED
  BY <1>3 DEF GhostDispatcher!Answer

\* theorem_rate_limit_invariant: with the budget of the minute used up, what is
\* no duplicate is over budget.
THEOREM RateLimitInvariant ==
    ASSUME NEW d \in GhostDispatcher!Ghost, NEW k \in Key, NEW t \in Nat,
           d.minute_count >= MaxPerMinute,
           t < d.minute_start + MinuteSec,
           ~ GhostDispatcher!WouldDedup(d, k, t)
    PROVE  GhostDispatcher!Answer(d, k, t) = "RateLimited"
<1>1. GhostDispatcher!AfterMinuteReset(d, t) = d
  BY DispatcherAssumption
  DEF GhostDispatcher!AfterMinuteReset, GhostDispatcher!Ghost
<1>2. QED
  BY <1>1, DispatcherAssumption DEF GhostDispatcher!Answer, GhostDispatcher!WouldRateLimit

\* lemma_first_alert_sends, of a dispatcher that has a budget at all.
THEOREM FirstAlertSends ==
    ASSUME NEW k \in Key, NEW t \in Nat, MaxPerMinute > 0
    PROVE  GhostDispatcher!Answer(GhostDispatcher!Empty, k, t) = "Send"
<1> DEFINE d == GhostDispatcher!AfterMinuteReset(GhostDispatcher!Empty, t)
<1>1. d.recent = {} /\ d.minute_count = 0
  BY DEF GhostDispatcher!AfterMinuteReset, GhostDispatcher!Empty
<1>2. QED
  BY <1>1, DispatcherAssumption
  DEF GhostDispatcher!Answer, GhostDispatcher!WouldDedup, GhostDispatcher!WouldRateLimit

=============================================================================
