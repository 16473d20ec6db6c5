-------------------------- MODULE DoorAlerts_proofs --------------------------
(***************************************************************************)
(* A timeout alert is genuine, and a contact left unreported by a check    *)
(* has an excuse, for every list of contacts, capacity and period and for  *)
(* timestamps in any order.                                                *)
(***************************************************************************)
EXTENDS DoorCopies, Alerting_proofs

ContactState ==
    [contact_id : Nat, zone_id : Zones, max_open_sec : Nat, night_start_hour : Nat,
     night_end_hour : Nat, open : BOOLEAN, opened_at : Time]

MonitorInv ==
    /\ \E n \in Nat : DOMAIN contacts = 1 .. n
    /\ contacts \in [DOMAIN contacts -> ContactState]
    /\ now \in Time
    /\ due \subseteq [contact : DOMAIN contacts, type : AlertTypes]
    /\ alertedAt \in [DOMAIN contacts -> 0 .. MaxTime]

\* What is due was found by a check of this very moment, before anything else
\* happened to the contact.
GenuineInv ==
    /\ TimeoutIsGenuine
    /\ \A a \in due :
           a.type = DoorOpenTooLong => contacts[a.contact].open /\ OverdueNow(a.contact)

DoorInv == MonitorInv /\ GenuineInv

-----------------------------------------------------------------------------
(***************************************************************************)
(* Facts about the operators.                                              *)
(***************************************************************************)
\* The contact process_event works on has the id it was given.
LEMMA EntryForExists ==
    ASSUME MonitorInv, NEW id, EntriesFor(id) # {}
    PROVE  EntryFor(id) \in DOMAIN contacts
<1>1. EntriesFor(id) \subseteq Nat
  BY DEF EntriesFor, MonitorInv
<1>2. PICK i \in EntriesFor(id) : \A j \in EntriesFor(id) : i <= j
  BY <1>1, LeastOf
<1>3. EntryFor(id) \in EntriesFor(id)
  BY <1>2 DEF EntryFor
<1>4. QED
  BY <1>3 DEF EntriesFor

LEMMA FirstDueExists ==
    ASSUME MonitorInv, due # {}
    PROVE  FirstDue \in due
<1> DEFINE C == {a.contact : a \in due}
<1>1. C \in SUBSET Nat /\ C # {}
  BY DEF MonitorInv
<1>2. PICK i \in C : \A j \in C : i <= j
  BY <1>1, LeastOf
<1>3. \E a \in due : \A b \in due : a.contact <= b.contact
  BY <1>2
<1>4. QED
  BY <1>3 DEF FirstDue

\* The subtraction of unsigned times does not wrap behind its guard.
LEMMA OverdueMeans ==
    ASSUME MonitorInv, NEW i \in DOMAIN contacts
    PROVE  Overdue(contacts[i], now) <=> contacts[i].open /\ OverdueNow(i)
<1>1. /\ contacts[i].opened_at \in Nat /\ contacts[i].max_open_sec \in Nat
      /\ now \in Nat /\ now < WordSpan /\ WordSpan \in Nat
  <2>1. contacts[i] \in ContactState /\ now \in 0 .. MaxTime - 1
    BY DEF MonitorInv, Time
  <2>2. WordSpan \in Nat /\ MaxTime \in Nat /\ MaxTime <= WordSpan
    BY DoorAssumption, DoorAlertsAssumption, DispatcherAssumption
  <2>3. QED
    BY <2>1, <2>2 DEF ContactState, Time
<1>2. \A n \in 0 .. WordSpan - 1 : n % WordSpan = n
  BY <1>1
<1>3. now >= contacts[i].opened_at => Elapsed(contacts[i], now) = now - contacts[i].opened_at
  BY <1>1, <1>2 DEF Elapsed
<1>4. QED
  BY <1>1, <1>3 DEF Overdue, OverdueNow

\* The table of contacts after configure.
LEMMA RegisteredTable ==
    ASSUME config \in Configs
    PROVE  LET table == RegisteredContacts(config)
           IN  /\ \E n \in Nat : DOMAIN table = 1 .. n
               /\ table \in [DOMAIN table -> ContactState]
<1>1. PICK n \in Nat : DOMAIN config = 1 .. n
  BY DoorAlertsAssumption
<1>2. \A i \in DOMAIN config : config[i] \in ContactConfig
  BY DoorAlertsAssumption
<1>3. DOMAIN RegisteredContacts(config) = 1 .. (IF n <= MaxContacts THEN n ELSE MaxContacts)
  BY <1>1, DoorAssumption DEF RegisteredContacts
<1>4. 0 \in Time
  BY DispatcherAssumption DEF Time
<1>5. \A i \in DOMAIN config : Closed(config[i]) \in ContactState
  BY <1>2, <1>4 DEF Closed, ContactState, ContactConfig
<1>6. RegisteredContacts(config) \in [DOMAIN RegisteredContacts(config) -> ContactState]
  BY <1>5 DEF RegisteredContacts
<1>7. QED
  BY <1>3, <1>6, <1>1, DoorAssumption

\* A dispatch leaves the monitor and the clock alone.
LEMMA RaiseFrame ==
    ASSUME NEW k \in Key, Raise(k)
    PROVE  UNCHANGED <<now, subscriptions>>
  BY DEF Raise, RaiseUnsubscribed, RaiseDuplicate, RaiseOverBudget, RaiseSent,
         NotSubscribed, Deduplicated, RateLimited, Send, dispatcherVars

LEMMA KeyOfDue ==
    ASSUME MonitorInv, NEW a \in due
    PROVE  a.contact \in DOMAIN contacts /\ a.type \in AlertTypes /\ KeyOf(a) \in Key
<1>1. a.contact \in DOMAIN contacts /\ a.type \in AlertTypes
  BY DEF MonitorInv
<1>2. contacts[a.contact].zone_id \in Zones
  BY <1>1 DEF MonitorInv, ContactState
<1>3. QED
  BY <1>1, <1>2 DEF KeyOf, Key

-----------------------------------------------------------------------------
(***************************************************************************)
(* Timeout alerts are genuine.                                             *)
(***************************************************************************)
LEMMA DoorInit == Init => DoorInv
<1> SUFFICES ASSUME Init PROVE DoorInv
  OBVIOUS
<1>1. /\ \E n \in Nat : DOMAIN contacts = 1 .. n
      /\ contacts \in [DOMAIN contacts -> ContactState]
  BY RegisteredTable DEF Init
<1>2. now \in Time /\ due = {} /\ alertedAt = [i \in DOMAIN contacts |-> Never]
  BY DEF Init, HistoryInit
<1>3. Never \in 0 .. MaxTime
  BY DispatcherAssumption DEF Never
<1>4. QED
  BY <1>1, <1>2, <1>3 DEF DoorInv, MonitorInv, GenuineInv, TimeoutIsGenuine

\* An event changes one contact, whose history starts again.
LEMMA ContactChanges ==
    ASSUME DoorInv, due = {}, NEW i \in DOMAIN contacts,
           ContactOpens(i) \/ ContactCloses(i), UNCHANGED now
    PROVE  DoorInv'
<1>1. PICK c \in ContactState : contacts' = [contacts EXCEPT ![i] = c]
  <2>1. CASE ContactOpens(i)
    <3>1. [contacts[i] EXCEPT !.open = TRUE, !.opened_at = now] \in ContactState
      BY DEF DoorInv, MonitorInv, ContactState
    <3>2. contacts' = [contacts EXCEPT ![i] = [contacts[i] EXCEPT !.open = TRUE, !.opened_at = now]]
      BY <2>1 DEF ContactOpens, Opens, DoorInv, MonitorInv
    <3>3. QED
      BY <3>1, <3>2
  <2>2. CASE ContactCloses(i)
    <3>1. [contacts[i] EXCEPT !.open = FALSE] \in ContactState
      BY DEF DoorInv, MonitorInv, ContactState
    <3>2. contacts' = [contacts EXCEPT ![i] = [contacts[i] EXCEPT !.open = FALSE]]
      BY <2>2 DEF ContactCloses, Closes, DoorInv, MonitorInv
    <3>3. QED
      BY <3>1, <3>2
  <2>3. QED
    BY <2>1, <2>2
<1>2. due' \subseteq {AtNight(i)} /\ alertedAt' = [alertedAt EXCEPT ![i] = Never]
  BY DEF ContactOpens, ContactCloses
<1>3. DOMAIN contacts' = DOMAIN contacts
  BY <1>1
<1>4. MonitorInv'
  <2>1. contacts' \in [DOMAIN contacts' -> ContactState]
    BY <1>1 DEF DoorInv, MonitorInv
  <2>2. AtNight(i) \in [contact : DOMAIN contacts, type : AlertTypes]
    BY DoorAlertsAssumption DEF AtNight
  <2>3. alertedAt' \in [DOMAIN contacts -> 0 .. MaxTime]
    BY <1>2, DispatcherAssumption DEF DoorInv, MonitorInv, Never
  <2>4. QED
    BY <1>2, <1>3, <2>1, <2>2, <2>3 DEF DoorInv, MonitorInv
<1>5. TimeoutIsGenuine'
  BY <1>1, <1>2, <1>3 DEF DoorInv, GenuineInv, MonitorInv, TimeoutIsGenuine, Never
<1>6. \A a \in due' : a.type # DoorOpenTooLong
  BY <1>2, DoorAlertsAssumption DEF AtNight
<1>7. QED
  BY <1>4, <1>5, <1>6 DEF DoorInv, GenuineInv

LEMMA TickFinds ==
    ASSUME DoorInv, TickStarts
    PROVE  DoorInv'
<1>1. UNCHANGED <<contacts, alertedAt, now>> /\ due' \subseteq {TooLong(i) : i \in TimedOut(now)}
  BY DEF TickStarts, alertingVars, historyVars, CheckTimeouts
<1>2. \A i \in TimedOut(now) : i \in DOMAIN contacts /\ contacts[i].open /\ OverdueNow(i)
  BY OverdueMeans DEF TimedOut, DoorInv
<1>3. \A i : OverdueNow(i)' <=> OverdueNow(i)
  BY <1>1 DEF OverdueNow
<1>4. \A a \in due' : /\ a \in [contact : DOMAIN contacts, type : AlertTypes]
                      /\ contacts[a.contact].open /\ OverdueNow(a.contact)
  BY <1>1, <1>2, DoorAlertsAssumption DEF TooLong
<1>5. MonitorInv'
  BY <1>1, <1>4 DEF DoorInv, MonitorInv
<1>6. GenuineInv'
  BY <1>1, <1>3, <1>4 DEF DoorInv, GenuineInv, TimeoutIsGenuine
<1>7. QED
  BY <1>5, <1>6 DEF DoorInv

LEMMA DispatchTells ==
    ASSUME DoorInv, DispatchDue
    PROVE  DoorInv'
<1> DEFINE a == FirstDue
<1>1. a \in due /\ a.contact \in DOMAIN contacts /\ KeyOf(a) \in Key
  BY FirstDueExists, KeyOfDue DEF DispatchDue, DoorInv
<1>2. UNCHANGED <<now, contacts>> /\ due' = due \ {a}
  BY <1>1, RaiseFrame DEF DispatchDue
<1> HIDE DEF a
<1>3. \/ alertedAt' = alertedAt
      \/ a.type = DoorOpenTooLong /\ alertedAt' = [alertedAt EXCEPT ![a.contact] = now]
  BY DEF DispatchDue, a
<1>4. \A i : OverdueNow(i)' <=> OverdueNow(i)
  BY <1>2 DEF OverdueNow
<1>5. now \in 0 .. MaxTime
  BY DispatcherAssumption DEF DoorInv, MonitorInv, Time
<1>6. MonitorInv'
  BY <1>1, <1>2, <1>3, <1>5 DEF DoorInv, MonitorInv
<1>7. TimeoutIsGenuine'
  <2>1. a.type = DoorOpenTooLong =>
          /\ contacts[a.contact].open
          /\ now > contacts[a.contact].opened_at + contacts[a.contact].max_open_sec
    BY <1>1 DEF DoorInv, GenuineInv, OverdueNow
  <2>2. QED
    BY <1>1, <1>2, <1>3, <2>1 DEF DoorInv, GenuineInv, MonitorInv, TimeoutIsGenuine
<1>8. GenuineInv'
  BY <1>2, <1>4, <1>7 DEF DoorInv, GenuineInv
<1>9. QED
  BY <1>6, <1>8 DEF DoorInv

LEMMA DoorNext == DoorInv /\ [Next]_vars => DoorInv'
<1> SUFFICES ASSUME DoorInv, [Next]_vars PROVE DoorInv'
  OBVIOUS
<1>0. ASSUME UNCHANGED <<contacts, alertedAt, due>>,
             now' \in Time, now' = now \/ due = {}
      PROVE  DoorInv'
  <2>1. due # {} => \A i : OverdueNow(i)' <=> OverdueNow(i)
    BY <1>0 DEF OverdueNow
  <2>2. QED
    BY <1>0, <2>1 DEF DoorInv, MonitorInv, GenuineInv, TimeoutIsGenuine
<1>1. ASSUME NEW id \in ContactIds, ContactEvent(id) PROVE DoorInv'
  <2>1. due = {} /\ UNCHANGED now
    BY <1>1 DEF ContactEvent, Idle, alertingVars, historyVars
  <2>2. CASE EntriesFor(id) # {} /\ (ContactOpens(EntryFor(id)) \/ ContactCloses(EntryFor(id)))
    BY <2>1, <2>2, EntryForExists, ContactChanges DEF DoorInv
  <2>3. CASE EntriesFor(id) = {} /\ UNCHANGED <<contacts, due, alertedAt>>
    BY <1>0, <2>1, <2>3 DEF DoorInv, MonitorInv
  <2>4. QED
    BY <1>1, <2>2, <2>3 DEF ContactEvent
<1>2. CASE TickStarts
  BY <1>2, TickFinds
<1>3. CASE DispatchDue
  BY <1>3, DispatchTells
<1>4. CASE TickEnds
  BY <1>0, <1>4 DEF TickEnds, HouseKeeping, historyVars, DoorInv, MonitorInv
<1>5. CASE Clock
  BY <1>0, <1>5 DEF Clock, Idle, ClockStep, doorVars
<1>6. CASE UNCHANGED vars
  BY <1>0, <1>6 DEF vars, alertingVars, historyVars, doorVars, DoorInv, MonitorInv
<1>7. QED
  BY <1>1, <1>2, <1>3, <1>4, <1>5, <1>6 DEF Next

\* A timeout alert is sent for a contact open past its limit, whatever the
\* lists of contacts, the capacities and the order of timestamps.
THEOREM GenuineHolds == Spec => []TimeoutIsGenuine
<1>1. DoorInv => TimeoutIsGenuine
  BY DEF DoorInv, GenuineInv
<1>2. QED
  BY <1>1, DoorInit, DoorNext, PTL DEF Spec

-----------------------------------------------------------------------------
(***************************************************************************)
(* A contact left unreported has an excuse.                                *)
(***************************************************************************)
Unreported(i) ==
    /\ contacts[i].open /\ OverdueNow(i) /\ alertedAt[i] = Never
    /\ IsSubscribed(KeyOf(TooLong(i)))

Crowded(i) ==
    Cardinality({j \in 1 .. i - 1 : contacts[j].open /\ OverdueNow(j)}) >= MaxAlertsPerCheck

\* The budget is spent and no alert of this moment renews it.
BudgetClosed == BudgetSpent /\ ~ NewMinute(now)

Excused(i) == Crowded(i) \/ SentForZone(KeyOf(TooLong(i)), now) \/ BudgetClosed

\* What the table holds was sent, whoever asked for it.
TableInv ==
    /\ recent \subseteq AlertEntry
    /\ minuteCount \in 0 .. MaxPerMinute
    /\ minuteStart \in Time
    /\ \A e \in recent : \E d \in delivered : d.key = e.key /\ d.time = e.time

\* In a tick that ran the check, what is overdue is still to be dispatched or
\* has its excuse; neither is undone by the alerts dispatched in between.
TickInv ==
    (inTick /\ SlotFires(now)) =>
        \A i \in DOMAIN contacts : Unreported(i) => TooLong(i) \in due \/ Excused(i)

LEMMA RaiseTable ==
    ASSUME TableInv, now \in Time, NEW k \in Key, Raise(k)
    PROVE  TableInv' /\ delivered \subseteq delivered'
<1> USE DispatcherAssumption DEF TableInv
<1>1. MinuteStartAt(now) \in Time /\ MinuteCountAt(now) \in 0 .. MaxPerMinute
  BY DEF MinuteStartAt, MinuteCountAt
<1>2. CASE RaiseUnsubscribed(k)
  BY <1>2 DEF RaiseUnsubscribed, NotSubscribed, dispatcherVars
<1>3. CASE RaiseDuplicate(k)
  BY <1>1, <1>3 DEF RaiseDuplicate, Deduplicated, RollMinute
<1>4. CASE RaiseOverBudget(k)
  BY <1>1, <1>4 DEF RaiseOverBudget, RateLimited, RollMinute
<1>5. CASE RaiseSent(k)
  <2>1. /\ minuteStart' = MinuteStartAt(now)
        /\ minuteCount' = MinuteCountAt(now) + 1 /\ MinuteCountAt(now) < MaxPerMinute
    BY <1>5 DEF RaiseSent, Send
  <2>2. recent' \subseteq recent \cup {[key |-> k, time |-> now]}
    BY <1>5 DEF RaiseSent, Send, Record
  <2> DEFINE d == [key |-> k, time |-> now, recorded |-> Cardinality(recent) < MaxRecent]
  <2>7. delivered' = delivered \cup {d}
    BY <1>5 DEF RaiseSent
  <2>8. d.key = k /\ d.time = now
    OBVIOUS
  <2> HIDE DEF d
  <2>3. /\ delivered \subseteq delivered'
        /\ \E x \in delivered' : x.key = k /\ x.time = now
    BY <2>7, <2>8
  <2>4. [key |-> k, time |-> now] \in AlertEntry
    BY DEF AlertEntry
  <2>5. minuteCount' \in 0 .. MaxPerMinute
    BY <1>1, <2>1
  <2>6. QED
    BY <1>1, <2>1, <2>2, <2>3, <2>4, <2>5
<1>6. QED
  BY <1>2, <1>3, <1>4, <1>5 DEF Raise

\* An alert that is subscribed and not sent has its excuse from then on.
LEMMA RefusalExcuses ==
    ASSUME TableInv, now \in Time, NEW k \in Key, Raise(k), IsSubscribed(k),
           result'.action # "Send"
    PROVE  SentForZone(k, now)' \/ BudgetClosed'
<1> USE DispatcherAssumption DEF TableInv
<1>1. now' = now
  BY RaiseFrame
<1>2. CASE RaiseUnsubscribed(k)
  BY <1>2 DEF RaiseUnsubscribed, NotSubscribed
<1>3. CASE RaiseDuplicate(k)
  <2>1. PICK e \in recent : e.key = k /\ now < SatAdd(e.time, Cooldown)
    BY <1>3 DEF RaiseDuplicate, Deduplicated, Duplicate
  <2>2. PICK d \in delivered : d.key = e.key /\ d.time = e.time
    BY <2>1
  <2>3. delivered' = delivered
    BY <1>3 DEF RaiseDuplicate
  <2>4. QED
    BY <1>1, <2>1, <2>2, <2>3 DEF SentForZone
<1>4. CASE RaiseOverBudget(k)
  <2>1. /\ MinuteCountAt(now) >= MaxPerMinute
        /\ minuteStart' = MinuteStartAt(now) /\ minuteCount' = MinuteCountAt(now)
    BY <1>4 DEF RaiseOverBudget, RateLimited, RollMinute
  <2>2. minuteCount' = MaxPerMinute
    BY <2>1 DEF MinuteCountAt
  <2>3. ~ (now >= SatAdd(MinuteStartAt(now), MinuteSec))
    <3>1. CASE NewMinute(now)
      BY <3>1 DEF MinuteStartAt, SatAdd, Time
    <3>2. CASE ~ NewMinute(now)
      BY <3>2 DEF MinuteStartAt, NewMinute
    <3>3. QED
      BY <3>1, <3>2
  <2>4. QED
    BY <1>1, <2>1, <2>2, <2>3 DEF BudgetClosed, BudgetSpent, NewMinute
<1>5. CASE RaiseSent(k)
  BY <1>5 DEF RaiseSent, Returns
<1>6. QED
  BY <1>2, <1>3, <1>4, <1>5 DEF Raise

\* A closed budget stays closed for the rest of the tick.
LEMMA BudgetStaysClosed ==
    ASSUME TableInv, NEW k \in Key, Raise(k), BudgetClosed
    PROVE  BudgetClosed'
<1> USE DispatcherAssumption DEF TableInv, BudgetClosed, BudgetSpent
<1>1. MinuteCountAt(now) = MaxPerMinute /\ MinuteStartAt(now) = minuteStart
  BY DEF MinuteCountAt, MinuteStartAt
<1>2. minuteCount' = minuteCount /\ minuteStart' = minuteStart
  BY <1>1 DEF Raise, RaiseUnsubscribed, RaiseDuplicate, RaiseOverBudget, RaiseSent,
              NotSubscribed, Deduplicated, RateLimited, Send, RollMinute, dispatcherVars
<1>3. QED
  BY <1>2, RaiseFrame DEF NewMinute

LEMMA ExcuseInit == Init => TableInv /\ TickInv
  BY DispatcherAssumption DEF Init, HistoryInit, TableInv, TickInv, Time

\* What the check left out was past the room of its result.
LEMMA TickExcuses ==
    ASSUME DoorInv, TickStarts
    PROVE  TickInv'
<1>1. /\ UNCHANGED <<contacts, alertedAt, alertingVars>>
      /\ SlotFires(now) => due' = {TooLong(i) : i \in CheckTimeouts(now)}
  BY DEF TickStarts
<1>2. UNCHANGED <<now, subscriptions>>
  BY <1>1 DEF alertingVars, historyVars, dispatcherVars
<1>3. \A i \in TimedOut(now) \ CheckTimeouts(now) : Crowded(i)
  <2> SUFFICES ASSUME NEW i \in TimedOut(now) \ CheckTimeouts(now)
               PROVE  Crowded(i)
    OBVIOUS
  <2> DEFINE S == {j \in TimedOut(now) : j < i}
  <2>1. PICK n \in Nat : DOMAIN contacts = 1 .. n
    BY DEF DoorInv, MonitorInv
  <2>2. \A j : j \in TimedOut(now) <=> j \in 1 .. n /\ contacts[j].open /\ OverdueNow(j)
    BY <2>1, OverdueMeans DEF TimedOut, DoorInv
  <2>3. S = {j \in 1 .. i - 1 : contacts[j].open /\ OverdueNow(j)}
    BY <2>1, <2>2
  <2>4. Cardinality(S) \in Nat
    <3>1. IsFiniteSet(1 .. n) /\ S \subseteq 1 .. n
      BY <2>1, <2>2, FS_Interval
    <3>2. QED
      BY <3>1, FS_Subset, FS_CardinalityType
  <2>5. ~ (Cardinality(S) < MaxAlertsPerCheck)
    BY DEF CheckTimeouts
  <2>6. Crowded(i) <=> Cardinality(S) >= MaxAlertsPerCheck
    BY <2>3 DEF Crowded
  <2> HIDE DEF S
  <2>7. QED
    BY <2>4, <2>5, <2>6, DoorAssumption
<1>4. SUFFICES ASSUME SlotFires(now)', NEW i \in DOMAIN contacts, Unreported(i)'
               PROVE  (TooLong(i) \in due \/ Excused(i))'
  BY <1>1 DEF TickInv
<1>5. SlotFires(now)
  BY <1>2, <1>4
<1>6. i \in TimedOut(now)
  <2>1. contacts[i].open /\ OverdueNow(i)
    BY <1>1, <1>2, <1>4 DEF Unreported, OverdueNow
  <2>2. QED
    BY <2>1, OverdueMeans DEF TimedOut, DoorInv
<1>7. CASE i \in CheckTimeouts(now)
  BY <1>1, <1>5, <1>7 DEF TooLong
<1>8. CASE i \notin CheckTimeouts(now)
  <2>1. Crowded(i)
    BY <1>3, <1>6, <1>8
  <2>2. Crowded(i)'
    BY <2>1, <1>1, <1>2 DEF Crowded, OverdueNow
  <2>3. QED
    BY <2>2 DEF Excused
<1>9. QED
  BY <1>7, <1>8

LEMMA DispatchExcuses ==
    ASSUME DoorInv, TableInv, TickInv, DispatchDue
    PROVE  TableInv' /\ TickInv'
<1> DEFINE a == FirstDue
           k == KeyOf(a)
<1>1. a \in due /\ a.contact \in DOMAIN contacts /\ k \in Key
  BY FirstDueExists, KeyOfDue DEF DispatchDue, DoorInv
<1>2. Raise(k) /\ due' = due \ {a} /\ UNCHANGED <<contacts, inTick>>
  BY DEF DispatchDue
<1>3. alertedAt' = IF result'.action = "Send" /\ a.type = DoorOpenTooLong
                   THEN [alertedAt EXCEPT ![a.contact] = now] ELSE alertedAt
  BY DEF DispatchDue
<1>4. UNCHANGED <<now, subscriptions>>
  BY <1>1, <1>2, RaiseFrame
<1>5. now \in Time /\ now # Never
  BY DispatcherAssumption DEF DoorInv, MonitorInv, Time, Never
<1>6. TableInv' /\ delivered \subseteq delivered'
  BY <1>1, <1>2, <1>5, RaiseTable
<1>7. BudgetClosed => BudgetClosed'
  BY <1>1, <1>2, BudgetStaysClosed
<1>8. \A c \in Key : Raise(c) /\ IsSubscribed(c) /\ result'.action # "Send"
                     => SentForZone(c, now)' \/ BudgetClosed'
  BY <1>5, RefusalExcuses
<1> HIDE DEF a, k
<1>9. ASSUME (inTick /\ SlotFires(now))', NEW i \in DOMAIN contacts, Unreported(i)'
      PROVE  (TooLong(i) \in due \/ Excused(i))'
  <2>1. alertedAt[i] = Never
    BY <1>3, <1>5, <1>9, <1>1 DEF Unreported, DoorInv, MonitorInv
  <2>2. Unreported(i)
    BY <2>1, <1>2, <1>4, <1>9 DEF Unreported, OverdueNow, IsSubscribed, KeyOf, TooLong
  <2>3. TooLong(i) \in due \/ Excused(i)
    BY <2>2, <1>9, <1>2, <1>4 DEF TickInv
  <2>4. KeyOf(TooLong(i))' = KeyOf(TooLong(i)) /\ TooLong(i)' = TooLong(i)
    BY <1>2 DEF KeyOf, TooLong
  <2>5. CASE TooLong(i) \in due /\ TooLong(i) # a
    BY <2>4, <2>5, <1>2
  <2>6. CASE TooLong(i) = a
    <3>1. a.contact = i /\ a.type = DoorOpenTooLong
      BY <2>6 DEF TooLong
    <3>2. result'.action # "Send"
      BY <3>1, <1>3, <1>5, <1>9 DEF Unreported, DoorInv, MonitorInv
    <3>3. IsSubscribed(k) /\ k = KeyOf(TooLong(i))
      BY <2>2, <2>6 DEF Unreported, k
    <3>4. PICK c \in Key : c = KeyOf(TooLong(i))
      BY <3>3, <1>1
    <3>5. SentForZone(c, now)' \/ BudgetClosed'
      BY <3>2, <3>3, <3>4, <1>2, <1>8
    <3>6. QED
      BY <3>4, <3>5, <2>4 DEF Excused, SentForZone
  <2>7. CASE Excused(i)
    <3>1. Crowded(i) => Crowded(i)'
      BY <1>2, <1>4 DEF Crowded, OverdueNow
    <3>2. SentForZone(KeyOf(TooLong(i)), now) => SentForZone(KeyOf(TooLong(i)), now)'
      BY <1>4, <1>6, <2>4 DEF SentForZone
    <3>3. QED
      BY <2>7, <3>1, <3>2, <1>7 DEF Excused
  <2>8. QED
    BY <2>3, <2>5, <2>6, <2>7
<1>10. TickInv'
  BY <1>2, <1>9 DEF TickInv
<1>11. QED
  BY <1>6, <1>10

LEMMA ExcuseNext ==
    DoorInv /\ TableInv /\ TickInv /\ [Next]_vars => TableInv' /\ TickInv'
<1> SUFFICES ASSUME DoorInv, TableInv, TickInv, [Next]_vars
             PROVE  TableInv' /\ TickInv'
  OBVIOUS
<1>1. ASSUME recent' \subseteq recent, UNCHANGED <<minuteCount, minuteStart, delivered>>
      PROVE  TableInv'
  BY <1>1 DEF TableInv
<1>2. ASSUME NEW id \in ContactIds, ContactEvent(id) PROVE TableInv' /\ TickInv'
  BY <1>1, <1>2 DEF ContactEvent, Idle, alertingVars, historyVars, dispatcherVars, TickInv
<1>3. CASE TickStarts
  <2>1. TableInv'
    BY <1>1, <1>3 DEF TickStarts, alertingVars, historyVars, dispatcherVars
  <2>2. QED
    BY <1>3, <2>1, TickExcuses
<1>4. CASE DispatchDue
  BY <1>4, DispatchExcuses
<1>5. CASE TickEnds
  BY <1>1, <1>5 DEF TickEnds, HouseKeeping, ClearExpired, Unexpired, historyVars, TickInv
<1>6. CASE Clock
  BY <1>1, <1>6 DEF Clock, Idle, ClockStep, doorVars, dispatcherVars, TickInv
<1>7. CASE UNCHANGED vars
  <2>1. UNCHANGED <<contacts, inTick, due, alertedAt, now, recent, minuteCount, minuteStart,
                    subscriptions, delivered>>
    BY <1>7 DEF vars, alertingVars, historyVars, dispatcherVars, doorVars
  <2>2. TableInv'
    BY <1>1, <2>1
  <2>3. TickInv'
    BY <2>1 DEF TickInv, Unreported, Excused, Crowded, SentForZone, BudgetClosed, BudgetSpent,
                NewMinute, OverdueNow, IsSubscribed, KeyOf, TooLong
  <2>4. QED
    BY <2>2, <2>3
<1>8. QED
  BY <1>2, <1>3, <1>4, <1>5, <1>6, <1>7 DEF Next

\* After a check, a contact open for too long and never reported is excused by
\* the contacts before it, an alert for its zone or a spent budget, whatever the
\* contacts, the capacities, the periods and the order of timestamps.
THEOREM SilenceHolds == Spec => []SilenceIsExcused
<1>1. TickInv => SilenceIsExcused
  BY DEF TickInv, SilenceIsExcused, Unreported, Excused, Crowded, BudgetClosed
<1>2. Init => DoorInv /\ TableInv /\ TickInv
  BY DoorInit, ExcuseInit
<1>3. DoorInv /\ TableInv /\ TickInv /\ [Next]_vars => (DoorInv /\ TableInv /\ TickInv)'
  BY DoorNext, ExcuseNext
<1>4. QED
  BY <1>1, <1>2, <1>3, PTL DEF Spec

-----------------------------------------------------------------------------
(***************************************************************************)
(* Types and bounds.                                                       *)
(***************************************************************************)
Bounds ==
    /\ AlertingTypeOK
    /\ Len(contacts) <= MaxContacts
    /\ inTick \in BOOLEAN
    /\ IsFiniteSet(due)
    /\ Cardinality(due) <= MaxAlertsPerCheck

\* Of the elements with fewer than m before them there are at most m: all but
\* the last of them are before the last.
LEMMA FirstOnes ==
    ASSUME NEW n \in Nat, NEW S \in SUBSET (1 .. n), NEW m \in Nat
    PROVE  LET first == {i \in S : Cardinality({j \in S : j < i}) < m}
           IN  IsFiniteSet(first) /\ Cardinality(first) <= m
<1> DEFINE Below(i) == {j \in S : j < i}
           C == {i \in S : Cardinality(Below(i)) < m}
<1>1. /\ C \subseteq S
      /\ \A i \in C : Cardinality(Below(i)) < m
      /\ \A i \in S : Below(i) \subseteq S /\ \A j \in S : j < i => j \in Below(i)
  OBVIOUS
<1> HIDE DEF C, Below
<1>2. IsFiniteSet(S) /\ IsFiniteSet(C) /\ Cardinality(C) \in Nat
  <2>1. IsFiniteSet(S)
    <3>1. IsFiniteSet(1 .. n) /\ S \subseteq 1 .. n
      BY FS_Interval
    <3>2. QED
      BY <3>1, FS_Subset
  <2>2. QED
    BY <1>1, <2>1, FS_Subset, FS_CardinalityType
<1>3. Cardinality(C) <= m
  <2>1. CASE C = {}
    <3>1. Cardinality(C) = 0
      BY <2>1, FS_EmptySet
    <3>2. QED
      BY <3>1
  <2>2. CASE C # {}
    <3>1. PICK i \in C : \A j \in C : j <= i
      <4> DEFINE D == {n - j : j \in C}
      <4>1. \A j \in C : j \in 1 .. n
        BY <1>1
      <4>2. D \in SUBSET Nat /\ D # {}
        BY <2>2, <4>1
      <4>3. PICK d \in D : \A e \in D : d <= e
        BY <4>2, LeastOf
      <4>4. PICK i \in C : d = n - i
        BY <4>3
      <4>5. \A j \in C : n - i <= n - j
        BY <4>3, <4>4
      <4>6. QED
        BY <4>1, <4>5
    <3>2. C \ {i} \subseteq Below(i) /\ Below(i) \subseteq S
      BY <1>1, <3>1
    <3>3. Cardinality(C \ {i}) = Cardinality(C) - 1
      BY <1>2, <3>1, FS_RemoveElement
    <3>4. IsFiniteSet(Below(i)) /\ Cardinality(Below(i)) \in Nat
      BY <1>2, <3>2, FS_Subset, FS_CardinalityType
    <3>5. Cardinality(C \ {i}) <= Cardinality(Below(i))
      BY <3>2, <3>4, FS_Subset
    <3>6. Cardinality(Below(i)) < m
      BY <1>1
    <3>7. QED
      BY <1>2, <3>3, <3>4, <3>5, <3>6
  <2>3. QED
    BY <2>1, <2>2
<1>4. QED
  BY <1>2, <1>3 DEF C, Below

\* What configure leaves is within its tables.
LEMMA ConfiguredTables ==
    ASSUME NEW c \in Configs
    PROVE  /\ RegisteredContacts(c) \in Seq(ContactState)
           /\ Len(RegisteredContacts(c)) <= MaxContacts
           /\ ContactKeys(c) \in Seq(Key)
<1>1. c \in Seq(ContactConfig) /\ MaxContacts \in Nat /\ 0 \in Time
  BY DoorAlertsAssumption, DoorAssumption, DispatcherAssumption DEF Time
<1>2. PICK len \in Nat : len = Len(c) /\ DOMAIN c = 1 .. len
  BY <1>1
<1>3. \A i \in 1 .. len : c[i] \in ContactConfig
  BY <1>1, <1>2
<1>4. /\ RegisteredContacts(c) \in Seq(ContactState)
      /\ Len(RegisteredContacts(c)) <= MaxContacts
  <2> DEFINE n == IF len <= MaxContacts THEN len ELSE MaxContacts
  <2>1. n \in Nat /\ n <= MaxContacts /\ n <= len
    BY <1>1
  <2>2. {j \in DOMAIN c : j <= MaxContacts} = 1 .. n
    BY <1>1, <1>2
  <2> HIDE DEF n
  <2>3. \A i \in 1 .. n : Closed(c[i]) \in ContactState
    BY <1>1, <1>3, <2>1 DEF Closed, ContactState, ContactConfig
  <2>4. RegisteredContacts(c) = [i \in 1 .. n |-> Closed(c[i])]
    BY <2>2 DEF RegisteredContacts
  <2>5. [i \in 1 .. n |-> Closed(c[i])] \in [1 .. n -> ContactState]
    BY <2>3
  <2>6. QED
    BY <2>1, <2>4, <2>5
<1>5. ContactKeys(c) \in Seq(Key)
  <2>1. DoorOpenTooLong \in AlertTypes /\ DoorNight \in AlertTypes
    BY DoorAlertsAssumption
  <2> DEFINE K(n) == [zone |-> c[(n + 1) \div 2].zone_id,
                      type |-> IF n % 2 = 1 THEN DoorOpenTooLong ELSE DoorNight]
  <2>2. \A n \in 1 .. 2 * len : (n + 1) \div 2 \in 1 .. len
    BY <1>2
  <2>3. \A n \in 1 .. 2 * len : K(n) \in Key
    BY <1>3, <2>1, <2>2 DEF Key, ContactConfig
  <2>4. ContactKeys(c) = [n \in 1 .. 2 * len |-> K(n)]
    BY <1>2 DEF ContactKeys
  <2> HIDE DEF K
  <2>5. 2 * len \in Nat /\ [n \in 1 .. 2 * len |-> K(n)] \in [1 .. 2 * len -> Key]
    BY <1>2, <2>3
  <2>6. QED
    BY <2>4, <2>5
<1>6. QED
  BY <1>4, <1>5

LEMMA BoundsInit == Init => Bounds
<1> SUFFICES ASSUME Init PROVE Bounds
  OBVIOUS
<1>1. PICK c \in Configs : c = config
  BY DEF Init
<1>2. /\ recent = {} /\ minuteCount = 0 /\ minuteStart = 0
      /\ subscriptions = SubscribedTo(ContactKeys(c)) /\ now \in Time
      /\ result = None /\ delivered = {} /\ sends = {}
      /\ contacts = RegisteredContacts(c) /\ inTick = FALSE /\ due = {}
  BY <1>1 DEF Init, HistoryInit
<1>3. DispatcherTypeOK
  <2>1. /\ subscriptions \subseteq AlertTypes \X (0 .. ZoneSpan - 1)
        /\ IsFiniteSet(subscriptions) /\ Cardinality(subscriptions) <= MaxSubscriptions
    BY <1>2, ConfiguredTables, SubscribedToType
  <2>2. QED
    BY <1>2, <2>1, FS_EmptySet, DispatcherAssumption DEF DispatcherTypeOK, Time
<1>4. AlertingTypeOK
  BY <1>2, <1>3, FS_EmptySet DEF AlertingTypeOK
<1>5. Len(contacts) <= MaxContacts
  BY <1>2, ConfiguredTables
<1>6. IsFiniteSet(due) /\ Cardinality(due) = 0
  BY <1>2, FS_EmptySet
<1>7. Cardinality(due) <= MaxAlertsPerCheck
  BY <1>6, DoorAssumption
<1>8. inTick \in BOOLEAN
  BY <1>2
<1>9. QED
  BY <1>4, <1>5, <1>6, <1>7, <1>8 DEF Bounds

LEMMA BoundsNext == DoorInv /\ Bounds /\ [Next]_vars => Bounds'
<1> SUFFICES ASSUME DoorInv, Bounds, [Next]_vars PROVE Bounds'
  OBVIOUS
<1>1. ASSUME UNCHANGED alertingVars
      PROVE  AlertingTypeOK'
  BY <1>1 DEF Bounds, alertingVars, dispatcherVars, historyVars, AlertingTypeOK, DispatcherTypeOK
<1>2. ASSUME due' = {} \/ \E a : due' = {a}
      PROVE  IsFiniteSet(due') /\ Cardinality(due') <= MaxAlertsPerCheck
  <2>1. IsFiniteSet(due') /\ Cardinality(due') \in {0, 1}
    BY <1>2, FS_EmptySet, FS_Singleton
  <2>2. QED
    BY <2>1, DoorAssumption
<1>3. ASSUME NEW id \in ContactIds, ContactEvent(id) PROVE Bounds'
  <2>1. due = {} /\ inTick' = inTick /\ UNCHANGED alertingVars
    BY <1>3 DEF ContactEvent, Idle
  <2>2. CASE EntriesFor(id) # {} /\ (ContactOpens(EntryFor(id)) \/ ContactCloses(EntryFor(id)))
    <3>1. due' = {} \/ due' = {AtNight(EntryFor(id))}
      BY <2>1, <2>2 DEF ContactOpens, ContactCloses
    <3>2. Len(contacts') = Len(contacts)
      BY <2>2 DEF ContactOpens, ContactCloses, Opens, Closes
    <3>3. QED
      BY <1>1, <1>2, <2>1, <3>1, <3>2 DEF Bounds
  <2>3. CASE EntriesFor(id) = {} /\ UNCHANGED <<contacts, due, alertedAt>>
    BY <1>1, <2>1, <2>3 DEF Bounds
  <2>4. QED
    BY <1>3, <2>2, <2>3 DEF ContactEvent
<1>4. CASE TickStarts
  <2>1. UNCHANGED <<alertingVars, contacts>> /\ inTick' = TRUE
    BY <1>4 DEF TickStarts
  <2>2. IsFiniteSet(due') /\ Cardinality(due') <= MaxAlertsPerCheck
    <3>1. CASE SlotFires(now)
      <4> DEFINE C == CheckTimeouts(now)
                 D == {TooLong(i) : i \in C}
      <4>1. due' = D
        BY <1>4, <3>1 DEF TickStarts
      <4>2. PICK n \in Nat : DOMAIN contacts = 1 .. n
        BY DEF DoorInv, MonitorInv
      <4>3. TimedOut(now) \in SUBSET (1 .. n)
        BY <4>2 DEF TimedOut
      <4>4. IsFiniteSet(C) /\ Cardinality(C) <= MaxAlertsPerCheck
        BY <4>3, FirstOnes, DoorAssumption DEF CheckTimeouts
      <4>5. [i \in C |-> TooLong(i)] \in Surjection(C, D)
        BY DEF Surjection
      <4> HIDE DEF C, D
      <4>6. IsFiniteSet(D) /\ Cardinality(D) <= Cardinality(C)
        BY <4>4, <4>5, FS_Surjection
      <4>7. Cardinality(C) \in Nat /\ Cardinality(D) \in Nat
        BY <4>4, <4>6, FS_CardinalityType
      <4>8. QED
        BY <4>1, <4>4, <4>6, <4>7, DoorAssumption
    <3>2. CASE ~ SlotFires(now)
      BY <1>2, <1>4, <3>2 DEF TickStarts
    <3>3. QED
      BY <3>1, <3>2
  <2>3. QED
    BY <1>1, <2>1, <2>2 DEF Bounds
<1>5. CASE DispatchDue
  <2>1. FirstDue \in due /\ KeyOf(FirstDue) \in Key
    BY <1>5, FirstDueExists, KeyOfDue DEF DispatchDue, DoorInv
  <2>2. AlertingTypeOK'
    BY <1>5, <2>1, RaiseType DEF DispatchDue, Bounds
  <2>3. due' \subseteq due /\ UNCHANGED <<contacts, inTick>>
    BY <1>5 DEF DispatchDue
  <2>4. IsFiniteSet(due') /\ Cardinality(due') <= Cardinality(due)
    BY <2>3, FS_Subset DEF Bounds
  <2>5. Cardinality(due') \in Nat /\ Cardinality(due) \in Nat
    BY <2>4, FS_CardinalityType DEF Bounds
  <2>6. QED
    BY <2>2, <2>3, <2>4, <2>5, DoorAssumption DEF Bounds
<1>6. CASE TickEnds
  BY <1>6, HouseKeepingType DEF TickEnds, Bounds
<1>7. CASE Clock
  <2>1. AlertingTypeOK'
    BY <1>7 DEF Clock, ClockStep, dispatcherVars, Bounds, AlertingTypeOK, DispatcherTypeOK
  <2>2. QED
    BY <1>7, <2>1 DEF Clock, doorVars, Bounds
<1>8. CASE UNCHANGED vars
  BY <1>1, <1>8 DEF vars, doorVars, Bounds
<1>9. QED
  BY <1>3, <1>4, <1>5, <1>6, <1>7, <1>8 DEF Next

\* The contacts fit their array, a check never returns more alerts than its
\* result has room for, and every other field keeps its type, whatever the
\* configuration and the order of timestamps.
THEOREM DoorTypeCorrect == Spec => []TypeOK
<1>1. DoorInv /\ Bounds => TypeOK
  <2> SUFFICES ASSUME DoorInv, Bounds PROVE TypeOK
    OBVIOUS
  <2>1. \A i \in DOMAIN contacts : contacts[i].open \in BOOLEAN /\ contacts[i].opened_at \in Time
    <3>1. \A i \in DOMAIN contacts : contacts[i] \in ContactState
      BY DEF DoorInv, MonitorInv
    <3>2. QED
      BY <3>1 DEF ContactState
  <2>2. QED
    BY <2>1 DEF TypeOK, DoorInv, MonitorInv, Bounds
<1>2. QED
  BY <1>1, DoorInit, DoorNext, BoundsInit, BoundsNext, PTL DEF Spec

-----------------------------------------------------------------------------
(***************************************************************************)
(* The alerts still due, as a list.                                        *)
(***************************************************************************)
Extended(list, cs, alerts, n) ==
    IF \E a \in alerts : a.contact = n
    THEN Append(list, Written(cs, CHOOSE a \in alerts : a.contact = n))
    ELSE list

ListRun(f, cs, alerts) ==
    /\ f[0] = <<>>
    /\ \A n \in 1 .. Len(cs) : f[n] = Extended(f[n - 1], cs, alerts, n)
    /\ f[Len(cs)] = ListOf(cs, alerts)

Ahead(row, list) == <<row>> \o list

Rows(cs, alerts) == Seq({Written(cs, a) : a \in alerts})

LEMMA ListRuns ==
    ASSUME NEW cs, Len(cs) \in Nat, NEW alerts
    PROVE  \E f : /\ ListRun(f, cs, alerts)
                  /\ \A n \in 0 .. Len(cs) : f[n] \in Rows(cs, alerts)
<1> DEFINE n == Len(cs)
           S == Rows(cs, alerts)
           step == [x \in S \X (1 .. n) |-> Extended(x[1], cs, alerts, x[2])]
           Turn(f) == [i \in 0 .. n |-> IF i = 0 THEN <<>> ELSE Extended(f[i - 1], cs, alerts, i)]
           list == CHOOSE f : f = Turn(f)
<1>1. <<>> \in S
  BY DEF Rows
<1>2. ASSUME NEW u \in S, NEW i \in 1 .. n
      PROVE  Extended(u, cs, alerts, i) \in S
  <2>1. CASE \E a \in alerts : a.contact = i
    <3> DEFINE w == Written(cs, CHOOSE a \in alerts : a.contact = i)
    <3>1. w \in {Written(cs, a) : a \in alerts}
      BY <2>1
    <3> HIDE DEF w
    <3>2. Append(u, w) \in S
      BY <3>1 DEF Rows
    <3>3. QED
      BY <2>1, <3>2 DEF Extended, w
  <2>2. CASE ~ \E a \in alerts : a.contact = i
    BY <2>2 DEF Extended
  <2>3. QED
    BY <2>1, <2>2
<1>3. \E f : f = Turn(f) /\ f \in [0 .. n -> S]
  <2>1. step \in Steps(S, n)
    <3> HIDE DEF S, n
    <3>1. QED
      BY <1>2 DEF Steps
  <2>2. \A u \in S, i \in 1 .. n : step[<<u, i>>] = Extended(u, cs, alerts, i)
    OBVIOUS
  <2> HIDE DEF S, step, n
  <2>3. n \in Nat
    BY DEF n
  <2>4. PICK f : IsRun(f, S, <<>>, n, step)
    BY <1>1, <2>1, <2>3, LoopRuns
  <2>5. \A i \in 1 .. n : f[i] = Extended(f[i - 1], cs, alerts, i)
    <3>1. \A i \in 1 .. n : i - 1 \in 0 .. n
      BY <2>3
    <3>2. QED
      BY <2>2, <2>4, <3>1 DEF IsRun
  <2>6. f = Turn(f) /\ f \in [0 .. n -> S]
    BY <2>3, <2>4, <2>5 DEF IsRun
  <2>7. QED
    BY <2>6
<1>4. ListOf(cs, alerts) = list[n]
  BY DEF ListOf, Extended
<1> HIDE DEF S
<1>5. list = Turn(list)
  BY <1>3
<1> HIDE DEF list
<1>6. n \in Nat
  OBVIOUS
<1> HIDE DEF n
<1>7. list[0] = <<>> /\ \A i \in 1 .. n : list[i] = Extended(list[i - 1], cs, alerts, i)
  BY <1>5, <1>6
<1>8. \A i \in 0 .. n : list[i] \in S
  <2> SUFFICES ASSUME NEW i \in 0 .. n PROVE list[i] \in S
    OBVIOUS
  <2>1. \A k \in 1 .. i : list[k - 1] \in S => list[k] \in S
    BY <1>2, <1>6, <1>7
  <2>2. list[0] \in S /\ i \in Nat
    BY <1>1, <1>7
  <2>3. QED
    BY <2>1, <2>2, LoopStays
<1>9. QED
  BY <1>4, <1>7, <1>8 DEF ListRun, n, S

LEMMA NothingListed ==
    ASSUME NEW cs, Len(cs) \in Nat
    PROVE  ListOf(cs, {}) = <<>>
<1>1. PICK f : ListRun(f, cs, {})
  BY ListRuns
<1>2. f[0] \in {<<>>} /\ \A n \in 1 .. Len(cs) : f[n - 1] \in {<<>>} => f[n] \in {<<>>}
  BY <1>1 DEF ListRun, Extended
<1> DEFINE S == {<<>>}
           n == Len(cs)
<1>3. f[0] \in S /\ \A k \in 1 .. n : f[k - 1] \in S => f[k] \in S
  BY <1>2
<1>4. n \in Nat
  OBVIOUS
<1>5. f[n] \in S
  <2> HIDE DEF S, n
  <2>1. QED
    BY <1>3, <1>4, LoopStays
<1>6. QED
  BY <1>1, <1>5 DEF ListRun

\* The first alert due is the first of the list; the rest is the list of the rest.
LEMMA FirstListed ==
    ASSUME NEW cs, Len(cs) \in Nat, NEW alerts, NEW a \in alerts, a.contact \in 1 .. Len(cs),
           \A b \in alerts : b.contact \in Nat /\ a.contact <= b.contact,
           \A b, c \in alerts : b.contact = c.contact => b = c
    PROVE  /\ ListOf(cs, alerts \ {a}) \in Rows(cs, alerts)
           /\ ListOf(cs, alerts) = Ahead(Written(cs, a), ListOf(cs, alerts \ {a}))
<1> DEFINE n == Len(cs)
           rest == alerts \ {a}
           w == Written(cs, a)
           first == a.contact
           R == Rows(cs, alerts)
<1>0. n \in Nat /\ first \in 1 .. n
  OBVIOUS
<1>1. PICK f : ListRun(f, cs, alerts)
  BY ListRuns
<1>2. PICK g : ListRun(g, cs, rest) /\ \A k \in 0 .. n : g[k] \in Rows(cs, rest)
  BY ListRuns
<1>3. ASSUME NEW i \in 1 .. n, NEW u
      PROVE  /\ i < first => Extended(u, cs, alerts, i) = u
             /\ i = first => Extended(u, cs, alerts, i) = Append(u, w)
             /\ i <= first => Extended(u, cs, rest, i) = u
             /\ i > first =>
                   \/ \E x \in {Written(cs, b) : b \in alerts} : \A v :
                         /\ Extended(v, cs, alerts, i) = Append(v, x)
                         /\ Extended(v, cs, rest, i) = Append(v, x)
                   \/ \A v : Extended(v, cs, alerts, i) = v /\ Extended(v, cs, rest, i) = v
  <2>1. i < first => ~ \E b \in alerts : b.contact = i
    OBVIOUS
  <2>2. i = first => (CHOOSE b \in alerts : b.contact = i) = a
    OBVIOUS
  <2>3. i <= first => ~ \E b \in rest : b.contact = i
    OBVIOUS
  <2>4. ASSUME i > first, NEW b \in alerts, b.contact = i
        PROVE  /\ (CHOOSE c \in alerts : c.contact = i) = b
               /\ b \in rest /\ (CHOOSE c \in rest : c.contact = i) = b
    <3>1. b # a /\ b \in rest
      BY <2>4
    <3>2. QED
      BY <2>4, <3>1
  <2> HIDE DEF w, first
  <2>5. i > first => \/ \E x \in {Written(cs, b) : b \in alerts} : \A v :
                           /\ Extended(v, cs, alerts, i) = Append(v, x)
                           /\ Extended(v, cs, rest, i) = Append(v, x)
                     \/ \A v : Extended(v, cs, alerts, i) = v /\ Extended(v, cs, rest, i) = v
    <3>1. ASSUME i > first, NEW b \in alerts, b.contact = i
          PROVE  \A v : /\ Extended(v, cs, alerts, i) = Append(v, Written(cs, b))
                        /\ Extended(v, cs, rest, i) = Append(v, Written(cs, b))
      BY <2>4, <3>1 DEF Extended
    <3>2. ASSUME ~ \E b \in alerts : b.contact = i
          PROVE  \A v : Extended(v, cs, alerts, i) = v /\ Extended(v, cs, rest, i) = v
      BY <3>2 DEF Extended
    <3>3. QED
      BY <3>1, <3>2
  <2>6. QED
    BY <2>1, <2>2, <2>3, <2>5 DEF Extended, w, first
<1> HIDE DEF w, first, n, rest
<1> DEFINE Q(k) == IF k < first THEN f[k] = <<>> /\ g[k] = <<>>
                   ELSE g[k] \in R /\ f[k] = <<w>> \o g[k]
           P == {k \in Nat : k <= n => Q(k)}
<1>4. f[0] = <<>> /\ g[0] = <<>>
      /\ \A i \in 1 .. n : /\ f[i] = Extended(f[i - 1], cs, alerts, i)
                           /\ g[i] = Extended(g[i - 1], cs, rest, i)
  BY <1>1, <1>2 DEF ListRun, n
<1>5. 0 \in P
  BY <1>0, <1>4
<1>6. ASSUME NEW k \in P
      PROVE  k + 1 \in P
  <2>1. CASE k + 1 <= n
    <3>1. k \in Nat /\ k + 1 \in 1 .. n /\ (k + 1) - 1 = k /\ Q(k)
      BY <1>0, <2>1
    <3>2. f[k + 1] = Extended(f[k], cs, alerts, k + 1) /\ g[k + 1] = Extended(g[k], cs, rest, k + 1)
      BY <1>4, <3>1
    <3>3. CASE k + 1 < first
      <4>1. f[k + 1] = <<>> /\ g[k + 1] = <<>>
        BY <1>0, <1>3, <3>1, <3>2, <3>3
      <4>2. QED
        BY <3>1, <3>3, <4>1
    <3>4. CASE k + 1 = first
      <4>1. f[k] = <<>> /\ g[k] = <<>>
        BY <1>0, <3>1, <3>4
      <4>2. f[k + 1] = Append(<<>>, w) /\ g[k + 1] = <<>>
        <5> HIDE DEF P, Q
        <5>1. \A i \in 1 .. n : \A u :
                  i = first => /\ Extended(u, cs, alerts, i) = Append(u, w)
                               /\ Extended(u, cs, rest, i) = u
          BY <1>0, <1>3
        <5>2. k + 1 \in 1 .. n
          BY <3>1
        <5>3. /\ Extended(f[k], cs, alerts, k + 1) = Append(f[k], w)
              /\ Extended(g[k], cs, rest, k + 1) = g[k]
          BY <3>4, <5>1, <5>2
        <5>4. QED
          BY <3>2, <4>1, <5>3
      <4>3. Append(<<>>, w) = <<w>> \o <<>> /\ <<>> \in R
        BY DEF Rows
      <4>4. Q(k + 1)
        BY <3>1, <3>4, <4>2, <4>3
      <4> HIDE DEF Q
      <4>5. QED
        BY <3>1, <4>4
    <3>5. CASE k + 1 > first
      <4>1. g[k] \in R /\ f[k] = <<w>> \o g[k]
        BY <1>0, <3>1, <3>5
      <4>2. ASSUME NEW x \in {Written(cs, b) : b \in alerts},
                   f[k + 1] = Append(f[k], x), g[k + 1] = Append(g[k], x)
            PROVE  g[k + 1] \in R /\ f[k + 1] = <<w>> \o g[k + 1]
        <5> DEFINE W == {Written(cs, b) : b \in alerts}
        <5>1. w \in W
          BY DEF w
        <5> HIDE DEF W
        <5>2. \A s \in Seq(W), y \in W :
                  Append(s, y) \in Seq(W) /\ Append(<<w>> \o s, y) = <<w>> \o Append(s, y)
          BY <5>1
        <5>3. g[k] \in Seq(W) /\ x \in W
          BY <4>1, <4>2 DEF Rows, W
        <5>4. Append(f[k], x) = Append(<<w>> \o g[k], x)
          BY <4>1
        <5>5. QED
          BY <4>2, <5>2, <5>3, <5>4 DEF Rows, W
      <4>3. g[k + 1] \in R /\ f[k + 1] = <<w>> \o g[k + 1]
        <5>1. \/ \E x \in {Written(cs, b) : b \in alerts} :
                    f[k + 1] = Append(f[k], x) /\ g[k + 1] = Append(g[k], x)
              \/ f[k + 1] = f[k] /\ g[k + 1] = g[k]
          BY <1>3, <3>1, <3>2, <3>5
        <5>2. QED
          BY <4>1, <4>2, <5>1
      <4>4. Q(k + 1)
        BY <1>0, <3>1, <3>5, <4>3
      <4> HIDE DEF Q
      <4>5. QED
        BY <3>1, <4>4
    <3>6. QED
      BY <1>0, <3>1, <3>3, <3>4, <3>5
  <2>2. CASE ~ (k + 1 <= n)
    BY <2>2
  <2>3. QED
    BY <2>1, <2>2
<1>7. n \in P
  <2> HIDE DEF P
  <2>1. P \in SUBSET Nat
    BY DEF P
  <2>2. QED
    BY <1>0, <1>5, <1>6, <2>1, SetInduction
<1>8. g[n] \in R /\ f[n] = <<w>> \o g[n]
  BY <1>0, <1>7
<1>9. f[n] = ListOf(cs, alerts) /\ g[n] = ListOf(cs, rest)
  BY <1>1, <1>2 DEF ListRun, n
<1>10. QED
  BY <1>8, <1>9 DEF w, rest, Ahead


\* What check_timeouts returns when the contacts of S are open for too long.
Found(S) ==
    {TooLong(i) : i \in {m \in S : Cardinality({j \in S : j < m}) < MaxAlertsPerCheck}}

Limited(list, cs, S, n) ==
    IF n \in S /\ Len(list) < MaxAlertsPerCheck
    THEN Append(list, Written(cs, TooLong(n))) ELSE list

LimitedRun(f, cs, S) ==
    /\ f[0] = <<>>
    /\ \A n \in 1 .. Len(cs) : f[n] = Limited(f[n - 1], cs, S, n)
    /\ f[Len(cs)] = ListOf(cs, Found(S))

LEMMA OneBefore ==
    ASSUME NEW n \in Nat, NEW S \in SUBSET (1 .. n)
    PROVE  LET Lower(i) == {j \in S : j < i}
           IN  /\ Lower(1) = {}
               /\ \A i \in 0 .. n :
                      /\ IsFiniteSet(Lower(i)) /\ Cardinality(Lower(i)) \in Nat
                      /\ Lower(i + 1) = IF i \in S THEN Lower(i) \cup {i} ELSE Lower(i)
                      /\ i \notin Lower(i)
<1> DEFINE Lower(i) == {j \in S : j < i}
<1>1. \A j \in S : j \in 1 .. n /\ j \in Nat /\ ~ (j < 1)
  OBVIOUS
<1>2. Lower(1) = {}
  BY <1>1
<1>3. ASSUME NEW i \in 0 .. n
      PROVE  /\ IsFiniteSet(Lower(i)) /\ Cardinality(Lower(i)) \in Nat
             /\ Lower(i + 1) = IF i \in S THEN Lower(i) \cup {i} ELSE Lower(i)
             /\ i \notin Lower(i)
  <2>1. IsFiniteSet(1 .. n)
    BY FS_Interval
  <2>2. Lower(i) \subseteq 1 .. n
    BY <1>1
  <2>3. IsFiniteSet(Lower(i)) /\ Cardinality(Lower(i)) \in Nat
    BY <2>1, <2>2, FS_Subset, FS_CardinalityType
  <2>4. \A j \in S : j < i + 1 <=> j < i \/ j = i
    BY <1>1
  <2>5. Lower(i + 1) = IF i \in S THEN Lower(i) \cup {i} ELSE Lower(i)
    BY <2>4
  <2>6. i \notin Lower(i)
    OBVIOUS
  <2>7. QED
    BY <2>3, <2>5, <2>6
<1>4. QED
  BY <1>2, <1>3

\* The contacts a check finds, listed, are what a loop over the contacts with a
\* guard on the length of the list returns.
LEMMA FoundListed ==
    ASSUME NEW cs, Len(cs) \in Nat, NEW S \in SUBSET (1 .. Len(cs))
    PROVE  \E f : LimitedRun(f, cs, S)
<1> DEFINE n == Len(cs)
           M == MaxAlertsPerCheck
           Lower(i) == {j \in S : j < i}
           Least(c) == IF c < M THEN c ELSE M
           R == Rows(cs, Found(S))
<1>0. n \in Nat /\ M \in Nat /\ S \subseteq 1 .. n /\ \A j \in S : j \in Nat /\ 1 <= j
  BY DoorAssumption
<1>1. PICK f : ListRun(f, cs, Found(S)) /\ \A k \in 0 .. n : f[k] \in R
  BY ListRuns
<1>2. ASSUME NEW i \in 1 .. n, NEW u
      PROVE  Extended(u, cs, Found(S), i) =
                 IF i \in S /\ Cardinality(Lower(i)) < M
                 THEN Append(u, Written(cs, TooLong(i))) ELSE u
  <2>1. ASSUME NEW a
        PROVE  a \in Found(S) /\ a.contact = i <=>
                   a = TooLong(i) /\ i \in S /\ Cardinality(Lower(i)) < M
    <3> DEFINE C == {m \in S : Cardinality(Lower(m)) < M}
    <3>1. Found(S) = {TooLong(m) : m \in C}
      BY DEF Found
    <3>2. i \in C <=> i \in S /\ Cardinality(Lower(i)) < M
      OBVIOUS
    <3> HIDE DEF C
    <3>3. QED
      BY <3>1, <3>2 DEF TooLong
  <2> HIDE DEF Lower, M
  <2>2. CASE i \in S /\ Cardinality(Lower(i)) < M
    <3>1. \E a \in Found(S) : a.contact = i
      BY <2>1, <2>2
    <3>2. (CHOOSE a \in Found(S) : a.contact = i) = TooLong(i)
      BY <2>1, <2>2
    <3>3. QED
      BY <2>2, <3>1, <3>2 DEF Extended
  <2>3. CASE ~ (i \in S /\ Cardinality(Lower(i)) < M)
    <3>1. ~ \E a \in Found(S) : a.contact = i
      BY <2>1, <2>3
    <3>2. QED
      BY <2>3, <3>1 DEF Extended
  <2>4. QED
    BY <2>2, <2>3
<1>3. ASSUME NEW i \in 0 .. n
      PROVE  /\ IsFiniteSet(Lower(i)) /\ Cardinality(Lower(i)) \in Nat
             /\ Lower(i + 1) = IF i \in S THEN Lower(i) \cup {i} ELSE Lower(i)
             /\ i \notin Lower(i)
  BY OneBefore
<1>4. Lower(1) = {}
  BY OneBefore
<1> HIDE DEF Lower
<1>5. ASSUME NEW i \in 1 .. n
      PROVE  Cardinality(Lower(i + 1)) =
                 IF i \in S THEN Cardinality(Lower(i)) + 1 ELSE Cardinality(Lower(i))
  <2>1. i \in 0 .. n
    BY <1>0
  <2>2. Cardinality(Lower(i) \cup {i}) = Cardinality(Lower(i)) + 1
    BY <1>3, <2>1, FS_AddElement
  <2>3. QED
    BY <1>3, <2>1, <2>2
<1> HIDE DEF n, M, R
<1>6. f[0] = <<>> /\ f[n] = ListOf(cs, Found(S))
      /\ \A i \in 1 .. n : f[i] = Extended(f[i - 1], cs, Found(S), i)
  BY <1>1 DEF ListRun, n
<1>7. ASSUME NEW k \in 0 .. n
      PROVE  Len(f[k]) = Least(Cardinality(Lower(k + 1)))
  <2> DEFINE g == [i \in 0 .. n |-> Len(f[i])]
             h == [i \in 0 .. n |-> Least(Cardinality(Lower(i + 1)))]
  <2>1. g[0] = h[0]
    <3>1. Cardinality(Lower(0 + 1)) = 0
      BY <1>4, FS_EmptySet
    <3>2. Len(f[0]) = 0
      BY <1>6
    <3>3. QED
      BY <1>0, <3>1, <3>2
  <2>2. ASSUME NEW i \in 1 .. k, g[i - 1] = h[i - 1]
        PROVE  g[i] = h[i]
    <3>1. i \in 1 .. n /\ i \in 0 .. n /\ i - 1 \in 0 .. n /\ (i - 1) + 1 = i
      BY <1>0
    <3>2. Len(f[i - 1]) = Least(Cardinality(Lower(i)))
      BY <2>2, <3>1
    <3>3. f[i] = IF i \in S /\ Cardinality(Lower(i)) < M
                 THEN Append(f[i - 1], Written(cs, TooLong(i))) ELSE f[i - 1]
      BY <1>2, <1>6, <3>1
    <3> DEFINE b == Cardinality(Lower(i))
    <3>4. b \in Nat /\ Cardinality(Lower(i + 1)) = IF i \in S THEN b + 1 ELSE b
      BY <1>3, <1>5, <3>1
    <3> HIDE DEF g, h, b, Least
    <3>5. CASE i \in S /\ b < M
      <4>1. f[i] = Append(f[i - 1], Written(cs, TooLong(i)))
        BY <3>3, <3>5 DEF b
      <4>2. f[i - 1] \in R /\ f[i] \in R
        BY <1>1, <3>1
      <4>3. Len(f[i]) = Len(f[i - 1]) + 1
        BY <4>1, <4>2 DEF R, Rows
      <4>4. Len(f[i - 1]) = b
        BY <3>2, <3>5 DEF Least, b
      <4>5. Least(Cardinality(Lower(i + 1))) = b + 1
        BY <1>0, <3>4, <3>5 DEF Least
      <4>6. QED
        BY <3>1, <4>3, <4>4, <4>5 DEF g, h
    <3>6. CASE ~ (i \in S /\ b < M)
      <4>1. f[i] = f[i - 1]
        BY <3>3, <3>6 DEF b
      <4>2. Least(Cardinality(Lower(i + 1))) = Least(b)
        BY <1>0, <3>4, <3>6 DEF Least
      <4>3. QED
        BY <3>1, <3>2, <4>1, <4>2 DEF g, h, b
    <3>7. QED
      BY <3>5, <3>6
  <2>3. k \in Nat
    BY <1>0
  <2>4. g[k] = h[k]
    <3> HIDE DEF g, h
    <3>1. QED
      BY <2>1, <2>2, <2>3, LoopsAgree
  <2>5. QED
    BY <2>4
<1>8. ASSUME NEW i \in 1 .. n
      PROVE  f[i] = Limited(f[i - 1], cs, S, i)
  <2>1. i - 1 \in 0 .. n /\ (i - 1) + 1 = i /\ i \in 0 .. n
    BY <1>0
  <2>2. Len(f[i - 1]) = Least(Cardinality(Lower(i))) /\ Cardinality(Lower(i)) \in Nat
    BY <1>3, <1>7, <2>1
  <2>3. Len(f[i - 1]) < M <=> Cardinality(Lower(i)) < M
    BY <1>0, <2>2
  <2>4. QED
    BY <1>2, <1>6, <2>3 DEF Limited, M
<1>9. QED
  BY <1>6, <1>8 DEF LimitedRun, n


LEMMA RestListed ==
    ASSUME NEW cs, Len(cs) \in Nat, NEW alerts, NEW a \in alerts, a.contact \in 1 .. Len(cs),
           \A b \in alerts : b.contact \in Nat /\ a.contact <= b.contact,
           \A b, c \in alerts : b.contact = c.contact => b = c
    PROVE  ListOf(cs, alerts) # <<>> /\ Tail(ListOf(cs, alerts)) = ListOf(cs, alerts \ {a})
<1> DEFINE W == {Written(cs, b) : b \in alerts}
           w == Written(cs, a)
           l == ListOf(cs, alerts \ {a})
<1>1. l \in Rows(cs, alerts) /\ ListOf(cs, alerts) = Ahead(w, l)
  BY FirstListed
<1>2. w \in W
  OBVIOUS
<1> HIDE DEF w, l
<1>3. <<w>> \o l # <<>> /\ Tail(<<w>> \o l) = l
  <2>1. l \in Seq(W)
    BY <1>1 DEF Rows
  <2> HIDE DEF W
  <2>2. QED
    BY <1>2, <2>1
<1>4. QED
  BY <1>1, <1>3 DEF l, Ahead

LEMMA OneListed ==
    ASSUME NEW cs, Len(cs) \in Nat, NEW a, a.contact \in 1 .. Len(cs)
    PROVE  ListOf(cs, {a}) = <<Written(cs, a)>>
<1>1. {a} \ {a} = {} /\ a \in {a} /\ a.contact \in Nat
  OBVIOUS
<1>2. ListOf(cs, {a}) = Ahead(Written(cs, a), ListOf(cs, {a} \ {a}))
  <2>1. \A b \in {a} : b.contact \in Nat /\ a.contact <= b.contact
    BY <1>1
  <2>2. QED
    BY <1>1, <2>1, FirstListed
<1>3. ListOf(cs, {a} \ {a}) = <<>>
  BY <1>1, NothingListed
<1> DEFINE w == Written(cs, a)
<1> HIDE DEF w
<1>4. <<w>> \o <<>> = <<w>>
  OBVIOUS
<1>5. QED
  BY <1>2, <1>3, <1>4 DEF w, Ahead

-----------------------------------------------------------------------------
(***************************************************************************)
(* The door monitor and its two copies.                                    *)
(***************************************************************************)
\* What the events and the dispatcher keep: a contact has one alert due at
\* most, and the configuration the hub was started with.
DoorOnce == \A a, b \in due : a.contact = b.contact => a = b

ContactsConfigured ==
    /\ config \in Configs
    /\ DOMAIN contacts = {j \in DOMAIN config : j <= MaxContacts}
    /\ \A i \in DOMAIN contacts :
           contacts[i] = [Closed(config[i]) EXCEPT !.open = contacts[i].open,
                                                   !.opened_at = contacts[i].opened_at]

CopiesInv == DoorInv /\ DoorOnce /\ ContactsConfigured

LEMMA ContactsListed ==
    ASSUME MonitorInv
    PROVE  /\ contacts \in Seq(ContactState) /\ DOMAIN contacts = 1 .. Len(contacts)
           /\ Len(contacts) \in Nat
  BY DEF MonitorInv

LEMMA CopiesInit == Init => CopiesInv
<1> SUFFICES ASSUME Init PROVE CopiesInv
  OBVIOUS
<1>1. config \in Configs /\ contacts = RegisteredContacts(config) /\ due = {}
  BY DEF Init
<1>2. DoorInv
  BY DoorInit
<1>3. ASSUME NEW i \in DOMAIN contacts
      PROVE  contacts[i] = [Closed(config[i]) EXCEPT !.open = contacts[i].open,
                                                     !.opened_at = contacts[i].opened_at]
  <2>1. contacts[i] = Closed(config[i])
    BY <1>1 DEF RegisteredContacts
  <2>2. QED
    BY <2>1 DEF Closed
<1>4. DOMAIN contacts = {j \in DOMAIN config : j <= MaxContacts}
  BY <1>1 DEF RegisteredContacts
<1>5. QED
  BY <1>1, <1>2, <1>3, <1>4 DEF CopiesInv, DoorOnce, ContactsConfigured

LEMMA CopiesNext == CopiesInv /\ [Next]_vars => CopiesInv'
<1> SUFFICES ASSUME CopiesInv, [Next]_vars PROVE CopiesInv'
  OBVIOUS
<1>1. DoorInv'
  BY DoorNext DEF CopiesInv
<1>2. UNCHANGED config
  BY DEF Next, ContactEvent, TickStarts, DispatchDue, TickEnds, Clock, doorVars, vars
<1>3. \/ UNCHANGED contacts
      \/ \E i \in DOMAIN contacts : ContactOpens(i) \/ ContactCloses(i)
  <2>1. ASSUME NEW id \in ContactIds, ContactEvent(id)
        PROVE  \/ UNCHANGED contacts
               \/ \E i \in DOMAIN contacts : ContactOpens(i) \/ ContactCloses(i)
    <3>1. EntriesFor(id) # {} => EntryFor(id) \in DOMAIN contacts
      BY EntryForExists DEF CopiesInv, DoorInv
    <3>2. QED
      BY <2>1, <3>1 DEF ContactEvent
  <2>2. QED
    BY <2>1 DEF Next, TickStarts, DispatchDue, TickEnds, Clock, doorVars, vars
<1>4. ContactsConfigured'
  <2>1. CASE UNCHANGED contacts
    BY <1>2, <2>1 DEF CopiesInv, ContactsConfigured
  <2>2. ASSUME NEW i \in DOMAIN contacts, ContactOpens(i) \/ ContactCloses(i)
        PROVE  ContactsConfigured'
    <3>1. DOMAIN contacts' = DOMAIN contacts /\ \A j \in DOMAIN contacts : j # i => contacts'[j] = contacts[j]
      BY <2>2 DEF ContactOpens, ContactCloses, Opens, Closes
    <3>2. PICK o, t : contacts'[i] = [contacts[i] EXCEPT !.open = o, !.opened_at = t]
      <4>1. contacts[i] \in ContactState
        BY DEF CopiesInv, DoorInv, MonitorInv
      <4>2. CASE ContactOpens(i)
        BY <4>2 DEF ContactOpens, Opens
      <4>3. CASE ContactCloses(i)
        <5>1. contacts'[i] = [contacts[i] EXCEPT !.open = FALSE]
          BY <4>3 DEF ContactCloses, Closes
        <5>2. contacts'[i] = [contacts[i] EXCEPT !.open = FALSE, !.opened_at = contacts[i].opened_at]
          BY <4>1, <5>1 DEF ContactState
        <5>3. QED
          BY <5>2
      <4>4. QED
        BY <2>2, <4>2, <4>3
    <3>3. contacts'[i] = [Closed(config[i]) EXCEPT !.open = contacts'[i].open,
                                                   !.opened_at = contacts'[i].opened_at]
      <4>1. contacts[i] = [Closed(config[i]) EXCEPT !.open = contacts[i].open,
                                                    !.opened_at = contacts[i].opened_at]
        BY DEF CopiesInv, ContactsConfigured
      <4>2. QED
        BY <3>2, <4>1 DEF Closed
    <3>4. QED
      BY <1>2, <3>1, <3>3 DEF CopiesInv, ContactsConfigured
  <2>3. QED
    BY <1>3, <2>1, <2>2
<1>5. DoorOnce'
  <2>1. CASE due' \subseteq due
    BY <2>1 DEF CopiesInv, DoorOnce
  <2>2. ASSUME NEW i, due' = {AtNight(i)}
        PROVE  DoorOnce'
    BY <2>2 DEF DoorOnce
  <2>3. ASSUME NEW S, due' = {TooLong(i) : i \in S}
        PROVE  DoorOnce'
    BY <2>3 DEF DoorOnce, TooLong
  <2>4. CASE TickStarts
    <3>1. due' = {} \/ due' = {TooLong(i) : i \in CheckTimeouts(now)}
      BY <2>4 DEF TickStarts
    <3>2. QED
      BY <2>1, <2>3, <3>1
  <2>5. ASSUME NEW id \in ContactIds, ContactEvent(id)
        PROVE  DoorOnce'
    <3>1. due' = due \/ due' = {} \/ due' = {AtNight(EntryFor(id))}
      BY <2>5 DEF ContactEvent, ContactOpens, ContactCloses
    <3>2. QED
      BY <2>1, <2>2, <3>1
  <2>6. CASE DispatchDue \/ TickEnds \/ Clock \/ UNCHANGED vars
    BY <2>1, <2>6 DEF DispatchDue, TickEnds, Clock, doorVars, vars
  <2>7. QED
    BY <2>4, <2>5, <2>6 DEF Next
<1>6. QED
  BY <1>1, <1>4, <1>5 DEF CopiesInv


\* Both copies, started with a list of contacts, have the hub's table.
LEMMA VerifiedTable ==
    ASSUME NEW cs
    PROVE  cs \in Configs => VerifiedDoor!Started(cs) = RegisteredContacts(cs)
<1> SUFFICES ASSUME cs \in Configs PROVE VerifiedDoor!Started(cs) = RegisteredContacts(cs)
  OBVIOUS
<1> DEFINE n == Len(cs)
           rows == [i \in 1 .. n |-> Closed(cs[i])]
           Turn(f) == [i \in 0 .. n |->
                          IF i = 0 THEN <<>> ELSE OneMore(f[i - 1], Closed(cs[i]), MaxContacts)]
           after == CHOOSE f : f = Turn(f)
<1>1. n \in Nat /\ DOMAIN cs = 1 .. n /\ MaxContacts \in Nat
  BY DoorAlertsAssumption, DoorAssumption
<1>2. VerifiedDoor!Started(cs) = after[n]
  BY DEF VerifiedDoor!Started, VerifiedDoor!Registered, VerifiedDoor!Closed, Closed, OneMore
<1>3. \A i \in 1 .. n : rows[i] = Closed(cs[i])
  OBVIOUS
<1> HIDE DEF n, rows
<1>4. after = Turn(after)
  <2>1. \E f : f = [i \in 0 .. n |-> IF i = 0 THEN <<>> ELSE OneMore(f[i - 1], rows[i], MaxContacts)]
    BY <1>1, TableRuns
  <2>2. PICK f : f = [i \in 0 .. n |->
                         IF i = 0 THEN <<>> ELSE OneMore(f[i - 1], rows[i], MaxContacts)]
    BY <2>1
  <2>3. \A i \in 0 .. n : i = 0 \/ i \in 1 .. n
    BY <1>1
  <2>4. f = Turn(f)
    BY <1>3, <2>2, <2>3
  <2>5. QED
    BY <2>4
<1> HIDE DEF after
<1>5. after[0] = <<>> /\ \A i \in 1 .. n : after[i] = OneMore(after[i - 1], rows[i], MaxContacts)
  BY <1>1, <1>3, <1>4
<1>6. after[n] = Filled(rows, n, MaxContacts)
  BY <1>1, <1>5, TableFills
<1>7. Filled(rows, n, MaxContacts) = RegisteredContacts(cs)
  BY <1>1, <1>3 DEF Filled, RegisteredContacts
<1>8. QED
  BY <1>2, <1>6, <1>7

\* The first contact of an id is none's but the first.
LEMMA FirstOfId ==
    ASSUME CopiesInv, NEW id, EntriesFor(id) # {}
    PROVE  /\ EntryFor(id) \in DOMAIN contacts
           /\ VerifiedDoor!Matching(id) # {} /\ VerifiedDoor!First(id) = EntryFor(id)
           /\ \A j \in 1 .. EntryFor(id) - 1 : contacts[j].contact_id # id
           /\ contacts[EntryFor(id)].contact_id = id
<1> DEFINE e == EntryFor(id)
<1>1. EntriesFor(id) \subseteq Nat /\ DOMAIN contacts = 1 .. Len(contacts) /\ Len(contacts) \in Nat
  BY ContactsListed DEF EntriesFor, CopiesInv, DoorInv
<1>2. PICK i \in EntriesFor(id) : \A j \in EntriesFor(id) : i <= j
  BY <1>1, LeastOf
<1>3. e \in EntriesFor(id) /\ \A j \in EntriesFor(id) : e <= j
  BY <1>2 DEF EntryFor
<1> HIDE DEF e
<1>4. e \in 1 .. Len(contacts) /\ contacts[e].contact_id = id
  BY <1>1, <1>3 DEF EntriesFor
<1>5. ASSUME NEW j \in 1 .. e - 1
      PROVE  contacts[j].contact_id # id
  <2>1. j \in DOMAIN contacts /\ ~ (e <= j)
    BY <1>1, <1>4
  <2>2. j \notin EntriesFor(id)
    BY <1>3, <2>1
  <2>3. QED
    BY <2>1, <2>2 DEF EntriesFor
<1>6. VerifiedDoor!Matching(id) = EntriesFor(id)
  BY DEF VerifiedDoor!Matching, EntriesFor
<1>7. VerifiedDoor!First(id) = EntryFor(id)
  BY <1>6 DEF VerifiedDoor!First, EntryFor
<1>8. QED
  BY <1>1, <1>4, <1>5, <1>6, <1>7 DEF e

\* What an opening or a closing leaves due, as a list.
LEMMA EventListed ==
    ASSUME CopiesInv, due = {}, NEW i \in DOMAIN contacts, UNCHANGED now
    PROVE  /\ Listed = <<>>
           /\ ContactOpens(i) =>
                /\ contacts' = [contacts EXCEPT ![i] =
                                   [contacts[i] EXCEPT !.open = TRUE, !.opened_at = now]]
                /\ Listed' = IF IsNight(contacts[i], now)
                             THEN <<[contact |-> contacts[i].contact_id,
                                     zone |-> contacts[i].zone_id, type |-> "opened_at_night"]>>
                             ELSE <<>>
           /\ ContactCloses(i) =>
                /\ contacts' = [contacts EXCEPT ![i] = [contacts[i] EXCEPT !.open = FALSE]]
                /\ Listed' = <<>>
<1>1. /\ contacts \in Seq(ContactState) /\ DOMAIN contacts = 1 .. Len(contacts)
      /\ Len(contacts) \in Nat
  BY ContactsListed DEF CopiesInv, DoorInv
<1>2. Listed = <<>>
  BY <1>1, NothingListed DEF Listed
<1>3. ASSUME ContactOpens(i)
      PROVE  /\ contacts' = [contacts EXCEPT ![i] =
                                 [contacts[i] EXCEPT !.open = TRUE, !.opened_at = now]]
             /\ Listed' = IF IsNight(contacts[i], now)
                          THEN <<[contact |-> contacts[i].contact_id,
                                  zone |-> contacts[i].zone_id, type |-> "opened_at_night"]>>
                          ELSE <<>>
  <2>1. contacts' = [contacts EXCEPT ![i] = [contacts[i] EXCEPT !.open = TRUE, !.opened_at = now]]
    BY <1>1, <1>3 DEF ContactOpens, Opens
  <2>2. Len(contacts') = Len(contacts)
    BY <1>1, <2>1
  <2>3. due' = IF IsNight(contacts[i], now) THEN {AtNight(i)} ELSE {}
    BY <1>3 DEF ContactOpens
  <2>4. CASE IsNight(contacts[i], now)
    <3>1. AtNight(i).contact = i /\ i \in 1 .. Len(contacts')
      BY <1>1, <2>2 DEF AtNight
    <3>2. ListOf(contacts', {AtNight(i)}) = <<Written(contacts', AtNight(i))>>
      BY <1>1, <2>2, <3>1, OneListed
    <3>3. contacts'[i].contact_id = contacts[i].contact_id /\ contacts'[i].zone_id = contacts[i].zone_id
      BY <1>1, <2>1 DEF ContactState
    <3>4. Written(contacts', AtNight(i)) = [contact |-> contacts[i].contact_id,
                                            zone |-> contacts[i].zone_id, type |-> "opened_at_night"]
      BY <3>3 DEF Written, AtNight
    <3>5. QED
      BY <2>1, <2>3, <2>4, <3>2, <3>4 DEF Listed
  <2>5. CASE ~ IsNight(contacts[i], now)
    <3>1. ListOf(contacts', {}) = <<>>
      BY <1>1, <2>2, NothingListed
    <3>2. QED
      BY <2>1, <2>3, <2>5, <3>1 DEF Listed
  <2>6. QED
    BY <2>4, <2>5
<1>4. ASSUME ContactCloses(i)
      PROVE  /\ contacts' = [contacts EXCEPT ![i] = [contacts[i] EXCEPT !.open = FALSE]]
             /\ Listed' = <<>>
  <2>1. contacts' = [contacts EXCEPT ![i] = [contacts[i] EXCEPT !.open = FALSE]]
    BY <1>1, <1>4 DEF ContactCloses, Closes
  <2>2. Len(contacts') = Len(contacts) /\ due' = {}
    BY <1>1, <1>4, <2>1 DEF ContactCloses
  <2>3. ListOf(contacts', {}) = <<>>
    BY <1>1, <2>2, NothingListed
  <2>4. QED
    BY <2>1, <2>2, <2>3 DEF Listed
<1>5. QED
  BY <1>2, <1>3, <1>4


\* What a check finds, as a list; and who is open for too long, in the words of
\* both copies.
LEMMA CheckListed ==
    ASSUME CopiesInv, TickStarts, SlotFires(now)
    PROVE  /\ Listed = <<>> /\ UNCHANGED <<contacts, now>>
           /\ \E f : LimitedRun(f, contacts, TimedOut(now)) /\ Listed' = f[Len(contacts)]
<1>1. DOMAIN contacts = 1 .. Len(contacts) /\ Len(contacts) \in Nat
  BY ContactsListed DEF CopiesInv, DoorInv
<1>2. due = {} /\ UNCHANGED <<contacts, now>> /\ due' = {TooLong(i) : i \in CheckTimeouts(now)}
  BY DEF TickStarts, Idle, alertingVars, historyVars
<1>3. Listed = <<>>
  BY <1>1, <1>2, NothingListed DEF Listed
<1>4. TimedOut(now) \in SUBSET (1 .. Len(contacts))
  BY <1>1 DEF TimedOut
<1>5. due' = Found(TimedOut(now))
  BY <1>2 DEF Found, CheckTimeouts
<1>6. PICK f : LimitedRun(f, contacts, TimedOut(now))
  BY <1>1, <1>4, FoundListed
<1>7. Listed' = ListOf(contacts, Found(TimedOut(now)))
  BY <1>2, <1>5 DEF Listed
<1>8. Listed' = f[Len(contacts)]
  BY <1>6, <1>7 DEF LimitedRun
<1>9. QED
  BY <1>2, <1>3, <1>6, <1>8

LEMMA LateMeans ==
    ASSUME CopiesInv, NEW i \in DOMAIN contacts
    PROVE  /\ i \in TimedOut(now) <=> VerifiedDoor!Late(contacts[i])
           /\ Written(contacts, TooLong(i)) =
                  [contact |-> contacts[i].contact_id, zone |-> contacts[i].zone_id,
                   type |-> "open_too_long"]
<1>1. i \in TimedOut(now) <=> contacts[i].open /\ now > contacts[i].opened_at + contacts[i].max_open_sec
  BY OverdueMeans DEF TimedOut, CopiesInv, DoorInv, OverdueNow
<1>2. /\ contacts[i].opened_at \in Nat /\ contacts[i].max_open_sec \in Nat /\ now \in Nat
      /\ contacts[i].open \in BOOLEAN
  BY DEF CopiesInv, DoorInv, MonitorInv, ContactState, Time
<1>3. (now > contacts[i].opened_at + contacts[i].max_open_sec) <=>
          /\ now >= contacts[i].opened_at
          /\ now - contacts[i].opened_at > contacts[i].max_open_sec
  BY <1>2
<1>4. Written(contacts, TooLong(i)) =
          [contact |-> contacts[i].contact_id, zone |-> contacts[i].zone_id,
           type |-> "open_too_long"]
  BY DoorAlertsAssumption DEF Written, TooLong
<1>5. QED
  BY <1>1, <1>3, <1>4 DEF VerifiedDoor!Late

LEMMA CheckAsVerified ==
    ASSUME CopiesInv, TickStarts, SlotFires(now)
    PROVE  VerifiedDoor!CheckTimeouts
<1> DEFINE n == Len(contacts)
           M == MaxAlertsPerCheck
           Grown(u, i) == IF VerifiedDoor!Late(contacts[i]) /\ Len(u) < M
                          THEN Append(u, VerifiedDoor!Alert(contacts[i], "open_too_long")) ELSE u
           Turn(f) == [i \in 0 .. n |-> IF i = 0 THEN <<>> ELSE Grown(f[i - 1], i)]
           list == CHOOSE f : f = Turn(f)
<1>1. PICK f : LimitedRun(f, contacts, TimedOut(now)) /\ Listed' = f[n]
  BY CheckListed
<1>2. VerifiedDoor!CheckTimeouts <=>
          Listed = <<>> /\ Listed' = list[n] /\ UNCHANGED <<contacts, now>>
  BY DEF VerifiedDoor!CheckTimeouts, Grown
<1>3. n \in Nat /\ DOMAIN contacts = 1 .. n
  BY ContactsListed DEF CopiesInv, DoorInv
<1>4. \A u : \A i \in 1 .. n : Grown(u, i) = Limited(u, contacts, TimedOut(now), i)
  BY <1>3, LateMeans DEF VerifiedDoor!Alert, Limited
<1> HIDE DEF Grown, n
<1> DEFINE g == [i \in 0 .. n |-> f[i]]
<1>5. /\ g[0] = <<>> /\ g[n] = f[n]
      /\ \A i \in 1 .. n : g[i] = Limited(g[i - 1], contacts, TimedOut(now), i)
  <2>1. \A i \in 1 .. n : i - 1 \in 0 .. n /\ i \in 0 .. n
    BY <1>3
  <2>2. \A i \in 1 .. n : f[i] = Limited(f[i - 1], contacts, TimedOut(now), i)
    BY <1>1 DEF LimitedRun, n
  <2>3. f[0] = <<>>
    BY <1>1 DEF LimitedRun
  <2>4. QED
    BY <1>3, <2>1, <2>2, <2>3
<1>6. g = Turn(g)
  <2>1. g = [i \in 0 .. n |-> g[i]]
    OBVIOUS
  <2> HIDE DEF g
  <2>2. \A i \in 0 .. n : i = 0 \/ i \in 1 .. n
    BY <1>3
  <2>3. \A i \in 0 .. n : g[i] = IF i = 0 THEN <<>> ELSE Grown(g[i - 1], i)
    BY <1>4, <1>5, <2>2
  <2>4. QED
    BY <2>1, <2>3
<1>7. list = Turn(list)
  <2> HIDE DEF g
  <2>1. \E h : h = Turn(h)
    BY <1>6
  <2>2. QED
    BY <2>1
<1> HIDE DEF list, g
<1>8. list[0] = <<>> /\ \A i \in 1 .. n : list[i] = Limited(list[i - 1], contacts, TimedOut(now), i)
  BY <1>3, <1>4, <1>7
<1>9. list[n] = g[n]
  <2>1. \A i \in 1 .. n : list[i - 1] = g[i - 1] => list[i] = g[i]
    BY <1>5, <1>8
  <2>2. list[0] = g[0] /\ n \in Nat
    BY <1>3, <1>5, <1>8
  <2>3. QED
    BY <2>1, <2>2, LoopsAgree
<1>10. QED
  BY <1>1, <1>2, <1>5, <1>9, CheckListed

\* An alert dispatched is the first of the list.
LEMMA DispatchTakes ==
    ASSUME CopiesInv, DispatchDue
    PROVE  /\ Listed # <<>> /\ Listed' = Tail(Listed)
           /\ UNCHANGED <<contacts, now>>
<1>1. FirstDue \in due /\ due # {} /\ KeyOf(FirstDue) \in Key
  BY FirstDueExists, KeyOfDue DEF DispatchDue, CopiesInv, DoorInv
<1>2. UNCHANGED <<contacts, now>> /\ due' = due \ {FirstDue}
  BY <1>1, RaiseFrame DEF DispatchDue
<1>3. DOMAIN contacts = 1 .. Len(contacts) /\ Len(contacts) \in Nat
  BY ContactsListed DEF CopiesInv, DoorInv
<1>4. \A b \in due : b.contact \in 1 .. Len(contacts)
  BY <1>3 DEF CopiesInv, DoorInv, MonitorInv
<1>5. \A b \in due : FirstDue.contact <= b.contact
  <2> DEFINE C == {a.contact : a \in due}
  <2>1. C \in SUBSET Nat /\ C # {}
    BY <1>1, <1>4
  <2>2. PICK i \in C : \A j \in C : i <= j
    BY <2>1, LeastOf
  <2>3. \E a \in due : \A b \in due : a.contact <= b.contact
    BY <2>2
  <2>4. QED
    BY <2>3 DEF FirstDue
<1>6. \A b \in due : b.contact \in Nat
  BY <1>4
<1>7. /\ ListOf(contacts, due) # <<>>
      /\ Tail(ListOf(contacts, due)) = ListOf(contacts, due \ {FirstDue})
  <2>1. \A b, c \in due : b.contact = c.contact => b = c
    BY DEF CopiesInv, DoorOnce
  <2>2. FirstDue.contact \in 1 .. Len(contacts)
    BY <1>1, <1>4
  <2> HIDE DEF FirstDue
  <2>3. QED
    BY <1>1, <1>3, <1>5, <1>6, <2>1, <2>2, RestListed
<1>8. QED
  BY <1>2, <1>7 DEF Listed


\* What an event, a tick, a dispatch or the clock is to the verified monitor.
LEMMA VerifiedDoorStep ==
    ASSUME CopiesInv, [Next]_vars
    PROVE  [VerifiedDoor!Next]_<<contacts, Listed, now>>
<1>1. ASSUME UNCHANGED <<contacts, due>>
      PROVE  Listed' = Listed
  BY <1>1 DEF Listed
<1>2. ASSUME NEW id \in ContactIds, ContactEvent(id)
      PROVE  [VerifiedDoor!Next]_<<contacts, Listed, now>>
  <2> DEFINE i == EntryFor(id)
  <2>1. due = {} /\ UNCHANGED now
    BY <1>2 DEF ContactEvent, Idle, alertingVars, historyVars
  <2>2. ASSUME EntriesFor(id) # {}, ContactOpens(i)
        PROVE  VerifiedDoor!ProcessEvent(id, TRUE)
    <3>1. i \in DOMAIN contacts /\ VerifiedDoor!Matching(id) # {} /\ VerifiedDoor!First(id) = i
      BY <2>2, FirstOfId
    <3> HIDE DEF i
    <3>2. /\ Listed = <<>>
          /\ contacts' = [contacts EXCEPT ![i] =
                              [contacts[i] EXCEPT !.open = TRUE, !.opened_at = now]]
          /\ Listed' = IF IsNight(contacts[i], now)
                       THEN <<[contact |-> contacts[i].contact_id,
                               zone |-> contacts[i].zone_id, type |-> "opened_at_night"]>>
                       ELSE <<>>
      BY <2>1, <2>2, <3>1, EventListed
    <3>3. IsNight(contacts[i], now) <=>
              VerifiedDoor!NightHour(contacts[i], (now % DaySec) \div HourSec)
      BY DEF IsNight, Hour, VerifiedDoor!NightHour
    <3>4. contacts' = [contacts EXCEPT ![i].open = TRUE, ![i].opened_at = now]
      BY <3>2
    <3>5. QED
      BY <2>1, <3>1, <3>2, <3>3, <3>4 DEF VerifiedDoor!ProcessEvent, VerifiedDoor!Alert
  <2>3. ASSUME EntriesFor(id) # {}, ContactCloses(i)
        PROVE  VerifiedDoor!ProcessEvent(id, FALSE)
    <3>1. i \in DOMAIN contacts /\ VerifiedDoor!Matching(id) # {} /\ VerifiedDoor!First(id) = i
      BY <2>3, FirstOfId
    <3> HIDE DEF i
    <3>2. /\ Listed = <<>> /\ Listed' = <<>>
          /\ contacts' = [contacts EXCEPT ![i] = [contacts[i] EXCEPT !.open = FALSE]]
      BY <2>1, <2>3, <3>1, EventListed
    <3>3. [contacts[i] EXCEPT !.open = FALSE] =
              [contacts[i] EXCEPT !.open = FALSE, !.opened_at = contacts[i].opened_at]
      <4>1. contacts[i] \in ContactState
        BY <3>1 DEF CopiesInv, DoorInv, MonitorInv
      <4>2. QED
        BY <4>1 DEF ContactState
    <3>4. contacts' = [contacts EXCEPT ![i].open = FALSE, ![i].opened_at = contacts[i].opened_at]
      BY <3>2, <3>3
    <3>5. QED
      BY <2>1, <3>1, <3>2, <3>4 DEF VerifiedDoor!ProcessEvent
  <2>4. CASE EntriesFor(id) = {} /\ UNCHANGED <<contacts, due, alertedAt>>
    BY <1>1, <2>1, <2>4
  <2>5. QED
    BY <1>2, <2>2, <2>3, <2>4 DEF ContactEvent, VerifiedDoor!Next
<1>3. CASE TickStarts
  <2>1. CASE SlotFires(now)
    BY <1>3, <2>1, CheckAsVerified DEF VerifiedDoor!Next
  <2>2. CASE ~ SlotFires(now)
    <3>1. UNCHANGED <<contacts, due, now>>
      BY <1>3, <2>2 DEF TickStarts, Idle, alertingVars, historyVars
    <3>2. QED
      BY <1>1, <3>1
  <2>3. QED
    BY <2>1, <2>2
<1>4. CASE DispatchDue
  BY <1>4, DispatchTakes DEF VerifiedDoor!Next, VerifiedDoor!TakeAlert
<1>5. CASE TickEnds
  <2>1. UNCHANGED <<contacts, due, now>>
    BY <1>5 DEF TickEnds, HouseKeeping, historyVars
  <2>2. QED
    BY <1>1, <2>1
<1>6. CASE Clock
  <2>1. UNCHANGED <<contacts, due>> /\ now' \in Time
    BY <1>6 DEF Clock, ClockStep, doorVars
  <2>2. QED
    BY <1>1, <2>1 DEF VerifiedDoor!Next, VerifiedDoor!ClockMoves
<1>7. CASE UNCHANGED vars
  <2>1. UNCHANGED <<contacts, due, now>>
    BY <1>7 DEF vars, doorVars, alertingVars, historyVars
  <2>2. QED
    BY <1>1, <2>1
<1>8. QED
  BY <1>2, <1>3, <1>4, <1>5, <1>6, <1>7 DEF Next

\* Whatever contacts are listed and whenever the scheduler runs the check, the
\* hub's monitor raises what the verified one raises, in the same order.
THEOREM DoorVerified == Spec => DoorAsVerified
<1>1. Init => VerifiedDoor!Init
  <2> SUFFICES ASSUME Init PROVE VerifiedDoor!Init
    OBVIOUS
  <2>1. config \in Configs /\ contacts = VerifiedDoor!Started(config)
    BY VerifiedTable DEF Init
  <2>2. now \in Time /\ due = {}
    BY DEF Init, HistoryInit
  <2>3. CopiesInv
    BY CopiesInit
  <2>4. Listed = <<>>
    BY <2>2, <2>3, ContactsListed, NothingListed DEF Listed, CopiesInv, DoorInv
  <2>5. QED
    BY <2>1, <2>2, <2>4 DEF VerifiedDoor!Init
<1>2. QED
  BY <1>1, CopiesInit, CopiesNext, VerifiedDoorStep, PTL DEF Spec, DoorAsVerified, VerifiedDoor!Spec


-----------------------------------------------------------------------------
(***************************************************************************)
(* The component keeps configurations and states in arrays of their own.   *)
(***************************************************************************)
ConfigTable == [i \in DOMAIN contacts |-> config[i]]
StateTable == [i \in DOMAIN contacts |->
                  [open |-> contacts[i].open, opened_at |-> contacts[i].opened_at]]

LEMMA ComponentTables ==
    ASSUME CopiesInv
    PROVE  /\ DOMAIN ConfigTable = DOMAIN contacts /\ Len(ConfigTable) = Len(contacts)
           /\ \A i \in DOMAIN contacts :
                 /\ ConfigTable[i].contact_id = contacts[i].contact_id
                 /\ ConfigTable[i].zone_id = contacts[i].zone_id
                 /\ ConfigTable[i].max_open_sec = contacts[i].max_open_sec
                 /\ ConfigTable[i].night_start_hour = contacts[i].night_start_hour
                 /\ ConfigTable[i].night_end_hour = contacts[i].night_end_hour
                 /\ StateTable[i].open = contacts[i].open
                 /\ StateTable[i].opened_at = contacts[i].opened_at
<1>1. PICK n \in Nat : n = Len(contacts) /\ DOMAIN contacts = 1 .. n
  BY ContactsListed DEF CopiesInv, DoorInv
<1>2. ConfigTable = [i \in 1 .. n |-> config[i]]
  BY <1>1 DEF ConfigTable
<1>3. DOMAIN ConfigTable = DOMAIN contacts /\ Len(ConfigTable) = Len(contacts)
  BY <1>1, <1>2
<1>4. ASSUME NEW i \in DOMAIN contacts
      PROVE  /\ ConfigTable[i].contact_id = contacts[i].contact_id
             /\ ConfigTable[i].zone_id = contacts[i].zone_id
             /\ ConfigTable[i].max_open_sec = contacts[i].max_open_sec
             /\ ConfigTable[i].night_start_hour = contacts[i].night_start_hour
             /\ ConfigTable[i].night_end_hour = contacts[i].night_end_hour
  <2>1. contacts[i] = [Closed(config[i]) EXCEPT !.open = contacts[i].open,
                                                !.opened_at = contacts[i].opened_at]
    BY DEF CopiesInv, ContactsConfigured
  <2>2. ConfigTable[i] = config[i]
    BY DEF ConfigTable
  <2> HIDE DEF ConfigTable
  <2>3. /\ contacts[i].contact_id = config[i].contact_id
        /\ contacts[i].zone_id = config[i].zone_id
        /\ contacts[i].max_open_sec = config[i].max_open_sec
        /\ contacts[i].night_start_hour = config[i].night_start_hour
        /\ contacts[i].night_end_hour = config[i].night_end_hour
    BY <2>1 DEF Closed
  <2>4. QED
    BY <2>2, <2>3
<1>5. \A i \in DOMAIN contacts : /\ StateTable[i].open = contacts[i].open
                                 /\ StateTable[i].opened_at = contacts[i].opened_at
  BY DEF StateTable
<1>6. QED
  BY <1>3, <1>4, <1>5

LEMMA ComponentStarts ==
    ASSUME Init
    PROVE  DoorComponent!Starts(config)
<1>1. config \in Configs /\ contacts = RegisteredContacts(config) /\ due = {}
  BY DEF Init
<1>2. CopiesInv
  BY CopiesInit
<1>3. Listed = <<>>
  BY <1>1, <1>2, ContactsListed, NothingListed DEF Listed, CopiesInv, DoorInv
<1>4. DOMAIN contacts = {j \in DOMAIN config : j <= MaxContacts}
  BY <1>1 DEF RegisteredContacts
<1>5. ConfigTable = [i \in {j \in DOMAIN config : j <= MaxContacts} |-> config[i]]
  BY <1>4 DEF ConfigTable
<1>6. \A i \in DOMAIN contacts : ~ contacts[i].open /\ contacts[i].open = FALSE /\ contacts[i].opened_at = 0
  BY <1>1 DEF RegisteredContacts, Closed
<1>7. StateTable = [i \in DOMAIN contacts |-> [open |-> FALSE, opened_at |-> 0]]
  BY <1>6 DEF StateTable
<1>8. DOMAIN ConfigTable = DOMAIN contacts
  BY DEF ConfigTable
<1>9. StateTable = [i \in DOMAIN ConfigTable |-> DoorComponent!Closed]
  BY <1>7, <1>8 DEF DoorComponent!Closed
<1>10. QED
  BY <1>3, <1>5, <1>9 DEF DoorComponent!Starts, ConfigTable, StateTable


\* A contact changes in the table as in that of states.
LEMMA StateChanges ==
    ASSUME CopiesInv, NEW i \in DOMAIN contacts, NEW r, contacts' = [contacts EXCEPT ![i] = r],
           UNCHANGED config
    PROVE  /\ ConfigTable' = ConfigTable
           /\ StateTable' = [StateTable EXCEPT ![i] = [open |-> r.open, opened_at |-> r.opened_at]]
<1>1. DOMAIN contacts' = DOMAIN contacts /\ contacts'[i] = r
      /\ \A j \in DOMAIN contacts : j # i => contacts'[j] = contacts[j]
  BY DEF CopiesInv, DoorInv, MonitorInv
<1>2. ConfigTable' = ConfigTable
  BY <1>1 DEF ConfigTable
<1> DEFINE view == [open |-> r.open, opened_at |-> r.opened_at]
           t == [StateTable EXCEPT ![i] = view]
<1>3. /\ t = [j \in DOMAIN contacts |-> t[j]] /\ t[i] = view
      /\ \A j \in DOMAIN contacts : j # i => t[j] = [open |-> contacts[j].open,
                                                     opened_at |-> contacts[j].opened_at]
  BY DEF StateTable
<1>4. StateTable' = [j \in DOMAIN contacts |->
                        [open |-> contacts'[j].open, opened_at |-> contacts'[j].opened_at]]
  BY <1>1 DEF StateTable
<1>5. \A j \in DOMAIN contacts : t[j] = [open |-> contacts'[j].open, opened_at |-> contacts'[j].opened_at]
  <2> HIDE DEF t
  <2>1. QED
    BY <1>1, <1>3
<1>6. StateTable' = t
  <2> HIDE DEF t
  <2>1. QED
    BY <1>3, <1>4, <1>5
<1>7. QED
  BY <1>2, <1>6

LEMMA FirstOfIdInComponent ==
    ASSUME CopiesInv, NEW id, EntriesFor(id) # {}
    PROVE  DoorComponent!IsFirst(EntryFor(id), id)
<1> DEFINE e == EntryFor(id)
<1>1. e \in DOMAIN contacts /\ contacts[e].contact_id = id
      /\ \A j \in 1 .. e - 1 : contacts[j].contact_id # id
  BY FirstOfId
<1> HIDE DEF e
<1>2. DOMAIN contacts = 1 .. Len(contacts) /\ Len(contacts) \in Nat
  BY ContactsListed DEF CopiesInv, DoorInv
<1>3. \A j \in 1 .. e - 1 : j \in DOMAIN contacts
  BY <1>1, <1>2
<1>4. /\ ConfigTable[e].contact_id = id
      /\ \A j \in 1 .. e - 1 : ConfigTable[j].contact_id # id
  BY <1>1, <1>3, ComponentTables
<1>5. DoorComponent!IsFirst(e, id) <=>
          /\ ConfigTable[e].contact_id = id
          /\ \A j \in 1 .. e - 1 : ConfigTable[j].contact_id # id
  BY DEF DoorComponent!IsFirst, ConfigTable
<1>6. QED
  BY <1>4, <1>5 DEF e

LEMMA EventAsComponent ==
    ASSUME CopiesInv, NEW id \in ContactIds, ContactEvent(id)
    PROVE  DoorComponent!ProcessEvent(id)
<1> DEFINE i == EntryFor(id)
<1>1. due = {} /\ UNCHANGED <<now, config>>
  BY DEF ContactEvent, Idle, alertingVars, historyVars
<1>2. Listed = <<>>
  BY <1>1, ContactsListed, NothingListed DEF Listed, CopiesInv, DoorInv
<1>3. DoorComponent!ProcessEvent(id) <=>
          /\ Listed = <<>>
          /\ DoorComponent!Opens(id) \/ DoorComponent!Closes(id) \/ DoorComponent!Ignores(id)
          /\ ConfigTable' = ConfigTable /\ UNCHANGED now
  BY DEF DoorComponent!ProcessEvent, ConfigTable
<1>4. ASSUME EntriesFor(id) # {}, ContactOpens(i)
      PROVE  DoorComponent!Opens(id) /\ ConfigTable' = ConfigTable
  <2> DEFINE r == [contacts[i] EXCEPT !.open = TRUE, !.opened_at = now]
             c == ConfigTable[i]
  <2>1. i \in DOMAIN contacts /\ DoorComponent!IsFirst(i, id)
    BY <1>4, FirstOfId, FirstOfIdInComponent
  <2>2. r.open = TRUE /\ r.opened_at = now
    BY <2>1 DEF CopiesInv, DoorInv, MonitorInv, ContactState
  <2> HIDE DEF i
  <2>3. /\ contacts' = [contacts EXCEPT ![i] = r]
        /\ Listed' = IF IsNight(contacts[i], now)
                     THEN <<[contact |-> contacts[i].contact_id,
                             zone |-> contacts[i].zone_id, type |-> "opened_at_night"]>>
                     ELSE <<>>
    BY <1>1, <1>4, <2>1, EventListed DEF i
  <2> HIDE DEF r
  <2>4. /\ ConfigTable' = ConfigTable
        /\ StateTable' = [StateTable EXCEPT ![i] = [open |-> TRUE, opened_at |-> now]]
    BY <1>1, <2>1, <2>2, <2>3, StateChanges
  <2>5. DoorComponent!IsNightHour(Hour(now), c.night_start_hour, c.night_end_hour)
            <=> IsNight(contacts[i], now)
    <3>1. c.night_start_hour = contacts[i].night_start_hour
          /\ c.night_end_hour = contacts[i].night_end_hour
      BY <2>1, ComponentTables
    <3>2. contacts[i].night_start_hour \in Nat /\ contacts[i].night_end_hour \in Nat
      BY <2>1 DEF CopiesInv, DoorInv, MonitorInv, ContactState
    <3> HIDE DEF c
    <3>3. QED
      BY <3>1, <3>2 DEF DoorComponent!IsNightHour, IsNight
  <2>6. [contact |-> c.contact_id, zone |-> c.zone_id, type |-> "opened_at_night"] =
            [contact |-> contacts[i].contact_id,
             zone |-> contacts[i].zone_id, type |-> "opened_at_night"]
    BY <2>1, ComponentTables
  <2>7. DoorComponent!Opens(id) <=>
            \E j \in DOMAIN ConfigTable :
                /\ DoorComponent!IsFirst(j, id)
                /\ StateTable' = [StateTable EXCEPT ![j] = [open |-> TRUE, opened_at |-> now]]
                /\ Listed' = IF DoorComponent!IsNightHour(Hour(now),
                                    ConfigTable[j].night_start_hour, ConfigTable[j].night_end_hour)
                             THEN <<[contact |-> ConfigTable[j].contact_id,
                                     zone |-> ConfigTable[j].zone_id,
                                     type |-> "opened_at_night"]>>
                             ELSE <<>>
    BY DEF DoorComponent!Opens, DoorComponent!NightAlert, ConfigTable, StateTable, Hour
  <2>8. i \in DOMAIN ConfigTable
    BY <2>1, ComponentTables
  <2>9. QED
    BY <2>1, <2>3, <2>4, <2>5, <2>6, <2>7, <2>8
<1>5. ASSUME EntriesFor(id) # {}, ContactCloses(i)
      PROVE  DoorComponent!Closes(id) /\ ConfigTable' = ConfigTable
  <2> DEFINE r == [contacts[i] EXCEPT !.open = FALSE]
  <2>1. i \in DOMAIN contacts /\ DoorComponent!IsFirst(i, id)
    BY <1>5, FirstOfId, FirstOfIdInComponent
  <2>2. r.open = FALSE /\ r.opened_at = contacts[i].opened_at
    BY <2>1 DEF CopiesInv, DoorInv, MonitorInv, ContactState
  <2> HIDE DEF i
  <2>3. contacts' = [contacts EXCEPT ![i] = r] /\ Listed' = <<>>
    BY <1>1, <1>5, <2>1, EventListed DEF i
  <2> HIDE DEF r
  <2>4. /\ ConfigTable' = ConfigTable
        /\ StateTable' = [StateTable EXCEPT ![i] =
                             [open |-> FALSE, opened_at |-> contacts[i].opened_at]]
    BY <1>1, <2>1, <2>2, <2>3, StateChanges
  <2>5. StateTable' = [StateTable EXCEPT ![i].open = FALSE]
    <3>1. StateTable[i] = [open |-> contacts[i].open, opened_at |-> contacts[i].opened_at]
      BY <2>1 DEF StateTable
    <3>2. [StateTable[i] EXCEPT !.open = FALSE] =
              [open |-> FALSE, opened_at |-> contacts[i].opened_at]
      <4> DEFINE T == [open : BOOLEAN, opened_at : Time]
      <4>1. \A s \in T : [s EXCEPT !.open = FALSE] = [open |-> FALSE, opened_at |-> s.opened_at]
        <5>1. ASSUME NEW s \in T
              PROVE  [s EXCEPT !.open = FALSE] = [open |-> FALSE, opened_at |-> s.opened_at]
          <6>1. [s EXCEPT !.open = FALSE] \in T /\ [s EXCEPT !.open = FALSE].open = FALSE
                /\ [s EXCEPT !.open = FALSE].opened_at = s.opened_at
            OBVIOUS
          <6>2. \A u \in T : u = [open |-> u.open, opened_at |-> u.opened_at]
            OBVIOUS
          <6>3. QED
            BY <6>1, <6>2
        <5>2. QED
          BY <5>1
      <4>2. contacts[i].open \in BOOLEAN /\ contacts[i].opened_at \in Time
        BY <2>1 DEF CopiesInv, DoorInv, MonitorInv, ContactState
      <4>3. /\ StateTable[i] \in T
            /\ StateTable[i].opened_at = contacts[i].opened_at
        BY <3>1, <4>2
      <4>4. QED
        BY <4>1, <4>3
    <3>3. QED
      BY <2>4, <3>2
  <2>6. DoorComponent!Closes(id) <=>
            \E j \in DOMAIN ConfigTable :
                /\ DoorComponent!IsFirst(j, id)
                /\ StateTable' = [StateTable EXCEPT ![j].open = FALSE]
                /\ Listed' = <<>>
    BY DEF DoorComponent!Closes, ConfigTable, StateTable
  <2>7. i \in DOMAIN ConfigTable
    BY <2>1, ComponentTables
  <2>8. QED
    BY <2>1, <2>3, <2>4, <2>5, <2>6, <2>7
<1>6. CASE EntriesFor(id) = {} /\ UNCHANGED <<contacts, due, alertedAt>>
  <2>1. ConfigTable' = ConfigTable /\ StateTable' = StateTable /\ Listed' = <<>>
    BY <1>1, <1>2, <1>6 DEF ConfigTable, StateTable, Listed
  <2>2. \A j \in DOMAIN ConfigTable : ConfigTable[j].contact_id # id
    <3>1. \A j \in DOMAIN contacts : contacts[j].contact_id # id
      BY <1>6 DEF EntriesFor
    <3>2. QED
      BY <3>1, ComponentTables
  <2>3. DoorComponent!Ignores(id) <=>
            /\ \A j \in DOMAIN ConfigTable : ConfigTable[j].contact_id # id
            /\ Listed' = <<>>
            /\ StateTable' = StateTable
    BY DEF DoorComponent!Ignores, ConfigTable, StateTable
  <2>4. DoorComponent!Ignores(id)
    BY <2>1, <2>2, <2>3
  <2>5. QED
    BY <1>1, <1>2, <1>3, <2>1, <2>4
<1>7. QED
  BY <1>1, <1>2, <1>3, <1>4, <1>5, <1>6 DEF ContactEvent


LEMMA CheckAsComponent ==
    ASSUME CopiesInv, TickStarts, SlotFires(now)
    PROVE  DoorComponent!CheckTimeouts
<1> DEFINE n == Len(ConfigTable)
           M == MaxAlertsPerCheck
           Grown(u, i) == IF DoorComponent!Expired(i) /\ Len(u) < M
                          THEN Append(u, DoorComponent!TimeoutAlert(i)) ELSE u
           Turn(f) == [i \in 0 .. n |-> IF i = 0 THEN <<>> ELSE Grown(f[i - 1], i)]
           list == CHOOSE f : f = Turn(f)
<1>1. PICK f : LimitedRun(f, contacts, TimedOut(now)) /\ Listed' = f[Len(contacts)]
  BY CheckListed
<1>2. DoorComponent!CheckTimeouts <=>
          /\ Listed = <<>> /\ Listed' = list[n]
          /\ ConfigTable' = ConfigTable /\ StateTable' = StateTable /\ UNCHANGED now
  BY DEF DoorComponent!CheckTimeouts, Grown, ConfigTable, StateTable
<1>3. n \in Nat /\ DOMAIN contacts = 1 .. n /\ n = Len(contacts)
  BY ContactsListed, ComponentTables DEF CopiesInv, DoorInv
<1>4. ASSUME NEW i \in DOMAIN contacts
      PROVE  /\ i \in TimedOut(now) <=> DoorComponent!Expired(i)
             /\ Written(contacts, TooLong(i)) = DoorComponent!TimeoutAlert(i)
  <2>1. /\ DoorComponent!Expired(i) <=>
               /\ StateTable[i].open
               /\ now >= StateTable[i].opened_at
               /\ now - StateTable[i].opened_at > ConfigTable[i].max_open_sec
        /\ DoorComponent!TimeoutAlert(i) =
               [contact |-> ConfigTable[i].contact_id, zone |-> ConfigTable[i].zone_id,
                type |-> "open_too_long"]
    BY DEF DoorComponent!Expired, DoorComponent!TimeoutAlert, ConfigTable, StateTable
  <2>2. QED
    BY <2>1, LateMeans, ComponentTables DEF VerifiedDoor!Late
<1>5. \A u : \A i \in 1 .. n : Grown(u, i) = Limited(u, contacts, TimedOut(now), i)
  BY <1>3, <1>4 DEF Limited
<1> HIDE DEF Grown, n
<1> DEFINE g == [i \in 0 .. n |-> f[i]]
<1>6. /\ g[0] = <<>> /\ g[n] = f[n]
      /\ \A i \in 1 .. n : g[i] = Limited(g[i - 1], contacts, TimedOut(now), i)
  <2>1. \A i \in 1 .. n : i - 1 \in 0 .. n /\ i \in 0 .. n
    BY <1>3
  <2>2. f[0] = <<>> /\ \A i \in 1 .. n : f[i] = Limited(f[i - 1], contacts, TimedOut(now), i)
    BY <1>1, <1>3 DEF LimitedRun
  <2>3. QED
    BY <1>3, <2>1, <2>2
<1>7. g = Turn(g)
  <2>1. g = [i \in 0 .. n |-> g[i]]
    OBVIOUS
  <2> HIDE DEF g
  <2>2. \A i \in 0 .. n : i = 0 \/ i \in 1 .. n
    BY <1>3
  <2>3. \A i \in 0 .. n : g[i] = IF i = 0 THEN <<>> ELSE Grown(g[i - 1], i)
    BY <1>5, <1>6, <2>2
  <2>4. QED
    BY <2>1, <2>3
<1>8. list = Turn(list)
  <2> HIDE DEF g
  <2>1. \E h : h = Turn(h)
    BY <1>7
  <2>2. QED
    BY <2>1
<1> HIDE DEF list, g
<1>9. list[0] = <<>> /\ \A i \in 1 .. n : list[i] = Limited(list[i - 1], contacts, TimedOut(now), i)
  BY <1>3, <1>5, <1>8
<1>10. list[n] = g[n]
  <2>1. \A i \in 1 .. n : list[i - 1] = g[i - 1] => list[i] = g[i]
    BY <1>6, <1>9
  <2>2. list[0] = g[0] /\ n \in Nat
    BY <1>3, <1>6, <1>9
  <2>3. QED
    BY <2>1, <2>2, LoopsAgree
<1>11. Listed = <<>> /\ UNCHANGED <<contacts, config, now>>
  BY CheckListed DEF TickStarts
<1>12. ConfigTable' = ConfigTable /\ StateTable' = StateTable
  BY <1>11 DEF ConfigTable, StateTable
<1>13. QED
  BY <1>1, <1>2, <1>3, <1>6, <1>10, <1>11, <1>12

LEMMA ComponentDoorStep ==
    ASSUME CopiesInv, [Next]_vars
    PROVE  [DoorComponent!Next]_<<ConfigTable, StateTable, Listed, now>>
<1>1. ASSUME UNCHANGED <<contacts, config, due>>
      PROVE  UNCHANGED <<ConfigTable, StateTable, Listed>>
  BY <1>1 DEF Listed, ConfigTable, StateTable
<1>2. DoorComponent!Next <=>
          \/ \E id \in ContactIds : DoorComponent!ProcessEvent(id)
          \/ DoorComponent!CheckTimeouts
          \/ /\ Listed # <<>> /\ Listed' = Tail(Listed)
             /\ UNCHANGED <<ConfigTable, StateTable, now>>
          \/ now' \in Time /\ UNCHANGED <<ConfigTable, StateTable, Listed>>
  BY DEF DoorComponent!Next, DoorComponent!TakeAlert, DoorComponent!ClockMoves,
         ConfigTable, StateTable
<1>3. ASSUME NEW id \in ContactIds, ContactEvent(id)
      PROVE  DoorComponent!Next
  BY <1>2, <1>3, EventAsComponent
<1>4. CASE TickStarts
  <2>1. CASE SlotFires(now)
    BY <1>2, <1>4, <2>1, CheckAsComponent
  <2>2. CASE ~ SlotFires(now)
    <3>1. UNCHANGED <<contacts, config, due, now>>
      BY <1>4, <2>2 DEF TickStarts, Idle, alertingVars, historyVars
    <3>2. QED
      BY <1>1, <3>1
  <2>3. QED
    BY <2>1, <2>2
<1>5. CASE DispatchDue
  <2>1. Listed # <<>> /\ Listed' = Tail(Listed) /\ UNCHANGED <<contacts, config, now>>
    BY <1>5, DispatchTakes DEF DispatchDue
  <2>2. UNCHANGED <<ConfigTable, StateTable>>
    BY <2>1 DEF ConfigTable, StateTable
  <2>3. QED
    BY <1>2, <2>1, <2>2
<1>6. CASE TickEnds
  <2>1. UNCHANGED <<contacts, config, due, now>>
    BY <1>6 DEF TickEnds, HouseKeeping, historyVars
  <2>2. QED
    BY <1>1, <2>1
<1>7. CASE Clock
  <2>1. UNCHANGED <<contacts, config, due>> /\ now' \in Time
    BY <1>7 DEF Clock, ClockStep, doorVars
  <2>2. QED
    BY <1>1, <1>2, <2>1
<1>8. CASE UNCHANGED vars
  <2>1. UNCHANGED <<contacts, config, due, now>>
    BY <1>8 DEF vars, doorVars, alertingVars, historyVars
  <2>2. QED
    BY <1>1, <2>1
<1>9. QED
  BY <1>3, <1>4, <1>5, <1>6, <1>7, <1>8 DEF Next

\* Likewise for the component, whose table is two arrays.
THEOREM DoorComponentHolds == Spec => DoorAsComponent
<1>1. Init => DoorComponent!Init
  <2> SUFFICES ASSUME Init PROVE DoorComponent!Init
    OBVIOUS
  <2>1. config \in Configs /\ now \in Time
    BY DEF Init, HistoryInit
  <2>2. QED
    BY <2>1, ComponentStarts DEF DoorComponent!Init
<1>2. CopiesInv /\ [Next]_vars => [DoorComponent!Next]_<<ConfigTable, StateTable, Listed, now>>
  BY ComponentDoorStep
<1>3. QED
  BY <1>1, <1>2, CopiesInit, CopiesNext, PTL
     DEF Spec, DoorAsComponent, DoorComponent!Spec, ConfigTable, StateTable

=============================================================================
