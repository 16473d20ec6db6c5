-------------------------- MODULE LeakAlerts_proofs --------------------------
(***************************************************************************)
(* Of one leak the owner is told at most once, for every configuration,    *)
(* table size, cooldown and budget.  The dispatcher plays no part in it:   *)
(* it is the wet flag, set in the very step that raises the alert, that    *)
(* keeps a second one from being raised.                                   *)
(*                                                                         *)
(* And where he is not told at all, the dispatcher had one of two reasons. *)
(***************************************************************************)
EXTENDS LeakAlerts, Alerting_proofs

Entry == [zone_id : Zones, wet : BOOLEAN, detected_at : Time]

\* A zone reported since it was last dry is still wet.  OneReportPerEpisode
\* alone is not inductive: a reported zone that were dry could be reported
\* again by its next wet reading.
LeakInv ==
    /\ DOMAIN leakZones \subseteq Nat
    /\ leakZones \in [DOMAIN leakZones -> Entry]
    /\ now \in Time
    /\ config \in Configs
    /\ reports \in [Zones -> Nat]
    /\ \A z \in Zones : reports[z] <= 1 /\ (reports[z] = 1 => Wet(z))

-----------------------------------------------------------------------------
\* Every nonempty set of positions of the table has a least one.
LEMMA EntryOfExists ==
    ASSUME DOMAIN leakZones \subseteq Nat, NEW z, Known(z)
    PROVE  /\ EntryOf(z) \in DOMAIN leakZones
           /\ leakZones[EntryOf(z)].zone_id = z
<1> DEFINE R == OpToRel(<, Nat)
<1>1. \A i, j \in Nat : <<i, j>> \notin R => j <= i
  BY DEF OpToRel
<1>2. IsWellFoundedOn(R, Nat)
  BY NatLessThanWellFounded
<1> HIDE DEF R
<1>3. EntriesOf(z) \subseteq Nat /\ EntriesOf(z) # {}
  BY DEF EntriesOf, Known
<1>4. PICK i \in EntriesOf(z) : \A j \in EntriesOf(z) : <<j, i>> \notin R
  BY <1>2, <1>3, WFMin
<1>5. \A j \in EntriesOf(z) : i <= j
  BY <1>1, <1>3, <1>4
<1>6. EntryOf(z) \in EntriesOf(z)
  BY <1>4, <1>5 DEF EntryOf
<1>7. QED
  BY <1>6 DEF EntriesOf

\* A reading changes the flag of one entry, so every zone keeps its entry, and
\* the other zones their flags.
LEMMA FlagWrite ==
    ASSUME DOMAIN leakZones \subseteq Nat,
           leakZones \in [DOMAIN leakZones -> Entry],
           NEW z, Known(z), NEW w \in BOOLEAN, NEW t \in Time,
           \/ leakZones' = [leakZones EXCEPT ![EntryOf(z)].wet = w,
                                             ![EntryOf(z)].detected_at = t]
           \/ leakZones' = [leakZones EXCEPT ![EntryOf(z)].wet = w]
    PROVE  /\ DOMAIN leakZones' = DOMAIN leakZones
           /\ leakZones' \in [DOMAIN leakZones' -> Entry]
           /\ Wet(z)' <=> w
           /\ \A y : y # z => (Wet(y)' <=> Wet(y))
           /\ \A y : y # z /\ Wet(y) => DetectedAt(y)' = DetectedAt(y)
<1> DEFINE e == EntryOf(z)
<1>1. e \in DOMAIN leakZones /\ leakZones[e].zone_id = z
  BY EntryOfExists
<1>2. DOMAIN leakZones' = DOMAIN leakZones
  OBVIOUS
<1> HIDE DEF e
<1>3. /\ leakZones'[e] \in Entry
      /\ leakZones'[e].zone_id = z
      /\ leakZones'[e].wet = w
  BY <1>1 DEF Entry, e
<1>4. \A i \in DOMAIN leakZones : i # e => leakZones'[i] = leakZones[i]
  BY DEF e
<1>5. \A y : EntriesOf(y)' = EntriesOf(y)
  BY <1>1, <1>2, <1>3, <1>4 DEF EntriesOf
<1>6. \A y : EntryOf(y)' = EntryOf(y) /\ (Known(y)' <=> Known(y))
  BY <1>5 DEF EntryOf, Known
<1>7. leakZones' \in [DOMAIN leakZones' -> Entry]
  BY <1>1, <1>2, <1>3, <1>4
<1>8. Wet(z)' <=> w
  BY <1>3, <1>6 DEF Wet, e
<1>9. ASSUME NEW y, y # z
      PROVE  (Wet(y)' <=> Wet(y)) /\ (Wet(y) => DetectedAt(y)' = DetectedAt(y))
  <2>1. CASE Known(y)
    <3>1. EntryOf(y) \in DOMAIN leakZones /\ EntryOf(y) # e
      BY <1>1, <1>9, <2>1, EntryOfExists
    <3>2. leakZones'[EntryOf(y)] = leakZones[EntryOf(y)] /\ EntryOf(y)' = EntryOf(y)
      BY <1>4, <1>6, <3>1
    <3>3. QED
      BY <1>6, <3>2 DEF Wet, DetectedAt
  <2>2. CASE ~ Known(y)
    BY <1>6, <2>2 DEF Wet
  <2>3. QED
    BY <2>1, <2>2
<1>10. QED
  BY <1>2, <1>7, <1>8, <1>9

\* The table the hub starts with is dry.
LEMMA RegisteredDry ==
    ASSUME NEW c \in Configs
    PROVE  LET table == RegisteredZones(c.water)
           IN  /\ DOMAIN table \subseteq Nat
               /\ table \in [DOMAIN table -> Entry]
               /\ \A i \in DOMAIN table : ~ table[i].wet
<1>1. c.water \in Seq(Zones)
  BY LeakAlertsAssumption
<1>2. DOMAIN c.water \subseteq Nat /\ \A i \in DOMAIN c.water : c.water[i] \in Zones
  BY <1>1
<1>3. 0 \in Time
  BY DispatcherAssumption DEF Time
<1>4. QED
  BY <1>2, <1>3 DEF RegisteredZones, DryZone, Entry

-----------------------------------------------------------------------------
LEMMA LeakInit == Init => LeakInv
  BY RegisteredDry DEF Init, HistoryInit, LeakInv

LEMMA LeakNext == LeakInv /\ [Next]_vars => LeakInv'
<1> SUFFICES ASSUME LeakInv, [Next]_vars PROVE LeakInv'
  OBVIOUS
<1> USE DEF LeakInv
<1>0. ASSUME UNCHANGED leakZones
      PROVE  \A y : Wet(y)' <=> Wet(y)
  <2>1. \A y : EntriesOf(y)' = EntriesOf(y)
    BY <1>0 DEF EntriesOf
  <2>2. \A y : EntryOf(y)' = EntryOf(y) /\ (Known(y)' <=> Known(y))
    BY <2>1 DEF EntryOf, Known
  <2>3. QED
    BY <1>0, <2>2 DEF Wet
<1>1. ASSUME NEW z \in Zones, LeakDetected(z)
      PROVE  LeakInv'
  <2>1. /\ Known(z) /\ ~ Wet(z) /\ reports[z] = 0
        /\ UNCHANGED <<now, config>>
    BY <1>1 DEF LeakDetected, NewLeak, Raise, RaiseUnsubscribed, RaiseDuplicate,
                RaiseOverBudget, RaiseSent
  <2>2. /\ DOMAIN leakZones' = DOMAIN leakZones
        /\ leakZones' \in [DOMAIN leakZones' -> Entry]
        /\ Wet(z)'
        /\ \A y : y # z => (Wet(y)' <=> Wet(y))
    <3>1. leakZones' = [leakZones EXCEPT ![EntryOf(z)].wet = TRUE,
                                        ![EntryOf(z)].detected_at = now]
      BY <1>1 DEF LeakDetected, NewLeak
    <3>2. QED
      BY <2>1, <3>1, FlagWrite
  <2>3. /\ reports' \in [Zones -> Nat]
        /\ reports'[z] <= 1
        /\ \A y \in Zones : y # z => reports'[y] = reports[y]
    BY <1>1, <2>1 DEF LeakDetected
  <2>4. QED
    BY <2>1, <2>2, <2>3
<1>2. ASSUME NEW z \in Zones,
             AlreadyWet(z) \/ Unknown(z), UNCHANGED <<alertingVars, config, reports>>
      PROVE  LeakInv'
  BY <1>0, <1>2 DEF AlreadyWet, Unknown, alertingVars, historyVars
<1>3. ASSUME NEW z \in Zones, DryReading(z)
      PROVE  LeakInv'
  <2>1. UNCHANGED <<now, config>>
    BY <1>3 DEF DryReading, alertingVars, historyVars
  <2>2. /\ reports' \in [Zones -> Nat] /\ reports'[z] = 0
        /\ \A y \in Zones : y # z => reports'[y] = reports[y]
    BY <1>3 DEF DryReading
  <2>3. CASE Cleared(z)
    <3>1. Known(z) /\ leakZones' = [leakZones EXCEPT ![EntryOf(z)].wet = FALSE]
      BY <2>3 DEF Cleared, Wet
    <3>2. /\ DOMAIN leakZones' = DOMAIN leakZones
          /\ leakZones' \in [DOMAIN leakZones' -> Entry]
          /\ \A y : y # z => (Wet(y)' <=> Wet(y))
      BY <3>1, FlagWrite
    <3>3. QED
      BY <2>1, <2>2, <3>2
  <2>4. CASE AlreadyDry(z) \/ Unknown(z)
    <3>1. UNCHANGED leakZones
      BY <2>4 DEF AlreadyDry, Unknown
    <3>2. QED
      BY <1>0, <2>1, <2>2, <3>1
  <2>5. QED
    BY <1>3, <2>3, <2>4 DEF DryReading
<1>4. ASSUME UNCHANGED <<leakZones, config, reports>>, now' \in Time
      PROVE  LeakInv'
  BY <1>0, <1>4
<1>5. ASSUME NEW k \in Key, OtherAlert(k)
      PROVE  LeakInv'
  BY <1>4, <1>5 DEF OtherAlert, Raise, RaiseUnsubscribed, RaiseDuplicate,
                    RaiseOverBudget, RaiseSent
<1>6. CASE Tick \/ Clock
  BY <1>4, <1>6 DEF Tick, HouseKeeping, historyVars, Clock, ClockStep
<1>7. CASE Restart
  <2>1. leakZones' = RegisteredZones(config'.water) /\ config' \in Configs /\ UNCHANGED now
        /\ reports' = [z \in Zones |-> 0]
    BY <1>7 DEF Restart
  <2>2. QED
    BY <2>1, RegisteredDry
<1>8. CASE UNCHANGED vars
  BY <1>4, <1>8 DEF vars, alertingVars, historyVars
<1>9. QED
  BY <1>1, <1>2, <1>3, <1>5, <1>6, <1>7, <1>8 DEF Next, WetReading

\* Of one leak, from the first wet reading to a dry one, the owner is told at
\* most once by one run of the hub.
THEOREM OneReportHolds == Spec => []OneReportPerEpisode
<1>1. LeakInv => OneReportPerEpisode
  BY DEF LeakInv, OneReportPerEpisode
<1>2. QED
  BY <1>1, LeakInit, LeakNext, PTL DEF Spec

-----------------------------------------------------------------------------
(***************************************************************************)
(* Types.                                                                  *)
(***************************************************************************)
\* The table that register_zone leaves is within its array.
LEMMA RegisteredType ==
    ASSUME NEW c \in Configs
    PROVE  RegisteredZones(c.water) \in Seq(Entry) /\ Len(RegisteredZones(c.water)) <= MaxLeakZones
<1> DEFINE ids == c.water
           n == IF Len(ids) <= MaxLeakZones THEN Len(ids) ELSE MaxLeakZones
<1>1. ids \in Seq(Zones) /\ MaxLeakZones \in Nat /\ 0 \in Time
  BY LeakAlertsAssumption, LeakAssumption, DispatcherAssumption DEF Time
<1>2. n \in Nat /\ n <= MaxLeakZones /\ n <= Len(ids)
  BY <1>1
<1>3. {j \in DOMAIN ids : j <= MaxLeakZones} = 1 .. n
  BY <1>1
<1> HIDE DEF n
<1>4. \A i \in 1 .. n : DryZone(ids[i]) \in Entry
  BY <1>1, <1>2 DEF DryZone, Entry
<1>5. RegisteredZones(ids) = [i \in 1 .. n |-> DryZone(ids[i])]
  BY <1>3 DEF RegisteredZones
<1>6. [i \in 1 .. n |-> DryZone(ids[i])] \in [1 .. n -> Entry]
  BY <1>4
<1>7. [i \in 1 .. n |-> DryZone(ids[i])] \in Seq(Entry)
  BY <1>2, <1>6
<1>8. Len([i \in 1 .. n |-> DryZone(ids[i])]) = n
  BY <1>2
<1>9. QED
  BY <1>2, <1>5, <1>7, <1>8

\* The subscriptions that configure leaves are within theirs.
LEMMA SubscriptionTableType ==
    ASSUME NEW c \in Configs
    PROVE  /\ SubscriptionTable(c) \subseteq AlertTypes \X (0 .. ZoneSpan - 1)
           /\ IsFiniteSet(SubscriptionTable(c))
           /\ Cardinality(SubscriptionTable(c)) <= MaxSubscriptions
<1>1. c.keys \in Seq(Key)
  BY LeakAlertsAssumption
<1>2. QED
  BY <1>1, SubscribedToType DEF SubscriptionTable

\* A table of entries with the positions of a sequence is one.
LEMMA SameLength ==
    ASSUME leakZones \in Seq(Entry), Len(leakZones) <= MaxLeakZones,
           DOMAIN leakZones' = DOMAIN leakZones, leakZones' \in [DOMAIN leakZones' -> Entry]
    PROVE  leakZones' \in Seq(Entry) /\ Len(leakZones') <= MaxLeakZones
<1>1. PICK n \in Nat : n = Len(leakZones) /\ DOMAIN leakZones = 1 .. n
  OBVIOUS
<1>2. leakZones' \in [1 .. n -> Entry]
  BY <1>1
<1>3. leakZones' \in Seq(Entry) /\ Len(leakZones') = n
  BY <1>2
<1>4. QED
  BY <1>1, <1>3

\* What a reading does to the table, whatever it finds.
LEMMA ReadingType ==
    ASSUME leakZones \in Seq(Entry), Len(leakZones) <= MaxLeakZones, now \in Time, NEW z,
           NewLeak(z, now) \/ Cleared(z)
    PROVE  leakZones' \in Seq(Entry) /\ Len(leakZones') <= MaxLeakZones
<1>1. DOMAIN leakZones \subseteq Nat /\ leakZones \in [DOMAIN leakZones -> Entry]
  OBVIOUS
<1>2. Known(z)
  BY DEF NewLeak, Cleared, Wet
<1>3. \E w \in BOOLEAN :
        \/ leakZones' = [leakZones EXCEPT ![EntryOf(z)].wet = w,
                                          ![EntryOf(z)].detected_at = now]
        \/ leakZones' = [leakZones EXCEPT ![EntryOf(z)].wet = w]
  BY DEF NewLeak, Cleared
<1>4. DOMAIN leakZones' = DOMAIN leakZones /\ leakZones' \in [DOMAIN leakZones' -> Entry]
  BY <1>1, <1>2, <1>3, FlagWrite
<1>5. QED
  BY <1>4, SameLength

LEMMA LeakTypeInit == Init => TypeOK
<1> SUFFICES ASSUME Init PROVE TypeOK
  OBVIOUS
<1>1. PICK c \in Configs : c = config
  BY DEF Init
<1>2. AlertingTypeOK
  <2>1. /\ recent = {} /\ minuteCount = 0 /\ minuteStart = 0
        /\ subscriptions = SubscriptionTable(c) /\ now \in Time
        /\ result = None /\ delivered = {} /\ sends = {}
    BY <1>1 DEF Init, HistoryInit
  <2>2. DispatcherTypeOK
    BY <2>1, SubscriptionTableType, FS_EmptySet, DispatcherAssumption DEF DispatcherTypeOK, Time
  <2>3. QED
    BY <2>1, <2>2, FS_EmptySet DEF AlertingTypeOK
<1>3. leakZones = RegisteredZones(c.water) /\ reports \in [Zones -> Nat]
  BY <1>1 DEF Init
<1>4. QED
  BY <1>1, <1>2, <1>3, RegisteredType DEF TypeOK, Entry

LEMMA LeakTypeNext == TypeOK /\ [Next]_vars => TypeOK'
<1> SUFFICES ASSUME TypeOK, [Next]_vars PROVE TypeOK'
  OBVIOUS
<1>0. /\ AlertingTypeOK /\ leakZones \in Seq(Entry) /\ Len(leakZones) <= MaxLeakZones
      /\ config \in Configs /\ reports \in [Zones -> Nat] /\ now \in Time
  BY DEF TypeOK, Entry, AlertingTypeOK
<1>a. ASSUME AlertingTypeOK', leakZones' \in Seq(Entry), Len(leakZones') <= MaxLeakZones,
             config' \in Configs, reports' \in [Zones -> Nat]
      PROVE  TypeOK'
  BY <1>a DEF TypeOK, Entry
<1>b. UNCHANGED alertingVars => AlertingTypeOK'
  BY <1>0 DEF alertingVars, dispatcherVars, historyVars, AlertingTypeOK, DispatcherTypeOK
<1>1. ASSUME NEW z \in Zones, LeakDetected(z)
      PROVE  TypeOK'
  <2>1. LeakKey(z) \in Key
    BY LeakAlertsAssumption DEF LeakKey, Key
  <2>2. AlertingTypeOK'
    BY <1>0, <1>1, <2>1, RaiseType DEF LeakDetected
  <2>3. leakZones' \in Seq(Entry) /\ Len(leakZones') <= MaxLeakZones
    BY <1>0, <1>1, ReadingType DEF LeakDetected
  <2>4. reports' \in [Zones -> Nat] /\ config' = config
    BY <1>0, <1>1 DEF LeakDetected
  <2>5. QED
    BY <1>0, <1>a, <2>2, <2>3, <2>4
<1>2. ASSUME NEW z \in Zones, WetReading(z), ~ LeakDetected(z)
      PROVE  TypeOK'
  BY <1>0, <1>a, <1>b, <1>2 DEF WetReading, AlreadyWet, Unknown
<1>3. ASSUME NEW z \in Zones, DryReading(z)
      PROVE  TypeOK'
  <2>1. leakZones' \in Seq(Entry) /\ Len(leakZones') <= MaxLeakZones
    BY <1>0, <1>3, ReadingType DEF DryReading, AlreadyDry, Unknown
  <2>2. reports' \in [Zones -> Nat] /\ config' = config /\ UNCHANGED alertingVars
    BY <1>0, <1>3 DEF DryReading
  <2>3. QED
    BY <1>0, <1>a, <1>b, <2>1, <2>2
<1>4. ASSUME NEW k \in Key, OtherAlert(k)
      PROVE  TypeOK'
  BY <1>0, <1>4, <1>a, RaiseType DEF OtherAlert
<1>5. CASE Tick
  BY <1>0, <1>5, <1>a, HouseKeepingType DEF Tick
<1>6. CASE Clock
  <2>1. AlertingTypeOK'
    BY <1>0, <1>6 DEF Clock, ClockStep, dispatcherVars, AlertingTypeOK, DispatcherTypeOK
  <2>2. QED
    BY <1>0, <1>6, <1>a, <2>1 DEF Clock
<1>7. CASE Restart
  <2>1. PICK c \in Configs : c = config'
    BY <1>7 DEF Restart
  <2>2. /\ recent' = {} /\ minuteCount' = 0 /\ minuteStart' = 0
        /\ subscriptions' = SubscriptionTable(c) /\ now' \in Time
        /\ result' = None /\ delivered' = {} /\ sends' = {}
    BY <1>0, <1>7, <2>1 DEF Restart
  <2>3. AlertingTypeOK'
    <3>1. DispatcherTypeOK'
      BY <2>2, SubscriptionTableType, FS_EmptySet, DispatcherAssumption
         DEF DispatcherTypeOK, Time
    <3>2. QED
      BY <2>2, <3>1, FS_EmptySet DEF AlertingTypeOK
  <2>4. leakZones' = RegisteredZones(c.water) /\ reports' \in [Zones -> Nat]
    BY <1>7, <2>1 DEF Restart
  <2>5. QED
    BY <1>a, <2>1, <2>3, <2>4, RegisteredType
<1>8. CASE UNCHANGED vars
  BY <1>0, <1>8, <1>a, <1>b DEF vars
<1>9. QED
  BY <1>1, <1>2, <1>3, <1>4, <1>5, <1>6, <1>7, <1>8 DEF Next

\* For every configuration the monitor's table, the dispatcher's tables and
\* their subscriptions stay within their arrays, over any number of restarts.
THEOREM LeakTypeCorrect == Spec => []TypeOK
  BY LeakTypeInit, LeakTypeNext, PTL DEF Spec

-----------------------------------------------------------------------------
(***************************************************************************)
(* Why a leak was not sent.                                                *)
(***************************************************************************)
EntriesWereSent == \A e \in recent : \E d \in delivered : d.key = e.key /\ d.time = e.time

NothingLater == \A d \in delivered : d.time <= now

ExcuseInv ==
    /\ BudgetInv
    /\ EntriesWereSent
    /\ NothingLater
    /\ SilenceIsExcused

\* An excuse stays one as the history grows.
LEMMA ExcusesLast ==
    ASSUME AlertingTypeOK', delivered \subseteq delivered', sends \subseteq sends',
           AlertingTypeOK, NEW k, NEW t
    PROVE  /\ HeardBefore(k, t) => HeardBefore(k, t)'
           /\ BudgetSpent(t) => BudgetSpent(t)'
<1>1. HeardBefore(k, t) => HeardBefore(k, t)'
  BY DEF HeardBefore, SatAdd
<1>2. BudgetSpent(t) => BudgetSpent(t)'
  <2> DEFINE from == t - MinuteSec + 1
             S == {s \in sends : from <= s.time /\ s.time <= t}
             T == {s \in sends' : from <= s.time /\ s.time <= t}
  <2>1. IsFiniteSet(sends') /\ S \subseteq T /\ T \in SUBSET sends'
    BY DEF AlertingTypeOK
  <2>2. SentBetween(from, t) = Cardinality(S) /\ SentBetween(from, t)' = Cardinality(T)
    BY DEF SentBetween
  <2> HIDE DEF S, T
  <2>3. /\ Cardinality(S) \in Nat /\ Cardinality(T) \in Nat
        /\ Cardinality(S) <= Cardinality(T)
    BY <2>1, FS_Subset, FS_CardinalityType
  <2>4. MaxPerMinute \in Nat
    BY DispatcherAssumption
  <2>5. QED
    BY <2>2, <2>3, <2>4 DEF BudgetSpent
<1>3. QED
  BY <1>1, <1>2

\* A zone that was wet and stays so keeps its excuse.
LEMMA ZoneExcused ==
    ASSUME AlertingTypeOK, AlertingTypeOK', SilenceIsExcused, UNCHANGED subscriptions,
           delivered \subseteq delivered', sends \subseteq sends',
           NEW z \in Zones, Wet(z), DetectedAt(z)' = DetectedAt(z), IsSubscribed(LeakKey(z))'
    PROVE  HeardBefore(LeakKey(z), DetectedAt(z))' \/ BudgetSpent(DetectedAt(z))'
<1>1. PICK t : t = DetectedAt(z) /\ t = DetectedAt(z)'
  OBVIOUS
<1>2. IsSubscribed(LeakKey(z))
  BY DEF IsSubscribed
<1>3. HeardBefore(LeakKey(z), t) \/ BudgetSpent(t)
  BY <1>1, <1>2 DEF SilenceIsExcused
<1>4. HeardBefore(LeakKey(z), t)' \/ BudgetSpent(t)'
  BY <1>3, ExcusesLast
<1>5. QED
  BY <1>1, <1>4 DEF HeardBefore, BudgetSpent, SentBetween

\* The same for all zones, when no table entry changes.
LEMMA AllExcused ==
    ASSUME AlertingTypeOK, AlertingTypeOK', SilenceIsExcused, UNCHANGED <<leakZones, subscriptions>>,
           delivered \subseteq delivered', sends \subseteq sends'
    PROVE  SilenceIsExcused'
<1>1. \A y : EntriesOf(y)' = EntriesOf(y)
  BY DEF EntriesOf
<1>2. \A y : EntryOf(y)' = EntryOf(y) /\ (Known(y)' <=> Known(y))
  BY <1>1 DEF EntryOf, Known
<1>3. \A y : (Wet(y)' <=> Wet(y)) /\ DetectedAt(y)' = DetectedAt(y)
  BY <1>2 DEF Wet, DetectedAt
<1>4. QED
  BY <1>3, ZoneExcused DEF SilenceIsExcused

\* What the four outcomes of process_alert do to the history.
LEMMA RaiseHistory ==
    ASSUME EntriesWereSent, NothingLater, now \in Time, NEW k \in Key, Raise(k)
    PROVE  /\ UNCHANGED <<subscriptions, now>>
           /\ delivered \subseteq delivered' /\ sends \subseteq sends'
           /\ EntriesWereSent' /\ NothingLater'
<1>1. CASE RaiseSent(k)
  <2> DEFINE room == Cardinality(recent) < MaxRecent
             new == [key |-> k, time |-> now, recorded |-> room]
  <2>1. /\ delivered' = delivered \cup {new} /\ sends \subseteq sends' /\ UNCHANGED <<subscriptions, now>>
        /\ recent' \subseteq recent \cup {[key |-> k, time |-> now]}
    BY <1>1 DEF RaiseSent, Send, Record
  <2>2. new.key = k /\ new.time = now
    OBVIOUS
  <2> HIDE DEF new
  <2>3. EntriesWereSent'
    <3> SUFFICES ASSUME NEW e \in recent'
                 PROVE  \E d \in delivered' : d.key = e.key /\ d.time = e.time
      BY DEF EntriesWereSent
    <3>1. CASE e \in recent
      BY <3>1, <2>1 DEF EntriesWereSent
    <3>2. CASE e = [key |-> k, time |-> now]
      BY <3>2, <2>1, <2>2
    <3>3. QED
      BY <2>1, <3>1, <3>2
  <2>4. NothingLater'
    BY <2>1, <2>2 DEF NothingLater, Time
  <2>5. QED
    BY <2>1, <2>3, <2>4
<1>2. CASE RaiseUnsubscribed(k) \/ RaiseDuplicate(k) \/ RaiseOverBudget(k)
  BY <1>2 DEF RaiseUnsubscribed, NotSubscribed, dispatcherVars, RaiseDuplicate, Deduplicated,
              RaiseOverBudget, RateLimited, EntriesWereSent, NothingLater
<1>3. QED
  BY <1>1, <1>2 DEF Raise

\* An alert raised now is sent, or has an excuse.
LEMMA RaiseExcused ==
    ASSUME Cooldown > 0, AlertingTypeOK, AlertingTypeOK', BudgetInv, EntriesWereSent, NothingLater,
           NEW k \in Key, Raise(k), IsSubscribed(k), NEW t, t = now
    PROVE  HeardBefore(k, t)' \/ BudgetSpent(t)'
<1>0. /\ now \in Time /\ Cooldown \in Nat
      /\ delivered \subseteq delivered' /\ sends \subseteq sends'
  BY RaiseHistory, DispatcherAssumption DEF AlertingTypeOK
<1>1. CASE RaiseSent(k)
  <2> DEFINE room == Cardinality(recent) < MaxRecent
             d == [key |-> k, time |-> now, recorded |-> room]
  <2>1. d \in delivered'
    BY <1>1 DEF RaiseSent
  <2>2. d.key = k /\ d.time = now
    OBVIOUS
  <2> HIDE DEF d
  <2>3. now <= now /\ now < SatAdd(now, Cooldown)
    BY <1>0, DispatcherAssumption DEF SatAdd, Time
  <2>4. QED
    BY <2>1, <2>2, <2>3 DEF HeardBefore, SatAdd
<1>2. CASE RaiseDuplicate(k)
  <2>1. PICK e \in recent : e.key = k /\ now < SatAdd(e.time, Cooldown)
    BY <1>2 DEF RaiseDuplicate, Deduplicated, Duplicate
  <2>2. PICK d \in delivered : d.key = k /\ d.time = e.time
    BY <2>1 DEF EntriesWereSent
  <2>3. d.time <= now /\ now < SatAdd(d.time, Cooldown)
    BY <2>1, <2>2 DEF NothingLater, SatAdd
  <2>4. HeardBefore(k, t)
    BY <2>2, <2>3 DEF HeardBefore
  <2>5. QED
    BY <1>0, <2>4, ExcusesLast
<1>3. CASE RaiseOverBudget(k)
  <2>1. BudgetSpent(t)
    BY <1>3, OverBudgetBacked DEF BudgetSpent
  <2>2. QED
    BY <1>0, <2>1, ExcusesLast
<1>4. QED
  BY <1>1, <1>2, <1>3 DEF Raise, RaiseUnsubscribed, NotSubscribed

LEMMA ExcuseInit == Init => ExcuseInv
<1> SUFFICES ASSUME Init PROVE ExcuseInv
  OBVIOUS
<1>1. BudgetInv
  BY FreshBudget DEF Init, HistoryInit
<1>2. EntriesWereSent /\ NothingLater
  BY DEF Init, HistoryInit, EntriesWereSent, NothingLater
<1>3. \A z : ~ Wet(z)
  <2>1. DOMAIN leakZones \subseteq Nat /\ \A i \in DOMAIN leakZones : ~ leakZones[i].wet
    BY RegisteredDry DEF Init
  <2>2. QED
    BY <2>1, EntryOfExists DEF Wet
<1>4. QED
  BY <1>1, <1>2, <1>3 DEF ExcuseInv, SilenceIsExcused

LEMMA ExcuseNext ==
    ASSUME ~ ClockGoesBack, Cooldown > 0, TypeOK, TypeOK', ExcuseInv, [Next]_vars
    PROVE  ExcuseInv'
<1>0. /\ AlertingTypeOK /\ AlertingTypeOK' /\ now \in Time
      /\ DOMAIN leakZones \subseteq Nat /\ leakZones \in [DOMAIN leakZones -> Entry]
      /\ BudgetInv /\ EntriesWereSent /\ NothingLater /\ SilenceIsExcused
  <2>1. leakZones \in Seq(Entry)
    BY DEF TypeOK, Entry
  <2>2. QED
    BY <2>1 DEF TypeOK, AlertingTypeOK, ExcuseInv
<1>a. ASSUME UNCHANGED alertingVars
      PROVE  BudgetInv' /\ EntriesWereSent' /\ NothingLater' /\ UNCHANGED <<subscriptions, delivered, sends>>
  BY <1>0, <1>a DEF alertingVars, dispatcherVars, historyVars, BudgetInv, SendsNumbered, SentBetween,
                    SatAdd, EntriesWereSent, NothingLater
<1>1. ASSUME NEW z \in Zones, LeakDetected(z)
      PROVE  ExcuseInv'
  <2>1. LeakKey(z) \in Key
    BY LeakAlertsAssumption DEF LeakKey, Key
  <2>2. /\ Raise(LeakKey(z)) /\ Known(z) /\ ~ Wet(z)
        /\ leakZones' = [leakZones EXCEPT ![EntryOf(z)].wet = TRUE,
                                          ![EntryOf(z)].detected_at = now]
    BY <1>1 DEF LeakDetected, NewLeak
  <2>3. /\ BudgetInv' /\ EntriesWereSent' /\ NothingLater' /\ UNCHANGED subscriptions
        /\ delivered \subseteq delivered' /\ sends \subseteq sends'
    BY <1>0, <2>1, <2>2, RaiseBudget, RaiseHistory
  <2>4. \A y : y # z => /\ Wet(y)' <=> Wet(y)
                        /\ Wet(y) => DetectedAt(y)' = DetectedAt(y)
    BY <1>0, <2>2, FlagWrite
  <2>5. DetectedAt(z)' = now
    <3> DEFINE e == EntryOf(z)
    <3>1. e \in DOMAIN leakZones /\ leakZones[e].zone_id = z /\ leakZones[e] \in Entry
      BY <1>0, <2>2, EntryOfExists
    <3> HIDE DEF e
    <3>2. /\ DOMAIN leakZones' = DOMAIN leakZones
          /\ leakZones'[e].zone_id = z /\ leakZones'[e].detected_at = now
          /\ \A i \in DOMAIN leakZones : i # e => leakZones'[i] = leakZones[i]
      BY <1>0, <2>2, <3>1 DEF e, Entry
    <3>3. EntriesOf(z)' = EntriesOf(z)
      BY <3>1, <3>2 DEF EntriesOf
    <3>4. EntryOf(z)' = e
      BY <3>3 DEF EntryOf, e
    <3>5. QED
      BY <3>2, <3>4 DEF DetectedAt
  <2>6. ASSUME NEW y \in Zones, Wet(y)', IsSubscribed(LeakKey(y))'
        PROVE  HeardBefore(LeakKey(y), DetectedAt(y))' \/ BudgetSpent(DetectedAt(y))'
    <3>1. CASE y # z
      BY <1>0, <2>3, <2>4, <2>6, <3>1, ZoneExcused
    <3>2. CASE y = z
      <4>1. PICK t : t = now
        OBVIOUS
      <4>2. IsSubscribed(LeakKey(z))
        BY <2>3, <2>6, <3>2 DEF IsSubscribed
      <4>3. HeardBefore(LeakKey(z), t)' \/ BudgetSpent(t)'
        BY <1>0, <2>1, <2>2, <4>1, <4>2, RaiseExcused
      <4>4. QED
        BY <2>5, <3>2, <4>1, <4>3 DEF HeardBefore, BudgetSpent, SentBetween
    <3>3. QED
      BY <3>1, <3>2
  <2>7. QED
    BY <2>3, <2>6 DEF ExcuseInv, SilenceIsExcused
<1>2. ASSUME NEW z \in Zones, WetReading(z), ~ LeakDetected(z)
      PROVE  ExcuseInv'
  <2>1. UNCHANGED <<alertingVars, leakZones>>
    BY <1>2 DEF WetReading, AlreadyWet, Unknown
  <2>2. QED
    BY <1>0, <1>a, <2>1, AllExcused DEF ExcuseInv
<1>3. ASSUME NEW z \in Zones, DryReading(z)
      PROVE  ExcuseInv'
  <2>1. UNCHANGED alertingVars
    BY <1>3 DEF DryReading
  <2>2. CASE Cleared(z)
    <3>1. Known(z) /\ leakZones' = [leakZones EXCEPT ![EntryOf(z)].wet = FALSE]
      BY <2>2 DEF Cleared, Wet
    <3>2. /\ ~ Wet(z)'
          /\ \A y : y # z => /\ Wet(y)' <=> Wet(y)
                             /\ Wet(y) => DetectedAt(y)' = DetectedAt(y)
      BY <1>0, <3>1, FlagWrite
    <3>3. ASSUME NEW y \in Zones, Wet(y)', IsSubscribed(LeakKey(y))'
          PROVE  HeardBefore(LeakKey(y), DetectedAt(y))' \/ BudgetSpent(DetectedAt(y))'
      BY <1>0, <1>a, <2>1, <3>2, <3>3, ZoneExcused
    <3>4. QED
      BY <1>a, <2>1, <3>3 DEF ExcuseInv, SilenceIsExcused
  <2>3. CASE AlreadyDry(z) \/ Unknown(z)
    BY <1>0, <1>a, <2>1, <2>3, AllExcused DEF ExcuseInv, AlreadyDry, Unknown
  <2>4. QED
    BY <1>3, <2>2, <2>3 DEF DryReading
<1>4. ASSUME NEW k \in Key, OtherAlert(k)
      PROVE  ExcuseInv'
  <2>1. /\ BudgetInv' /\ EntriesWereSent' /\ NothingLater' /\ UNCHANGED <<leakZones, subscriptions>>
        /\ delivered \subseteq delivered' /\ sends \subseteq sends'
    BY <1>0, <1>4, RaiseBudget, RaiseHistory DEF OtherAlert
  <2>2. QED
    BY <1>0, <2>1, AllExcused DEF ExcuseInv
<1>5. CASE Tick
  <2>1. recent' \subseteq recent /\ UNCHANGED <<leakZones, subscriptions, delivered, sends, now>>
    BY <1>5 DEF Tick, HouseKeeping, ClearExpired, Unexpired, historyVars
  <2>2. BudgetInv'
    BY <1>0, <1>5, HouseKeepingBudget DEF Tick
  <2>3. QED
    BY <1>0, <2>1, <2>2, AllExcused DEF ExcuseInv, EntriesWereSent, NothingLater
<1>6. CASE Clock
  <2>1. /\ UNCHANGED <<leakZones, subscriptions, recent, delivered, sends>>
        /\ now' \in Time /\ now' > now
    BY <1>6 DEF Clock, ClockStep, dispatcherVars
  <2>2. BudgetInv'
    BY <1>0, <1>6, ClockBudget DEF Clock
  <2>3. NothingLater'
    <3>1. \A d \in delivered : d.time \in Time /\ d.time <= now
      BY <1>0 DEF AlertingTypeOK, Delivery, NothingLater
    <3>2. QED
      BY <1>0, <2>1, <3>1 DEF NothingLater, Time
  <2>4. QED
    BY <1>0, <2>1, <2>2, <2>3, AllExcused DEF ExcuseInv, EntriesWereSent
<1>7. CASE Restart
  <2>1. PICK c \in Configs : c = config'
    BY <1>7 DEF Restart
  <2>2. /\ leakZones' = RegisteredZones(c.water) /\ recent' = {} /\ minuteCount' = 0
        /\ minuteStart' = 0 /\ delivered' = {} /\ sends' = {} /\ now' = now
    BY <1>7, <2>1 DEF Restart
  <2>3. SentBetween(minuteStart, now)' = 0
    <3>1. {s \in sends' : minuteStart' <= s.time /\ s.time <= now'} = {}
      BY <2>2
    <3>2. QED
      BY <3>1, FS_EmptySet DEF SentBetween
  <2>4. BudgetInv'
    BY <1>0, <2>2, <2>3 DEF BudgetInv, SendsNumbered, Time
  <2>5. \A z : ~ Wet(z)'
    <3> SUFFICES ASSUME NEW z, Wet(z)' PROVE FALSE
      OBVIOUS
    <3>1. /\ DOMAIN leakZones' \subseteq Nat
          /\ \A i \in DOMAIN leakZones' : ~ leakZones'[i].wet
      BY <2>2, RegisteredDry
    <3>2. EntriesOf(z)' \in SUBSET Nat /\ EntriesOf(z)' # {}
      BY <3>1 DEF Wet, Known, EntriesOf
    <3>3. \E i \in EntriesOf(z)' : \A j \in EntriesOf(z)' : i <= j
      BY <3>2, LeastOf
    <3>4. EntryOf(z)' \in EntriesOf(z)'
      BY <3>3 DEF EntryOf
    <3>5. QED
      BY <3>1, <3>4 DEF Wet, EntriesOf
  <2>6. QED
    BY <2>2, <2>4, <2>5 DEF ExcuseInv, EntriesWereSent, NothingLater, SilenceIsExcused
<1>8. CASE UNCHANGED vars
  <2>1. UNCHANGED <<alertingVars, leakZones>>
    BY <1>8 DEF vars
  <2>2. QED
    BY <1>0, <1>a, <2>1, AllExcused DEF ExcuseInv
<1>9. QED
  BY <1>1, <1>2, <1>3, <1>4, <1>5, <1>6, <1>7, <1>8 DEF Next

\* With a clock that never goes back and any cooldown but none, a zone known to
\* be wet whose alert is subscribed to was silenced, if it was, by its own last
\* alert or by a minute whose budget was spent, and by nothing else.
THEOREM SilenceExcusedHolds ==
    ASSUME ~ ClockGoesBack, Cooldown > 0
    PROVE  Spec => []SilenceIsExcused
<1>1. TypeOK /\ TypeOK' /\ ExcuseInv /\ [Next]_vars => ExcuseInv'
  BY ExcuseNext
<1>2. ExcuseInv => SilenceIsExcused
  BY DEF ExcuseInv
<1>3. QED
  BY <1>1, <1>2, ExcuseInit, LeakTypeCorrect, PTL DEF Spec

=============================================================================
