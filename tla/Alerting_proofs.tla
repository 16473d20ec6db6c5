-------------------------- MODULE Alerting_proofs --------------------------
(***************************************************************************)
(* Facts about the dispatcher that every module raising alerts needs: the  *)
(* types of its helpers, and that no alert and no housekeeping takes a     *)
(* field out of its type, whatever the capacity of the table; and what     *)
(* loops do, those that fill a table among them.                           *)
(***************************************************************************)
EXTENDS Alerting, FiniteSetTheorems, WellFoundedInduction, TLAPS

-----------------------------------------------------------------------------
(***************************************************************************)
(* Facts about the operators.                                              *)
(***************************************************************************)

\* saturating_add never goes below its first argument nor above MaxTime.
LEMMA SatAddBounds ==
    ASSUME NEW t \in Time, NEW d \in Nat
    PROVE  /\ SatAdd(t, d) \in Nat
           /\ t <= SatAdd(t, d)
           /\ SatAdd(t, d) <= MaxTime
           /\ d > 0 => t < SatAdd(t, d)
  BY DispatcherAssumption DEF SatAdd, Time

\* The table stays finite and within its capacity when an alert is recorded.
LEMMA RecordBounded ==
    ASSUME NEW k \in Key, NEW t \in Time,
           recent \subseteq AlertEntry, IsFiniteSet(recent),
           Cardinality(recent) <= MaxRecent
    PROVE  /\ Record(k, t) \subseteq AlertEntry
           /\ IsFiniteSet(Record(k, t))
           /\ Cardinality(Record(k, t)) <= MaxRecent
<1> DEFINE e == [key |-> k, time |-> t]
<1>1. e \in AlertEntry
  BY DEF AlertEntry
<1>2. /\ IsFiniteSet(recent \cup {e})
      /\ Cardinality(recent \cup {e}) <= Cardinality(recent) + 1
      /\ Cardinality(recent) \in Nat
  <2>1. Cardinality(recent) \in Nat
    BY FS_CardinalityType
  <2>2. /\ IsFiniteSet(recent \cup {e})
        /\ Cardinality(recent \cup {e}) =
             IF e \in recent THEN Cardinality(recent) ELSE Cardinality(recent) + 1
    BY FS_AddElement, Zenon
  <2>3. QED
    BY <2>1, <2>2
<1>3. Cardinality(recent) < MaxRecent => Cardinality(recent \cup {e}) <= MaxRecent
  <2>1. Cardinality(recent \cup {e}) \in Nat
    BY <1>2, FS_CardinalityType
  <2>2. QED
    BY <1>2, <2>1, DispatcherAssumption
<1>4. QED
  BY <1>1, <1>2, <1>3 DEF Record

\* A message id is a type and a zone folded into ZoneSpan values.
LEMMA MsgIdType ==
    ASSUME NEW k \in Key
    PROVE  MsgId(k) \in AlertTypes \X (0 .. ZoneSpan - 1)
<1>1. k.zone \in Nat /\ k.type \in AlertTypes
  BY DispatcherAssumption DEF Key
<1>2. k.zone % ZoneSpan \in 0 .. ZoneSpan - 1
  BY <1>1, DispatcherAssumption
<1>3. QED
  BY <1>1, <1>2 DEF MsgId

LEMMA MinuteTypes ==
    ASSUME NEW t \in Time, minuteStart \in Time, minuteCount \in 0 .. MaxPerMinute
    PROVE  MinuteStartAt(t) \in Time /\ MinuteCountAt(t) \in 0 .. MaxPerMinute
  BY DispatcherAssumption DEF MinuteStartAt, MinuteCountAt

-----------------------------------------------------------------------------
(***************************************************************************)
(* Induction without a predicate: over a set of numbers.                   *)
(***************************************************************************)
LEMMA LeastOf ==
    ASSUME NEW S \in SUBSET Nat, S # {}
    PROVE  \E n \in S : \A m \in S : n <= m
<1> DEFINE R == OpToRel(<, Nat)
<1>1. \A i, j \in Nat : <<i, j>> \notin R => j <= i
  BY DEF OpToRel
<1>2. IsWellFoundedOn(R, Nat)
  BY NatLessThanWellFounded
<1> HIDE DEF R
<1>3. PICK n \in S : \A m \in S : <<m, n>> \notin R
  BY <1>2, WFMin
<1>4. QED
  BY <1>1, <1>3

LEMMA SetInduction ==
    ASSUME NEW P \in SUBSET Nat, 0 \in P, \A n \in P : n + 1 \in P
    PROVE  P = Nat
<1> SUFFICES ASSUME Nat \ P # {} PROVE FALSE
  OBVIOUS
<1>1. PICK n \in Nat \ P : \A m \in Nat \ P : n <= m
  BY LeastOf
<1>2. n # 0 /\ n - 1 \in Nat
  BY <1>1
<1>3. n - 1 \in P
  BY <1>1, <1>2
<1>4. (n - 1) + 1 = n
  BY <1>1
<1>5. QED
  BY <1>1, <1>3, <1>4

-----------------------------------------------------------------------------
(***************************************************************************)
(* Loops.                                                                  *)
(***************************************************************************)
Steps(S, n) == [S \X (1 .. n) -> S]
IsRun(f, S, s, n, step) ==
    f \in [0 .. n -> S] /\ f[0] = s /\ \A i \in 1 .. n : f[i] = step[<<f[i - 1], i>>]

\* A loop of n turns whose step stays within a set has a run.
LEMMA LoopRuns ==
    ASSUME NEW S, NEW s \in S, NEW n \in Nat, NEW step \in Steps(S, n)
    PROVE  \E f : IsRun(f, S, s, n, step)
<1> DEFINE Run(f, k) == /\ f \in [0 .. k -> S]
                        /\ f[0] = s
                        /\ \A i \in 1 .. k : f[i] = step[<<f[i - 1], i>>]
           P == {k \in Nat : k <= n => \E f : Run(f, k)}
<1>1. 0 \in P
  <2>1. Run([i \in 0 .. 0 |-> s], 0)
    OBVIOUS
  <2>2. QED
    BY <2>1
<1>2. ASSUME NEW k \in P
      PROVE  k + 1 \in P
  <2>1. CASE k + 1 <= n
    <3>1. PICK f : Run(f, k)
      BY <2>1
    <3> DEFINE t == step[<<f[k], k + 1>>]
               g == [i \in 0 .. k + 1 |-> IF i = k + 1 THEN t ELSE f[i]]
    <3>2. t \in S
      BY <2>1, <3>1 DEF Steps
    <3> HIDE DEF t
    <3>3. g \in [0 .. k + 1 -> S] /\ g[0] = s
      BY <3>1, <3>2
    <3>4. ASSUME NEW i \in 1 .. k + 1
          PROVE  g[i] = step[<<g[i - 1], i>>]
      <4>1. CASE i = k + 1
        <5>1. g[i] = t /\ g[i - 1] = f[k]
          BY <4>1
        <5>2. QED
          BY <4>1, <5>1 DEF t
      <4>2. CASE i # k + 1
        <5>1. i \in 1 .. k /\ i - 1 \in 0 .. k
          BY <4>2
        <5>2. g[i] = f[i] /\ g[i - 1] = f[i - 1]
          BY <5>1
        <5>3. QED
          BY <3>1, <5>1, <5>2
      <4>3. QED
        BY <4>1, <4>2
    <3>5. Run(g, k + 1)
      <4> HIDE DEF g
      <4>1. QED
        BY <3>3, <3>4
    <3>6. \E h : Run(h, k + 1)
      <4> HIDE DEF g, Run
      <4>1. QED
        BY <3>5
    <3>7. k + 1 \in Nat
      OBVIOUS
    <3>8. QED
      <4> HIDE DEF Run
      <4>1. QED
        BY <3>6, <3>7
  <2>2. QED
    BY <2>1
<1>3. P = Nat
  <2> HIDE DEF P
  <2>1. P \in SUBSET Nat
    BY DEF P
  <2>2. QED
    BY <1>1, <1>2, <2>1, SetInduction
<1>4. PICK f : Run(f, n)
  <2> HIDE DEF P
  <2>1. n \in P
    BY <1>3
  <2>2. QED
    BY <2>1 DEF P
<1>5. QED
  BY <1>4 DEF IsRun

\* What every turn keeps holds at the end.
LEMMA LoopStays ==
    ASSUME NEW n \in Nat, NEW S, NEW f, f[0] \in S,
           \A i \in 1 .. n : f[i - 1] \in S => f[i] \in S
    PROVE  f[n] \in S
<1> DEFINE P == {k \in Nat : k <= n => f[k] \in S}
<1>1. 0 \in P
  OBVIOUS
<1>2. ASSUME NEW k \in P
      PROVE  k + 1 \in P
  <2>1. CASE k + 1 <= n
    <3>1. f[k] \in S /\ k + 1 \in 1 .. n /\ (k + 1) - 1 = k
      BY <2>1
    <3>2. QED
      BY <3>1
  <2>2. QED
    BY <2>1
<1>3. n \in P
  <2> HIDE DEF P
  <2>1. P \in SUBSET Nat
    BY DEF P
  <2>2. QED
    BY <1>1, <1>2, <2>1, SetInduction
<1>4. QED
  BY <1>3

\* Two loops that start alike and whose turns keep them alike end alike.
LEMMA LoopsAgree ==
    ASSUME NEW n \in Nat, NEW f, NEW g, f[0] = g[0],
           \A i \in 1 .. n : f[i - 1] = g[i - 1] => f[i] = g[i]
    PROVE  f[n] = g[n]
<1> DEFINE P == {k \in Nat : k <= n => f[k] = g[k]}
<1>1. 0 \in P
  OBVIOUS
<1>2. ASSUME NEW k \in P
      PROVE  k + 1 \in P
  <2>1. CASE k + 1 <= n
    <3>1. f[k] = g[k] /\ k + 1 \in 1 .. n /\ (k + 1) - 1 = k
      BY <2>1
    <3>2. QED
      BY <3>1
  <2>2. QED
    BY <2>1
<1>3. n \in P
  <2> HIDE DEF P
  <2>1. P \in SUBSET Nat
    BY DEF P
  <2>2. QED
    BY <1>1, <1>2, <2>1, SetInduction
<1>4. QED
  BY <1>3

\* The first max of n rows: a table of that size after they were added in turn.
Filled(rows, n, max) == [i \in {j \in 1 .. n : j <= max} |-> rows[i]]

OneMore(table, row, max) == IF Len(table) >= max THEN table ELSE Append(table, row)

\* One more row is added at the end, or finds the table full.
LEMMA OneMoreRow ==
    ASSUME NEW max \in Nat, NEW n \in Nat, NEW rows
    PROVE  Filled(rows, n + 1, max) = OneMore(Filled(rows, n, max), rows[n + 1], max)
<1>1. CASE n >= max
  <2>1. {j \in 1 .. n : j <= max} = 1 .. max /\ {j \in 1 .. n + 1 : j <= max} = 1 .. max
    BY <1>1
  <2>2. Filled(rows, n, max) = [i \in 1 .. max |-> rows[i]]
        /\ Filled(rows, n + 1, max) = [i \in 1 .. max |-> rows[i]]
    BY <2>1 DEF Filled
  <2>3. Len([i \in 1 .. max |-> rows[i]]) = max
    OBVIOUS
  <2>4. QED
    BY <2>2, <2>3 DEF OneMore
<1>2. CASE n < max
  <2>1. {j \in 1 .. n : j <= max} = 1 .. n /\ {j \in 1 .. n + 1 : j <= max} = 1 .. n + 1
    BY <1>2
  <2> DEFINE short == [i \in 1 .. n |-> rows[i]]
             long == [i \in 1 .. n + 1 |-> rows[i]]
  <2>2. Filled(rows, n, max) = short /\ Filled(rows, n + 1, max) = long
    BY <2>1 DEF Filled
  <2>3. Len(short) = n
    OBVIOUS
  <2>4. Append(short, rows[n + 1]) = long
    <3> DEFINE T == {rows[i] : i \in 1 .. n + 1}
    <3>1. short \in Seq(T) /\ long \in Seq(T) /\ rows[n + 1] \in T
      OBVIOUS
    <3>2. \A i \in 1 .. n : short[i] = long[i]
      OBVIOUS
    <3>3. long[n + 1] = rows[n + 1] /\ Len(long) = n + 1
      OBVIOUS
    <3> HIDE DEF short, long, T
    <3>4. QED
      BY <2>3, <3>1, <3>2, <3>3
  <2> HIDE DEF short, long
  <2>5. QED
    BY <1>2, <2>2, <2>3, <2>4 DEF OneMore
<1>3. QED
  BY <1>1, <1>2

\* The loop that adds rows in turn leaves the first max of them.
LEMMA TableFills ==
    ASSUME NEW max \in Nat, NEW n \in Nat, NEW rows, NEW f, f[0] = <<>>,
           \A i \in 1 .. n : f[i] = OneMore(f[i - 1], rows[i], max)
    PROVE  f[n] = Filled(rows, n, max)
<1> DEFINE g == [i \in 0 .. n |-> Filled(rows, i, max)]
<1>1. g[0] = <<>> /\ g[n] = Filled(rows, n, max)
  <2>1. {j \in 1 .. 0 : j <= max} = {}
    OBVIOUS
  <2>2. Filled(rows, 0, max) = <<>>
    BY <2>1 DEF Filled
  <2>3. QED
    BY <2>2
<1>2. \A i \in 1 .. n : g[i] = OneMore(g[i - 1], rows[i], max)
  <2>1. \A i \in 1 .. n : i - 1 \in Nat /\ (i - 1) + 1 = i /\ i \in 0 .. n /\ i - 1 \in 0 .. n
    OBVIOUS
  <2>2. \A i \in 1 .. n : Filled(rows, i, max) = OneMore(Filled(rows, i - 1, max), rows[i], max)
    BY <2>1, OneMoreRow
  <2>3. QED
    BY <2>1, <2>2
<1> HIDE DEF g
<1>3. \A i \in 1 .. n : f[i - 1] = g[i - 1] => f[i] = g[i]
  BY <1>2
<1>4. f[n] = g[n]
  BY <1>1, <1>3, LoopsAgree
<1>5. QED
  BY <1>1, <1>4

\* There is such a loop.
LEMMA TableRuns ==
    ASSUME NEW max \in Nat, NEW n \in Nat, NEW rows
    PROVE  \E f : f = [i \in 0 .. n |-> IF i = 0 THEN <<>> ELSE OneMore(f[i - 1], rows[i], max)]
<1> DEFINE f == [i \in 0 .. n |-> Filled(rows, i, max)]
<1>1. f[0] = <<>>
  <2>1. {j \in 1 .. 0 : j <= max} = {}
    OBVIOUS
  <2>2. QED
    BY <2>1 DEF Filled
<1>2. \A i \in 1 .. n : f[i] = OneMore(f[i - 1], rows[i], max)
  <2>1. \A i \in 1 .. n : i - 1 \in Nat /\ (i - 1) + 1 = i /\ i \in 0 .. n /\ i - 1 \in 0 .. n
    OBVIOUS
  <2>2. \A i \in 1 .. n : Filled(rows, i, max) = OneMore(Filled(rows, i - 1, max), rows[i], max)
    BY <2>1, OneMoreRow
  <2>3. QED
    BY <2>1, <2>2
<1>3. f = [i \in 0 .. n |-> f[i]]
  OBVIOUS
<1> HIDE DEF f
<1>4. f = [i \in 0 .. n |-> IF i = 0 THEN <<>> ELSE OneMore(f[i - 1], rows[i], max)]
  BY <1>1, <1>2, <1>3
<1>5. QED
  BY <1>4

-----------------------------------------------------------------------------
(***************************************************************************)
(* What a series of calls of subscribe leaves in the table: the ids of the *)
(* keys before which the table was not yet full.                           *)
(***************************************************************************)
Ids(keys, n) == {MsgId(keys[i]) : i \in 1 .. n}
Fits(keys, n) == Cardinality(Ids(keys, n)) <= MaxSubscriptions
Fitting(keys, n) == {MsgId(keys[i]) : i \in {j \in 1 .. n : Fits(keys, j)}}

LEMMA IdsFinite ==
    ASSUME NEW keys \in Seq(Key), NEW n \in 0 .. Len(keys)
    PROVE  IsFiniteSet(Ids(keys, n)) /\ Cardinality(Ids(keys, n)) \in Nat
<1> DEFINE f == [i \in 1 .. n |-> MsgId(keys[i])]
<1>1. f \in Surjection(1 .. n, Ids(keys, n))
  BY DEF Surjection, Ids
<1>2. IsFiniteSet(1 .. n)
  BY FS_Interval
<1>3. IsFiniteSet(Ids(keys, n))
  BY <1>1, <1>2, FS_Surjection
<1>4. QED
  BY <1>3, FS_CardinalityType

\* One key more is at most one id more, and the earlier ids stay.
LEMMA IdsGrow ==
    ASSUME NEW keys \in Seq(Key), NEW n \in 1 .. Len(keys)
    PROVE  /\ Ids(keys, n) = Ids(keys, n - 1) \cup {MsgId(keys[n])}
           /\ Cardinality(Ids(keys, n)) =
                IF MsgId(keys[n]) \in Ids(keys, n - 1)
                THEN Cardinality(Ids(keys, n - 1)) ELSE Cardinality(Ids(keys, n - 1)) + 1
<1>1. 1 .. n = (1 .. n - 1) \cup {n}
  OBVIOUS
<1>2. Ids(keys, n) = Ids(keys, n - 1) \cup {MsgId(keys[n])}
  BY <1>1 DEF Ids
<1>3. IsFiniteSet(Ids(keys, n - 1))
  BY IdsFinite
<1>4. QED
  BY <1>2, <1>3, FS_AddElement

LEMMA IdsMonotone ==
    ASSUME NEW keys \in Seq(Key), NEW n \in 0 .. Len(keys), NEW m \in 0 .. n
    PROVE  Ids(keys, m) \subseteq Ids(keys, n) /\ (Fits(keys, n) => Fits(keys, m))
<1>1. Ids(keys, m) \subseteq Ids(keys, n)
  BY DEF Ids
<1>2. Cardinality(Ids(keys, m)) <= Cardinality(Ids(keys, n))
  BY <1>1, IdsFinite, FS_Subset
<1>3. m \in 0 .. Len(keys)
  OBVIOUS
<1>4. QED
  BY <1>1, <1>2, <1>3, IdsFinite, DispatcherAssumption DEF Fits

\* As long as all ids fit the table has all of them; after that it is full.
LEMMA FittingSize ==
    ASSUME NEW keys \in Seq(Key), NEW n \in 0 .. Len(keys)
    PROVE  /\ Fits(keys, n) => Fitting(keys, n) = Ids(keys, n)
           /\ ~ Fits(keys, n) => ~ (Cardinality(Fitting(keys, n)) < MaxSubscriptions)
<1>1. ASSUME Fits(keys, n)
      PROVE  Fitting(keys, n) = Ids(keys, n)
  <2>1. \A j \in 1 .. n : Fits(keys, j)
    BY <1>1, IdsMonotone
  <2>2. QED
    BY <2>1 DEF Fitting, Ids
<1>2. ASSUME ~ Fits(keys, n)
      PROVE  ~ (Cardinality(Fitting(keys, n)) < MaxSubscriptions)
  <2> DEFINE Full == {j \in 0 .. n : ~ Fits(keys, j)}
  <2>1. PICK m \in Full : \A j \in Full : m <= j
    <3>1. Full \in SUBSET Nat /\ n \in Full
      BY <1>2
    <3> HIDE DEF Full
    <3>2. QED
      BY <3>1, LeastOf
  <2>2. m # 0
    <3>1. Ids(keys, 0) = {}
      BY DEF Ids
    <3>2. Cardinality(Ids(keys, 0)) = 0
      BY <3>1, FS_EmptySet
    <3>3. QED
      BY <2>1, <3>2, DispatcherAssumption DEF Fits
  <2>3. m - 1 \in 0 .. Len(keys) /\ m \in 1 .. Len(keys) /\ Fits(keys, m - 1) /\ ~ Fits(keys, m)
    BY <2>1, <2>2
  <2>4. Cardinality(Ids(keys, m - 1)) >= MaxSubscriptions
    BY <2>3, IdsGrow, IdsFinite, DispatcherAssumption DEF Fits
  <2>5. Ids(keys, m - 1) \subseteq Fitting(keys, n)
    <3>1. \A j \in 1 .. m - 1 : Fits(keys, j)
      BY <2>3, IdsMonotone
    <3>2. QED
      BY <2>1, <2>2, <3>1 DEF Ids, Fitting
  <2>6. Fitting(keys, n) \subseteq Ids(keys, n)
    BY DEF Fitting, Ids
  <2>7. /\ IsFiniteSet(Fitting(keys, n))
        /\ Cardinality(Ids(keys, m - 1)) <= Cardinality(Fitting(keys, n))
    BY <2>5, <2>6, IdsFinite, FS_Subset
  <2>8. QED
    BY <2>3, <2>4, <2>7, IdsFinite, FS_CardinalityType, DispatcherAssumption
<1>3. QED
  BY <1>1, <1>2

LEMMA FittingGrows ==
    ASSUME NEW keys \in Seq(Key), NEW n \in 1 .. Len(keys)
    PROVE  Fitting(keys, n) = WithSubscription(Fitting(keys, n - 1), keys[n])
<1> DEFINE id == MsgId(keys[n])
<1>1. Fitting(keys, n) = IF Fits(keys, n) THEN Fitting(keys, n - 1) \cup {id}
                         ELSE Fitting(keys, n - 1)
  <2>1. {j \in 1 .. n : Fits(keys, j)} =
          {j \in 1 .. n - 1 : Fits(keys, j)} \cup (IF Fits(keys, n) THEN {n} ELSE {})
    OBVIOUS
  <2>2. QED
    BY <2>1 DEF Fitting
<1>2. n - 1 \in 0 .. Len(keys)
  OBVIOUS
<1>3. CASE id \in Fitting(keys, n - 1)
  BY <1>1, <1>3 DEF WithSubscription
<1>4. CASE id \notin Fitting(keys, n - 1) /\ Fits(keys, n - 1)
  <2>1. Fitting(keys, n - 1) = Ids(keys, n - 1)
    BY <1>2, <1>4, FittingSize
  <2>2. Cardinality(Ids(keys, n)) = Cardinality(Ids(keys, n - 1)) + 1
    BY <1>4, <2>1, IdsGrow
  <2>3. Fits(keys, n) <=> Cardinality(Fitting(keys, n - 1)) < MaxSubscriptions
    BY <1>2, <2>1, <2>2, IdsFinite, DispatcherAssumption DEF Fits
  <2>4. QED
    BY <1>1, <1>4, <2>3 DEF WithSubscription
<1>5. CASE id \notin Fitting(keys, n - 1) /\ ~ Fits(keys, n - 1)
  <2>1. ~ Fits(keys, n)
    BY <1>2, <1>5, IdsMonotone
  <2>2. ~ (Cardinality(Fitting(keys, n - 1)) < MaxSubscriptions)
    BY <1>2, <1>5, FittingSize
  <2>3. QED
    BY <1>1, <1>5, <2>1, <2>2 DEF WithSubscription
<1>6. QED
  BY <1>3, <1>4, <1>5

\* The loop computes just that.
LEMMA SubscribedToFits ==
    ASSUME NEW keys \in Seq(Key)
    PROVE  SubscribedTo(keys) = Fitting(keys, Len(keys))
<1> DEFINE Step(f) == [n \in 0 .. Len(keys) |->
                          IF n = 0 THEN {} ELSE WithSubscription(f[n - 1], keys[n])]
           g == [n \in 0 .. Len(keys) |-> Fitting(keys, n)]
           table == CHOOSE f : f = Step(f)
<1>1. g = Step(g)
  <2>1. Fitting(keys, 0) = {}
    BY DEF Fitting
  <2>2. \A n \in 1 .. Len(keys) : Fitting(keys, n) = WithSubscription(g[n - 1], keys[n])
    BY FittingGrows
  <2>3. QED
    BY <2>1, <2>2
<1>2. table = Step(table)
  BY <1>1
<1>3. SubscribedTo(keys) = table[Len(keys)]
  BY DEF SubscribedTo
<1> HIDE DEF table
<1> DEFINE P == {n \in Nat : n <= Len(keys) => table[n] = Fitting(keys, n)}
<1>4. 0 \in P
  BY <1>2 DEF Fitting
<1>5. ASSUME NEW n \in P
      PROVE  n + 1 \in P
  <2>1. CASE n + 1 <= Len(keys)
    <3>1. table[n + 1] = WithSubscription(table[n], keys[n + 1])
      BY <1>2, <2>1
    <3>2. table[n] = Fitting(keys, n)
      BY <2>1
    <3>3. n + 1 \in 1 .. Len(keys) /\ (n + 1) - 1 = n
      BY <2>1
    <3>4. QED
      BY <3>1, <3>2, <3>3, FittingGrows
  <2>2. QED
    BY <2>1
<1>6. P = Nat
  <2> HIDE DEF P
  <2>1. P \in SUBSET Nat
    BY DEF P
  <2>2. QED
    BY <1>4, <1>5, <2>1, SetInduction
<1>7. QED
  BY <1>3, <1>6

\* The table that configure builds is within its array, and every id in it is
\* one that some key asked for when the table still had room.
LEMMA SubscribedToType ==
    ASSUME NEW keys \in Seq(Key)
    PROVE  /\ SubscribedTo(keys) \subseteq AlertTypes \X (0 .. ZoneSpan - 1)
           /\ IsFiniteSet(SubscribedTo(keys))
           /\ Cardinality(SubscribedTo(keys)) <= MaxSubscriptions
<1> DEFINE n == Len(keys)
<1>1. PICK m \in 0 .. n : Fits(keys, m) /\ Fitting(keys, n) = Ids(keys, m)
  <2>1. CASE Fits(keys, n)
    BY <2>1, FittingSize
  <2>2. CASE ~ Fits(keys, n)
    <3> DEFINE Full == {j \in 0 .. n : ~ Fits(keys, j)}
    <3>1. PICK j \in Full : \A i \in Full : j <= i
      <4>1. Full \in SUBSET Nat /\ n \in Full
        BY <2>2
      <4> HIDE DEF Full
      <4>2. QED
        BY <4>1, LeastOf
    <3>2. j # 0
      <4>1. Ids(keys, 0) = {}
        BY DEF Ids
      <4>2. Cardinality(Ids(keys, 0)) = 0
        BY <4>1, FS_EmptySet
      <4>3. QED
        BY <3>1, <4>2, DispatcherAssumption DEF Fits
    <3>3. j - 1 \in 0 .. n /\ Fits(keys, j - 1)
      BY <3>1, <3>2
    <3>4. \A i \in 1 .. n : Fits(keys, i) <=> i <= j - 1
      <4>1. \A i \in 1 .. n : i <= j - 1 => Fits(keys, i)
        BY <3>3, IdsMonotone
      <4>2. \A i \in 1 .. n : j <= i /\ Fits(keys, i) => Fits(keys, j)
        BY <3>1, IdsMonotone
      <4>3. QED
        BY <3>1, <4>1, <4>2
    <3>5. Fitting(keys, n) = Ids(keys, j - 1)
      BY <3>3, <3>4 DEF Fitting, Ids
    <3>6. QED
      BY <3>3, <3>5
  <2>3. QED
    BY <2>1, <2>2
<1>2. SubscribedTo(keys) = Ids(keys, m)
  BY <1>1, SubscribedToFits
<1>3. Ids(keys, m) \subseteq AlertTypes \X (0 .. ZoneSpan - 1)
  BY MsgIdType DEF Ids
<1>4. IsFiniteSet(Ids(keys, m)) /\ Cardinality(Ids(keys, m)) <= MaxSubscriptions
  BY <1>1, IdsFinite DEF Fits
<1>5. QED
  BY <1>2, <1>3, <1>4

-----------------------------------------------------------------------------
(***************************************************************************)
(* Type correctness.                                                       *)
(***************************************************************************)
LEMMA AlertingTypeInit == AlertingInit => AlertingTypeOK
<1> SUFFICES ASSUME AlertingInit PROVE AlertingTypeOK
  OBVIOUS
<1>1. recent \subseteq AlertEntry /\ IsFiniteSet(recent) /\ Cardinality(recent) = 0
  BY FS_EmptySet DEF AlertingInit, HistoryInit, DispatcherInit
<1>2. /\ subscriptions \subseteq (AlertTypes \X (0 .. ZoneSpan - 1))
      /\ IsFiniteSet(subscriptions) /\ Cardinality(subscriptions) = 0
  BY FS_EmptySet DEF AlertingInit, HistoryInit, DispatcherInit
<1>3. minuteCount \in 0 .. MaxPerMinute /\ minuteStart \in Time
  BY DispatcherAssumption DEF AlertingInit, HistoryInit, DispatcherInit, Time
<1>4. DispatcherTypeOK
  BY <1>1, <1>2, <1>3, DispatcherAssumption DEF DispatcherTypeOK
<1>5. QED
  BY <1>4, FS_EmptySet DEF AlertingInit, HistoryInit, AlertingTypeOK, Delivery

\* What the four outcomes of process_alert share.
LEMMA RaiseType ==
    ASSUME AlertingTypeOK, NEW k \in Key, Raise(k)
    PROVE  AlertingTypeOK'
<1> USE DEF AlertingTypeOK
<1>0. \A a \in Action : Returns(k, a) => result' \in Result \cup {None}
  BY DEF Returns, Result
<1>1. CASE RaiseUnsubscribed(k)
  <2>1. result' \in Result \cup {None}
    BY <1>0, <1>1 DEF RaiseUnsubscribed, Action
  <2>2. QED
    BY <1>1, <2>1 DEF RaiseUnsubscribed, NotSubscribed, dispatcherVars, DispatcherTypeOK
<1>2. CASE RaiseDuplicate(k)
  <2>1. result' \in Result \cup {None}
    BY <1>0, <1>2 DEF RaiseDuplicate, Action
  <2>2. minuteStart' \in Time /\ minuteCount' \in 0 .. MaxPerMinute
    BY <1>2, MinuteTypes DEF RaiseDuplicate, Deduplicated, RollMinute, DispatcherTypeOK
  <2>3. QED
    BY <1>2, <2>1, <2>2 DEF RaiseDuplicate, Deduplicated, DispatcherTypeOK
<1>3. CASE RaiseOverBudget(k)
  <2>1. result' \in Result \cup {None}
    BY <1>0, <1>3 DEF RaiseOverBudget, Action
  <2>2. minuteStart' \in Time /\ minuteCount' \in 0 .. MaxPerMinute
    BY <1>3, MinuteTypes DEF RaiseOverBudget, RateLimited, RollMinute, DispatcherTypeOK
  <2>3. QED
    BY <1>3, <2>1, <2>2 DEF RaiseOverBudget, RateLimited, DispatcherTypeOK
<1>4. CASE RaiseSent(k)
  <2>1. result' \in Result \cup {None}
    BY <1>0, <1>4 DEF RaiseSent, Action
  <2>2. minuteStart' \in Time /\ minuteCount' \in 0 .. MaxPerMinute
    BY <1>4, MinuteTypes, DispatcherAssumption
    DEF RaiseSent, Send, DispatcherTypeOK
  <2>3. /\ recent' \subseteq AlertEntry
        /\ IsFiniteSet(recent')
        /\ Cardinality(recent') <= MaxRecent
    BY <1>4, RecordBounded DEF RaiseSent, Send, DispatcherTypeOK
  <2>4. delivered' \subseteq Delivery
    <3> DEFINE room == Cardinality(recent) < MaxRecent
    <3>1. room \in BOOLEAN
      OBVIOUS
    <3>2. delivered' = delivered \cup {[key |-> k, time |-> now, recorded |-> room]}
      BY <1>4 DEF RaiseSent
    <3> HIDE DEF room
    <3>3. [key |-> k, time |-> now, recorded |-> room] \in Delivery
      BY <3>1 DEF Delivery
    <3>4. QED
      BY <3>2, <3>3
  <2>5. sends' \subseteq Sending /\ IsFiniteSet(sends')
    <3>1. IsFiniteSet({s \in sends : now <= s.time /\ s.time <= now})
      BY FS_Subset
    <3>2. SentBetween(now, now) \in Nat
      BY <3>1, FS_CardinalityType DEF SentBetween
    <3>3. [time |-> now, nth |-> SentBetween(now, now)] \in Sending
      BY <3>2 DEF Sending
    <3>4. QED
      BY <1>4, <3>3, FS_AddElement DEF RaiseSent
  <2>6. QED
    BY <1>4, <2>1, <2>2, <2>3, <2>4, <2>5 DEF RaiseSent, Send, DispatcherTypeOK
<1>5. QED
  BY <1>1, <1>2, <1>3, <1>4 DEF Raise

LEMMA HouseKeepingType == AlertingTypeOK /\ HouseKeeping => AlertingTypeOK'
<1> SUFFICES ASSUME AlertingTypeOK, HouseKeeping PROVE AlertingTypeOK'
  OBVIOUS
<1> USE DEF AlertingTypeOK, DispatcherTypeOK
<1>1. recent' \subseteq recent
  BY DEF HouseKeeping, ClearExpired, Unexpired
<1>2. /\ IsFiniteSet(recent')
      /\ Cardinality(recent') <= Cardinality(recent)
      /\ Cardinality(recent') \in Nat
      /\ Cardinality(recent) \in Nat
  BY <1>1, FS_Subset, FS_CardinalityType
<1>3. Cardinality(recent') <= MaxRecent
  BY <1>2, DispatcherAssumption
<1>4. QED
  BY <1>1, <1>2, <1>3 DEF HouseKeeping, ClearExpired, historyVars

-----------------------------------------------------------------------------
(***************************************************************************)
(* The budget of the minute against what was sent, for a clock that never  *)
(* goes back.                                                              *)
(***************************************************************************)
\* Two sends are never one element of the history.
SendsNumbered == \A s \in sends : s.nth < SentBetween(s.time, s.time)

\* What was sent since the minute began is what the dispatcher has counted, and
\* nothing was sent after the minute's end.
BudgetInv ==
    /\ SendsNumbered
    /\ minuteStart <= now
    /\ \A s \in sends : s.time <= now /\ s.time < SatAdd(minuteStart, MinuteSec)
    /\ SentBetween(minuteStart, now) = minuteCount

LEMMA SentBetweenGrows ==
    ASSUME AlertingTypeOK, NEW a \in Int, NEW b \in Int, NEW c \in Int, NEW d \in Int,
           c <= a, b <= d
    PROVE  /\ SentBetween(a, b) \in Nat
           /\ SentBetween(a, b) <= SentBetween(c, d)
<1> DEFINE S(x, y) == {s \in sends : x <= s.time /\ s.time <= y}
<1>1. \A s \in sends : s.time \in Nat
  BY DEF AlertingTypeOK, Sending, Time
<1>2. S(a, b) \subseteq S(c, d)
  BY <1>1
<1>3. IsFiniteSet(S(a, b)) /\ IsFiniteSet(S(c, d))
  <2>1. S(a, b) \in SUBSET sends /\ S(c, d) \in SUBSET sends
    OBVIOUS
  <2>2. QED
    BY <2>1, FS_Subset DEF AlertingTypeOK
<1> HIDE DEF S
<1>4. Cardinality(S(a, b)) \in Nat /\ Cardinality(S(a, b)) <= Cardinality(S(c, d))
  BY <1>2, <1>3, FS_Subset, FS_CardinalityType
<1>5. QED
  BY <1>4 DEF S, SentBetween

\* A send counts for every range of times around it.
LEMMA OneMoreSent ==
    ASSUME AlertingTypeOK, SendsNumbered, NEW k \in Key, RaiseSent(k)
    PROVE  /\ \A a, b \in Int :
                  SentBetween(a, b)' = IF a <= now /\ now <= b THEN SentBetween(a, b) + 1
                                       ELSE SentBetween(a, b)
           /\ SendsNumbered'
<1> DEFINE new == [time |-> now, nth |-> SentBetween(now, now)]
<1>1. now \in Nat /\ IsFiniteSet(sends) /\ \A s \in sends : s.time \in Nat /\ s.nth \in Nat
  BY DEF AlertingTypeOK, Sending, Time
<1>2. sends' = sends \cup {new}
  BY DEF RaiseSent
<1>3. new.time = now /\ new.nth = SentBetween(now, now) /\ SentBetween(now, now) \in Nat
  BY <1>1, SentBetweenGrows
<1>4. new \notin sends
  BY <1>3 DEF SendsNumbered
<1> HIDE DEF new
<1>5. ASSUME NEW a \in Int, NEW b \in Int
      PROVE  SentBetween(a, b)' = IF a <= now /\ now <= b THEN SentBetween(a, b) + 1
                                  ELSE SentBetween(a, b)
  <2> DEFINE S == {s \in sends : a <= s.time /\ s.time <= b}
  <2>1. {s \in sends' : a <= s.time /\ s.time <= b} =
            IF a <= now /\ now <= b THEN S \cup {new} ELSE S
    BY <1>2, <1>3
  <2>2. IsFiniteSet(S) /\ new \notin S
    BY <1>1, <1>4, FS_Subset
  <2>3. Cardinality(S \cup {new}) = Cardinality(S) + 1
    BY <2>2, FS_AddElement
  <2>4. QED
    BY <2>1, <2>3 DEF SentBetween
<1>6. ASSUME NEW s \in sends'
      PROVE  s.nth < SentBetween(s.time, s.time)'
  <2>1. CASE s \in sends
    <3>1. s.nth < SentBetween(s.time, s.time) /\ s.time \in Int /\ s.nth \in Nat
      BY <1>1, <2>1 DEF SendsNumbered
    <3>2. \A t \in Int : SentBetween(t, t) \in Nat
      <4>1. \A t \in Int : t <= t
        OBVIOUS
      <4>2. QED
        BY <4>1, SentBetweenGrows
    <3>3. SentBetween(s.time, s.time) \in Nat
      BY <3>1, <3>2
    <3>4. QED
      BY <1>1, <1>5, <3>1, <3>3
  <2>2. CASE s = new
    BY <1>1, <1>3, <1>5, <2>2
  <2>3. QED
    BY <1>2, <2>1, <2>2
<1>7. QED
  BY <1>5, <1>6 DEF SendsNumbered, SentBetween

\* When an alert has rolled the minute over, if it had to, the minute is the
\* one the alert falls in.
LEMMA MinuteAt ==
    ASSUME AlertingTypeOK, BudgetInv
    PROVE  /\ MinuteStartAt(now) \in Time /\ MinuteStartAt(now) <= now
           /\ now < SatAdd(MinuteStartAt(now), MinuteSec)
           /\ \A s \in sends : s.time < SatAdd(MinuteStartAt(now), MinuteSec)
           /\ SentBetween(MinuteStartAt(now), now) = MinuteCountAt(now)
<1>1. now \in Time /\ minuteStart \in Time /\ MinuteSec \in Nat /\ MinuteSec > 0
  BY DispatcherAssumption DEF AlertingTypeOK, DispatcherTypeOK
<1>2. \A s \in sends : s.time \in Time
  BY DEF AlertingTypeOK, Sending
<1>3. SatAdd(minuteStart, MinuteSec) \in Nat /\ SatAdd(now, MinuteSec) \in Nat
      /\ now < SatAdd(now, MinuteSec)
  BY <1>1, SatAddBounds
<1>4. CASE NewMinute(now)
  <2>1. now >= SatAdd(minuteStart, MinuteSec)
    BY <1>4 DEF NewMinute
  <2>2. \A s \in sends : s.time < now
    BY <1>1, <1>2, <1>3, <2>1 DEF BudgetInv, Time
  <2>3. {s \in sends : now <= s.time /\ s.time <= now} = {}
    BY <1>1, <1>2, <2>2 DEF Time
  <2>4. SentBetween(now, now) = 0
    BY <2>3, FS_EmptySet DEF SentBetween
  <2>5. \A s \in sends : s.time < SatAdd(now, MinuteSec)
    BY <1>1, <1>2, <1>3, <2>2 DEF Time
  <2>6. QED
    BY <1>1, <1>3, <1>4, <2>4, <2>5 DEF MinuteStartAt, MinuteCountAt, Time
<1>5. CASE ~ NewMinute(now)
  BY <1>1, <1>3, <1>5 DEF NewMinute, MinuteStartAt, MinuteCountAt, BudgetInv, Time
<1>6. QED
  BY <1>4, <1>5

LEMMA RaiseBudget ==
    ASSUME AlertingTypeOK, BudgetInv, NEW k \in Key, Raise(k)
    PROVE  BudgetInv'
<1>1. ASSUME UNCHANGED <<sends, now, minuteStart, minuteCount>>
      PROVE  BudgetInv'
  BY <1>1 DEF BudgetInv, SendsNumbered, SentBetween, SatAdd
<1>2. CASE RaiseUnsubscribed(k)
  BY <1>1, <1>2 DEF RaiseUnsubscribed, NotSubscribed, dispatcherVars
<1>3. CASE RaiseDuplicate(k) \/ RaiseOverBudget(k)
  <2>1. /\ UNCHANGED <<sends, now>>
        /\ minuteStart' = MinuteStartAt(now) /\ minuteCount' = MinuteCountAt(now)
    BY <1>3 DEF RaiseDuplicate, Deduplicated, RaiseOverBudget, RateLimited, RollMinute
  <2>2. SendsNumbered'
    BY <2>1 DEF BudgetInv, SendsNumbered, SentBetween
  <2>3. SentBetween(minuteStart, now)' = SentBetween(MinuteStartAt(now), now)
    BY <2>1 DEF SentBetween
  <2>4. QED
    BY <2>1, <2>2, <2>3, MinuteAt DEF BudgetInv, SatAdd
<1>4. CASE RaiseSent(k)
  <2>1. /\ sends' = sends \cup {[time |-> now, nth |-> SentBetween(now, now)]}
        /\ now' = now
        /\ minuteStart' = MinuteStartAt(now) /\ minuteCount' = MinuteCountAt(now) + 1
    BY <1>4 DEF RaiseSent, Send
  <2>2. /\ MinuteStartAt(now) \in Int /\ MinuteStartAt(now) <= now
        /\ now < SatAdd(MinuteStartAt(now), MinuteSec) /\ now \in Int
    BY MinuteAt DEF AlertingTypeOK, Time
  <2>3. SentBetween(minuteStart, now)' = SentBetween(MinuteStartAt(now), now) + 1
    <3>1. PICK m \in Int, n \in Int : m = MinuteStartAt(now) /\ n = now
      BY <2>2
    <3>2. SentBetween(m, n)' = SentBetween(m, n) + 1
      BY <1>4, <2>2, <3>1, OneMoreSent DEF BudgetInv
    <3>3. SentBetween(minuteStart, now)' = SentBetween(m, n)'
      BY <2>1, <3>1 DEF SentBetween
    <3>4. QED
      BY <3>1, <3>2, <3>3
  <2>4. QED
    BY <1>4, <2>1, <2>2, <2>3, MinuteAt, OneMoreSent DEF BudgetInv, SatAdd
<1>5. QED
  BY <1>2, <1>3, <1>4 DEF Raise

\* An alert is over budget only when the budget was sent in the minute before.
LEMMA OverBudgetBacked ==
    ASSUME AlertingTypeOK, BudgetInv, NEW k \in Key, RaiseOverBudget(k)
    PROVE  SentBetween(now - MinuteSec + 1, now) >= MaxPerMinute
<1>1. /\ now \in Int /\ MinuteSec \in Int /\ MaxPerMinute \in Int
      /\ MinuteStartAt(now) \in Int
      /\ now < SatAdd(MinuteStartAt(now), MinuteSec)
      /\ SentBetween(MinuteStartAt(now), now) = MinuteCountAt(now)
  BY MinuteAt, DispatcherAssumption DEF AlertingTypeOK, Time
<1>2. now - MinuteSec + 1 <= MinuteStartAt(now)
  BY <1>1, DispatcherAssumption DEF SatAdd
<1>3. MinuteCountAt(now) >= MaxPerMinute
  BY DEF RaiseOverBudget, RateLimited
<1>4. /\ SentBetween(MinuteStartAt(now), now) \in Nat
      /\ SentBetween(now - MinuteSec + 1, now) \in Nat
      /\ SentBetween(MinuteStartAt(now), now) <= SentBetween(now - MinuteSec + 1, now)
  BY <1>1, <1>2, SentBetweenGrows
<1>5. QED
  BY <1>1, <1>3, <1>4

LEMMA HouseKeepingBudget == BudgetInv /\ HouseKeeping => BudgetInv'
  BY DEF HouseKeeping, ClearExpired, historyVars, BudgetInv, SendsNumbered, SentBetween, SatAdd

LEMMA ClockBudget ==
    ASSUME ~ ClockGoesBack, AlertingTypeOK, BudgetInv, ClockStep
    PROVE  BudgetInv'
<1>1. /\ now \in Nat /\ now' \in Nat /\ now < now' /\ minuteStart \in Nat
      /\ UNCHANGED <<dispatcherVars, sends>>
      /\ \A s \in sends : s.time \in Nat
  BY DEF ClockStep, AlertingTypeOK, DispatcherTypeOK, Sending, Time
<1>2. \A s \in sends : s.time <= now
  BY DEF BudgetInv
<1>3. {s \in sends : minuteStart <= s.time /\ s.time <= now'} =
        {s \in sends : minuteStart <= s.time /\ s.time <= now}
  BY <1>1, <1>2
<1>4. SentBetween(minuteStart, now)' = minuteCount'
  BY <1>1, <1>3 DEF BudgetInv, SentBetween, dispatcherVars
<1>5. SendsNumbered'
  BY <1>1 DEF BudgetInv, SendsNumbered, SentBetween
<1>6. QED
  BY <1>1, <1>4, <1>5 DEF BudgetInv, SatAdd, dispatcherVars

LEMMA FreshBudget ==
    ASSUME sends = {}, minuteStart = 0, minuteCount = 0, now \in Time
    PROVE  BudgetInv
<1>1. SentBetween(minuteStart, now) = 0
  <2>1. {s \in sends : minuteStart <= s.time /\ s.time <= now} = {}
    OBVIOUS
  <2>2. QED
    BY <2>1, FS_EmptySet DEF SentBetween
<1>2. QED
  BY <1>1 DEF BudgetInv, SendsNumbered, Time

=============================================================================
