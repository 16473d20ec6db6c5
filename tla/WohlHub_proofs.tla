--------------------------- MODULE WohlHub_proofs ---------------------------
(***************************************************************************)
(* Theorems about the whole hub: its tables keep to their types; it is the *)
(* leak path of LeakAlerts with its competitors made explicit, whose       *)
(* theorems are therefore the hub's; an excess that stands was heard; only *)
(* what the home is configured for is heard; and its monitors behave as    *)
(* their verified engines and their WASM components do.                    *)
(***************************************************************************)
EXTENDS WohlHub, LeakAlerts_proofs

Limit == [sensor_id : Nat, op : {"LessOrEqual", "GreaterOrEqual", "GreaterThan"}, threshold : Int]

-----------------------------------------------------------------------------
(***************************************************************************)
(* The watchpoint table.                                                   *)
(***************************************************************************)
LEMMA AddedWatchpoint ==
    ASSUME NEW t \in Seq(Limit), Len(t) <= MaxWatchpoints, NEW w \in Limit,
           NEW a, a = AddWatchpoint(t, w)
    PROVE  /\ a \in Seq(Limit)
           /\ Len(a) <= MaxWatchpoints
           /\ Len(a) <= Len(t) + 1
           /\ Len(t) <= Len(a)
           /\ \A i \in 1 .. Len(t) : a[i] = t[i]
           /\ \A i \in 1 .. Len(a) : i <= Len(t) \/ a[i] = w
           /\ Len(t) < MaxWatchpoints => Len(a) = Len(t) + 1
  BY WatchpointsAssumption DEF AddWatchpoint

LEMMA ViolationAlert ==
    ASSUME NEW t \in Seq(Limit), NEW id, NEW v, NEW z \in Zones, NEW type \in AlertTypes
    PROVE  \/ /\ AlertOnViolation(t, id, v, z, type) = <<>>
              /\ Evaluate(t, id, v) = {}
           \/ \E i \in Evaluate(t, id, v) :
                 /\ AlertOnViolation(t, id, v, z, type) =
                        <<[zone |-> z, type |-> type, threshold |-> t[i].threshold]>>
                 /\ t[i].threshold \in Int
<1> DEFINE found == Evaluate(t, id, v)
           first == CHOOSE i \in found : \A j \in found : i <= j
<1>1. CASE found = {}
  BY <1>1 DEF AlertOnViolation
<1>2. CASE found # {}
  <2>1. found \in SUBSET Nat /\ found \subseteq DOMAIN t
    BY DEF Evaluate, Violated
  <2>2. first \in found
    <3> HIDE DEF found
    <3>1. \E i \in found : \A j \in found : i <= j
      BY <1>2, <2>1, LeastOf
    <3>2. QED
      BY <3>1
  <2>3. AlertOnViolation(t, id, v, z, type) =
            <<[zone |-> z, type |-> type, threshold |-> t[first].threshold]>>
    BY <1>2 DEF AlertOnViolation
  <2>4. t[first].threshold \in Int
    <3> HIDE DEF first
    <3>1. t[first] \in Limit
      BY <2>1, <2>2
    <3>2. QED
      BY <3>1 DEF Limit
  <2>5. QED
    BY <2>2, <2>3, <2>4
<1>3. QED
  BY <1>1, <1>2

-----------------------------------------------------------------------------
(***************************************************************************)
(* The temperature monitor.                                                *)
(***************************************************************************)
Thresholds == [zone_id : Zones, freeze : Int, overheat : Int, rate : Int]
TempState == [zone_id : Zones, freeze : Int, overheat : Int, rate : Int,
              last_value : Int, last_time : Time]

Lower(e) == Watchpoint(FreezeWpId(e.zone_id), "LessOrEqual", e.freeze)
Upper(e) == Watchpoint(OverheatWpId(e.zone_id), "GreaterOrEqual", e.overheat)

\* The zones of a monitor are those of the list cs it was configured with, and
\* its watchpoints those of its zones: no other, and where there is room for
\* two for each zone all of them.
TempInv(m, cs) ==
    /\ m \in [zones : Seq(TempState), limits : Seq(Limit)]
    /\ Len(m.zones) <= MaxTempZones
    /\ Len(m.limits) <= MaxWatchpoints
    /\ Len(m.limits) <= 2 * Len(m.zones)
    /\ \A i \in 1 .. Len(m.zones) : \E k \in 1 .. Len(cs) : m.zones[i].zone_id = cs[k].zone_id
    /\ \A j \in 1 .. Len(m.limits) : \E i \in 1 .. Len(m.zones) :
          m.limits[j] = Lower(m.zones[i]) \/ m.limits[j] = Upper(m.zones[i])
    /\ 2 * MaxTempZones <= MaxWatchpoints =>
          \A i \in 1 .. Len(m.zones) :
              /\ \E j \in 1 .. Len(m.limits) : m.limits[j] = Lower(m.zones[i])
              /\ \E j \in 1 .. Len(m.limits) : m.limits[j] = Upper(m.zones[i])

LEMMA LimitsOfZone ==
    ASSUME NEW e, e.zone_id \in Zones, e.freeze \in Int, e.overheat \in Int
    PROVE  Lower(e) \in Limit /\ Upper(e) \in Limit
<1>1. e.zone_id \in Nat
  BY DispatcherAssumption
<1>2. FreezeWpId(e.zone_id) \in Nat /\ OverheatWpId(e.zone_id) \in Nat
  BY <1>1, WatchpointsAssumption DEF FreezeWpId, OverheatWpId, SatU32
<1>3. QED
  BY <1>2 DEF Lower, Upper, Watchpoint, Limit

LEMMA RegisteredTemp ==
    ASSUME NEW cs \in Seq(Thresholds), NEW m, TempInv(m, cs), NEW k \in 1 .. Len(cs)
    PROVE  TempInv(RegisterTemp(m, cs[k]), cs)
<1> DEFINE c == cs[k]
           e == TempZone(c)
           one == AddWatchpoint(m.limits, Lower(e))
           two == AddWatchpoint(one, Upper(e))
           zones == Append(m.zones, e)
           r == [zones |-> zones, limits |-> two]
<1>1. CASE Len(m.zones) >= MaxTempZones
  BY <1>1 DEF RegisterTemp
<1>2. CASE ~ (Len(m.zones) >= MaxTempZones)
  <2>1. c \in [zone_id : Zones, freeze : Int, overheat : Int, rate : Int]
    <3>1. c \in Thresholds
      OBVIOUS
    <3>2. QED
      BY <3>1 DEF Thresholds
  <2>2. 0 \in Time
    BY DispatcherAssumption DEF Time
  <2>3. e \in TempState /\ e.zone_id = c.zone_id /\ e.freeze = c.freeze /\ e.overheat = c.overheat
    BY <2>1, <2>2 DEF TempZone, TempState
  <2>4. Lower(e) \in Limit /\ Upper(e) \in Limit
    BY <2>1, <2>3, LimitsOfZone
  <2>5. RegisterTemp(m, c) = r
    BY <1>2, <2>3 DEF RegisterTemp, Lower, Upper
  <2>6. m.zones \in Seq(TempState) /\ m.limits \in Seq(Limit) /\ Len(m.limits) <= MaxWatchpoints
    BY DEF TempInv
  <2> HIDE DEF e, c
  <2>7. /\ one \in Seq(Limit)
        /\ Len(one) <= MaxWatchpoints
        /\ Len(one) <= Len(m.limits) + 1
        /\ Len(m.limits) <= Len(one)
        /\ \A i \in 1 .. Len(m.limits) : one[i] = m.limits[i]
        /\ \A i \in 1 .. Len(one) : i <= Len(m.limits) \/ one[i] = Lower(e)
        /\ Len(m.limits) < MaxWatchpoints => Len(one) = Len(m.limits) + 1
    BY <2>4, <2>6, AddedWatchpoint
  <2> HIDE DEF one
  <2>8. /\ two \in Seq(Limit)
        /\ Len(two) <= MaxWatchpoints
        /\ Len(two) <= Len(one) + 1
        /\ Len(one) <= Len(two)
        /\ \A i \in 1 .. Len(one) : two[i] = one[i]
        /\ \A i \in 1 .. Len(two) : i <= Len(one) \/ two[i] = Upper(e)
        /\ Len(one) < MaxWatchpoints => Len(two) = Len(one) + 1
    BY <2>4, <2>7, AddedWatchpoint
  <2> HIDE DEF two
  <2>9. /\ zones \in Seq(TempState)
        /\ Len(zones) = Len(m.zones) + 1
        /\ \A i \in 1 .. Len(m.zones) : zones[i] = m.zones[i]
        /\ zones[Len(zones)] = e
    BY <2>3, <2>6
  <2> HIDE DEF zones
  <2>10. Len(m.zones) \in Nat /\ Len(m.limits) \in Nat /\ Len(one) \in Nat /\ Len(two) \in Nat
         /\ MaxTempZones \in Nat /\ MaxWatchpoints \in Nat
    BY <2>6, <2>7, <2>8, TempAssumption, WatchpointsAssumption
  <2>11. Len(m.limits) <= 2 * Len(m.zones)
    BY DEF TempInv
  <2>12. \A i \in 1 .. Len(zones) : \E n \in 1 .. Len(cs) : zones[i].zone_id = cs[n].zone_id
    <3>1. \A i \in 1 .. Len(m.zones) : \E n \in 1 .. Len(cs) : m.zones[i].zone_id = cs[n].zone_id
      BY DEF TempInv
    <3>2. e.zone_id = cs[k].zone_id
      BY <2>3 DEF c
    <3>3. \A i \in 1 .. Len(zones) : i \in 1 .. Len(m.zones) \/ i = Len(zones)
      BY <2>9, <2>10
    <3>4. QED
      BY <2>9, <3>1, <3>2, <3>3
  <2>13. \A j \in 1 .. Len(two) : \E i \in 1 .. Len(zones) :
            two[j] = Lower(zones[i]) \/ two[j] = Upper(zones[i])
    <3>1. \A j \in 1 .. Len(m.limits) : \E i \in 1 .. Len(m.zones) :
              m.limits[j] = Lower(m.zones[i]) \/ m.limits[j] = Upper(m.zones[i])
      BY DEF TempInv
    <3> SUFFICES ASSUME NEW j \in 1 .. Len(two)
                 PROVE  \E i \in 1 .. Len(zones) :
                            two[j] = Lower(zones[i]) \/ two[j] = Upper(zones[i])
      OBVIOUS
    <3>2. Len(zones) \in 1 .. Len(zones) /\ \A i \in 1 .. Len(m.zones) : i \in 1 .. Len(zones)
      BY <2>9, <2>10
    <3>3. CASE j <= Len(m.limits)
      <4>1. two[j] = m.limits[j] /\ j \in 1 .. Len(m.limits)
        BY <2>7, <2>8, <2>10, <3>3
      <4>2. QED
        BY <2>9, <3>1, <3>2, <4>1
    <3>4. CASE ~ (j <= Len(m.limits))
      <4>1. two[j] = Lower(e) \/ two[j] = Upper(e)
        BY <2>7, <2>8, <2>10, <3>4
      <4>2. QED
        BY <2>9, <3>2, <4>1
    <3>5. QED
      BY <3>3, <3>4
  <2>14. ASSUME 2 * MaxTempZones <= MaxWatchpoints, NEW i \in 1 .. Len(zones)
         PROVE  /\ \E j \in 1 .. Len(two) : two[j] = Lower(zones[i])
                /\ \E j \in 1 .. Len(two) : two[j] = Upper(zones[i])
    <3>1. Len(m.limits) + 2 <= MaxWatchpoints
      BY <1>2, <2>10, <2>11, <2>14
    <3>2. Len(one) = Len(m.limits) + 1 /\ Len(two) = Len(one) + 1
      BY <2>7, <2>8, <2>10, <3>1
    <3>3. two[Len(one)] = Lower(e) /\ two[Len(two)] = Upper(e)
          /\ Len(one) \in 1 .. Len(two) /\ Len(two) \in 1 .. Len(two)
      <4>1. Len(one) \in 1 .. Len(one) /\ ~ (Len(one) <= Len(m.limits)) /\ Len(one) \in 1 .. Len(two)
        BY <2>10, <3>2
      <4>2. Len(two) \in 1 .. Len(two) /\ ~ (Len(two) <= Len(one))
        BY <2>10, <3>2
      <4>3. QED
        BY <2>7, <2>8, <4>1, <4>2
    <3>4. CASE i = Len(zones)
      BY <2>9, <3>3, <3>4
    <3>5. CASE i # Len(zones)
      <4>1. i \in 1 .. Len(m.zones) /\ zones[i] = m.zones[i]
        BY <2>9, <2>10, <3>5
      <4>2. /\ \E j \in 1 .. Len(m.limits) : m.limits[j] = Lower(m.zones[i])
            /\ \E j \in 1 .. Len(m.limits) : m.limits[j] = Upper(m.zones[i])
        BY <2>14, <4>1 DEF TempInv
      <4>3. \A j \in 1 .. Len(m.limits) : j \in 1 .. Len(two) /\ two[j] = m.limits[j]
        BY <2>7, <2>8, <2>10
      <4>4. QED
        BY <4>1, <4>2, <4>3
    <3>6. QED
      BY <3>4, <3>5
  <2>15. r.zones = zones /\ r.limits = two /\ r \in [zones : Seq(TempState), limits : Seq(Limit)]
    BY <2>8, <2>9
  <2>16. Len(zones) <= MaxTempZones /\ Len(two) <= 2 * Len(zones)
    BY <1>2, <2>7, <2>8, <2>9, <2>10, <2>11
  <2> HIDE DEF r
  <2>17. TempInv(r, cs)
    BY <2>8, <2>12, <2>13, <2>14, <2>15, <2>16 DEF TempInv
  <2>18. QED
    BY <2>5, <2>17 DEF c
<1>3. QED
  BY <1>1, <1>2

\* No zone has had a reading.
Unread(zones) == \A i \in 1 .. Len(zones) : zones[i].last_time = 0

LEMMA RegisteredUnread ==
    ASSUME NEW cs \in Seq(Thresholds), NEW m, TempInv(m, cs), Unread(m.zones), NEW k \in 1 .. Len(cs)
    PROVE  Unread(RegisterTemp(m, cs[k]).zones)
<1> DEFINE e == TempZone(cs[k])
<1>1. m.zones \in Seq(TempState)
  BY DEF TempInv
<1>2. RegisterTemp(m, cs[k]).zones = m.zones \/ RegisterTemp(m, cs[k]).zones = Append(m.zones, e)
  BY DEF RegisterTemp
<1>3. e.last_time = 0
  BY DEF TempZone
<1> HIDE DEF e
<1>4. Unread(Append(m.zones, e))
  <2>1. \A i \in 1 .. Len(Append(m.zones, e)) :
            Append(m.zones, e)[i] = IF i <= Len(m.zones) THEN m.zones[i] ELSE e
    BY <1>1
  <2>2. Len(m.zones) \in Nat /\ Len(Append(m.zones, e)) = Len(m.zones) + 1
    BY <1>1
  <2>3. QED
    BY <1>3, <2>1, <2>2 DEF Unread
<1>5. QED
  BY <1>2, <1>4

\* A run of configure over the zones of a list.
TempRun(f, cs) ==
    /\ f[0] = NewTemp
    /\ \A i \in 1 .. Len(cs) : f[i] = RegisterTemp(f[i - 1], cs[i])
    /\ f[Len(cs)] = TempWith(cs)

LEMMA TempStarts ==
    ASSUME NEW cs \in Seq(Thresholds)
    PROVE  /\ TempInv(TempWith(cs), cs) /\ Unread(TempWith(cs).zones)
           /\ \E f : TempRun(f, cs)
<1> DEFINE n == Len(cs)
           S == {m \in [zones : Seq(TempState), limits : Seq(Limit)] :
                    TempInv(m, cs) /\ Unread(m.zones)}
           step == [x \in S \X (1 .. n) |-> RegisterTemp(x[1], cs[x[2]])]
           Turn(f) == [i \in 0 .. n |-> IF i = 0 THEN NewTemp ELSE RegisterTemp(f[i - 1], cs[i])]
           monitor == CHOOSE f : f = Turn(f)
<1>1. n \in Nat
  OBVIOUS
<1>2. NewTemp \in S
  <2>1. NewTemp \in [zones : Seq(TempState), limits : Seq(Limit)]
        /\ NewTemp.zones = <<>> /\ NewTemp.limits = <<>>
    BY DEF NewTemp
  <2>2. Len(NewTemp.zones) = 0 /\ Len(NewTemp.limits) = 0
    BY <2>1
  <2>3. TempInv(NewTemp, cs)
    <3> HIDE DEF n
    <3>1. 1 .. 0 = {}
      OBVIOUS
    <3>2. QED
      BY <2>1, <2>2, <3>1, TempAssumption, WatchpointsAssumption DEF TempInv
  <2>4. Unread(NewTemp.zones)
    BY <2>2 DEF Unread
  <2>5. QED
    BY <2>1, <2>3, <2>4
<1>3. ASSUME NEW m \in S, NEW k \in 1 .. n
      PROVE  RegisterTemp(m, cs[k]) \in S
  <2>1. TempInv(RegisterTemp(m, cs[k]), cs) /\ Unread(RegisterTemp(m, cs[k]).zones)
    BY RegisteredTemp, RegisteredUnread
  <2>2. QED
    BY <2>1 DEF TempInv
<1>4. \E f \in [0 .. n -> S] : f = Turn(f)
  <2>1. step \in Steps(S, n)
    <3> HIDE DEF S, n
    <3>1. QED
      BY <1>3 DEF Steps
  <2>2. \A x \in S, k \in 1 .. n : step[<<x, k>>] = RegisterTemp(x, cs[k])
    OBVIOUS
  <2> HIDE DEF S, step, n
  <2>3. PICK f : IsRun(f, S, NewTemp, n, step)
    BY <1>1, <1>2, <2>1, LoopRuns
  <2>4. \A i \in 1 .. n : f[i] = RegisterTemp(f[i - 1], cs[i])
    <3>1. \A i \in 1 .. n : i - 1 \in 0 .. n
      BY <1>1
    <3>2. QED
      BY <2>2, <2>3, <3>1 DEF IsRun
  <2>5. f = Turn(f)
    BY <1>1, <2>3, <2>4 DEF IsRun
  <2>6. QED
    BY <2>3, <2>5 DEF IsRun
<1> HIDE DEF S
<1>5. monitor = Turn(monitor)
  BY <1>4
<1>6. TempWith(cs) = monitor[n]
  BY DEF TempWith
<1> HIDE DEF monitor, n
<1>7. monitor[0] = NewTemp /\ \A i \in 1 .. n : monitor[i] = RegisterTemp(monitor[i - 1], cs[i])
  BY <1>1, <1>5
<1>8. monitor[n] \in S
  <2>1. \A i \in 1 .. n : monitor[i - 1] \in S => monitor[i] \in S
    BY <1>3, <1>7
  <2>2. QED
    BY <1>1, <1>2, <1>7, <2>1, LoopStays
<1>9. TempRun(monitor, cs)
  BY <1>6, <1>7 DEF TempRun, n
<1>10. QED
  BY <1>6, <1>8, <1>9 DEF S

-----------------------------------------------------------------------------
(***************************************************************************)
(* The air quality monitor.                                                *)
(***************************************************************************)
AirThresholds == [zone_id : Zones, thresholds : [1 .. 6 -> Int]]

AirLimit(c, i) == Watchpoint(AirWpId(c.zone_id, i), "GreaterOrEqual", c.thresholds[i])

\* Every watchpoint is one of the six of a zone of the list cs.
AirTable(limits, cs) ==
    /\ limits \in Seq(Limit)
    /\ Len(limits) <= MaxWatchpoints
    /\ \A j \in 1 .. Len(limits) : \E k \in 1 .. Len(cs), i \in 1 .. 6 :
          limits[j] = AirLimit(cs[k], i)

AirInv(m, cs) ==
    /\ m \in [zone_count : Nat, limits : Seq(Limit)]
    /\ m.zone_count <= MaxAirZones
    /\ AirTable(m.limits, cs)

LEMMA AirLimitType ==
    ASSUME NEW c \in AirThresholds, NEW i \in 1 .. 6
    PROVE  AirLimit(c, i) \in Limit
<1>1. c.zone_id \in Nat /\ c.thresholds[i] \in Int
  BY DispatcherAssumption DEF AirThresholds
<1>2. AirWpId(c.zone_id, i) \in Nat
  BY <1>1, WatchpointsAssumption DEF AirWpId
<1>3. QED
  BY <1>1, <1>2 DEF AirLimit, Watchpoint, Limit

LEMMA AirTableGrows ==
    ASSUME NEW cs \in Seq(AirThresholds), NEW t, AirTable(t, cs),
           NEW k \in 1 .. Len(cs), NEW i \in 1 .. 6
    PROVE  AirTable(AddWatchpoint(t, AirLimit(cs[k], i)), cs)
<1> DEFINE w == AirLimit(cs[k], i)
           a == AddWatchpoint(t, w)
<1>1. w \in Limit
  BY AirLimitType
<1>2. t \in Seq(Limit) /\ Len(t) <= MaxWatchpoints
  BY DEF AirTable
<1> HIDE DEF w
<1>3. /\ a \in Seq(Limit)
      /\ Len(a) <= MaxWatchpoints
      /\ \A j \in 1 .. Len(t) : a[j] = t[j]
      /\ \A j \in 1 .. Len(a) : j <= Len(t) \/ a[j] = w
  BY <1>1, <1>2, AddedWatchpoint
<1> HIDE DEF a
<1>4. ASSUME NEW j \in 1 .. Len(a)
      PROVE  \E n \in 1 .. Len(cs), m \in 1 .. 6 : a[j] = AirLimit(cs[n], m)
  <2>1. CASE j <= Len(t)
    <3>1. j \in 1 .. Len(t) /\ a[j] = t[j]
      BY <1>2, <1>3, <2>1
    <3>2. QED
      BY <3>1 DEF AirTable
  <2>2. CASE ~ (j <= Len(t))
    BY <1>3, <2>2 DEF w
  <2>3. QED
    BY <2>1, <2>2
<1>5. AirTable(a, cs)
  BY <1>3, <1>4 DEF AirTable
<1>6. QED
  BY <1>5 DEF a, w

LimitsRun(f, t, c) ==
    /\ f[0] = t
    /\ \A i \in 1 .. 6 : f[i] = AddWatchpoint(f[i - 1], AirLimit(c, i))
    /\ f[6] = WithLimits(t, c)

LEMMA SixLimits ==
    ASSUME NEW cs \in Seq(AirThresholds), NEW t, AirTable(t, cs), NEW k \in 1 .. Len(cs)
    PROVE  AirTable(WithLimits(t, cs[k]), cs) /\ \E f : LimitsRun(f, t, cs[k])
<1> DEFINE n == 6
           S == {u \in Seq(Limit) : AirTable(u, cs)}
           step == [x \in S \X (1 .. n) |-> AddWatchpoint(x[1], AirLimit(cs[k], x[2]))]
           Turn(f) == [i \in 0 .. 6 |->
                          IF i = 0 THEN t
                          ELSE AddWatchpoint(f[i - 1],
                                   Watchpoint(AirWpId(cs[k].zone_id, i), "GreaterOrEqual",
                                              cs[k].thresholds[i]))]
           limits == CHOOSE f : f = Turn(f)
<1>1. n \in Nat /\ t \in S
  BY DEF AirTable
<1>2. ASSUME NEW u \in S, NEW i \in 1 .. n
      PROVE  AddWatchpoint(u, AirLimit(cs[k], i)) \in S
  <2>1. AirTable(AddWatchpoint(u, AirLimit(cs[k], i)), cs)
    BY AirTableGrows
  <2>2. QED
    BY <2>1 DEF AirTable
<1>3. \E f : f = Turn(f)
  <2>1. step \in Steps(S, n)
    <3> HIDE DEF S, n
    <3>1. QED
      BY <1>2 DEF Steps
  <2>2. \A u \in S, i \in 1 .. n : step[<<u, i>>] = AddWatchpoint(u, AirLimit(cs[k], i))
    OBVIOUS
  <2> HIDE DEF S, step, n
  <2>3. PICK f : IsRun(f, S, t, n, step)
    BY <1>1, <2>1, LoopRuns
  <2>4. \A i \in 1 .. n : f[i] = AddWatchpoint(f[i - 1], AirLimit(cs[k], i))
    <3>1. \A i \in 1 .. n : i - 1 \in 0 .. n
      BY <1>1
    <3>2. QED
      BY <2>2, <2>3, <3>1 DEF IsRun
  <2>5. f = Turn(f)
    BY <1>1, <2>3, <2>4 DEF IsRun, AirLimit, n
  <2>6. QED
    BY <2>5
<1> HIDE DEF S
<1>4. limits = Turn(limits)
  BY <1>3
<1>5. WithLimits(t, cs[k]) = limits[n]
  BY DEF WithLimits
<1> HIDE DEF limits
<1>6. limits[0] = t /\ \A i \in 1 .. n : limits[i] = AddWatchpoint(limits[i - 1], AirLimit(cs[k], i))
  BY <1>4 DEF AirLimit
<1> HIDE DEF n
<1>7. limits[n] \in S
  <2>1. \A i \in 1 .. n : limits[i - 1] \in S => limits[i] \in S
    BY <1>2, <1>6
  <2>2. QED
    BY <1>1, <1>6, <2>1, LoopStays
<1>8. LimitsRun(limits, t, cs[k])
  BY <1>5, <1>6 DEF LimitsRun, n
<1>9. QED
  BY <1>5, <1>7, <1>8 DEF S

LEMMA RegisteredAir ==
    ASSUME NEW cs \in Seq(AirThresholds), NEW m, AirInv(m, cs), NEW k \in 1 .. Len(cs)
    PROVE  AirInv(RegisterAir(m, cs[k]), cs)
<1> DEFINE limits == WithLimits(m.limits, cs[k])
<1>1. CASE m.zone_count >= MaxAirZones
  BY <1>1 DEF RegisterAir
<1>2. CASE ~ (m.zone_count >= MaxAirZones)
  <2>1. AirTable(limits, cs)
    BY SixLimits DEF AirInv
  <2> HIDE DEF limits
  <2>2. RegisterAir(m, cs[k]) = [zone_count |-> m.zone_count + 1, limits |-> limits]
    BY <1>2 DEF RegisterAir, limits
  <2>3. m.zone_count \in Nat /\ limits \in Seq(Limit)
    BY <2>1 DEF AirInv, AirTable
  <2>4. m.zone_count + 1 \in Nat /\ m.zone_count + 1 <= MaxAirZones
    BY <1>2, <2>3, AirAssumption
  <2> DEFINE r == RegisterAir(m, cs[k])
  <2>5. r \in [zone_count : Nat, limits : Seq(Limit)] /\ r.limits = limits
        /\ r.zone_count = m.zone_count + 1
    BY <2>2, <2>3, <2>4
  <2> HIDE DEF r
  <2>6. AirInv(r, cs)
    BY <2>1, <2>4, <2>5 DEF AirInv
  <2>7. QED
    BY <2>6 DEF r
<1>3. QED
  BY <1>1, <1>2

AirRun(f, cs) ==
    /\ f[0] = NewAir
    /\ \A i \in 1 .. Len(cs) : f[i] = RegisterAir(f[i - 1], cs[i]) /\ AirInv(f[i - 1], cs)
    /\ f[Len(cs)] = AirWith(cs)

LEMMA AirStarts ==
    ASSUME NEW cs \in Seq(AirThresholds)
    PROVE  AirInv(AirWith(cs), cs) /\ \E f : AirRun(f, cs)
<1> DEFINE n == Len(cs)
           S == {m \in [zone_count : Nat, limits : Seq(Limit)] :
                    AirInv(m, cs)}
           step == [x \in S \X (1 .. n) |-> RegisterAir(x[1], cs[x[2]])]
           Turn(f) == [i \in 0 .. n |-> IF i = 0 THEN NewAir ELSE RegisterAir(f[i - 1], cs[i])]
           monitor == CHOOSE f : f = Turn(f)
<1>1. n \in Nat
  OBVIOUS
<1>2. NewAir \in S
  <2>1. NewAir \in [zone_count : Nat, limits : Seq(Limit)]
        /\ NewAir.zone_count = 0 /\ NewAir.limits = <<>>
    BY DEF NewAir
  <2>2. Len(NewAir.limits) = 0
    BY <2>1
  <2>3. AirInv(NewAir, cs)
    <3> HIDE DEF n
    <3>1. 1 .. 0 = {}
      OBVIOUS
    <3>2. QED
      BY <2>1, <2>2, <3>1, AirAssumption, WatchpointsAssumption DEF AirInv, AirTable
  <2>4. QED
    BY <2>1, <2>3
<1>3. ASSUME NEW m \in S, NEW k \in 1 .. n
      PROVE  RegisterAir(m, cs[k]) \in S
  <2>1. AirInv(RegisterAir(m, cs[k]), cs)
    BY RegisteredAir
  <2>2. QED
    BY <2>1 DEF AirInv
<1>4. \E f \in [0 .. n -> S] : f = Turn(f)
  <2>1. step \in Steps(S, n)
    <3> HIDE DEF S, n
    <3>1. QED
      BY <1>3 DEF Steps
  <2>2. \A x \in S, k \in 1 .. n : step[<<x, k>>] = RegisterAir(x, cs[k])
    OBVIOUS
  <2> HIDE DEF S, step, n
  <2>3. PICK f : IsRun(f, S, NewAir, n, step)
    BY <1>1, <1>2, <2>1, LoopRuns
  <2>4. \A i \in 1 .. n : f[i] = RegisterAir(f[i - 1], cs[i])
    <3>1. \A i \in 1 .. n : i - 1 \in 0 .. n
      BY <1>1
    <3>2. QED
      BY <2>2, <2>3, <3>1 DEF IsRun
  <2>5. f = Turn(f)
    BY <1>1, <2>3, <2>4 DEF IsRun
  <2>6. QED
    BY <2>3, <2>5 DEF IsRun
<1> HIDE DEF S
<1>5. monitor = Turn(monitor)
  BY <1>4
<1>6. AirWith(cs) = monitor[n]
  BY DEF AirWith
<1> HIDE DEF monitor, n
<1>7. monitor[0] = NewAir /\ \A i \in 1 .. n : monitor[i] = RegisterAir(monitor[i - 1], cs[i])
  BY <1>1, <1>5
<1>8. \A k \in 0 .. n : monitor[k] \in S
  <2> SUFFICES ASSUME NEW k \in 0 .. n PROVE monitor[k] \in S
    OBVIOUS
  <2>1. \A i \in 1 .. k : monitor[i - 1] \in S => monitor[i] \in S
    <3>1. \A i \in 1 .. k : i \in 1 .. n
      BY <1>1
    <3>2. QED
      BY <1>3, <1>7, <3>1
  <2>2. k \in Nat
    BY <1>1
  <2>3. QED
    BY <1>2, <1>7, <2>1, <2>2, LoopStays
<1>9. AirRun(monitor, cs)
  <2>1. \A i \in 1 .. n : i - 1 \in 0 .. n
    BY <1>1
  <2>2. \A i \in 1 .. n : AirInv(monitor[i - 1], cs)
    BY <1>8, <2>1 DEF S
  <2>3. QED
    BY <1>6, <1>7, <2>2 DEF AirRun, n
<1>10. monitor[n] \in S
  <2>1. n \in 0 .. n
    BY <1>1
  <2>2. QED
    BY <1>8, <2>1
<1>11. QED
  BY <1>6, <1>9, <1>10 DEF S

-----------------------------------------------------------------------------
(***************************************************************************)
(* The power meter.                                                        *)
(***************************************************************************)
CircuitThresholds == [circuit_id : Zones, max : Nat, spike : Nat]
CircuitState == [circuit_id : Zones, max : Nat, spike : Nat, last_watts : Nat, last_time : Time]

Consumption(e) == Watchpoint(e.circuit_id, "GreaterThan", e.max)

\* As TempInv, with one watchpoint for each circuit.
PowerInv(m, cs) ==
    /\ m \in [circuits : Seq(CircuitState), limits : Seq(Limit)]
    /\ Len(m.circuits) <= MaxCircuits
    /\ Len(m.limits) <= MaxWatchpoints
    /\ Len(m.limits) <= Len(m.circuits)
    /\ \A i \in 1 .. Len(m.circuits) : \E k \in 1 .. Len(cs) :
          m.circuits[i].circuit_id = cs[k].circuit_id
    /\ \A j \in 1 .. Len(m.limits) : \E i \in 1 .. Len(m.circuits) :
          m.limits[j] = Consumption(m.circuits[i])
    /\ MaxCircuits <= MaxWatchpoints =>
          \A i \in 1 .. Len(m.circuits) : \E j \in 1 .. Len(m.limits) :
              m.limits[j] = Consumption(m.circuits[i])

LEMMA LimitOfCircuit ==
    ASSUME NEW e, e.circuit_id \in Zones, e.max \in Nat
    PROVE  Consumption(e) \in Limit
<1>1. e.circuit_id \in Nat
  BY DispatcherAssumption
<1>2. QED
  BY <1>1 DEF Consumption, Watchpoint, Limit

LEMMA RegisteredPower ==
    ASSUME NEW cs \in Seq(CircuitThresholds), NEW m, PowerInv(m, cs), NEW k \in 1 .. Len(cs)
    PROVE  PowerInv(RegisterPower(m, cs[k]), cs)
<1> DEFINE c == cs[k]
           e == Circuit(c)
           limits == AddWatchpoint(m.limits, Consumption(e))
           circuits == Append(m.circuits, e)
           r == [circuits |-> circuits, limits |-> limits]
<1>1. CASE Len(m.circuits) >= MaxCircuits
  BY <1>1 DEF RegisterPower
<1>2. CASE ~ (Len(m.circuits) >= MaxCircuits)
  <2>1. c \in [circuit_id : Zones, max : Nat, spike : Nat]
    <3>1. c \in CircuitThresholds
      OBVIOUS
    <3>2. QED
      BY <3>1 DEF CircuitThresholds
  <2>2. 0 \in Time
    BY DispatcherAssumption DEF Time
  <2>3. e \in CircuitState /\ e.circuit_id = c.circuit_id /\ e.max = c.max
    BY <2>1, <2>2 DEF Circuit, CircuitState
  <2>4. Consumption(e) \in Limit
    BY <2>1, <2>3, LimitOfCircuit
  <2>5. RegisterPower(m, cs[k]) = r
    BY <1>2, <2>3 DEF RegisterPower, Consumption
  <2>6. m.circuits \in Seq(CircuitState) /\ m.limits \in Seq(Limit) /\ Len(m.limits) <= MaxWatchpoints
    BY DEF PowerInv
  <2> HIDE DEF e, c
  <2>7. /\ limits \in Seq(Limit)
        /\ Len(limits) <= MaxWatchpoints
        /\ Len(limits) <= Len(m.limits) + 1
        /\ Len(m.limits) <= Len(limits)
        /\ \A i \in 1 .. Len(m.limits) : limits[i] = m.limits[i]
        /\ \A i \in 1 .. Len(limits) : i <= Len(m.limits) \/ limits[i] = Consumption(e)
        /\ Len(m.limits) < MaxWatchpoints => Len(limits) = Len(m.limits) + 1
    BY <2>4, <2>6, AddedWatchpoint
  <2> HIDE DEF limits
  <2>8. /\ circuits \in Seq(CircuitState)
        /\ Len(circuits) = Len(m.circuits) + 1
        /\ \A i \in 1 .. Len(m.circuits) : circuits[i] = m.circuits[i]
        /\ circuits[Len(circuits)] = e
    BY <2>3, <2>6
  <2> HIDE DEF circuits
  <2>9. Len(m.circuits) \in Nat /\ Len(m.limits) \in Nat /\ Len(limits) \in Nat
        /\ MaxCircuits \in Nat /\ MaxWatchpoints \in Nat
    BY <2>6, <2>7, PowerAssumption, WatchpointsAssumption
  <2>10. Len(m.limits) <= Len(m.circuits)
    BY DEF PowerInv
  <2>11. \A i \in 1 .. Len(circuits) : \E n \in 1 .. Len(cs) :
            circuits[i].circuit_id = cs[n].circuit_id
    <3>1. \A i \in 1 .. Len(m.circuits) : \E n \in 1 .. Len(cs) :
              m.circuits[i].circuit_id = cs[n].circuit_id
      BY DEF PowerInv
    <3>2. e.circuit_id = cs[k].circuit_id
      BY <2>3 DEF c
    <3>3. \A i \in 1 .. Len(circuits) : i \in 1 .. Len(m.circuits) \/ i = Len(circuits)
      BY <2>8, <2>9
    <3>4. QED
      BY <2>8, <3>1, <3>2, <3>3
  <2>12. ASSUME NEW j \in 1 .. Len(limits)
         PROVE  \E i \in 1 .. Len(circuits) : limits[j] = Consumption(circuits[i])
    <3>1. \A i \in 1 .. Len(m.limits) : \E n \in 1 .. Len(m.circuits) :
              m.limits[i] = Consumption(m.circuits[n])
      BY DEF PowerInv
    <3>2. Len(circuits) \in 1 .. Len(circuits)
          /\ \A i \in 1 .. Len(m.circuits) : i \in 1 .. Len(circuits)
      BY <2>8, <2>9
    <3>3. CASE j <= Len(m.limits)
      <4>1. limits[j] = m.limits[j] /\ j \in 1 .. Len(m.limits)
        BY <2>7, <2>9, <3>3
      <4>2. QED
        BY <2>8, <3>1, <3>2, <4>1
    <3>4. CASE ~ (j <= Len(m.limits))
      BY <2>7, <2>8, <3>2, <3>4
    <3>5. QED
      BY <3>3, <3>4
  <2>13. ASSUME MaxCircuits <= MaxWatchpoints, NEW i \in 1 .. Len(circuits)
         PROVE  \E j \in 1 .. Len(limits) : limits[j] = Consumption(circuits[i])
    <3>1. Len(limits) = Len(m.limits) + 1
      BY <1>2, <2>7, <2>9, <2>10, <2>13
    <3>2. limits[Len(limits)] = Consumption(e) /\ Len(limits) \in 1 .. Len(limits)
      <4>1. Len(limits) \in 1 .. Len(limits) /\ ~ (Len(limits) <= Len(m.limits))
        BY <2>9, <3>1
      <4>2. QED
        BY <2>7, <4>1
    <3>3. CASE i = Len(circuits)
      BY <2>8, <3>2, <3>3
    <3>4. CASE i # Len(circuits)
      <4>1. i \in 1 .. Len(m.circuits) /\ circuits[i] = m.circuits[i]
        BY <2>8, <2>9, <3>4
      <4>2. \E j \in 1 .. Len(m.limits) : m.limits[j] = Consumption(m.circuits[i])
        BY <2>13, <4>1 DEF PowerInv
      <4>3. \A j \in 1 .. Len(m.limits) : j \in 1 .. Len(limits) /\ limits[j] = m.limits[j]
        BY <2>7, <2>9
      <4>4. QED
        BY <4>1, <4>2, <4>3
    <3>5. QED
      BY <3>3, <3>4
  <2>14. r.circuits = circuits /\ r.limits = limits
         /\ r \in [circuits : Seq(CircuitState), limits : Seq(Limit)]
    BY <2>7, <2>8
  <2>15. Len(circuits) <= MaxCircuits /\ Len(limits) <= Len(circuits)
    BY <1>2, <2>7, <2>8, <2>9, <2>10
  <2> HIDE DEF r
  <2>16. PowerInv(r, cs)
    BY <2>7, <2>11, <2>12, <2>13, <2>14, <2>15 DEF PowerInv
  <2>17. QED
    BY <2>5, <2>16 DEF c
<1>3. QED
  BY <1>1, <1>2

LEMMA CircuitsUnread ==
    ASSUME NEW cs \in Seq(CircuitThresholds), NEW m, PowerInv(m, cs), Unread(m.circuits), NEW k \in 1 .. Len(cs)
    PROVE  Unread(RegisterPower(m, cs[k]).circuits)
<1> DEFINE e == Circuit(cs[k])
<1>1. m.circuits \in Seq(CircuitState)
  BY DEF PowerInv
<1>2. RegisterPower(m, cs[k]).circuits = m.circuits \/ RegisterPower(m, cs[k]).circuits = Append(m.circuits, e)
  BY DEF RegisterPower
<1>3. e.last_time = 0
  BY DEF Circuit
<1> HIDE DEF e
<1>4. Unread(Append(m.circuits, e))
  <2>1. \A i \in 1 .. Len(Append(m.circuits, e)) :
            Append(m.circuits, e)[i] = IF i <= Len(m.circuits) THEN m.circuits[i] ELSE e
    BY <1>1
  <2>2. Len(m.circuits) \in Nat /\ Len(Append(m.circuits, e)) = Len(m.circuits) + 1
    BY <1>1
  <2>3. QED
    BY <1>3, <2>1, <2>2 DEF Unread
<1>5. QED
  BY <1>2, <1>4

\* A run of configure over the circuits of a list.
PowerRun(f, cs) ==
    /\ f[0] = NewPower
    /\ \A i \in 1 .. Len(cs) : f[i] = RegisterPower(f[i - 1], cs[i])
    /\ f[Len(cs)] = PowerWith(cs)

LEMMA PowerStarts ==
    ASSUME NEW cs \in Seq(CircuitThresholds)
    PROVE  /\ PowerInv(PowerWith(cs), cs) /\ Unread(PowerWith(cs).circuits)
           /\ \E f : PowerRun(f, cs)
<1> DEFINE n == Len(cs)
           S == {m \in [circuits : Seq(CircuitState), limits : Seq(Limit)] :
                    PowerInv(m, cs) /\ Unread(m.circuits)}
           step == [x \in S \X (1 .. n) |-> RegisterPower(x[1], cs[x[2]])]
           Turn(f) == [i \in 0 .. n |-> IF i = 0 THEN NewPower ELSE RegisterPower(f[i - 1], cs[i])]
           monitor == CHOOSE f : f = Turn(f)
<1>1. n \in Nat
  OBVIOUS
<1>2. NewPower \in S
  <2>1. NewPower \in [circuits : Seq(CircuitState), limits : Seq(Limit)]
        /\ NewPower.circuits = <<>> /\ NewPower.limits = <<>>
    BY DEF NewPower
  <2>2. Len(NewPower.circuits) = 0 /\ Len(NewPower.limits) = 0
    BY <2>1
  <2>3. PowerInv(NewPower, cs)
    <3> HIDE DEF n
    <3>1. 1 .. 0 = {}
      OBVIOUS
    <3>2. QED
      BY <2>1, <2>2, <3>1, PowerAssumption, WatchpointsAssumption DEF PowerInv
  <2>4. Unread(NewPower.circuits)
    BY <2>2 DEF Unread
  <2>5. QED
    BY <2>1, <2>3, <2>4
<1>3. ASSUME NEW m \in S, NEW k \in 1 .. n
      PROVE  RegisterPower(m, cs[k]) \in S
  <2>1. PowerInv(RegisterPower(m, cs[k]), cs) /\ Unread(RegisterPower(m, cs[k]).circuits)
    BY RegisteredPower, CircuitsUnread
  <2>2. QED
    BY <2>1 DEF PowerInv
<1>4. \E f \in [0 .. n -> S] : f = Turn(f)
  <2>1. step \in Steps(S, n)
    <3> HIDE DEF S, n
    <3>1. QED
      BY <1>3 DEF Steps
  <2>2. \A x \in S, k \in 1 .. n : step[<<x, k>>] = RegisterPower(x, cs[k])
    OBVIOUS
  <2> HIDE DEF S, step, n
  <2>3. PICK f : IsRun(f, S, NewPower, n, step)
    BY <1>1, <1>2, <2>1, LoopRuns
  <2>4. \A i \in 1 .. n : f[i] = RegisterPower(f[i - 1], cs[i])
    <3>1. \A i \in 1 .. n : i - 1 \in 0 .. n
      BY <1>1
    <3>2. QED
      BY <2>2, <2>3, <3>1 DEF IsRun
  <2>5. f = Turn(f)
    BY <1>1, <2>3, <2>4 DEF IsRun
  <2>6. QED
    BY <2>3, <2>5 DEF IsRun
<1> HIDE DEF S
<1>5. monitor = Turn(monitor)
  BY <1>4
<1>6. PowerWith(cs) = monitor[n]
  BY DEF PowerWith
<1> HIDE DEF monitor, n
<1>7. monitor[0] = NewPower /\ \A i \in 1 .. n : monitor[i] = RegisterPower(monitor[i - 1], cs[i])
  BY <1>1, <1>5
<1>8. monitor[n] \in S
  <2>1. \A i \in 1 .. n : monitor[i - 1] \in S => monitor[i] \in S
    BY <1>3, <1>7
  <2>2. QED
    BY <1>1, <1>2, <1>7, <2>1, LoopStays
<1>9. PowerRun(monitor, cs)
  BY <1>6, <1>7 DEF PowerRun, n
<1>10. QED
  BY <1>6, <1>8, <1>9 DEF S

-----------------------------------------------------------------------------
(***************************************************************************)
(* What a reading raises.                                                  *)
(***************************************************************************)
Alert == [zone : Zones, type : AlertTypes, threshold : Int]

KeyOfAlert(a) == [zone |-> a.zone, type |-> a.type]

RaisedKeys(s) == {KeyOfAlert(s[i]) : i \in 1 .. Len(s)}

LEMMA RaisedKeysJoin ==
    ASSUME NEW s \in Seq(Alert), NEW t \in Seq(Alert)
    PROVE  /\ s \o t \in Seq(Alert)
           /\ Len(s \o t) = Len(s) + Len(t)
           /\ RaisedKeys(s \o t) = RaisedKeys(s) \cup RaisedKeys(t)
<1> DEFINE u == s \o t
<1>1. /\ u \in Seq(Alert)
      /\ Len(u) = Len(s) + Len(t)
      /\ \A i \in 1 .. Len(s) : u[i] = s[i]
      /\ \A i \in 1 .. Len(t) : u[Len(s) + i] = t[i]
  OBVIOUS
<1>2. Len(s) \in Nat /\ Len(t) \in Nat
  OBVIOUS
<1> HIDE DEF u
<1>3. ASSUME NEW i \in 1 .. Len(u)
      PROVE  u[i] \in {s[j] : j \in 1 .. Len(s)} \cup {t[j] : j \in 1 .. Len(t)}
  <2>1. CASE i <= Len(s)
    BY <1>1, <1>2, <2>1
  <2>2. CASE ~ (i <= Len(s))
    <3>1. i - Len(s) \in 1 .. Len(t) /\ Len(s) + (i - Len(s)) = i
      BY <1>1, <1>2, <2>2
    <3>2. QED
      BY <1>1, <3>1
  <2>3. QED
    BY <2>1, <2>2
<1>4. RaisedKeys(u) \subseteq RaisedKeys(s) \cup RaisedKeys(t)
  BY <1>3 DEF RaisedKeys
<1>5. RaisedKeys(s) \subseteq RaisedKeys(u)
  <2>1. \A i \in 1 .. Len(s) : i \in 1 .. Len(u)
    BY <1>1, <1>2
  <2>2. QED
    BY <1>1, <2>1 DEF RaisedKeys
<1>6. RaisedKeys(t) \subseteq RaisedKeys(u)
  <2>1. \A i \in 1 .. Len(t) : Len(s) + i \in 1 .. Len(u)
    BY <1>1, <1>2
  <2>2. QED
    BY <1>1, <2>1 DEF RaisedKeys
<1>7. RaisedKeys(u) = RaisedKeys(s) \cup RaisedKeys(t)
  BY <1>4, <1>5, <1>6
<1>8. QED
  BY <1>1, <1>7 DEF u

LEMMA NoAlert ==
    <<>> \in Seq(Alert) /\ Len(<<>>) = 0 /\ RaisedKeys(<<>>) = {}
<1>1. Len(<<>>) = 0 /\ 1 .. 0 = {}
  OBVIOUS
<1>2. QED
  BY <1>1 DEF RaisedKeys

LEMMA OneAlert ==
    ASSUME NEW z \in Zones, NEW type \in AlertTypes, NEW n \in Int,
           NEW s, s = <<[zone |-> z, type |-> type, threshold |-> n]>>
    PROVE  s \in Seq(Alert) /\ Len(s) = 1 /\ RaisedKeys(s) = {[zone |-> z, type |-> type]}
<1> DEFINE a == [zone |-> z, type |-> type, threshold |-> n]
<1>1. a \in Alert
  BY DEF Alert
<1>2. KeyOfAlert(a) = [zone |-> z, type |-> type]
  BY DEF KeyOfAlert
<1> HIDE DEF a
<1>3. s = <<a>>
  BY DEF a
<1>4. s \in Seq(Alert) /\ Len(s) = 1 /\ s[1] = a
  BY <1>1, <1>3
<1>5. RaisedKeys(s) = {KeyOfAlert(a)}
  <2>1. 1 .. 1 = {1}
    OBVIOUS
  <2>2. QED
    BY <1>4, <2>1 DEF RaisedKeys
<1>6. QED
  BY <1>2, <1>4, <1>5

LEMMA ViolationKeys ==
    ASSUME NEW t \in Seq(Limit), NEW id, NEW v, NEW z \in Zones, NEW type \in AlertTypes
    PROVE  /\ AlertOnViolation(t, id, v, z, type) \in Seq(Alert)
           /\ Len(AlertOnViolation(t, id, v, z, type)) <= 1
           /\ RaisedKeys(AlertOnViolation(t, id, v, z, type)) \subseteq {[zone |-> z, type |-> type]}
           /\ [zone |-> z, type |-> type] \in RaisedKeys(AlertOnViolation(t, id, v, z, type))
                  <=> Evaluate(t, id, v) # {}
<1> DEFINE a == AlertOnViolation(t, id, v, z, type)
           found == Evaluate(t, id, v)
           key == [zone |-> z, type |-> type]
           One(n) == <<[zone |-> z, type |-> type, threshold |-> n]>>
<1>1. (a = <<>> /\ found = {}) \/ \E i \in found : a = One(t[i].threshold) /\ t[i].threshold \in Int
  BY ViolationAlert
<1>2. \A n \in Int : One(n) \in Seq(Alert) /\ Len(One(n)) = 1 /\ RaisedKeys(One(n)) = {key}
  BY OneAlert
<1> HIDE DEF a, found, key, One
<1>3. a \in Seq(Alert) /\ Len(a) <= 1 /\ RaisedKeys(a) \subseteq {key} /\ (key \in RaisedKeys(a) <=> found # {})
  <2>1. CASE a = <<>> /\ found = {}
    BY <2>1, NoAlert
  <2>2. CASE \E i \in found : a = One(t[i].threshold) /\ t[i].threshold \in Int
    <3>1. PICK n \in Int : a = One(n)
      BY <2>2
    <3>2. found # {}
      BY <2>2
    <3>3. a \in Seq(Alert) /\ Len(a) = 1 /\ RaisedKeys(a) = {key}
      BY <1>2, <3>1
    <3>4. QED
      BY <3>2, <3>3
  <2>3. QED
    BY <1>1, <2>1, <2>2
<1>4. QED
  BY <1>3 DEF a, found, key

\* The keys of the alerts named types for zone z.
KeysFor(z, types) == {[zone |-> z, type |-> t] : t \in types}

LEMMA TempEntryFound ==
    ASSUME NEW cs, TempInv(temp, cs), NEW z, TempEntries(z) # {}
    PROVE  /\ TempEntry(z) \in 1 .. Len(temp.zones)
           /\ temp.zones[TempEntry(z)] \in TempState
           /\ temp.zones[TempEntry(z)].zone_id = z
           /\ \A j \in TempEntries(z) : TempEntry(z) <= j
<1>1. temp.zones \in Seq(TempState)
  BY DEF TempInv
<1>2. TempEntries(z) \in SUBSET Nat /\ TempEntries(z) \subseteq 1 .. Len(temp.zones)
  BY <1>1 DEF TempEntries
<1>3. TempEntry(z) \in TempEntries(z) /\ \A j \in TempEntries(z) : TempEntry(z) <= j
  <2>1. \E i \in TempEntries(z) : \A j \in TempEntries(z) : i <= j
    BY <1>2, LeastOf
  <2>2. QED
    BY <2>1 DEF TempEntry
<1>4. QED
  BY <1>1, <1>2, <1>3 DEF TempEntries

LEMMA RateAlertKeys ==
    ASSUME NEW cs, TempInv(temp, cs), NEW z \in Zones, TempEntries(z) # {}, NEW change,
           NEW type \in {"rapid_drop", "rapid_rise"}
    PROVE  /\ RateAlert(z, change, type) \in Seq(Alert)
           /\ Len(RateAlert(z, change, type)) <= 1
           /\ RaisedKeys(RateAlert(z, change, type)) \subseteq KeysFor(z, {type})
<1> DEFINE rate == temp.zones[TempEntry(z)].rate
<1>1. rate \in Int
  BY TempEntryFound DEF TempState
<1>2. RateAlert(z, change, type) \in {<<>>, <<[zone |-> z, type |-> type, threshold |-> rate]>>}
  BY DEF RateAlert, TempAlert
<1> HIDE DEF rate
<1>3. CASE RateAlert(z, change, type) = <<>>
  BY <1>3, NoAlert
<1>4. CASE RateAlert(z, change, type) = <<[zone |-> z, type |-> type, threshold |-> rate]>>
  <2>1. type \in AlertTypes
    BY HubAssumption DEF TempTypes
  <2>2. /\ RateAlert(z, change, type) \in Seq(Alert)
        /\ Len(RateAlert(z, change, type)) = 1
        /\ RaisedKeys(RateAlert(z, change, type)) = {[zone |-> z, type |-> type]}
    BY <1>1, <1>4, <2>1, OneAlert
  <2>3. QED
    BY <2>2 DEF KeysFor
<1>5. QED
  BY <1>2, <1>3, <1>4

\* A reading raises freeze and overheat when it violates a watchpoint, whether
\* the zone is a known one or not, and the others for a known zone only.
LEMMA TempAlertKeys ==
    ASSUME NEW cs, TempInv(temp, cs), NEW z \in Zones, NEW v \in Int
    PROVE  /\ TempAlerts(z, v) \in Seq(Alert)
           /\ Len(TempAlerts(z, v)) <= 4
           /\ RaisedKeys(TempAlerts(z, v)) \subseteq KeysFor(z, TempTypes)
           /\ [zone |-> z, type |-> "freeze"] \in RaisedKeys(TempAlerts(z, v)) <=>
                  Evaluate(temp.limits, FreezeWpId(z), v) # {}
           /\ [zone |-> z, type |-> "overheat"] \in RaisedKeys(TempAlerts(z, v)) <=>
                  Evaluate(temp.limits, OverheatWpId(z), v) # {}
           /\ TempEntries(z) = {} =>
                  RaisedKeys(TempAlerts(z, v)) \subseteq KeysFor(z, {"freeze", "overheat"})
<1> DEFINE a == AlertOnViolation(temp.limits, FreezeWpId(z), v, z, "freeze")
           b == AlertOnViolation(temp.limits, OverheatWpId(z), v, z, "overheat")
           c == RateAlerts(z, v)
<1> HIDE DEF a, b
<1>1. temp.limits \in Seq(Limit)
  BY DEF TempInv
<1>2. "freeze" \in AlertTypes /\ "overheat" \in AlertTypes
  BY HubAssumption DEF TempTypes
<1>3. /\ a \in Seq(Alert) /\ Len(a) <= 1
      /\ RaisedKeys(a) \subseteq {[zone |-> z, type |-> "freeze"]}
      /\ [zone |-> z, type |-> "freeze"] \in RaisedKeys(a)
             <=> Evaluate(temp.limits, FreezeWpId(z), v) # {}
  BY <1>1, <1>2, ViolationKeys DEF a
<1>4. /\ b \in Seq(Alert) /\ Len(b) <= 1
      /\ RaisedKeys(b) \subseteq {[zone |-> z, type |-> "overheat"]}
      /\ [zone |-> z, type |-> "overheat"] \in RaisedKeys(b)
             <=> Evaluate(temp.limits, OverheatWpId(z), v) # {}
  BY <1>1, <1>2, ViolationKeys DEF b
<1>5. /\ c \in Seq(Alert) /\ Len(c) <= 2
      /\ RaisedKeys(c) \subseteq KeysFor(z, {"rapid_drop", "rapid_rise"})
      /\ TempEntries(z) = {} => RaisedKeys(c) = {}
  <2>1. CASE TempEntries(z) = {}
    BY <2>1, NoAlert DEF RateAlerts
  <2>2. CASE TempEntries(z) # {}
    <3> DEFINE last == temp.zones[TempEntry(z)].last_value
               d == RateAlert(z, last - v, "rapid_drop")
               e == RateAlert(z, v - last, "rapid_rise")
    <3>1. d \in Seq(Alert) /\ Len(d) <= 1 /\ RaisedKeys(d) \subseteq KeysFor(z, {"rapid_drop"})
      BY <2>2, RateAlertKeys
    <3>2. e \in Seq(Alert) /\ Len(e) <= 1 /\ RaisedKeys(e) \subseteq KeysFor(z, {"rapid_rise"})
      BY <2>2, RateAlertKeys
    <3>3. c = d \o e
      BY <2>2 DEF RateAlerts
    <3> HIDE DEF d, e, c
    <3>4. c \in Seq(Alert) /\ Len(c) = Len(d) + Len(e) /\ RaisedKeys(c) = RaisedKeys(d) \cup RaisedKeys(e)
      BY <3>1, <3>2, <3>3, RaisedKeysJoin
    <3>5. Len(c) <= 2
      BY <3>1, <3>2, <3>4
    <3>6. RaisedKeys(c) \subseteq KeysFor(z, {"rapid_drop", "rapid_rise"})
      BY <3>1, <3>2, <3>4 DEF KeysFor
    <3>7. QED
      BY <2>2, <3>4, <3>5, <3>6
  <2>3. QED
    BY <2>1, <2>2
<1>6. TempAlerts(z, v) = (a \o b) \o c
  BY DEF TempAlerts, a, b
<1> HIDE DEF c
<1>7. a \o b \in Seq(Alert) /\ Len(a \o b) = Len(a) + Len(b)
      /\ RaisedKeys(a \o b) = RaisedKeys(a) \cup RaisedKeys(b)
  BY <1>3, <1>4, RaisedKeysJoin
<1>8. TempAlerts(z, v) \in Seq(Alert) /\ Len(TempAlerts(z, v)) = Len(a \o b) + Len(c)
      /\ RaisedKeys(TempAlerts(z, v)) = RaisedKeys(a \o b) \cup RaisedKeys(c)
  BY <1>5, <1>6, <1>7, RaisedKeysJoin
<1>9. Len(TempAlerts(z, v)) <= 4
  BY <1>3, <1>4, <1>5, <1>7, <1>8
<1> DEFINE K == RaisedKeys(TempAlerts(z, v))
           freeze == [zone |-> z, type |-> "freeze"]
           overheat == [zone |-> z, type |-> "overheat"]
<1>11. K = RaisedKeys(a) \cup RaisedKeys(b) \cup RaisedKeys(c)
  BY <1>7, <1>8
<1>12. RaisedKeys(a) \subseteq {freeze} /\ RaisedKeys(b) \subseteq {overheat}
       /\ (freeze \in RaisedKeys(a) <=> Evaluate(temp.limits, FreezeWpId(z), v) # {})
       /\ (overheat \in RaisedKeys(b) <=> Evaluate(temp.limits, OverheatWpId(z), v) # {})
  BY <1>3, <1>4
<1>13. /\ freeze # overheat
       /\ freeze \notin KeysFor(z, {"rapid_drop", "rapid_rise"})
       /\ overheat \notin KeysFor(z, {"rapid_drop", "rapid_rise"})
       /\ freeze \in KeysFor(z, {"freeze", "overheat"}) /\ freeze \in KeysFor(z, TempTypes)
       /\ overheat \in KeysFor(z, {"freeze", "overheat"}) /\ overheat \in KeysFor(z, TempTypes)
       /\ KeysFor(z, {"rapid_drop", "rapid_rise"}) \subseteq KeysFor(z, TempTypes)
  BY DEF KeysFor, TempTypes
<1> HIDE DEF K, freeze, overheat
<1>14. /\ K \subseteq KeysFor(z, TempTypes)
       /\ freeze \in K <=> Evaluate(temp.limits, FreezeWpId(z), v) # {}
       /\ overheat \in K <=> Evaluate(temp.limits, OverheatWpId(z), v) # {}
       /\ TempEntries(z) = {} => K \subseteq KeysFor(z, {"freeze", "overheat"})
  BY <1>5, <1>11, <1>12, <1>13
<1>15. QED
  BY <1>8, <1>9, <1>14 DEF K, freeze, overheat

LEMMA CircuitEntryFound ==
    ASSUME NEW cs, PowerInv(power, cs), NEW id, CircuitEntries(id) # {}
    PROVE  /\ CircuitEntry(id) \in 1 .. Len(power.circuits)
           /\ power.circuits[CircuitEntry(id)] \in CircuitState
           /\ power.circuits[CircuitEntry(id)].circuit_id = id
<1>1. power.circuits \in Seq(CircuitState)
  BY DEF PowerInv
<1>2. CircuitEntries(id) \in SUBSET Nat /\ CircuitEntries(id) \subseteq 1 .. Len(power.circuits)
  BY <1>1 DEF CircuitEntries
<1>3. CircuitEntry(id) \in CircuitEntries(id)
  <2>1. \E i \in CircuitEntries(id) : \A j \in CircuitEntries(id) : i <= j
    BY <1>2, LeastOf
  <2>2. QED
    BY <2>1 DEF CircuitEntry
<1>4. QED
  BY <1>1, <1>2, <1>3 DEF CircuitEntries

LEMMA PowerAlertKeys ==
    ASSUME NEW cs, PowerInv(power, cs), NEW id \in Zones, NEW w \in Nat
    PROVE  /\ PowerAlerts(id, w) \in Seq(Alert)
           /\ Len(PowerAlerts(id, w)) <= 2
           /\ RaisedKeys(PowerAlerts(id, w)) \subseteq KeysFor(id, PowerTypes)
           /\ [zone |-> id, type |-> "overconsumption"] \in RaisedKeys(PowerAlerts(id, w)) <=>
                  Evaluate(power.limits, id, w) # {}
           /\ CircuitEntries(id) = {} =>
                  RaisedKeys(PowerAlerts(id, w)) \subseteq KeysFor(id, {"overconsumption"})
<1> DEFINE a == AlertOnViolation(power.limits, id, w, id, "overconsumption")
           b == SpikeAlerts(id, w)
           over == [zone |-> id, type |-> "overconsumption"]
           spike == [zone |-> id, type |-> "power_spike"]
<1>1. power.limits \in Seq(Limit)
  BY DEF PowerInv
<1>2. "overconsumption" \in AlertTypes /\ "power_spike" \in AlertTypes
  BY HubAssumption DEF PowerTypes
<1>3. /\ a \in Seq(Alert) /\ Len(a) <= 1 /\ RaisedKeys(a) \subseteq {over}
      /\ over \in RaisedKeys(a) <=> Evaluate(power.limits, id, w) # {}
  <2> HIDE DEF a
  <2>1. QED
    BY <1>1, <1>2, ViolationKeys DEF a
<1>4. /\ b \in Seq(Alert) /\ Len(b) <= 1 /\ RaisedKeys(b) \subseteq {spike}
      /\ CircuitEntries(id) = {} => RaisedKeys(b) = {}
  <2> DEFINE limit == power.circuits[CircuitEntry(id)].spike
  <2>1. b = <<>> \/ (CircuitEntries(id) # {} /\ b = <<[zone |-> id, type |-> "power_spike", threshold |-> limit]>>)
    BY DEF SpikeAlerts, PowerAlert
  <2>2. CircuitEntries(id) # {} => limit \in Int
    BY CircuitEntryFound DEF CircuitState
  <2> HIDE DEF b, limit
  <2>3. CASE b = <<>>
    BY <2>3, NoAlert
  <2>4. CASE CircuitEntries(id) # {} /\ b = <<[zone |-> id, type |-> "power_spike", threshold |-> limit]>>
    <3>1. b \in Seq(Alert) /\ Len(b) = 1 /\ RaisedKeys(b) = {spike}
      BY <1>2, <2>2, <2>4, OneAlert
    <3>2. QED
      BY <2>4, <3>1
  <2>5. QED
    BY <2>1, <2>3, <2>4
<1>5. PowerAlerts(id, w) = a \o b
  BY DEF PowerAlerts
<1> DEFINE K == RaisedKeys(PowerAlerts(id, w))
<1> HIDE DEF a, b
<1>6. /\ PowerAlerts(id, w) \in Seq(Alert) /\ Len(PowerAlerts(id, w)) = Len(a) + Len(b)
      /\ K = RaisedKeys(a) \cup RaisedKeys(b)
  BY <1>3, <1>4, <1>5, RaisedKeysJoin
<1>7. Len(PowerAlerts(id, w)) <= 2
  BY <1>3, <1>4, <1>6
<1>8. /\ over # spike /\ over \in KeysFor(id, PowerTypes) /\ spike \in KeysFor(id, PowerTypes)
      /\ over \in KeysFor(id, {"overconsumption"})
  BY DEF KeysFor, PowerTypes
<1> HIDE DEF K, over, spike
<1>9. /\ K \subseteq KeysFor(id, PowerTypes)
      /\ over \in K <=> Evaluate(power.limits, id, w) # {}
      /\ CircuitEntries(id) = {} => K \subseteq KeysFor(id, {"overconsumption"})
  BY <1>3, <1>4, <1>6, <1>8
<1>10. QED
  BY <1>6, <1>7, <1>9 DEF K, over

\* Those of the first n comparisons of a reading of air.
AirKeysUpTo(n, z, r) ==
    {[zone |-> z, type |-> AirAlertTypes[i]] :
        i \in {j \in 1 .. n : Evaluate(air.limits, AirWpId(z, j), Compared(r)[j]) # {}}}

AirRaises(s, n, z, r) ==
    s \in Seq(Alert) /\ Len(s) <= n /\ RaisedKeys(s) \subseteq AirKeysUpTo(n, z, r)

AirAlertAt(i, z, r) ==
    AlertOnViolation(air.limits, AirWpId(z, i), Compared(r)[i], z, AirAlertTypes[i])

LEMMA AirAlertType ==
    ASSUME NEW cs, AirInv(air, cs), NEW i \in 1 .. 6, NEW z \in Zones, NEW r
    PROVE  /\ AirAlertAt(i, z, r) \in Seq(Alert) /\ Len(AirAlertAt(i, z, r)) <= 1
           /\ RaisedKeys(AirAlertAt(i, z, r)) \subseteq {[zone |-> z, type |-> AirAlertTypes[i]]}
           /\ [zone |-> z, type |-> AirAlertTypes[i]] \in RaisedKeys(AirAlertAt(i, z, r)) <=>
                  Evaluate(air.limits, AirWpId(z, i), Compared(r)[i]) # {}
<1>1. air.limits \in Seq(Limit)
  BY DEF AirInv, AirTable
<1>2. AirAlertTypes[i] \in AlertTypes
  BY HubAssumption DEF AirTypes
<1> DEFINE type == AirAlertTypes[i]
           id == AirWpId(z, i)
           v == Compared(r)[i]
<1>3. AirAlertAt(i, z, r) = AlertOnViolation(air.limits, id, v, z, type)
  BY DEF AirAlertAt
<1> HIDE DEF type, id, v
<1>4. type \in AlertTypes
  BY <1>2 DEF type
<1>5. PICK a : a = AlertOnViolation(air.limits, id, v, z, type)
  OBVIOUS
<1>6. /\ a \in Seq(Alert) /\ Len(a) <= 1
      /\ RaisedKeys(a) \subseteq {[zone |-> z, type |-> type]}
      /\ [zone |-> z, type |-> type] \in RaisedKeys(a) <=> Evaluate(air.limits, id, v) # {}
  BY <1>1, <1>4, <1>5, ViolationKeys
<1>7. AirAlertAt(i, z, r) = a
  BY <1>3, <1>5
<1>8. QED
  BY <1>6, <1>7 DEF type, id, v

LEMMA AirRaisesMore ==
    ASSUME NEW cs, AirInv(air, cs), NEW i \in 1 .. 6, NEW z \in Zones, NEW r, NEW s,
           AirRaises(s, i - 1, z, r)
    PROVE  AirRaises(s \o AirAlertAt(i, z, r), i, z, r)
<1> DEFINE a == AirAlertAt(i, z, r)
           key == [zone |-> z, type |-> AirAlertTypes[i]]
           hit == Evaluate(air.limits, AirWpId(z, i), Compared(r)[i]) # {}
<1>1. a \in Seq(Alert) /\ Len(a) <= 1 /\ RaisedKeys(a) \subseteq {key} /\ (key \in RaisedKeys(a) <=> hit)
  <2> HIDE DEF a
  <2>1. QED
    BY AirAlertType DEF a
<1>2. AirKeysUpTo(i - 1, z, r) \subseteq AirKeysUpTo(i, z, r) /\ (hit => key \in AirKeysUpTo(i, z, r))
  <2> DEFINE Hit(j) == Evaluate(air.limits, AirWpId(z, j), Compared(r)[j]) # {}
             KeyAt(j) == [zone |-> z, type |-> AirAlertTypes[j]]
  <2>1. /\ AirKeysUpTo(i - 1, z, r) = {KeyAt(j) : j \in {k \in 1 .. i - 1 : Hit(k)}}
        /\ AirKeysUpTo(i, z, r) = {KeyAt(j) : j \in {k \in 1 .. i : Hit(k)}}
        /\ hit = Hit(i) /\ key = KeyAt(i)
    BY DEF AirKeysUpTo
  <2>2. i \in 1 .. i /\ \A j \in 1 .. i - 1 : j \in 1 .. i
    OBVIOUS
  <2> HIDE DEF Hit, KeyAt, hit, key
  <2>3. QED
    BY <2>1, <2>2
<1> HIDE DEF a, key, hit
<1>3. s \in Seq(Alert) /\ Len(s) <= i - 1 /\ RaisedKeys(s) \subseteq AirKeysUpTo(i - 1, z, r)
  BY DEF AirRaises
<1>4. s \o a \in Seq(Alert) /\ Len(s \o a) = Len(s) + Len(a)
      /\ RaisedKeys(s \o a) = RaisedKeys(s) \cup RaisedKeys(a)
  BY <1>1, <1>3, RaisedKeysJoin
<1>5. Len(s \o a) <= i
  BY <1>1, <1>3, <1>4
<1>6. RaisedKeys(s \o a) \subseteq AirKeysUpTo(i, z, r)
  BY <1>1, <1>2, <1>3, <1>4
<1>7. QED
  BY <1>4, <1>5, <1>6 DEF AirRaises, a

AirTurn(s, i, z, r) == s \o AirAlertAt(i, z, r)

AirAlertsRun(f, z, r) ==
    /\ f[0] = <<>>
    /\ \A i \in 1 .. 6 : f[i] = AirTurn(f[i - 1], i, z, r)
    /\ f[6] = AirAlerts(z, r)

\* A reading raises the alerts of the thresholds it reaches.
LEMMA AirAlertKeys ==
    ASSUME NEW cs, AirInv(air, cs), NEW z \in Zones, NEW r
    PROVE  AirRaises(AirAlerts(z, r), 6, z, r) /\ \E f : AirAlertsRun(f, z, r)
<1> DEFINE n == 6
           S == Seq(Alert)
           step == [x \in S \X (1 .. n) |-> AirTurn(x[1], x[2], z, r)]
           Turn(f) == [i \in 0 .. 6 |-> IF i = 0 THEN <<>> ELSE AirTurn(f[i - 1], i, z, r)]
           alerts == CHOOSE f : f = Turn(f)
<1>1. n \in Nat /\ <<>> \in S
  OBVIOUS
<1>2. ASSUME NEW s \in S, NEW i \in 1 .. n
      PROVE  AirTurn(s, i, z, r) \in S
  <2>1. AirAlertAt(i, z, r) \in Seq(Alert)
    BY AirAlertType
  <2>2. QED
    BY <2>1, RaisedKeysJoin DEF AirTurn
<1>3. \E f : f = Turn(f)
  <2>1. step \in Steps(S, n)
    <3> HIDE DEF S, n
    <3>1. QED
      BY <1>2 DEF Steps
  <2>2. \A u \in S, i \in 1 .. n : step[<<u, i>>] = AirTurn(u, i, z, r)
    OBVIOUS
  <2> HIDE DEF S, step, n
  <2>3. PICK f : IsRun(f, S, <<>>, n, step)
    BY <1>1, <2>1, LoopRuns
  <2>4. \A i \in 1 .. n : f[i] = AirTurn(f[i - 1], i, z, r)
    <3>1. \A i \in 1 .. n : i - 1 \in 0 .. n
      BY <1>1
    <3>2. QED
      BY <2>2, <2>3, <3>1 DEF IsRun
  <2>5. f = Turn(f)
    BY <1>1, <2>3, <2>4 DEF IsRun, n
  <2>6. QED
    BY <2>5
<1> HIDE DEF S
<1>4. alerts = Turn(alerts)
  BY <1>3
<1>5. AirAlerts(z, r) = alerts[6]
  BY DEF AirAlerts, AirTurn, AirAlertAt
<1> HIDE DEF alerts
<1>6. alerts[0] = <<>> /\ \A i \in 1 .. 6 : alerts[i] = AirTurn(alerts[i - 1], i, z, r)
  BY <1>4
<1> HIDE DEF n
<1>7. \A i \in 1 .. 6 : AirRaises(alerts[i - 1], i - 1, z, r) => AirRaises(alerts[i], i, z, r)
  BY <1>6, AirRaisesMore DEF AirTurn
<1>8. AirRaises(alerts[0], 0, z, r)
  BY <1>6, NoAlert DEF AirRaises
<1>9. AirRaises(alerts[6], 6, z, r)
  <2>1. AirRaises(alerts[1], 1, z, r)
    BY <1>7, <1>8
  <2>2. AirRaises(alerts[2], 2, z, r)
    BY <1>7, <2>1
  <2>3. AirRaises(alerts[3], 3, z, r)
    BY <1>7, <2>2
  <2>4. AirRaises(alerts[4], 4, z, r)
    BY <1>7, <2>3
  <2>5. AirRaises(alerts[5], 5, z, r)
    BY <1>7, <2>4
  <2>6. QED
    BY <1>7, <2>5
<1>10. AirAlertsRun(alerts, z, r)
  BY <1>5, <1>6 DEF AirAlertsRun
<1>11. QED
  BY <1>5, <1>9, <1>10

-----------------------------------------------------------------------------
(***************************************************************************)
(* What a reading leaves in the table.                                     *)
(***************************************************************************)
LEMMA NewReading ==
    ASSUME NEW a \in TempState, NEW v \in Int, NEW t \in Time
    PROVE  [[a EXCEPT !.last_value = v] EXCEPT !.last_time = t] =
               [zone_id |-> a.zone_id, freeze |-> a.freeze, overheat |-> a.overheat,
                rate |-> a.rate, last_value |-> v, last_time |-> t]
<1>1. a \in [zone_id : Zones, freeze : Int, overheat : Int, rate : Int,
              last_value : Int, last_time : Time]
  BY DEF TempState
<1>2. [a EXCEPT !.last_value = v] =
          [zone_id |-> a.zone_id, freeze |-> a.freeze, overheat |-> a.overheat,
           rate |-> a.rate, last_value |-> v, last_time |-> a.last_time]
  BY <1>1
<1>3. PICK b : b = [a EXCEPT !.last_value = v]
  OBVIOUS
<1>4. [b EXCEPT !.last_time = t] =
          [zone_id |-> b.zone_id, freeze |-> b.freeze, overheat |-> b.overheat,
           rate |-> b.rate, last_value |-> b.last_value, last_time |-> t]
  <2>1. b \in [zone_id : Zones, freeze : Int, overheat : Int, rate : Int,
               last_value : Int, last_time : Time]
    BY <1>1, <1>2, <1>3
  <2>2. QED
    BY <2>1
<1>5. /\ b.zone_id = a.zone_id /\ b.freeze = a.freeze /\ b.overheat = a.overheat
      /\ b.rate = a.rate /\ b.last_value = v
  BY <1>2, <1>3
<1>6. QED
  BY <1>3, <1>4, <1>5

\* Only the zones' ids and limits matter to the monitor's invariant.
LEMMA TempInvKept ==
    ASSUME NEW cs, NEW m, TempInv(m, cs),
           NEW q \in [zones : Seq(TempState), limits : Seq(Limit)],
           q.limits = m.limits, Len(q.zones) = Len(m.zones),
           \A i \in 1 .. Len(m.zones) : /\ q.zones[i].zone_id = m.zones[i].zone_id
                                        /\ Lower(q.zones[i]) = Lower(m.zones[i])
                                        /\ Upper(q.zones[i]) = Upper(m.zones[i])
    PROVE  TempInv(q, cs)
<1>1. \A i \in 1 .. Len(q.zones) : \E k \in 1 .. Len(cs) : q.zones[i].zone_id = cs[k].zone_id
  <2>1. \A i \in 1 .. Len(m.zones) : \E k \in 1 .. Len(cs) : m.zones[i].zone_id = cs[k].zone_id
    BY DEF TempInv
  <2>2. QED
    BY <2>1
<1>2. ASSUME NEW j \in 1 .. Len(q.limits)
      PROVE  \E i \in 1 .. Len(q.zones) : q.limits[j] = Lower(q.zones[i]) \/ q.limits[j] = Upper(q.zones[i])
  <2>1. PICK i \in 1 .. Len(m.zones) : m.limits[j] = Lower(m.zones[i]) \/ m.limits[j] = Upper(m.zones[i])
    BY DEF TempInv
  <2>2. QED
    BY <2>1
<1>3. ASSUME 2 * MaxTempZones <= MaxWatchpoints, NEW i \in 1 .. Len(q.zones)
      PROVE  /\ \E j \in 1 .. Len(q.limits) : q.limits[j] = Lower(q.zones[i])
             /\ \E j \in 1 .. Len(q.limits) : q.limits[j] = Upper(q.zones[i])
  <2>1. /\ \E j \in 1 .. Len(m.limits) : m.limits[j] = Lower(m.zones[i])
        /\ \E j \in 1 .. Len(m.limits) : m.limits[j] = Upper(m.zones[i])
    BY <1>3 DEF TempInv
  <2>2. QED
    BY <2>1
<1>4. /\ Len(q.zones) <= MaxTempZones /\ Len(q.limits) <= MaxWatchpoints
      /\ Len(q.limits) <= 2 * Len(q.zones)
  BY DEF TempInv
<1>5. QED
  BY <1>1, <1>2, <1>3, <1>4 DEF TempInv

LEMMA ReadingKept ==
    ASSUME NEW cs, TempInv(temp, cs), NEW z, NEW v \in Int, NEW t \in Time, KeepReading(z, v, t)
    PROVE  /\ TempInv(temp', cs)
           /\ temp'.limits = temp.limits
           /\ Len(temp'.zones) = Len(temp.zones)
           /\ \A i \in 1 .. Len(temp.zones) :
                  \/ temp'.zones[i] = temp.zones[i]
                  \/ /\ temp'.zones[i].zone_id = temp.zones[i].zone_id
                     /\ temp'.zones[i].freeze = temp.zones[i].freeze
                     /\ temp'.zones[i].overheat = temp.zones[i].overheat
                     /\ temp'.zones[i].zone_id = z
                     /\ temp'.zones[i].last_value = v
                     /\ temp'.zones[i].last_time = t
<1>1. /\ temp \in [zones : Seq(TempState), limits : Seq(Limit)]
      /\ Len(temp.zones) <= MaxTempZones /\ Len(temp.limits) <= MaxWatchpoints
      /\ Len(temp.limits) <= 2 * Len(temp.zones)
  BY DEF TempInv
<1>2. CASE TempEntries(z) = {}
  BY <1>2 DEF KeepReading
<1>3. CASE TempEntries(z) # {}
  <2> DEFINE e == TempEntry(z)
             old == temp.zones[e]
             new == [zone_id |-> old.zone_id, freeze |-> old.freeze, overheat |-> old.overheat,
                     rate |-> old.rate, last_value |-> v, last_time |-> t]
             zones == temp'.zones
             n == Len(temp.zones)
  <2>1. e \in 1 .. n /\ old \in TempState /\ old.zone_id = z
    BY <1>3, TempEntryFound
  <2>2. temp' = [temp EXCEPT !.zones[e].last_value = v, !.zones[e].last_time = t]
    BY <1>3 DEF KeepReading
  <2>3. new \in TempState
    BY <2>1 DEF TempState
  <2>4. temp'.limits = temp.limits /\ temp' \in [zones : {zones}, limits : {temp.limits}]
        /\ zones = [temp.zones EXCEPT ![e] = [[temp.zones[e] EXCEPT !.last_value = v] EXCEPT !.last_time = t]]
    <3> HIDE DEF e
    <3>1. QED
      BY <1>1, <2>1, <2>2
  <2>5. [[temp.zones[e] EXCEPT !.last_value = v] EXCEPT !.last_time = t] = new
    <3> HIDE DEF old, e
    <3>1. old \in TempState /\ temp.zones[e] = old
      BY <2>1 DEF old
    <3>2. [[old EXCEPT !.last_value = v] EXCEPT !.last_time = t] = new
      <4> HIDE DEF new
      <4>1. QED
        BY <3>1, NewReading DEF new
    <3> HIDE DEF new
    <3>3. QED
      BY <3>1, <3>2
  <2> HIDE DEF new, e
  <2>6. zones = [temp.zones EXCEPT ![e] = new]
    BY <2>4, <2>5
  <2> HIDE DEF zones
  <2>7. n \in Nat /\ temp.zones \in Seq(TempState)
    BY <1>1
  <2> HIDE DEF n
  <2>8. /\ zones \in Seq(TempState) /\ Len(zones) = n
        /\ zones[e] = new /\ \A i \in 1 .. n : i # e => zones[i] = temp.zones[i]
    BY <2>1, <2>3, <2>6, <2>7 DEF n
  <2>9. new.zone_id = old.zone_id /\ new.freeze = old.freeze /\ new.overheat = old.overheat
        /\ new.last_value = v /\ new.last_time = t
    BY DEF new
  <2>10. \A i \in 1 .. n : /\ zones[i].zone_id = temp.zones[i].zone_id
                           /\ zones[i].freeze = temp.zones[i].freeze
                           /\ zones[i].overheat = temp.zones[i].overheat
    BY <2>8, <2>9
  <2>11. \A i \in 1 .. n : Lower(zones[i]) = Lower(temp.zones[i]) /\ Upper(zones[i]) = Upper(temp.zones[i])
    BY <2>10 DEF Lower, Upper
  <2>12. temp' \in [zones : Seq(TempState), limits : Seq(Limit)]
    BY <1>1, <2>4, <2>8
  <2>13. TempInv(temp', cs)
    BY <2>4, <2>8, <2>10, <2>11, <2>12, TempInvKept DEF zones, n
  <2>14. ASSUME NEW i \in 1 .. n
         PROVE  \/ zones[i] = temp.zones[i]
                \/ /\ zones[i].zone_id = temp.zones[i].zone_id
                   /\ zones[i].freeze = temp.zones[i].freeze
                   /\ zones[i].overheat = temp.zones[i].overheat
                   /\ zones[i].zone_id = z
                   /\ zones[i].last_value = v
                   /\ zones[i].last_time = t
    BY <2>1, <2>8, <2>9
  <2>15. QED
    BY <2>4, <2>8, <2>13, <2>14 DEF zones, n
<1>4. QED
  BY <1>2, <1>3

LEMMA NewWatts ==
    ASSUME NEW a \in CircuitState, NEW w \in Nat, NEW t \in Time
    PROVE  [[a EXCEPT !.last_watts = w] EXCEPT !.last_time = t] =
               [circuit_id |-> a.circuit_id, max |-> a.max, spike |-> a.spike,
                last_watts |-> w, last_time |-> t]
<1>1. a \in [circuit_id : Zones, max : Nat, spike : Nat, last_watts : Nat, last_time : Time]
  BY DEF CircuitState
<1>2. [a EXCEPT !.last_watts = w] =
          [circuit_id |-> a.circuit_id, max |-> a.max, spike |-> a.spike,
           last_watts |-> w, last_time |-> a.last_time]
  BY <1>1
<1>3. PICK b : b = [a EXCEPT !.last_watts = w]
  OBVIOUS
<1>4. [b EXCEPT !.last_time = t] =
          [circuit_id |-> b.circuit_id, max |-> b.max, spike |-> b.spike,
           last_watts |-> b.last_watts, last_time |-> t]
  <2>1. b \in [circuit_id : Zones, max : Nat, spike : Nat, last_watts : Nat, last_time : Time]
    BY <1>1, <1>2, <1>3
  <2>2. QED
    BY <2>1
<1>5. b.circuit_id = a.circuit_id /\ b.max = a.max /\ b.spike = a.spike /\ b.last_watts = w
  BY <1>2, <1>3
<1>6. QED
  BY <1>3, <1>4, <1>5

LEMMA PowerInvKept ==
    ASSUME NEW cs, NEW m, PowerInv(m, cs),
           NEW q \in [circuits : Seq(CircuitState), limits : Seq(Limit)],
           q.limits = m.limits, Len(q.circuits) = Len(m.circuits),
           \A i \in 1 .. Len(m.circuits) : /\ q.circuits[i].circuit_id = m.circuits[i].circuit_id
                                           /\ Consumption(q.circuits[i]) = Consumption(m.circuits[i])
    PROVE  PowerInv(q, cs)
<1>1. \A i \in 1 .. Len(q.circuits) : \E k \in 1 .. Len(cs) : q.circuits[i].circuit_id = cs[k].circuit_id
  <2>1. \A i \in 1 .. Len(m.circuits) : \E k \in 1 .. Len(cs) : m.circuits[i].circuit_id = cs[k].circuit_id
    BY DEF PowerInv
  <2>2. QED
    BY <2>1
<1>2. ASSUME NEW j \in 1 .. Len(q.limits)
      PROVE  \E i \in 1 .. Len(q.circuits) : q.limits[j] = Consumption(q.circuits[i])
  <2>1. PICK i \in 1 .. Len(m.circuits) : m.limits[j] = Consumption(m.circuits[i])
    BY DEF PowerInv
  <2>2. QED
    BY <2>1
<1>3. ASSUME MaxCircuits <= MaxWatchpoints, NEW i \in 1 .. Len(q.circuits)
      PROVE  \E j \in 1 .. Len(q.limits) : q.limits[j] = Consumption(q.circuits[i])
  <2>1. \E j \in 1 .. Len(m.limits) : m.limits[j] = Consumption(m.circuits[i])
    BY <1>3 DEF PowerInv
  <2>2. QED
    BY <2>1
<1>4. /\ Len(q.circuits) <= MaxCircuits /\ Len(q.limits) <= MaxWatchpoints
      /\ Len(q.limits) <= Len(q.circuits)
  BY DEF PowerInv
<1>5. QED
  BY <1>1, <1>2, <1>3, <1>4 DEF PowerInv

LEMMA WattsKept ==
    ASSUME NEW cs, PowerInv(power, cs), NEW id, NEW w \in Nat, NEW t \in Time, KeepWatts(id, w, t)
    PROVE  /\ PowerInv(power', cs)
           /\ power'.limits = power.limits
           /\ Len(power'.circuits) = Len(power.circuits)
           /\ \A i \in 1 .. Len(power.circuits) :
                  \/ power'.circuits[i] = power.circuits[i]
                  \/ /\ power'.circuits[i].circuit_id = power.circuits[i].circuit_id
                     /\ power'.circuits[i].max = power.circuits[i].max
                     /\ power'.circuits[i].circuit_id = id
                     /\ power'.circuits[i].last_watts = w
                     /\ power'.circuits[i].last_time = t
<1>1. /\ power \in [circuits : Seq(CircuitState), limits : Seq(Limit)]
      /\ Len(power.circuits) <= MaxCircuits /\ Len(power.limits) <= MaxWatchpoints
      /\ Len(power.limits) <= Len(power.circuits)
  BY DEF PowerInv
<1>2. CASE CircuitEntries(id) = {}
  BY <1>2 DEF KeepWatts
<1>3. CASE CircuitEntries(id) # {}
  <2> DEFINE e == CircuitEntry(id)
             old == power.circuits[e]
             new == [circuit_id |-> old.circuit_id, max |-> old.max, spike |-> old.spike,
                     last_watts |-> w, last_time |-> t]
             circuits == power'.circuits
             n == Len(power.circuits)
  <2>1. e \in 1 .. n /\ old \in CircuitState /\ old.circuit_id = id
    BY <1>3, CircuitEntryFound
  <2>2. power' = [power EXCEPT !.circuits[e].last_watts = w, !.circuits[e].last_time = t]
    BY <1>3 DEF KeepWatts
  <2>3. new \in CircuitState
    BY <2>1 DEF CircuitState
  <2>4. power'.limits = power.limits /\ power' \in [circuits : {circuits}, limits : {power.limits}]
        /\ circuits = [power.circuits EXCEPT
                          ![e] = [[power.circuits[e] EXCEPT !.last_watts = w] EXCEPT !.last_time = t]]
    <3> HIDE DEF e
    <3>1. QED
      BY <1>1, <2>1, <2>2
  <2>5. [[power.circuits[e] EXCEPT !.last_watts = w] EXCEPT !.last_time = t] = new
    <3> HIDE DEF old, e
    <3>1. old \in CircuitState /\ power.circuits[e] = old
      BY <2>1 DEF old
    <3>2. [[old EXCEPT !.last_watts = w] EXCEPT !.last_time = t] = new
      BY <3>1, NewWatts
    <3> HIDE DEF new
    <3>3. QED
      BY <3>1, <3>2
  <2> HIDE DEF new, e
  <2>6. circuits = [power.circuits EXCEPT ![e] = new]
    BY <2>4, <2>5
  <2> HIDE DEF circuits
  <2>7. n \in Nat /\ power.circuits \in Seq(CircuitState)
    BY <1>1
  <2> HIDE DEF n
  <2>8. /\ circuits \in Seq(CircuitState) /\ Len(circuits) = n
        /\ circuits[e] = new /\ \A i \in 1 .. n : i # e => circuits[i] = power.circuits[i]
    BY <2>1, <2>3, <2>6, <2>7 DEF n
  <2>9. new.circuit_id = old.circuit_id /\ new.max = old.max
        /\ new.last_watts = w /\ new.last_time = t
    BY DEF new
  <2>10. \A i \in 1 .. n : /\ circuits[i].circuit_id = power.circuits[i].circuit_id
                           /\ circuits[i].max = power.circuits[i].max
    BY <2>8, <2>9
  <2>11. \A i \in 1 .. n : Consumption(circuits[i]) = Consumption(power.circuits[i])
    BY <2>10 DEF Consumption
  <2>12. power' \in [circuits : Seq(CircuitState), limits : Seq(Limit)]
    BY <1>1, <2>4, <2>8
  <2>13. PowerInv(power', cs)
    BY <2>4, <2>8, <2>10, <2>11, <2>12, PowerInvKept DEF circuits, n
  <2>14. ASSUME NEW i \in 1 .. n
         PROVE  \/ circuits[i] = power.circuits[i]
                \/ /\ circuits[i].circuit_id = power.circuits[i].circuit_id
                   /\ circuits[i].max = power.circuits[i].max
                   /\ circuits[i].circuit_id = id
                   /\ circuits[i].last_watts = w
                   /\ circuits[i].last_time = t
    BY <2>1, <2>8, <2>9
  <2>15. QED
    BY <2>4, <2>8, <2>13, <2>14 DEF circuits, n
<1>4. QED
  BY <1>2, <1>3

-----------------------------------------------------------------------------
(***************************************************************************)
(* The hub's invariant.                                                    *)
(***************************************************************************)
OtherTypes == TempTypes \cup AirTypes \cup PowerTypes

HubInv ==
    /\ config \in Configs
    /\ now \in Time
    /\ TempInv(temp, config.temp)
    /\ AirInv(air, config.air)
    /\ PowerInv(power, config.power)
    /\ pending \in Seq(Alert)
    /\ Len(pending) <= 6
    /\ \A k \in RaisedKeys(pending) : k.type \in OtherTypes

LEMMA OthersAreNotLeaks == OtherTypes \subseteq AlertTypes /\ Leak \notin OtherTypes
                           /\ ContactTypes \subseteq AlertTypes /\ Leak \notin ContactTypes
<1>1. Leak = "water_leak" /\ OtherTypes \subseteq AlertTypes /\ ContactTypes \subseteq AlertTypes
  BY HubAssumption DEF OtherTypes
<1>2. "water_leak" \notin AirTypes
  <2>1. \A i \in 1 .. 6 : AirAlertTypes[i] # "water_leak"
    BY DEF AirAlertTypes
  <2>2. QED
    BY <2>1 DEF AirTypes
<1>3. QED
  BY <1>1, <1>2 DEF OtherTypes, TempTypes, PowerTypes, ContactTypes

LEMMA HeadAndTail ==
    ASSUME NEW s \in Seq(Alert), s # <<>>
    PROVE  /\ Head(s) \in Alert /\ KeyOfAlert(Head(s)) \in Key
           /\ Tail(s) \in Seq(Alert) /\ Len(Tail(s)) <= Len(s)
           /\ RaisedKeys(s) = {KeyOfAlert(Head(s))} \cup RaisedKeys(Tail(s))
<1> DEFINE n == Len(s)
           t == Tail(s)
<1>1. n \in Nat /\ n > 0 /\ Head(s) = s[1] /\ s[1] \in Alert
  OBVIOUS
<1>2. t \in Seq(Alert) /\ Len(t) = n - 1 /\ \A i \in 1 .. n - 1 : t[i] = s[i + 1]
  BY <1>1
<1>3. KeyOfAlert(s[1]) \in Key
  BY <1>1 DEF KeyOfAlert, Alert, Key
<1> HIDE DEF t
<1>4. ASSUME NEW i \in 1 .. n
      PROVE  KeyOfAlert(s[i]) \in {KeyOfAlert(s[1])} \cup RaisedKeys(t)
  <2>1. CASE i = 1
    BY <2>1
  <2>2. CASE i # 1
    <3>1. i - 1 \in 1 .. n - 1 /\ (i - 1) + 1 = i
      BY <1>1, <2>2
    <3>2. i - 1 \in 1 .. Len(t) /\ t[i - 1] = s[i]
      BY <1>2, <3>1
    <3>3. QED
      BY <3>2 DEF RaisedKeys
  <2>3. QED
    BY <2>1, <2>2
<1>5. RaisedKeys(s) \subseteq {KeyOfAlert(s[1])} \cup RaisedKeys(t)
  BY <1>4 DEF RaisedKeys
<1>6. KeyOfAlert(s[1]) \in RaisedKeys(s)
  <2>1. 1 \in 1 .. n
    BY <1>1
  <2>2. QED
    BY <2>1 DEF RaisedKeys
<1>7. RaisedKeys(t) \subseteq RaisedKeys(s)
  <2>1. \A i \in 1 .. Len(t) : i + 1 \in 1 .. n /\ t[i] = s[i + 1]
    BY <1>1, <1>2
  <2>2. QED
    BY <2>1 DEF RaisedKeys
<1>8. QED
  BY <1>1, <1>2, <1>3, <1>5, <1>6, <1>7 DEF t

LEMMA ConfiguredLists ==
    ASSUME NEW c \in Configs
    PROVE  /\ c.temp \in Seq(Thresholds) /\ c.air \in Seq(AirThresholds)
           /\ c.power \in Seq(CircuitThresholds)
  BY HubAssumption DEF Thresholds, AirThresholds, CircuitThresholds

\* The keys of a contact.
LEMMA ContactKeyType ==
    ASSUME NEW id \in Zones, NEW k \in ToSet(Keys(id, <<"door_open_too_long", "door_opened_at_night">>))
    PROVE  k \in Key /\ k.type \in ContactTypes /\ k \in KeysFor(id, ContactTypes)
<1> DEFINE types == <<"door_open_too_long", "door_opened_at_night">>
<1>1. PICK i \in DOMAIN Keys(id, types) : k = Keys(id, types)[i]
  BY DEF ToSet
<1>2. DOMAIN types = {1, 2} /\ \A j \in {1, 2} : types[j] \in ContactTypes
  BY DEF ContactTypes
<1> HIDE DEF types
<1>3. i \in DOMAIN types /\ k = [zone |-> id, type |-> types[i]]
  BY <1>1 DEF Keys
<1>4. types[i] \in AlertTypes /\ types[i] \in ContactTypes
  BY <1>2, <1>3, OthersAreNotLeaks
<1>5. QED
  BY <1>3, <1>4 DEF Key, KeysFor

ContactStep ==
    /\ Idle
    /\ UNCHANGED monitorVars
    /\ \E i \in DOMAIN config.contacts :
          \E k \in KeysFor(config.contacts[i].zone_id, ContactTypes) :
              k \in Key /\ k.type # Leak /\ OtherAlert(k)

\* A step of the hub is a reading of one of its monitors, from whichever of
\* the two inputs it came, the dispatch of an alert or something else.
LEMMA HubSteps ==
    ASSUME config \in Configs, [HubNext]_hubVars
    PROVE  \/ \E z \in Zones, v \in Int : TempReading(z, v)
           \/ \E z \in Zones : \E r : AirReading(z, r)
           \/ \E id \in Zones, w \in Nat : PowerReading(id, w)
           \/ \E z \in Zones, wet \in BOOLEAN : WaterReading(z, wet)
           \/ DispatchPending
           \/ ContactStep
           \/ HubTick
           \/ HubClock
           \/ HubRestart
           \/ UNCHANGED hubVars
<1>1. TempValues \subseteq Int /\ Watts \subseteq Nat
  BY HubAssumption
<1>2. ASSUME NEW c \in ToSet(config.contacts), ContactAlert(c)
      PROVE  ContactStep
  <2>0. PICK i \in DOMAIN config.contacts : c = config.contacts[i]
    BY DEF ToSet
  <2>1. c.zone_id \in Zones
    BY <2>0, HubAssumption
  <2>2. PICK k \in ToSet(Keys(c.zone_id, <<"door_open_too_long", "door_opened_at_night">>)) : OtherAlert(k)
    BY <1>2 DEF ContactAlert
  <2>3. k \in Key /\ k.type # Leak /\ k \in KeysFor(config.contacts[i].zone_id, ContactTypes)
    BY <2>0, <2>1, ContactKeyType, OthersAreNotLeaks
  <2>4. QED
    BY <1>2, <2>2, <2>3 DEF ContactAlert, ContactStep
<1>3. ASSUME NEW p \in Packets, Packet(p)
      PROVE  \/ \E z \in Zones, v \in Int : TempReading(z, v)
             \/ \E z \in Zones : \E r : AirReading(z, r)
             \/ \E id \in Zones, w \in Nat : PowerReading(id, w)
             \/ \E z \in Zones, wet \in BOOLEAN : WaterReading(z, wet)
             \/ ContactStep
  <2>1. p.zone_id \in Zones /\ p.device_id \in Zones /\ p.value \in Int
    BY HubAssumption
  <2>2. CASE TempReading(p.zone_id, p.value)
    BY <2>1, <2>2
  <2>3. CASE AirReading(p.zone_id, PacketAir(p))
    BY <2>1, <2>3
  <2>4. CASE PowerReading(p.device_id, PacketWatts(p))
    <3>1. PacketWatts(p) \in Nat
      <4>1. NonNegative(p.value) \in Nat
        BY <2>1 DEF NonNegative
      <4>2. QED
        BY <4>1 DEF PacketWatts
    <3>2. QED
      BY <2>1, <2>4, <3>1
  <2>5. CASE WaterReading(p.zone_id, p.value # 0)
    <3>1. (p.value # 0) \in BOOLEAN
      OBVIOUS
    <3>2. QED
      BY <2>1, <2>5, <3>1
  <2>6. CASE \E c \in ToSet(config.contacts) : c.contact_id = p.device_id /\ ContactAlert(c)
    BY <1>2, <2>6
  <2>7. QED
    BY <1>3, <2>2, <2>3, <2>4, <2>5, <2>6 DEF Packet
<1>4. QED
  BY <1>1, <1>2, <1>3 DEF HubNext

-----------------------------------------------------------------------------
(***************************************************************************)
(* Every step of the hub is one of the leak monitor and the dispatcher, or *)
(* leaves them alone.                                                      *)
(***************************************************************************)
LEMMA RaisedTypes ==
    ASSUME NEW z, NEW s, NEW types, RaisedKeys(s) \subseteq KeysFor(z, types),
           types \subseteq OtherTypes
    PROVE  \A k \in RaisedKeys(s) : k.type \in OtherTypes
  BY DEF KeysFor

LEMMA AirTypesRaised ==
    ASSUME NEW s, NEW z, NEW r, AirRaises(s, 6, z, r)
    PROVE  RaisedKeys(s) \subseteq KeysFor(z, AirTypes)
<1>1. \A i \in 1 .. 6 : AirAlertTypes[i] \in AirTypes
  BY DEF AirTypes
<1>2. AirKeysUpTo(6, z, r) \subseteq KeysFor(z, AirTypes)
  BY <1>1 DEF AirKeysUpTo, KeysFor
<1>3. QED
  BY <1>2 DEF AirRaises

LEMMA FreshHub ==
    ASSUME NEW c \in Configs
    PROVE  /\ TempInv(TempWith(c.temp), c.temp)
           /\ AirInv(AirWith(c.air), c.air)
           /\ PowerInv(PowerWith(c.power), c.power)
           /\ Unread(TempWith(c.temp).zones)
           /\ Unread(PowerWith(c.power).circuits)
<1>1. c.temp \in Seq(Thresholds) /\ c.air \in Seq(AirThresholds) /\ c.power \in Seq(CircuitThresholds)
  BY ConfiguredLists
<1>2. QED
  BY <1>1, TempStarts, AirStarts, PowerStarts

LEMMA HubInvInit == HubInit => HubInv
<1> SUFFICES ASSUME HubInit PROVE HubInv
  OBVIOUS
<1>1. PICK c \in Configs : c = config
  BY DEF HubInit, Init
<1>2. temp = TempWith(c.temp) /\ air = AirWith(c.air) /\ power = PowerWith(c.power)
      /\ pending = <<>> /\ now \in Time
  BY <1>1 DEF HubInit, Init, HistoryInit
<1>3. TempInv(temp, c.temp) /\ AirInv(air, c.air) /\ PowerInv(power, c.power)
  BY <1>2, FreshHub
<1>4. pending \in Seq(Alert) /\ Len(pending) <= 6 /\ RaisedKeys(pending) = {}
  BY <1>2, NoAlert
<1>5. QED
  BY <1>1, <1>2, <1>3, <1>4 DEF HubInv

\* What the steps of the leak monitor and the dispatcher never touch.
LEMMA SmallSteps ==
    ASSUME now \in Time,
           \/ \E k : Raise(k)
           \/ HouseKeeping
           \/ ClockStep
    PROVE  now' \in Time
  BY DEF Raise, RaiseUnsubscribed, RaiseDuplicate, RaiseOverBudget, RaiseSent,
         HouseKeeping, historyVars, ClockStep

LEMMA HubInvNext ==
    ASSUME HubInv, [HubNext]_hubVars
    PROVE  HubInv' /\ [Next]_vars
<1>0. /\ config \in Configs /\ now \in Time /\ TempInv(temp, config.temp)
      /\ AirInv(air, config.air) /\ PowerInv(power, config.power)
      /\ pending \in Seq(Alert) /\ Len(pending) <= 6
      /\ \A k \in RaisedKeys(pending) : k.type \in OtherTypes
  BY DEF HubInv
<1>a. ASSUME NEW s \in Seq(Alert), pending' = s, Len(s) <= 6, UNCHANGED vars, UNCHANGED air,
             TempInv(temp', config.temp), PowerInv(power', config.power),
             \A k \in RaisedKeys(s) : k.type \in OtherTypes
      PROVE  HubInv' /\ [Next]_vars
  BY <1>0, <1>a DEF HubInv, vars, alertingVars, historyVars
<1>1. ASSUME NEW z \in Zones, NEW v \in Int, TempReading(z, v)
      PROVE  HubInv' /\ [Next]_vars
  <2>1. KeepReading(z, v, now) /\ pending' = TempAlerts(z, v) /\ UNCHANGED <<vars, air, power>>
    BY <1>1 DEF TempReading
  <2>2. TempInv(temp', config.temp)
    BY <1>0, <2>1, ReadingKept
  <2>3. /\ TempAlerts(z, v) \in Seq(Alert) /\ Len(TempAlerts(z, v)) <= 4
        /\ RaisedKeys(TempAlerts(z, v)) \subseteq KeysFor(z, TempTypes)
    BY <1>0, TempAlertKeys
  <2>4. \A k \in RaisedKeys(TempAlerts(z, v)) : k.type \in OtherTypes
    BY <2>3, RaisedTypes DEF OtherTypes
  <2>5. Len(TempAlerts(z, v)) <= 6
    BY <2>3
  <2>6. QED
    BY <1>0, <1>a, <2>1, <2>2, <2>3, <2>4, <2>5
<1>2. ASSUME NEW z \in Zones, NEW r, AirReading(z, r)
      PROVE  HubInv' /\ [Next]_vars
  <2> DEFINE s == AirAlerts(z, PassedOn(r))
  <2>1. pending' = s /\ UNCHANGED <<vars, temp, air, power>>
    BY <1>2 DEF AirReading
  <2>2. AirRaises(s, 6, z, PassedOn(r))
    BY <1>0, AirAlertKeys
  <2>3. \A k \in RaisedKeys(s) : k.type \in OtherTypes
    BY <2>2, AirTypesRaised, RaisedTypes DEF OtherTypes
  <2>4. s \in Seq(Alert) /\ Len(s) <= 6
    BY <2>2 DEF AirRaises
  <2>5. QED
    BY <1>0, <1>a, <2>1, <2>3, <2>4
<1>3. ASSUME NEW id \in Zones, NEW w \in Nat, PowerReading(id, w)
      PROVE  HubInv' /\ [Next]_vars
  <2>1. KeepWatts(id, w, now) /\ pending' = PowerAlerts(id, w) /\ UNCHANGED <<vars, temp, air>>
    BY <1>3 DEF PowerReading
  <2>2. PowerInv(power', config.power)
    BY <1>0, <2>1, WattsKept
  <2>3. /\ PowerAlerts(id, w) \in Seq(Alert) /\ Len(PowerAlerts(id, w)) <= 2
        /\ RaisedKeys(PowerAlerts(id, w)) \subseteq KeysFor(id, PowerTypes)
    BY <1>0, PowerAlertKeys
  <2>4. \A k \in RaisedKeys(PowerAlerts(id, w)) : k.type \in OtherTypes
    BY <2>3, RaisedTypes DEF OtherTypes
  <2>5. Len(PowerAlerts(id, w)) <= 6
    BY <2>3
  <2>6. QED
    BY <1>0, <1>a, <2>1, <2>2, <2>3, <2>4, <2>5
<1>b. ASSUME UNCHANGED <<config, monitorVars>>, now' \in Time
      PROVE  HubInv'
  BY <1>0, <1>b DEF HubInv, monitorVars
<1>4. ASSUME NEW z \in Zones, NEW wet \in BOOLEAN, WaterReading(z, wet)
      PROVE  HubInv' /\ [Next]_vars
  <2>1. WetReading(z) \/ DryReading(z)
    BY <1>4 DEF WaterReading
  <2>2. UNCHANGED config
    BY <2>1 DEF WetReading, LeakDetected, DryReading
  <2>3. now' \in Time
    BY <1>0, <2>1, SmallSteps DEF WetReading, LeakDetected, DryReading, alertingVars, historyVars
  <2>4. QED
    BY <1>4, <1>b, <2>1, <2>2, <2>3 DEF WaterReading, Next
<1>5. CASE DispatchPending
  <2> DEFINE k == KeyOfAlert(Head(pending))
  <2>1. pending # <<>> /\ OtherAlert(k) /\ pending' = Tail(pending) /\ UNCHANGED <<temp, air, power>>
    BY <1>5 DEF DispatchPending, Idle, KeyOfAlert
  <2>2. /\ k \in Key /\ Tail(pending) \in Seq(Alert) /\ Len(Tail(pending)) <= Len(pending)
        /\ RaisedKeys(pending) = {k} \cup RaisedKeys(Tail(pending))
    BY <1>0, <2>1, HeadAndTail
  <2> HIDE DEF k
  <2>3. UNCHANGED config /\ now' \in Time
    BY <1>0, <2>1, SmallSteps DEF OtherAlert
  <2>4. \A x \in RaisedKeys(Tail(pending)) : x.type \in OtherTypes
    BY <1>0, <2>2
  <2>5. Len(Tail(pending)) <= 6
    BY <1>0, <2>2
  <2>6. PICK s : s = Tail(pending)
    OBVIOUS
  <2>7. HubInv'
    BY <1>0, <2>1, <2>2, <2>3, <2>4, <2>5, <2>6 DEF HubInv
  <2>8. QED
    BY <2>1, <2>2, <2>7 DEF Next
<1>6. CASE ContactStep
  <2>1. PICK k \in Key : k.type # Leak /\ OtherAlert(k)
    BY <1>6 DEF ContactStep
  <2>2. UNCHANGED <<config, monitorVars>> /\ now' \in Time
    BY <1>0, <1>6, <2>1, SmallSteps DEF OtherAlert, ContactStep
  <2>3. QED
    BY <1>b, <2>1, <2>2 DEF Next
<1>7. CASE HubTick
  BY <1>0, <1>7, <1>b, SmallSteps DEF HubTick, Tick, Next
<1>8. CASE HubClock
  BY <1>0, <1>8, <1>b, SmallSteps DEF HubClock, Clock, Next
<1>9. CASE HubRestart
  <2>1. PICK c \in Configs : c = config'
    BY <1>9 DEF HubRestart, Restart
  <2>2. /\ temp' = TempWith(c.temp) /\ air' = AirWith(c.air) /\ power' = PowerWith(c.power)
        /\ pending' = <<>> /\ now' = now
    BY <1>9, <2>1 DEF HubRestart, Restart
  <2>3. TempInv(temp', c.temp) /\ AirInv(air', c.air) /\ PowerInv(power', c.power)
    BY <2>2, FreshHub
  <2>4. HubInv'
    BY <1>0, <2>1, <2>2, <2>3, NoAlert DEF HubInv
  <2>5. QED
    BY <1>9, <2>4 DEF HubRestart, Next
<1>10. CASE UNCHANGED hubVars
  <2>1. UNCHANGED <<config, monitorVars, now>> /\ UNCHANGED vars
    BY <1>10 DEF hubVars, vars, alertingVars, historyVars
  <2>2. QED
    BY <1>0, <1>b, <2>1
<1>11. QED
  BY <1>0, <1>1, <1>2, <1>3, <1>4, <1>5, <1>6, <1>7, <1>8, <1>9, <1>10, HubSteps

\* Whatever the other monitors raise, in whatever order, and however the hub
\* is configured and restarted, the leak monitor and the dispatcher take only
\* the steps of LeakAlerts: what is proved there is proved of the hub.
THEOREM HubImplementsLeaks == HubSpec => Spec
<1>1. HubInit => Init
  BY DEF HubInit
<1>2. HubInv /\ [HubNext]_hubVars => HubInv' /\ [Next]_vars
  BY HubInvNext
<1>3. QED
  BY <1>1, <1>2, HubInvInit, PTL DEF HubSpec, Spec

LEMMA HubInvariant == HubSpec => []HubInv
<1>1. HubInv /\ [HubNext]_hubVars => HubInv'
  BY HubInvNext
<1>2. QED
  BY <1>1, HubInvInit, PTL DEF HubSpec

\* For every home, every size of the tables and every reading, the tables of
\* the monitors and the dispatcher stay within their arrays and no reading
\* raises more alerts than its result has room for.
THEOREM HubTypeCorrect == HubSpec => []HubTypeOK
<1>1. TypeOK /\ HubInv => HubTypeOK
  <2> SUFFICES ASSUME TypeOK, HubInv PROVE HubTypeOK
    OBVIOUS
  <2>1. Len(temp.zones) <= MaxTempZones /\ Len(temp.limits) <= MaxWatchpoints
    BY DEF HubInv, TempInv
  <2>2. air.zone_count <= MaxAirZones /\ Len(air.limits) <= MaxWatchpoints
    BY DEF HubInv, AirInv, AirTable
  <2>3. Len(power.circuits) <= MaxCircuits /\ Len(power.limits) <= MaxWatchpoints
    BY DEF HubInv, PowerInv
  <2>4. pending \in Seq([zone : Zones, type : AlertTypes, threshold : Int]) /\ Len(pending) <= 6
    BY DEF HubInv, Alert
  <2>5. QED
    BY <2>1, <2>2, <2>3, <2>4 DEF HubTypeOK
<1>2. HubSpec => []TypeOK
  BY HubImplementsLeaks, LeakTypeCorrect, PTL
<1>3. QED
  BY <1>1, <1>2, HubInvariant, PTL

\* The hub tells the owner of one leak at most once.
THEOREM HubOneReport == HubSpec => []OneReportPerEpisode
  BY HubImplementsLeaks, OneReportHolds, PTL

\* A leak the hub did not report was silenced by its own last alert or by a
\* minute whose budget was spent, whatever else the home reports meanwhile.
THEOREM HubSilenceExcused ==
    ASSUME ~ ClockGoesBack, Cooldown > 0
    PROVE  HubSpec => []SilenceIsExcused
  BY HubImplementsLeaks, SilenceExcusedHolds, PTL

-----------------------------------------------------------------------------
(***************************************************************************)
(* An excess that stands.                                                  *)
(***************************************************************************)
LEMMA StandingIs ==
    ASSUME NEW x
    PROVE  /\ x \in Standing <=> \/ \E i \in DOMAIN temp.zones : x \in ZoneExcesses(temp.zones[i])
                                 \/ \E i \in DOMAIN power.circuits : x \in CircuitExcesses(power.circuits[i])
           /\ x \in Standing' <=> \/ \E i \in DOMAIN temp'.zones : x \in ZoneExcesses(temp'.zones[i])
                                  \/ \E i \in DOMAIN power'.circuits : x \in CircuitExcesses(power'.circuits[i])
<1>1. \A zs, cs : x \in UNION ({ZoneExcesses(e) : e \in ToSet(zs)} \cup {CircuitExcesses(e) : e \in ToSet(cs)})
                  <=> \/ \E i \in DOMAIN zs : x \in ZoneExcesses(zs[i])
                      \/ \E i \in DOMAIN cs : x \in CircuitExcesses(cs[i])
  BY DEF ToSet
<1>2. Standing = UNION ({ZoneExcesses(e) : e \in ToSet(temp.zones)}
                        \cup {CircuitExcesses(e) : e \in ToSet(power.circuits)})
  BY DEF Standing
<1>3. Standing' = UNION ({ZoneExcesses(e) : e \in ToSet(temp'.zones)}
                         \cup {CircuitExcesses(e) : e \in ToSet(power'.circuits)})
  BY DEF Standing, ZoneExcesses, CircuitExcesses, Excesses, ToSet
<1>4. QED
  BY <1>1, <1>2, <1>3

\* A zone's excess is a freeze or an overheat, dated by its last reading.
LEMMA ZoneExcess ==
    ASSUME NEW e, NEW x \in ZoneExcesses(e)
    PROVE  /\ e.last_time > 0 /\ x.time = e.last_time
           /\ \/ x.key = [zone |-> e.zone_id, type |-> "freeze"] /\ e.last_value <= e.freeze
              \/ x.key = [zone |-> e.zone_id, type |-> "overheat"] /\ e.last_value >= e.overheat
<1> DEFINE types == {t \in {"freeze"} : e.last_value <= e.freeze}
                    \cup {t \in {"overheat"} : e.last_value >= e.overheat}
<1>1. \A t \in types : \/ t = "freeze" /\ e.last_value <= e.freeze
                       \/ t = "overheat" /\ e.last_value >= e.overheat
  OBVIOUS
<1>2. ZoneExcesses(e) = Excesses(e.zone_id, e.last_time, types)
  BY DEF ZoneExcesses
<1> HIDE DEF types
<1>3. e.last_time > 0 /\ \E t \in types : x = [key |-> [zone |-> e.zone_id, type |-> t], time |-> e.last_time]
  BY <1>2 DEF Excesses
<1>4. QED
  BY <1>1, <1>3

LEMMA CircuitExcess ==
    ASSUME NEW e, NEW x \in CircuitExcesses(e)
    PROVE  /\ e.last_time > 0 /\ x.time = e.last_time /\ e.last_watts > e.max
           /\ x.key = [zone |-> e.circuit_id, type |-> "overconsumption"]
<1>1. e.last_time > 0 /\ e.last_watts > e.max
      /\ x = [key |-> [zone |-> e.circuit_id, type |-> "overconsumption"], time |-> e.last_time]
  BY DEF CircuitExcesses, Excesses
<1>2. QED
  BY <1>1

\* The monitor reports a reading that violates some watchpoint.
LEMMA SomeViolation ==
    ASSUME NEW t \in Seq(Limit), NEW j \in 1 .. Len(t), NEW v,
           Compare(v, t[j].op, t[j].threshold)
    PROVE  Evaluate(t, t[j].sensor_id, v) # {}
<1> DEFINE V == Violated(t, t[j].sensor_id, v)
<1>1. V \in SUBSET Nat /\ j \in V
  BY DEF Violated
<1> HIDE DEF V
<1>2. PICK i \in V : \A n \in V : i <= n
  BY <1>1, LeastOf
<1>3. {n \in V : n < i} = {}
  <2>1. \A n \in V : n \in Nat /\ i \in Nat /\ i <= n
    BY <1>1, <1>2
  <2>2. QED
    BY <2>1
<1>4. Cardinality({n \in V : n < i}) = 0
  BY <1>3, FS_EmptySet
<1>5. Cardinality({n \in V : n < i}) < MaxViolations
  BY <1>4, WatchpointsAssumption
<1>6. i \in Evaluate(t, t[j].sensor_id, v)
  BY <1>2, <1>5 DEF Evaluate, V
<1>7. QED
  BY <1>6

\* With room for the watchpoints of every zone, a reading beyond a limit of the
\* zone raises its alert.
LEMMA TempExcessRaised ==
    ASSUME NEW cs, TempInv(temp, cs), 2 * MaxTempZones <= MaxWatchpoints,
           NEW i \in 1 .. Len(temp.zones), NEW v \in Int
    PROVE  LET z == temp.zones[i].zone_id
           IN  /\ v <= temp.zones[i].freeze =>
                      [zone |-> z, type |-> "freeze"] \in RaisedKeys(TempAlerts(z, v))
               /\ v >= temp.zones[i].overheat =>
                      [zone |-> z, type |-> "overheat"] \in RaisedKeys(TempAlerts(z, v))
<1> DEFINE e == temp.zones[i]
           z == e.zone_id
           t == temp.limits
<1>1. t \in Seq(Limit) /\ e \in TempState
  BY DEF TempInv
<1>2. z \in Zones
  BY <1>1 DEF TempState
<1>3. /\ [zone |-> z, type |-> "freeze"] \in RaisedKeys(TempAlerts(z, v)) <=>
             Evaluate(t, FreezeWpId(z), v) # {}
      /\ [zone |-> z, type |-> "overheat"] \in RaisedKeys(TempAlerts(z, v)) <=>
             Evaluate(t, OverheatWpId(z), v) # {}
  <2> HIDE DEF z
  <2>1. QED
    BY <1>2, TempAlertKeys
<1>4. PICK j \in 1 .. Len(t) : t[j] = Lower(e)
  BY DEF TempInv
<1>5. PICK k \in 1 .. Len(t) : t[k] = Upper(e)
  BY DEF TempInv
<1>6. /\ t[j].sensor_id = FreezeWpId(z) /\ t[j].op = "LessOrEqual" /\ t[j].threshold = e.freeze
      /\ t[k].sensor_id = OverheatWpId(z) /\ t[k].op = "GreaterOrEqual" /\ t[k].threshold = e.overheat
  BY <1>4, <1>5 DEF Lower, Upper, Watchpoint
<1>7. v <= e.freeze => Compare(v, t[j].op, t[j].threshold)
  BY <1>6 DEF Compare
<1>8. v >= e.overheat => Compare(v, t[k].op, t[k].threshold)
  BY <1>6 DEF Compare
<1> HIDE DEF t, e, z
<1>9. v <= e.freeze => Evaluate(t, FreezeWpId(z), v) # {}
  BY <1>1, <1>6, <1>7, SomeViolation
<1>10. v >= e.overheat => Evaluate(t, OverheatWpId(z), v) # {}
  BY <1>1, <1>6, <1>8, SomeViolation
<1>11. QED
  BY <1>3, <1>9, <1>10 DEF e, z

LEMMA PowerExcessRaised ==
    ASSUME NEW cs, PowerInv(power, cs), MaxCircuits <= MaxWatchpoints,
           NEW i \in 1 .. Len(power.circuits), NEW w \in Nat, w > power.circuits[i].max
    PROVE  LET id == power.circuits[i].circuit_id
           IN  [zone |-> id, type |-> "overconsumption"] \in RaisedKeys(PowerAlerts(id, w))
<1> DEFINE e == power.circuits[i]
           id == e.circuit_id
           t == power.limits
<1>1. t \in Seq(Limit) /\ e \in CircuitState
  BY DEF PowerInv
<1>2. id \in Zones
  BY <1>1 DEF CircuitState
<1>3. [zone |-> id, type |-> "overconsumption"] \in RaisedKeys(PowerAlerts(id, w)) <=>
          Evaluate(t, id, w) # {}
  <2> HIDE DEF id
  <2>1. QED
    BY <1>2, PowerAlertKeys
<1>4. PICK j \in 1 .. Len(t) : t[j] = Consumption(e)
  BY DEF PowerInv
<1>5. t[j].sensor_id = id /\ t[j].op = "GreaterThan" /\ t[j].threshold = e.max
  BY <1>4 DEF Consumption, Watchpoint
<1>6. Compare(w, t[j].op, t[j].threshold)
  BY <1>5 DEF Compare
<1> HIDE DEF t, e, id
<1>7. Evaluate(t, id, w) # {}
  BY <1>1, <1>5, <1>6, SomeViolation
<1>8. QED
  BY <1>3, <1>7 DEF e, id

\* Of what stands, each alert was heard or the budget was spent, or the event
\* in hand is to raise it yet.
ExcessAccounted(x) ==
    \/ HeardBefore(x.key, x.time)
    \/ BudgetSpent(x.time)
    \/ x.key \in RaisedKeys(pending) /\ x.time = now

ExcessInv == \A x \in Standing : IsSubscribed(x.key) => ExcessAccounted(x)

LEMMA ExcuseInvariant ==
    ASSUME ~ ClockGoesBack, Cooldown > 0
    PROVE  HubSpec => [](TypeOK /\ ExcuseInv)
<1>1. TypeOK /\ TypeOK' /\ ExcuseInv /\ [Next]_vars => ExcuseInv'
  BY ExcuseNext
<1>2. Spec => [](TypeOK /\ ExcuseInv)
  BY <1>1, ExcuseInit, LeakTypeCorrect, PTL DEF Spec
<1>3. QED
  BY <1>2, HubImplementsLeaks, PTL

\* What was accounted for before a step that leaves the monitors alone.
LEMMA StillAccounted ==
    ASSUME AlertingTypeOK, AlertingTypeOK', ExcessInv, UNCHANGED <<temp, power, subscriptions>>,
           delivered \subseteq delivered', sends \subseteq sends',
           NEW x \in Standing', IsSubscribed(x.key)'
    PROVE  \/ HeardBefore(x.key, x.time)' \/ BudgetSpent(x.time)'
           \/ x.key \in RaisedKeys(pending) /\ x.time = now
<1>1. x \in Standing
  BY StandingIs
<1>2. IsSubscribed(x.key)
  BY DEF IsSubscribed
<1>3. ExcessAccounted(x)
  BY <1>1, <1>2 DEF ExcessInv
<1>4. PICK k, t : k = x.key /\ t = x.time
  OBVIOUS
<1>5. /\ HeardBefore(k, t) => HeardBefore(k, t)'
      /\ BudgetSpent(t) => BudgetSpent(t)'
  BY ExcusesLast
<1>6. QED
  BY <1>3, <1>4, <1>5 DEF ExcessAccounted

\* Likewise before a step that leaves the dispatcher alone.
LEMMA ReadingAccounted ==
    ASSUME Idle, ExcessInv, UNCHANGED vars, NEW x \in Standing, IsSubscribed(x.key)'
    PROVE  HeardBefore(x.key, x.time)' \/ BudgetSpent(x.time)'
<1>1. IsSubscribed(x.key) /\ RaisedKeys(pending) = {}
  BY NoAlert DEF IsSubscribed, Idle, vars, alertingVars, dispatcherVars
<1>2. HeardBefore(x.key, x.time) \/ BudgetSpent(x.time)
  BY <1>1 DEF ExcessInv, ExcessAccounted
<1>3. QED
  BY <1>2 DEF HeardBefore, BudgetSpent, SentBetween, SatAdd, vars, alertingVars, historyVars

\* No excess stands of a zone or circuit that has no reading.
LEMMA UnreadIsNoExcess ==
    ASSUME NEW zs \in Seq(TempState), NEW cs \in Seq(CircuitState), Unread(zs), Unread(cs), NEW x
    PROVE  /\ \A i \in DOMAIN zs : x \notin ZoneExcesses(zs[i])
           /\ \A i \in DOMAIN cs : x \notin CircuitExcesses(cs[i])
<1>1. DOMAIN zs = 1 .. Len(zs) /\ DOMAIN cs = 1 .. Len(cs)
  OBVIOUS
<1>2. ASSUME NEW i \in DOMAIN zs, x \in ZoneExcesses(zs[i])
      PROVE  FALSE
  <2>1. zs[i].last_time = 0
    BY <1>1, <1>2 DEF Unread
  <2>2. zs[i].last_time > 0
    BY <1>2, ZoneExcess
  <2>3. QED
    BY <2>1, <2>2
<1>3. ASSUME NEW i \in DOMAIN cs, x \in CircuitExcesses(cs[i])
      PROVE  FALSE
  <2>1. cs[i].last_time = 0
    BY <1>1, <1>3 DEF Unread
  <2>2. cs[i].last_time > 0
    BY <1>3, CircuitExcess
  <2>3. QED
    BY <2>1, <2>2
<1>4. QED
  BY <1>2, <1>3

LEMMA ExcessInit == HubInit => ExcessInv
<1> SUFFICES ASSUME HubInit, NEW x \in Standing PROVE FALSE
  BY DEF ExcessInv
<1>1. PICK c \in Configs : c = config /\ temp = TempWith(c.temp) /\ power = PowerWith(c.power)
  BY DEF HubInit, Init
<1>2. Unread(temp.zones) /\ Unread(power.circuits) /\ TempInv(temp, c.temp) /\ PowerInv(power, c.power)
  BY <1>1, FreshHub
<1>3. temp.zones \in Seq(TempState) /\ power.circuits \in Seq(CircuitState)
  BY <1>2 DEF TempInv, PowerInv
<1>4. QED
  BY <1>2, <1>3, StandingIs, UnreadIsNoExcess

LEMMA ExcessNext ==
    ASSUME ~ ClockGoesBack, Cooldown > 0,
           2 * MaxTempZones <= MaxWatchpoints, MaxCircuits <= MaxWatchpoints,
           TypeOK, TypeOK', ExcuseInv, HubInv, ExcessInv, [HubNext]_hubVars
    PROVE  ExcessInv'
<1>0. /\ AlertingTypeOK /\ AlertingTypeOK' /\ now \in Time
      /\ BudgetInv /\ EntriesWereSent /\ NothingLater
      /\ config \in Configs /\ TempInv(temp, config.temp) /\ PowerInv(power, config.power)
      /\ pending \in Seq(Alert)
  BY DEF TypeOK, AlertingTypeOK, ExcuseInv, HubInv
<1>00. /\ temp.zones \in Seq(TempState) /\ DOMAIN temp.zones = 1 .. Len(temp.zones)
       /\ power.circuits \in Seq(CircuitState) /\ DOMAIN power.circuits = 1 .. Len(power.circuits)
  <2>1. temp.zones \in Seq(TempState) /\ power.circuits \in Seq(CircuitState)
    BY <1>0 DEF TempInv, PowerInv
  <2>2. QED
    BY <2>1
\* The hub is done with the event, and nothing of the history is lost.
<1>a. ASSUME Idle, UNCHANGED <<temp, power, subscriptions>>,
             delivered \subseteq delivered', sends \subseteq sends'
      PROVE  ExcessInv'
  <2> SUFFICES ASSUME NEW x \in Standing', IsSubscribed(x.key)'
               PROVE  HeardBefore(x.key, x.time)' \/ BudgetSpent(x.time)'
    BY DEF ExcessInv, ExcessAccounted
  <2>1. RaisedKeys(pending) = {}
    BY <1>a, NoAlert DEF Idle
  <2>2. QED
    BY <1>0, <1>a, <2>1, StillAccounted
<1>1. ASSUME NEW z \in Zones, NEW v \in Int, TempReading(z, v)
      PROVE  ExcessInv'
  <2>1. Idle /\ KeepReading(z, v, now) /\ pending' = TempAlerts(z, v) /\ UNCHANGED <<vars, air, power>>
    BY <1>1 DEF TempReading
  <2>2. now' = now /\ UNCHANGED power
    BY <2>1 DEF vars, alertingVars, historyVars
  <2> SUFFICES ASSUME NEW x \in Standing', IsSubscribed(x.key)'
               PROVE  ExcessAccounted(x)'
    BY DEF ExcessInv
  <2>3. CASE x \in Standing
    BY <2>1, <2>3, ReadingAccounted DEF ExcessAccounted
  <2>4. CASE x \notin Standing
    <3>1. PICK i \in DOMAIN temp'.zones : x \in ZoneExcesses(temp'.zones[i])
      BY <2>2, <2>4, StandingIs
    <3> DEFINE old == temp.zones[i]
               new == temp'.zones[i]
    <3>2. i \in 1 .. Len(temp.zones) /\ i \in DOMAIN temp.zones
      <4>1. TempInv(temp', config.temp) /\ Len(temp'.zones) = Len(temp.zones)
        BY <1>0, <2>1, ReadingKept
      <4>2. temp'.zones \in Seq(TempState)
        BY <4>1 DEF TempInv
      <4>3. DOMAIN temp'.zones = 1 .. Len(temp.zones)
        BY <4>1, <4>2
      <4>4. QED
        BY <1>00, <3>1, <4>3
    <3>3. new # old
      BY <2>4, <3>1, <3>2, StandingIs
    <3>4. /\ new.zone_id = old.zone_id /\ new.freeze = old.freeze /\ new.overheat = old.overheat
          /\ new.zone_id = z /\ new.last_value = v /\ new.last_time = now
      BY <1>0, <2>1, <3>2, <3>3, ReadingKept
    <3>5. /\ v <= old.freeze => [zone |-> z, type |-> "freeze"] \in RaisedKeys(TempAlerts(z, v))
          /\ v >= old.overheat => [zone |-> z, type |-> "overheat"] \in RaisedKeys(TempAlerts(z, v))
      <4>1. old.zone_id = z
        BY <3>4
      <4>2. QED
        BY <1>0, <3>2, <4>1, TempExcessRaised
    <3>6. /\ x.time = new.last_time
          /\ \/ x.key = [zone |-> new.zone_id, type |-> "freeze"] /\ new.last_value <= new.freeze
             \/ x.key = [zone |-> new.zone_id, type |-> "overheat"] /\ new.last_value >= new.overheat
      BY <3>1, ZoneExcess
    <3> HIDE DEF old, new
    <3>7. x.time = now /\ x.key \in RaisedKeys(TempAlerts(z, v))
      BY <3>4, <3>5, <3>6
    <3>8. x.key \in RaisedKeys(pending') /\ x.time = now'
      BY <2>1, <2>2, <3>7
    <3>9. QED
      BY <3>8 DEF ExcessAccounted, RaisedKeys
  <2>5. QED
    BY <2>3, <2>4
<1>2. ASSUME NEW z \in Zones, NEW r, AirReading(z, r)
      PROVE  ExcessInv'
  <2>1. Idle /\ UNCHANGED <<temp, power>> /\ UNCHANGED vars
    BY <1>2 DEF AirReading
  <2>2. UNCHANGED <<subscriptions, delivered, sends>>
    BY <2>1 DEF vars, alertingVars, dispatcherVars, historyVars
  <2>3. QED
    BY <1>a, <2>1, <2>2
<1>3. ASSUME NEW id \in Zones, NEW w \in Nat, PowerReading(id, w)
      PROVE  ExcessInv'
  <2>1. Idle /\ KeepWatts(id, w, now) /\ pending' = PowerAlerts(id, w) /\ UNCHANGED <<vars, temp, air>>
    BY <1>3 DEF PowerReading
  <2>2. now' = now /\ UNCHANGED temp
    BY <2>1 DEF vars, alertingVars, historyVars
  <2> SUFFICES ASSUME NEW x \in Standing', IsSubscribed(x.key)'
               PROVE  ExcessAccounted(x)'
    BY DEF ExcessInv
  <2>3. CASE x \in Standing
    BY <2>1, <2>3, ReadingAccounted DEF ExcessAccounted
  <2>4. CASE x \notin Standing
    <3>1. PICK i \in DOMAIN power'.circuits : x \in CircuitExcesses(power'.circuits[i])
      BY <2>2, <2>4, StandingIs
    <3> DEFINE old == power.circuits[i]
               new == power'.circuits[i]
    <3>2. i \in 1 .. Len(power.circuits) /\ i \in DOMAIN power.circuits
      <4>1. PowerInv(power', config.power) /\ Len(power'.circuits) = Len(power.circuits)
        BY <1>0, <2>1, WattsKept
      <4>2. power'.circuits \in Seq(CircuitState)
        BY <4>1 DEF PowerInv
      <4>3. DOMAIN power'.circuits = 1 .. Len(power.circuits)
        BY <4>1, <4>2
      <4>4. QED
        BY <1>00, <3>1, <4>3
    <3>3. new # old
      BY <2>4, <3>1, <3>2, StandingIs
    <3>4. /\ new.circuit_id = old.circuit_id /\ new.max = old.max
          /\ new.circuit_id = id /\ new.last_watts = w /\ new.last_time = now
      BY <1>0, <2>1, <3>2, <3>3, WattsKept
    <3>5. /\ x.time = new.last_time /\ new.last_watts > new.max
          /\ x.key = [zone |-> new.circuit_id, type |-> "overconsumption"]
      BY <3>1, CircuitExcess
    <3>6. w > old.max /\ old.circuit_id = id
      BY <3>4, <3>5
    <3>7. [zone |-> id, type |-> "overconsumption"] \in RaisedKeys(PowerAlerts(id, w))
      BY <1>0, <3>2, <3>6, PowerExcessRaised
    <3> HIDE DEF old, new
    <3>8. x.key \in RaisedKeys(pending') /\ x.time = now'
      BY <2>1, <2>2, <3>4, <3>5, <3>7
    <3>9. QED
      BY <3>8 DEF ExcessAccounted, RaisedKeys
  <2>5. QED
    BY <2>3, <2>4
<1>4. ASSUME NEW z \in Zones, NEW wet \in BOOLEAN, WaterReading(z, wet)
      PROVE  ExcessInv'
  <2>1. Idle /\ UNCHANGED <<temp, power>> /\ (WetReading(z) \/ DryReading(z))
    BY <1>4 DEF WaterReading, monitorVars
  <2>2. CASE LeakDetected(z)
    <3>1. LeakKey(z) \in Key
      BY LeakAlertsAssumption DEF LeakKey, Key
    <3>2. UNCHANGED subscriptions /\ delivered \subseteq delivered' /\ sends \subseteq sends'
      BY <1>0, <2>2, <3>1, RaiseHistory DEF LeakDetected
    <3>3. QED
      BY <1>a, <2>1, <3>2
  <2>3. CASE ~ LeakDetected(z)
    <3>1. UNCHANGED <<subscriptions, delivered, sends>>
      BY <2>1, <2>3 DEF WetReading, DryReading, alertingVars, dispatcherVars, historyVars
    <3>2. QED
      BY <1>a, <2>1, <3>1
  <2>4. QED
    BY <2>2, <2>3
<1>5. CASE DispatchPending
  <2>0. pending # <<>> /\ OtherAlert(KeyOfAlert(Head(pending)))
        /\ pending' = Tail(pending) /\ UNCHANGED <<temp, power>>
    BY <1>5 DEF DispatchPending, Idle, KeyOfAlert
  <2>a. PICK k : k = KeyOfAlert(Head(pending))
    OBVIOUS
  <2>1. pending # <<>> /\ OtherAlert(k) /\ pending' = Tail(pending) /\ UNCHANGED <<temp, power>>
    BY <2>0, <2>a
  <2>2. k \in Key /\ RaisedKeys(pending) = {k} \cup RaisedKeys(Tail(pending))
    BY <1>0, <2>1, <2>a, HeadAndTail
  <2>3. /\ Raise(k) /\ UNCHANGED <<subscriptions, now>>
        /\ delivered \subseteq delivered' /\ sends \subseteq sends'
    BY <1>0, <2>1, <2>2, RaiseHistory DEF OtherAlert
  <2> SUFFICES ASSUME NEW x \in Standing', IsSubscribed(x.key)'
               PROVE  ExcessAccounted(x)'
    BY DEF ExcessInv
  <2>4. CASE HeardBefore(x.key, x.time)' \/ BudgetSpent(x.time)'
    BY <2>4 DEF ExcessAccounted
  <2>5. CASE x.key \in RaisedKeys(Tail(pending)) /\ x.time = now
    BY <2>1, <2>3, <2>5 DEF ExcessAccounted, RaisedKeys
  <2>6. CASE x.key = k /\ x.time = now
    <3>1. IsSubscribed(k)
      BY <2>3, <2>6 DEF IsSubscribed
    <3>2. PICK t : t = now
      OBVIOUS
    <3>3. HeardBefore(k, t)' \/ BudgetSpent(t)'
      BY <1>0, <2>2, <2>3, <3>1, <3>2, RaiseExcused
    <3>4. k = x.key /\ t = x.time
      BY <2>6, <3>2
    <3>5. QED
      BY <3>3, <3>4 DEF ExcessAccounted
  <2>7. QED
    BY <1>0, <2>1, <2>2, <2>3, <2>4, <2>5, <2>6, StillAccounted
<1>6. CASE ContactStep
  <2>1. PICK k \in Key : OtherAlert(k)
    BY <1>6 DEF ContactStep
  <2>2. UNCHANGED subscriptions /\ delivered \subseteq delivered' /\ sends \subseteq sends'
    BY <1>0, <2>1, RaiseHistory DEF OtherAlert
  <2>3. QED
    BY <1>6, <1>a, <2>2 DEF ContactStep, monitorVars
<1>7. CASE HubTick
  BY <1>7, <1>a DEF HubTick, Tick, HouseKeeping, ClearExpired, historyVars, monitorVars
<1>8. CASE HubClock
  BY <1>8, <1>a DEF HubClock, Clock, ClockStep, dispatcherVars, monitorVars
<1>9. CASE HubRestart
  <2>1. PICK c \in Configs : c = config'
    BY <1>9 DEF HubRestart, Restart
  <2>2. temp' = TempWith(c.temp) /\ power' = PowerWith(c.power)
    BY <1>9, <2>1 DEF HubRestart
  <2>3. Unread(temp'.zones) /\ Unread(power'.circuits) /\ TempInv(temp', c.temp) /\ PowerInv(power', c.power)
    BY <2>2, FreshHub
  <2>4. temp'.zones \in Seq(TempState) /\ power'.circuits \in Seq(CircuitState)
    BY <2>3 DEF TempInv, PowerInv
  <2> SUFFICES ASSUME NEW x \in Standing' PROVE FALSE
    BY DEF ExcessInv
  <2>5. QED
    BY <2>3, <2>4, StandingIs, UnreadIsNoExcess
<1>10. CASE UNCHANGED hubVars
  <2>1. /\ UNCHANGED <<temp, power, subscriptions, now, pending, delivered, sends>>
    BY <1>10 DEF hubVars, monitorVars, vars, alertingVars, dispatcherVars, historyVars
  <2> SUFFICES ASSUME NEW x \in Standing', IsSubscribed(x.key)'
               PROVE  ExcessAccounted(x)'
    BY DEF ExcessInv
  <2>2. \/ HeardBefore(x.key, x.time)' \/ BudgetSpent(x.time)'
        \/ x.key \in RaisedKeys(pending) /\ x.time = now
    BY <1>0, <2>1, StillAccounted
  <2>3. QED
    BY <2>1, <2>2 DEF ExcessAccounted, RaisedKeys
<1>11. QED
  BY <1>0, <1>1, <1>2, <1>3, <1>4, <1>5, <1>6, <1>7, <1>8, <1>9, <1>10, HubSteps

\* Where the watchpoint tables have room for every zone and circuit, which the
\* code's do (2 * 32 and 16 of 128), and the clock never goes back, an excess
\* that the last reading of a zone or circuit shows was told to the owner less
\* than a cooldown before it, or the budget of its minute was spent.
THEOREM StandingExcessHolds ==
    ASSUME ~ ClockGoesBack, Cooldown > 0,
           2 * MaxTempZones <= MaxWatchpoints, MaxCircuits <= MaxWatchpoints
    PROVE  HubSpec => []StandingExcessIsHeard
<1>1. TypeOK /\ TypeOK' /\ ExcuseInv /\ HubInv /\ ExcessInv /\ [HubNext]_hubVars => ExcessInv'
  BY ExcessNext
<1>2. ExcessInv => StandingExcessIsHeard
  <2>1. Idle => RaisedKeys(pending) = {}
    BY NoAlert DEF Idle
  <2>2. QED
    BY <2>1 DEF ExcessInv, ExcessAccounted, StandingExcessIsHeard
<1>3. HubSpec => [](TypeOK /\ ExcuseInv)
  BY ExcuseInvariant
<1>4. QED
  BY <1>1, <1>2, <1>3, ExcessInit, HubInvariant, PTL DEF HubSpec


-----------------------------------------------------------------------------
(***************************************************************************)
(* configure subscribes all that the monitors it sets up may raise.        *)
(***************************************************************************)
Listed(c, k) == \E i \in DOMAIN c.keys : c.keys[i] = k

\* Whatever the monitors of a home may raise is among the alerts it subscribes.
Complete(c) ==
    /\ \A i \in DOMAIN c.water : Listed(c, LeakKey(c.water[i]))
    /\ \A i \in DOMAIN c.temp : \A k \in KeysFor(c.temp[i].zone_id, TempTypes) : Listed(c, k)
    /\ \A i \in DOMAIN c.air : \A k \in KeysFor(c.air[i].zone_id, AirTypes) : Listed(c, k)
    /\ \A i \in DOMAIN c.power : \A k \in KeysFor(c.power[i].circuit_id, PowerTypes) : Listed(c, k)
    /\ \A i \in DOMAIN c.contacts :
          \A k \in KeysFor(c.contacts[i].zone_id, ContactTypes) : Listed(c, k)

Holds(s, x) == \E i \in DOMAIN s : s[i] = x

LEMMA HoldsInBoth ==
    ASSUME NEW T, NEW s \in Seq(T), NEW t \in Seq(T), NEW x, Holds(s, x) \/ Holds(t, x)
    PROVE  Holds(s \o t, x)
<1>1. CASE Holds(s, x)
  <2>1. PICK i \in 1 .. Len(s) : s[i] = x
    BY <1>1 DEF Holds
  <2>2. i \in DOMAIN (s \o t) /\ (s \o t)[i] = x
    BY <2>1
  <2>3. QED
    BY <2>2 DEF Holds
<1>2. CASE Holds(t, x)
  <2>1. PICK i \in 1 .. Len(t) : t[i] = x
    BY <1>2 DEF Holds
  <2>2. Len(s) + i \in DOMAIN (s \o t) /\ (s \o t)[Len(s) + i] = x
    BY <2>1
  <2>3. QED
    BY <2>2 DEF Holds
<1>3. QED
  BY <1>1, <1>2

\* Joining the sequences of a sequence keeps all their members.
LEMMA FlattenHolds ==
    ASSUME NEW T, NEW ss \in Seq(Seq(T))
    PROVE  /\ FlattenSeq(ss) \in Seq(T)
           /\ \A i \in DOMAIN ss : \A x : Holds(ss[i], x) => Holds(FlattenSeq(ss), x)
<1>1. CASE Len(ss) = 0
  BY <1>1 DEF FlattenSeq
<1>2. CASE Len(ss) # 0
  <2> DEFINE n == Len(ss) - 1
             S == Seq(T)
             step == [x \in S \X (1 .. n) |-> x[1] \o ss[x[2] + 1]]
             Join(f) == [i \in 1 .. Len(ss) |-> IF i = 1 THEN ss[i] ELSE f[i - 1] \o ss[i]]
             flat == CHOOSE f : f = Join(f)
  <2>1. n \in Nat /\ Len(ss) = n + 1 /\ DOMAIN ss = 1 .. n + 1 /\ \A i \in 1 .. n + 1 : ss[i] \in S
    BY <1>2
  <2>2. FlattenSeq(ss) = flat[n + 1]
    BY <1>2, <2>1 DEF FlattenSeq
  <2> HIDE DEF n
  <2>3. \E f : f = Join(f)
    <3>1. \A x \in S, i \in 1 .. n : step[<<x, i>>] = x \o ss[i + 1]
      OBVIOUS
    <3>2. step \in Steps(S, n)
      <4>1. \A x \in S, i \in 1 .. n : i + 1 \in 1 .. n + 1 /\ x \o ss[i + 1] \in S
        BY <2>1
      <4> HIDE DEF S
      <4>2. QED
        BY <4>1 DEF Steps
    <3> HIDE DEF S, step
    <3>3. ss[1] \in S
      BY <2>1
    <3>4. PICK f : IsRun(f, S, ss[1], n, step)
      BY <2>1, <3>2, <3>3, LoopRuns
    <3> DEFINE g == [i \in 1 .. Len(ss) |-> f[i - 1]]
    <3>5. g[1] = ss[1]
      BY <2>1, <3>4 DEF IsRun
    <3>6. ASSUME NEW i \in 1 .. Len(ss), i # 1
          PROVE  g[i] = g[i - 1] \o ss[i]
      <4>1. i - 1 \in 1 .. n /\ i - 1 \in 0 .. n /\ (i - 1) + 1 = i /\ i - 1 \in 1 .. Len(ss)
            /\ (i - 1) - 1 \in 0 .. n
        BY <2>1, <3>6
      <4>2. f[i - 1] = step[<<f[(i - 1) - 1], i - 1>>] /\ f[(i - 1) - 1] \in S
        BY <3>4, <4>1 DEF IsRun
      <4>3. step[<<f[(i - 1) - 1], i - 1>>] = f[(i - 1) - 1] \o ss[i]
        BY <3>1, <4>1, <4>2
      <4>4. QED
        BY <4>1, <4>2, <4>3
    <3>7. g = Join(g)
      <4>1. \A i \in 1 .. Len(ss) : g[i] = IF i = 1 THEN ss[i] ELSE g[i - 1] \o ss[i]
        <5> HIDE DEF g
        <5>1. QED
          BY <3>5, <3>6
      <4>2. g = [i \in 1 .. Len(ss) |-> g[i]]
        OBVIOUS
      <4> HIDE DEF g
      <4>3. QED
        BY <4>1, <4>2
    <3> HIDE DEF g
    <3>8. QED
      BY <3>7
  <2>4. flat = Join(flat)
    BY <2>3
  <2> HIDE DEF flat
  <2>5. flat[1] = ss[1] /\ \A i \in 1 .. n : flat[i + 1] = flat[i] \o ss[i + 1]
    <3>1. \A i \in 1 .. Len(ss) : flat[i] = IF i = 1 THEN ss[i] ELSE flat[i - 1] \o ss[i]
      BY <2>4
    <3>2. \A i \in 1 .. n : i + 1 \in 1 .. Len(ss) /\ i + 1 # 1 /\ (i + 1) - 1 = i
      BY <2>1
    <3>3. 1 \in 1 .. Len(ss)
      BY <2>1
    <3>4. QED
      BY <3>1, <3>2, <3>3
  <2> DEFINE All(k) == /\ flat[k + 1] \in S
                       /\ \A i \in 1 .. k + 1 : \A x : Holds(ss[i], x) => Holds(flat[k + 1], x)
             P == {k \in Nat : k <= n => All(k)}
  <2>6. 0 \in P
    <3>1. \A i \in 1 .. 0 + 1 : i = 1
      OBVIOUS
    <3>2. All(0)
      BY <2>1, <2>5, <3>1
    <3> HIDE DEF All
    <3>3. QED
      BY <3>2
  <2>7. ASSUME NEW k \in P
        PROVE  k + 1 \in P
    <3>1. CASE k + 1 <= n
      <4>1. All(k) /\ k \in Nat /\ k + 1 \in 1 .. n
        <5> HIDE DEF All
        <5>1. QED
          BY <2>1, <3>1
      <4>2. flat[(k + 1) + 1] = flat[k + 1] \o ss[(k + 1) + 1] /\ ss[(k + 1) + 1] \in S
        <5>1. (k + 1) + 1 \in 1 .. n + 1
          BY <2>1, <4>1
        <5>2. flat[(k + 1) + 1] = flat[k + 1] \o ss[(k + 1) + 1]
          BY <2>5, <4>1
        <5> HIDE DEF S, All
        <5>3. QED
          BY <2>1, <5>1, <5>2
      <4>3. flat[(k + 1) + 1] \in S
        BY <4>1, <4>2
      <4>4. ASSUME NEW i \in 1 .. (k + 1) + 1, NEW x, Holds(ss[i], x)
            PROVE  Holds(flat[(k + 1) + 1], x)
        <5>1. CASE i = (k + 1) + 1
          BY <4>1, <4>2, <4>4, <5>1, HoldsInBoth
        <5>2. CASE i # (k + 1) + 1
          <6>1. i \in 1 .. k + 1
            BY <4>1, <5>2
          <6>2. Holds(flat[k + 1], x)
            BY <4>1, <4>4, <6>1
          <6>3. QED
            BY <4>1, <4>2, <6>2, HoldsInBoth
        <5>3. QED
          BY <5>1, <5>2
      <4>5. All(k + 1)
        BY <4>3, <4>4
      <4> HIDE DEF All
      <4>6. QED
        BY <4>1, <4>5
    <3>2. QED
      <4> HIDE DEF All
      <4>1. QED
        BY <3>1
  <2>8. All(n)
    <3> HIDE DEF All
    <3>1. P \in SUBSET Nat
      OBVIOUS
    <3>2. n \in P
      <4> HIDE DEF P
      <4>1. QED
        BY <2>1, <2>6, <2>7, <3>1, SetInduction
    <3>3. QED
      BY <2>1, <3>2
  <2>9. QED
    BY <2>1, <2>2, <2>8
<1>3. QED
  BY <1>1, <1>2

\* The zones configure finds to have a sensor are zones of the home that have it.
LEMMA ZonesHave ==
    ASSUME NEW Z, NEW home, home.zones \in Seq(Z), NEW sensor
    PROVE  ZonesWith(home, sensor)
              \in Seq({home.zones[i] : i \in {j \in DOMAIN home.zones : sensor \in home.zones[j].sensors}})
<1> DEFINE all == home.zones
           n == Len(all)
           H == {all[i] : i \in {j \in DOMAIN all : sensor \in all[j].sensors}}
           S == Seq(H)
           Next1(s, k) == IF sensor \in all[k].sensors THEN Append(s, all[k]) ELSE s
           step == [x \in S \X (1 .. n) |-> Next1(x[1], x[2])]
           Turn(f) == [i \in 0 .. n |-> IF i = 0 THEN <<>> ELSE Next1(f[i - 1], i)]
           zones == CHOOSE f : f = Turn(f)
<1>1. n \in Nat /\ DOMAIN all = 1 .. n
  OBVIOUS
<1>2. ASSUME NEW s \in S, NEW k \in 1 .. n
      PROVE  Next1(s, k) \in S
  <2>1. sensor \in all[k].sensors => all[k] \in H
    BY <1>1
  <2> HIDE DEF H, all
  <2>2. QED
    BY <2>1
<1>3. <<>> \in S
  <2> HIDE DEF H
  <2>1. QED
    OBVIOUS
<1>4. \E f : f = Turn(f)
  <2>1. step \in Steps(S, n)
    <3> HIDE DEF S, n, Next1
    <3>1. QED
      BY <1>2 DEF Steps
  <2>2. \A x \in S, k \in 1 .. n : step[<<x, k>>] = Next1(x, k)
    <3> HIDE DEF S, n, Next1
    <3>1. QED
      OBVIOUS
  <2> HIDE DEF S, step, n, Next1
  <2>3. PICK f : IsRun(f, S, <<>>, n, step)
    BY <1>1, <1>3, <2>1, LoopRuns
  <2>4. \A i \in 1 .. n : f[i] = Next1(f[i - 1], i)
    <3>1. \A i \in 1 .. n : i - 1 \in 0 .. n
      BY <1>1
    <3>2. QED
      BY <2>2, <2>3, <3>1 DEF IsRun
  <2>5. f = Turn(f)
    <3> HIDE DEF all
    <3>1. QED
      BY <1>1, <2>3, <2>4 DEF IsRun
  <2>6. QED
    BY <2>5
<1>5. zones = Turn(zones)
  BY <1>4
<1>6. ZonesWith(home, sensor) = zones[n]
  BY DEF ZonesWith
<1> HIDE DEF zones, S, n, all
<1>7. zones[0] = <<>> /\ \A i \in 1 .. n : zones[i] = Next1(zones[i - 1], i)
  <2> HIDE DEF Next1
  <2>1. QED
    BY <1>1, <1>5
<1>8. zones[n] \in S
  <2>1. \A i \in 1 .. n : zones[i - 1] \in S => zones[i] \in S
    <3> HIDE DEF Next1
    <3>1. QED
      BY <1>2, <1>7
  <2> HIDE DEF Next1
  <2>2. QED
    BY <1>1, <1>3, <1>7, <2>1, LoopStays
<1>9. QED
  BY <1>6, <1>8 DEF S, all

LEMMA KeysHold ==
    ASSUME NEW T, NEW types \in Seq(T), NEW I, NEW id \in I
    PROVE  /\ Keys(id, types) \in Seq([zone : I, type : T])
           /\ \A i \in DOMAIN types : Holds(Keys(id, types), [zone |-> id, type |-> types[i]])
<1>1. DOMAIN types = 1 .. Len(types) /\ \A i \in DOMAIN types : types[i] \in T
  OBVIOUS
<1>2. Keys(id, types) \in Seq([zone : I, type : T])
  BY <1>1 DEF Keys
<1>3. \A i \in DOMAIN types :
        i \in DOMAIN Keys(id, types) /\ Keys(id, types)[i] = [zone |-> id, type |-> types[i]]
  BY DEF Keys
<1>4. QED
  BY <1>2, <1>3 DEF Holds

AnyType == TempTypes \cup AirTypes \cup PowerTypes \cup ContactTypes \cup {"water_leak"}

Sensors == {"temp", "water", "air", "power"}

TypesOf(sensor) ==
    CASE sensor = "temp" -> TempTypes
      [] sensor = "water" -> {"water_leak"}
      [] sensor = "air" -> AirTypes
      [] sensor = "power" -> PowerTypes

LEMMA KeysOfTypes ==
    ASSUME NEW sensor \in Sensors
    PROVE  /\ KeysOf(sensor) \in Seq(AnyType)
           /\ \A t \in TypesOf(sensor) : Holds(KeysOf(sensor), t)
<1>1. CASE sensor = "temp"
  <2>1. KeysOf(sensor) = <<"freeze", "overheat", "rapid_drop", "rapid_rise">>
        /\ TypesOf(sensor) = TempTypes
    BY <1>1 DEF KeysOf, TypesOf
  <2>2. QED
    BY <2>1 DEF Holds, TempTypes, AnyType
<1>2. CASE sensor = "water"
  <2>1. KeysOf(sensor) = <<"water_leak">> /\ TypesOf(sensor) = {"water_leak"}
    BY <1>2 DEF KeysOf, TypesOf
  <2>2. QED
    BY <2>1 DEF Holds, AnyType
<1>3. CASE sensor = "air"
  <2>1. KeysOf(sensor) = AirAlertTypes /\ TypesOf(sensor) = AirTypes
    BY <1>3 DEF KeysOf, TypesOf, AirAlertTypes
  <2>2. AirAlertTypes \in Seq(AnyType)
    BY DEF AirAlertTypes, AirTypes, AnyType
  <2>3. DOMAIN AirAlertTypes = 1 .. 6
    BY DEF AirAlertTypes
  <2>4. QED
    BY <2>1, <2>2, <2>3 DEF Holds, AirTypes
<1>4. CASE sensor = "power"
  <2>1. KeysOf(sensor) = <<"overconsumption", "power_spike">> /\ TypesOf(sensor) = PowerTypes
    BY <1>4 DEF KeysOf, TypesOf
  <2>2. QED
    BY <2>1 DEF Holds, PowerTypes, AnyType
<1>5. QED
  BY <1>1, <1>2, <1>3, <1>4 DEF Sensors

\* A zone is subscribed to every alert of each sensor it has.
LEMMA ZoneHolds ==
    ASSUME NEW I, NEW zn, zn.id \in I
    PROVE  /\ ZoneKeys(zn) \in Seq([zone : I, type : AnyType])
           /\ \A sensor \in Sensors \cap zn.sensors :
                 \A k \in KeysFor(zn.id, TypesOf(sensor)) : Holds(ZoneKeys(zn), k)
<1> DEFINE names == <<"temp", "water", "air", "power">>
           Part(sensor) == IF sensor \in zn.sensors THEN Keys(zn.id, KeysOf(sensor)) ELSE <<>>
           ss == [i \in 1 .. 4 |-> Part(names[i])]
           T == [zone : I, type : AnyType]
<1>1. \A i \in 1 .. 4 : names[i] \in Sensors
  BY DEF Sensors
<1>2. \A sensor \in Sensors : \E i \in 1 .. 4 : names[i] = sensor
  <2>1. names[1] = "temp" /\ names[2] = "water" /\ names[3] = "air" /\ names[4] = "power"
    OBVIOUS
  <2>2. QED
    BY <2>1 DEF Sensors
<1>3. ZoneKeys(zn) = FlattenSeq(ss)
  BY DEF ZoneKeys
<1> HIDE DEF names
<1>4. ASSUME NEW sensor \in Sensors
      PROVE  Keys(zn.id, KeysOf(sensor)) \in Seq(T)
  BY <1>4, KeysOfTypes, KeysHold
<1>5. ss \in Seq(Seq(T)) /\ DOMAIN ss = 1 .. 4
  <2>1. \A sensor \in Sensors : Part(sensor) \in Seq(T)
    <3>1. <<>> \in Seq(T)
      OBVIOUS
    <3> HIDE DEF T
    <3>2. QED
      BY <1>4, <3>1
  <2> HIDE DEF Part, T
  <2>2. QED
    BY <1>1, <2>1
<1>6. ASSUME NEW sensor \in Sensors \cap zn.sensors, NEW k \in KeysFor(zn.id, TypesOf(sensor))
      PROVE  Holds(ZoneKeys(zn), k)
  <2>1. PICK t \in TypesOf(sensor) : k = [zone |-> zn.id, type |-> t]
    BY DEF KeysFor
  <2>2. PICK j \in DOMAIN KeysOf(sensor) : KeysOf(sensor)[j] = t
    BY <2>1, KeysOfTypes DEF Holds
  <2>3. Holds(Keys(zn.id, KeysOf(sensor)), k)
    BY <2>1, <2>2, KeysOfTypes, KeysHold
  <2>4. PICK i \in 1 .. 4 : names[i] = sensor
    BY <1>2
  <2>5. ss[i] = Keys(zn.id, KeysOf(sensor))
    BY <2>4
  <2> HIDE DEF ss, T
  <2>6. QED
    BY <1>3, <1>5, <2>3, <2>4, <2>5, FlattenHolds
<1>7. QED
  BY <1>3, <1>5, <1>6, FlattenHolds

\* Every registration of configure comes with its subscriptions.
LEMMA ConfigOfComplete ==
    ASSUME NEW Z, NEW C, NEW home \in [zones : Seq(Z), contacts : Seq(C)]
    PROVE  Complete(ConfigOf(home))
<1> DEFINE zones == home.zones
           contacts == home.contacts
           I == {zones[i].id : i \in DOMAIN zones} \cup {contacts[i].zone : i \in DOMAIN contacts}
           T == [zone : I, type : AnyType]
           zs == [i \in DOMAIN zones |-> ZoneKeys(zones[i])]
           cs == [i \in DOMAIN contacts |-> ContactKeys(contacts[i])]
           c == ConfigOf(home)
<1>1. /\ zones \in Seq(Z) /\ DOMAIN zones = 1 .. Len(zones)
      /\ contacts \in Seq(C) /\ DOMAIN contacts = 1 .. Len(contacts)
  OBVIOUS
<1>2. zs \in Seq(Seq(T)) /\ DOMAIN zs = DOMAIN zones
  <2>1. \A i \in DOMAIN zones : ZoneKeys(zones[i]) \in Seq(T)
    BY ZoneHolds
  <2> HIDE DEF T, zones
  <2>2. QED
    BY <1>1, <2>1
<1>3. ASSUME NEW i \in DOMAIN contacts
      PROVE  /\ ContactKeys(contacts[i]) \in Seq(T)
             /\ \A k \in KeysFor(contacts[i].zone, ContactTypes) : Holds(ContactKeys(contacts[i]), k)
  <2> DEFINE types == <<"door_open_too_long", "door_opened_at_night">>
  <2>1. types \in Seq(AnyType) /\ DOMAIN types = 1 .. 2
        /\ types[1] = "door_open_too_long" /\ types[2] = "door_opened_at_night"
    BY DEF AnyType, ContactTypes
  <2>2. ContactKeys(contacts[i]) = Keys(contacts[i].zone, types)
    BY DEF ContactKeys
  <2>3. \A t \in ContactTypes : \E j \in DOMAIN types : types[j] = t
    BY <2>1 DEF ContactTypes
  <2> HIDE DEF types
  <2>4. contacts[i].zone \in I
    OBVIOUS
  <2> HIDE DEF I, contacts
  <2>5. /\ Keys(contacts[i].zone, types) \in Seq(T)
        /\ \A j \in DOMAIN types :
              Holds(Keys(contacts[i].zone, types), [zone |-> contacts[i].zone, type |-> types[j]])
    BY <2>1, <2>4, KeysHold
  <2> HIDE DEF T
  <2>6. QED
    BY <2>2, <2>3, <2>5 DEF KeysFor
<1>4. cs \in Seq(Seq(T)) /\ DOMAIN cs = DOMAIN contacts
  <2> HIDE DEF T, contacts
  <2>1. QED
    BY <1>1, <1>3
<1>5. c.keys = FlattenSeq(zs) \o FlattenSeq(cs)
  BY DEF ConfigOf
<1>6. \A k : Holds(FlattenSeq(zs), k) \/ Holds(FlattenSeq(cs), k) => Listed(c, k)
  <2>1. FlattenSeq(zs) \in Seq(T) /\ FlattenSeq(cs) \in Seq(T)
    BY <1>2, <1>4, FlattenHolds
  <2> HIDE DEF T, zs, cs, c
  <2>2. \A k : Holds(FlattenSeq(zs), k) \/ Holds(FlattenSeq(cs), k) => Holds(c.keys, k)
    BY <1>5, <2>1, HoldsInBoth
  <2>3. QED
    BY <2>2 DEF Listed, Holds
<1>7. ASSUME NEW i \in DOMAIN zones, NEW sensor \in Sensors \cap zones[i].sensors,
             NEW k \in KeysFor(zones[i].id, TypesOf(sensor))
      PROVE  Listed(c, k)
  <2>1. zones[i].id \in I
    OBVIOUS
  <2>2. Holds(zs[i], k)
    BY <2>1, ZoneHolds
  <2> HIDE DEF T, zs, c, zones, I
  <2>3. QED
    BY <1>2, <1>6, <2>2, FlattenHolds
<1>8. ASSUME NEW i \in DOMAIN contacts, NEW k \in KeysFor(contacts[i].zone, ContactTypes)
      PROVE  Listed(c, k)
  <2>1. Holds(cs[i], k)
    BY <1>3
  <2> HIDE DEF T, cs, c, contacts, I
  <2>2. QED
    BY <1>4, <1>6, <2>1, FlattenHolds
<1>9. ASSUME NEW sensor \in Sensors, NEW i \in DOMAIN ZonesWith(home, sensor),
             NEW k \in KeysFor(ZonesWith(home, sensor)[i].id, TypesOf(sensor))
      PROVE  Listed(c, k)
  <2> DEFINE H == {zones[j] : j \in {n \in DOMAIN zones : sensor \in zones[n].sensors}}
  <2>1. ZonesWith(home, sensor) \in Seq(H)
    BY ZonesHave
  <2>2. ZonesWith(home, sensor)[i] \in H
    <3> HIDE DEF H
    <3>1. QED
      BY <2>1
  <2>3. PICK j \in DOMAIN zones : sensor \in zones[j].sensors /\ ZonesWith(home, sensor)[i] = zones[j]
    BY <2>2
  <2> HIDE DEF H, c, zones
  <2>4. QED
    BY <1>7, <2>3
<1>10. /\ TypesOf("temp") = TempTypes
       /\ TypesOf("water") = {"water_leak"}
       /\ TypesOf("air") = AirTypes
       /\ TypesOf("power") = PowerTypes
  BY DEF TypesOf
<1>11. ASSUME NEW i \in DOMAIN c.water PROVE Listed(c, LeakKey(c.water[i]))
  <2>1. i \in DOMAIN ZonesWith(home, "water") /\ c.water[i] = ZonesWith(home, "water")[i].id
    BY DEF ConfigOf
  <2>2. LeakKey(c.water[i]) \in KeysFor(c.water[i], {"water_leak"})
    BY HubAssumption DEF LeakKey, KeysFor
  <2> HIDE DEF c
  <2>3. QED
    BY <1>9, <1>10, <2>1, <2>2 DEF Sensors
<1>12. ASSUME NEW i \in DOMAIN c.temp, NEW k \in KeysFor(c.temp[i].zone_id, TempTypes)
       PROVE  Listed(c, k)
  <2>1. i \in DOMAIN ZonesWith(home, "temp") /\ c.temp[i].zone_id = ZonesWith(home, "temp")[i].id
    BY DEF ConfigOf, TempConfig
  <2> HIDE DEF c
  <2>2. QED
    BY <1>9, <1>10, <2>1 DEF Sensors
<1>13. ASSUME NEW i \in DOMAIN c.air, NEW k \in KeysFor(c.air[i].zone_id, AirTypes)
       PROVE  Listed(c, k)
  <2>1. i \in DOMAIN ZonesWith(home, "air") /\ c.air[i].zone_id = ZonesWith(home, "air")[i].id
    BY DEF ConfigOf, AirConfig
  <2> HIDE DEF c
  <2>2. QED
    BY <1>9, <1>10, <2>1 DEF Sensors
<1>14. ASSUME NEW i \in DOMAIN c.power, NEW k \in KeysFor(c.power[i].circuit_id, PowerTypes)
       PROVE  Listed(c, k)
  <2>1. i \in DOMAIN ZonesWith(home, "power")
        /\ c.power[i].circuit_id = ZonesWith(home, "power")[i].id
    BY DEF ConfigOf, CircuitConfig
  <2> HIDE DEF c
  <2>2. QED
    BY <1>9, <1>10, <2>1 DEF Sensors
<1>15. ASSUME NEW i \in DOMAIN c.contacts, NEW k \in KeysFor(c.contacts[i].zone_id, ContactTypes)
       PROVE  Listed(c, k)
  <2>1. i \in DOMAIN contacts /\ c.contacts[i].zone_id = contacts[i].zone
    BY DEF ConfigOf, ContactConfig
  <2> HIDE DEF c
  <2>2. QED
    BY <1>8, <2>1
<1>16. Complete(c)
  <2> HIDE DEF c
  <2>1. QED
    BY <1>11, <1>12, <1>13, <1>14, <1>15 DEF Complete
<1>17. QED
  BY <1>16

-----------------------------------------------------------------------------
(***************************************************************************)
(* Only what the home is configured for is heard.                          *)
(***************************************************************************)
\* Two alerts of a home have different message ids.
MsgIdsApart ==
    \A c \in Configs : \A i, j \in DOMAIN c.keys :
        MsgId(c.keys[i]) = MsgId(c.keys[j]) => c.keys[i] = c.keys[j]

\* No watchpoint id saturates, and none wraps.
WatchpointIdsFit == \A z \in Zones : 6 * z + 5 <= U32Max

HeardInv ==
    /\ subscriptions = SubscribedTo(config.keys)
    /\ \A i \in DOMAIN leakZones : \E j \in DOMAIN config.water : leakZones[i].zone_id = config.water[j]
    /\ \A k \in RaisedKeys(pending) : Listed(config, k)
    /\ HeardAlertsAreConfigured

\* An alert of the home that is subscribed is one the table had room for.
LEMMA SubscribedFits ==
    ASSUME MsgIdsApart, NEW c \in Configs, NEW k, Listed(c, k), MsgId(k) \in SubscribedTo(c.keys)
    PROVE  \E i \in DOMAIN c.keys :
              /\ c.keys[i] = k
              /\ Cardinality({MsgId(c.keys[j]) : j \in 1 .. i}) <= MaxSubscriptions
<1> DEFINE keys == c.keys
<1>1. keys \in Seq(Key) /\ DOMAIN keys = 1 .. Len(keys)
  <2>1. keys \in Seq(Key)
    BY LeakAlertsAssumption
  <2>2. QED
    BY <2>1
<1>2. MsgId(k) \in Fitting(keys, Len(keys))
  BY <1>1, SubscribedToFits
<1>3. PICK i \in 1 .. Len(keys) : Fits(keys, i) /\ MsgId(keys[i]) = MsgId(k)
  BY <1>2 DEF Fitting
<1>4. PICK j \in DOMAIN keys : keys[j] = k
  BY DEF Listed
<1>5. keys[i] = k
  BY <1>1, <1>3, <1>4 DEF MsgIdsApart
<1>6. Cardinality({MsgId(c.keys[n]) : n \in 1 .. i}) <= MaxSubscriptions
  BY <1>3 DEF Fits, Ids
<1>7. QED
  BY <1>1, <1>5, <1>6

\* Raising an alert of the home keeps what was heard to the home's alerts.
LEMMA RaiseConfigured ==
    ASSUME MsgIdsApart, config \in Configs, HeardInv, NEW k, Listed(config, k), Raise(k),
           UNCHANGED config
    PROVE  HeardAlertsAreConfigured' /\ UNCHANGED subscriptions
<1>1. UNCHANGED subscriptions
  BY DEF Raise, RaiseUnsubscribed, NotSubscribed, dispatcherVars, RaiseDuplicate, Deduplicated,
         RaiseOverBudget, RateLimited, RaiseSent, Send
<1>2. \A d \in delivered' : d \in delivered \/ (d.key = k /\ IsSubscribed(k))
  <2>1. CASE RaiseSent(k)
    <3> DEFINE new == [key |-> k, time |-> now, recorded |-> Cardinality(recent) < MaxRecent]
    <3>1. delivered' = delivered \cup {new} /\ IsSubscribed(k)
      BY <2>1 DEF RaiseSent, Send
    <3>2. new.key = k
      OBVIOUS
    <3> HIDE DEF new
    <3>3. QED
      BY <3>1, <3>2
  <2>2. CASE UNCHANGED delivered
    BY <2>2
  <2>3. QED
    BY <2>1, <2>2 DEF Raise, RaiseUnsubscribed, RaiseDuplicate, RaiseOverBudget
<1>3. IsSubscribed(k) =>
          \E i \in DOMAIN config.keys :
              /\ config.keys[i] = k
              /\ Cardinality({MsgId(config.keys[j]) : j \in 1 .. i}) <= MaxSubscriptions
  <2>1. PICK c \in Configs : c = config
    OBVIOUS
  <2>2. IsSubscribed(k) => MsgId(k) \in SubscribedTo(c.keys)
    BY <2>1 DEF HeardInv, IsSubscribed
  <2>3. QED
    BY <2>1, <2>2, SubscribedFits
<1>4. HeardAlertsAreConfigured'
  <2> SUFFICES ASSUME NEW d \in delivered'
               PROVE  \E i \in DOMAIN config.keys :
                         /\ config.keys[i] = d.key
                         /\ Cardinality({MsgId(config.keys[j]) : j \in 1 .. i}) <= MaxSubscriptions
    BY DEF HeardAlertsAreConfigured, MsgId
  <2>1. CASE d \in delivered
    BY <2>1 DEF HeardInv, HeardAlertsAreConfigured
  <2>2. CASE d.key = k /\ IsSubscribed(k)
    BY <1>3, <2>2
  <2>3. QED
    BY <1>2, <2>1, <2>2
<1>5. QED
  BY <1>1, <1>4

\* What is reported is a violation of a watchpoint with the id asked for.
LEMMA ReportedHasId ==
    ASSUME NEW t, NEW id, NEW v, Evaluate(t, id, v) # {}
    PROVE  \E j \in DOMAIN t : t[j].sensor_id = id
  BY DEF Evaluate, Violated

\* A reading raises alerts of the zones its monitor was configured with only:
\* no other zone has their watchpoint ids.
LEMMA TempZoneConfigured ==
    ASSUME WatchpointIdsFit, NEW cs, TempInv(temp, cs), NEW z \in Zones, NEW v \in Int,
           RaisedKeys(TempAlerts(z, v)) # {}
    PROVE  \E k \in 1 .. Len(cs) : cs[k].zone_id = z
<1>1. /\ temp.zones \in Seq(TempState) /\ temp.limits \in Seq(Limit)
      /\ \A i \in 1 .. Len(temp.zones) : \E k \in 1 .. Len(cs) : temp.zones[i].zone_id = cs[k].zone_id
      /\ \A j \in 1 .. Len(temp.limits) : \E i \in 1 .. Len(temp.zones) :
            temp.limits[j] = Lower(temp.zones[i]) \/ temp.limits[j] = Upper(temp.zones[i])
  BY DEF TempInv
<1>2. CASE TempEntries(z) # {}
  <2>1. PICK i \in 1 .. Len(temp.zones) : temp.zones[i].zone_id = z
    BY <1>2, TempEntryFound
  <2>2. QED
    BY <1>1, <2>1
<1>3. CASE TempEntries(z) = {}
  <2>1. \/ Evaluate(temp.limits, FreezeWpId(z), v) # {}
        \/ Evaluate(temp.limits, OverheatWpId(z), v) # {}
    <3>1. /\ [zone |-> z, type |-> "freeze"] \in RaisedKeys(TempAlerts(z, v)) <=>
                 Evaluate(temp.limits, FreezeWpId(z), v) # {}
          /\ [zone |-> z, type |-> "overheat"] \in RaisedKeys(TempAlerts(z, v)) <=>
                 Evaluate(temp.limits, OverheatWpId(z), v) # {}
          /\ RaisedKeys(TempAlerts(z, v)) \subseteq KeysFor(z, {"freeze", "overheat"})
      BY <1>3, TempAlertKeys
    <3>2. PICK k \in RaisedKeys(TempAlerts(z, v)) :
              k = [zone |-> z, type |-> "freeze"] \/ k = [zone |-> z, type |-> "overheat"]
      BY <3>1 DEF KeysFor
    <3>3. QED
      BY <3>1, <3>2
  <2>2. PICK j \in DOMAIN temp.limits :
            temp.limits[j].sensor_id = FreezeWpId(z) \/ temp.limits[j].sensor_id = OverheatWpId(z)
    BY <2>1, ReportedHasId
  <2>3. PICK i \in 1 .. Len(temp.zones) :
            temp.limits[j] = Lower(temp.zones[i]) \/ temp.limits[j] = Upper(temp.zones[i])
    <3>1. j \in 1 .. Len(temp.limits)
      BY <1>1
    <3>2. QED
      BY <1>1, <3>1
  <2>4. PICK y : y = temp.zones[i].zone_id
    OBVIOUS
  <2>5. y \in Zones
    <3>1. temp.zones[i] \in TempState
      BY <1>1
    <3>2. QED
      BY <2>4, <3>1 DEF TempState
  <2>6. temp.limits[j].sensor_id = FreezeWpId(y) \/ temp.limits[j].sensor_id = OverheatWpId(y)
    BY <2>3, <2>4 DEF Lower, Upper, Watchpoint
  <2>7. /\ FreezeWpId(y) = 2 * y /\ OverheatWpId(y) = 2 * y + 1
        /\ FreezeWpId(z) = 2 * z /\ OverheatWpId(z) = 2 * z + 1
        /\ y \in Nat /\ z \in Nat
    <3>1. \A x \in Zones : x \in Nat /\ 6 * x + 5 <= U32Max /\ U32Max \in Nat
      BY DispatcherAssumption, WatchpointsAssumption DEF WatchpointIdsFit
    <3>2. QED
      BY <2>5, <3>1 DEF FreezeWpId, OverheatWpId, SatU32
  <2>8. y = z
    BY <2>2, <2>6, <2>7
  <2>9. QED
    BY <1>1, <2>4, <2>8
<1>4. QED
  BY <1>2, <1>3

LEMMA PowerCircuitConfigured ==
    ASSUME NEW cs, PowerInv(power, cs), NEW id \in Zones, NEW w \in Nat,
           RaisedKeys(PowerAlerts(id, w)) # {}
    PROVE  \E k \in 1 .. Len(cs) : cs[k].circuit_id = id
<1>1. /\ power.circuits \in Seq(CircuitState) /\ power.limits \in Seq(Limit)
      /\ \A i \in 1 .. Len(power.circuits) : \E k \in 1 .. Len(cs) :
            power.circuits[i].circuit_id = cs[k].circuit_id
      /\ \A j \in 1 .. Len(power.limits) : \E i \in 1 .. Len(power.circuits) :
            power.limits[j] = Consumption(power.circuits[i])
  BY DEF PowerInv
<1>2. CASE CircuitEntries(id) # {}
  <2>1. PICK i \in 1 .. Len(power.circuits) : power.circuits[i].circuit_id = id
    BY <1>2, CircuitEntryFound
  <2>2. QED
    BY <1>1, <2>1
<1>3. CASE CircuitEntries(id) = {}
  <2>1. Evaluate(power.limits, id, w) # {}
    <3>1. /\ [zone |-> id, type |-> "overconsumption"] \in RaisedKeys(PowerAlerts(id, w)) <=>
                 Evaluate(power.limits, id, w) # {}
          /\ RaisedKeys(PowerAlerts(id, w)) \subseteq KeysFor(id, {"overconsumption"})
      BY <1>3, PowerAlertKeys
    <3>2. PICK k \in RaisedKeys(PowerAlerts(id, w)) : k = [zone |-> id, type |-> "overconsumption"]
      BY <3>1 DEF KeysFor
    <3>3. QED
      BY <3>1, <3>2
  <2>2. PICK j \in DOMAIN power.limits : power.limits[j].sensor_id = id
    BY <2>1, ReportedHasId
  <2>3. PICK i \in 1 .. Len(power.circuits) : power.limits[j] = Consumption(power.circuits[i])
    <3>1. j \in 1 .. Len(power.limits)
      BY <1>1
    <3>2. QED
      BY <1>1, <3>1
  <2>4. power.circuits[i].circuit_id = id
    BY <2>2, <2>3 DEF Consumption, Watchpoint
  <2>5. QED
    BY <1>1, <2>4
<1>4. QED
  BY <1>2, <1>3

LEMMA AirIds ==
    ASSUME WatchpointIdsFit, NEW z \in Zones, NEW i \in 1 .. 6
    PROVE  z \in Nat /\ AirWpId(z, i) = 6 * z + i - 1
<1>1. z \in Nat /\ 6 * z + 5 <= U32Max /\ U32Max \in Nat
  BY DispatcherAssumption, WatchpointsAssumption DEF WatchpointIdsFit
<1>2. AirWpId(z, i) = (6 * z + i - 1) % (U32Max + 1)
  BY <1>1 DEF AirWpId
<1>3. \A m, x \in Nat : x < m => x % m = x
  OBVIOUS
<1>4. 6 * z + i - 1 \in Nat /\ U32Max + 1 \in Nat /\ 6 * z + i - 1 < U32Max + 1
  BY <1>1
<1>5. QED
  BY <1>1, <1>2, <1>3, <1>4

LEMMA AirZoneConfigured ==
    ASSUME WatchpointIdsFit, NEW cs \in Seq(AirThresholds), AirInv(air, cs), NEW z \in Zones, NEW r,
           RaisedKeys(AirAlerts(z, r)) # {}
    PROVE  \E k \in 1 .. Len(cs) : cs[k].zone_id = z
<1>1. AirRaises(AirAlerts(z, r), 6, z, r)
  BY AirAlertKeys
<1>2. AirKeysUpTo(6, z, r) # {}
  BY <1>1 DEF AirRaises
<1>3. PICK i \in 1 .. 6 : Evaluate(air.limits, AirWpId(z, i), Compared(r)[i]) # {}
  BY <1>2 DEF AirKeysUpTo
<1>4. PICK j \in DOMAIN air.limits : air.limits[j].sensor_id = AirWpId(z, i)
  BY <1>3, ReportedHasId
<1>5. PICK k \in 1 .. Len(cs), n \in 1 .. 6 : air.limits[j] = AirLimit(cs[k], n)
  <2>1. /\ air.limits \in Seq(Limit)
        /\ \A m \in 1 .. Len(air.limits) : \E k \in 1 .. Len(cs), n \in 1 .. 6 :
              air.limits[m] = AirLimit(cs[k], n)
    BY DEF AirInv, AirTable
  <2>2. j \in 1 .. Len(air.limits)
    BY <2>1
  <2>3. QED
    BY <2>1, <2>2
<1>6. PICK y : y = cs[k].zone_id
  OBVIOUS
<1>7. y \in Zones
  <2>1. cs[k] \in AirThresholds
    BY <1>5
  <2>2. QED
    BY <1>6, <2>1 DEF AirThresholds
<1>8. AirWpId(y, n) = AirWpId(z, i)
  BY <1>4, <1>5, <1>6 DEF AirLimit, Watchpoint
<1>9. /\ y \in Nat /\ AirWpId(y, n) = 6 * y + n - 1
      /\ z \in Nat /\ AirWpId(z, i) = 6 * z + i - 1
  BY <1>7, AirIds
<1>10. y = z
  <2>1. 6 * y + n - 1 = 6 * z + i - 1
    BY <1>8, <1>9
  <2>2. \A a, b \in Nat, p, q \in 1 .. 6 : 6 * a + p - 1 = 6 * b + q - 1 => a = b
    OBVIOUS
  <2>3. QED
    BY <1>3, <1>5, <1>9, <2>1, <2>2
<1>11. QED
  BY <1>6, <1>10

\* The leak monitor never gains a zone.
LEMMA LeakZonesKept ==
    ASSUME TypeOK, NEW z \in Zones, WetReading(z) \/ DryReading(z)
    PROVE  /\ DOMAIN leakZones' = DOMAIN leakZones
           /\ \A i \in DOMAIN leakZones : leakZones'[i].zone_id = leakZones[i].zone_id
<1>1. leakZones \in Seq([zone_id : Zones, wet : BOOLEAN, detected_at : Time])
  BY DEF TypeOK
<1>2. CASE UNCHANGED leakZones
  BY <1>2
<1>3. CASE Known(z) /\ \E w, t : \/ leakZones' = [leakZones EXCEPT ![EntryOf(z)].wet = w,
                                                                  ![EntryOf(z)].detected_at = t]
                                 \/ leakZones' = [leakZones EXCEPT ![EntryOf(z)].wet = w]
  <2> DEFINE e == EntryOf(z)
             E == [zone_id : Zones, wet : BOOLEAN, detected_at : Time]
  <2>1. PICK w, t : \/ leakZones' = [leakZones EXCEPT ![e].wet = w, ![e].detected_at = t]
                    \/ leakZones' = [leakZones EXCEPT ![e].wet = w]
    BY <1>3
  <2>2. \A a \in E : /\ [[a EXCEPT !.wet = w] EXCEPT !.detected_at = t].zone_id = a.zone_id
                     /\ [a EXCEPT !.wet = w].zone_id = a.zone_id
    OBVIOUS
  <2> HIDE DEF e, E
  <2>3. \A i \in DOMAIN leakZones : leakZones[i] \in E
    <3>1. leakZones \in Seq(E)
      BY <1>1 DEF E
    <3>2. QED
      BY <3>1
  <2>4. DOMAIN leakZones' = DOMAIN leakZones
    BY <2>1
  <2>5. ASSUME NEW i \in DOMAIN leakZones
        PROVE  leakZones'[i].zone_id = leakZones[i].zone_id
    <3>1. CASE i # e
      <4>1. CASE leakZones' = [leakZones EXCEPT ![e].wet = w, ![e].detected_at = t]
        BY <3>1, <4>1
      <4>2. CASE leakZones' = [leakZones EXCEPT ![e].wet = w]
        BY <3>1, <4>2
      <4>3. QED
        BY <2>1, <4>1, <4>2
    <3>2. CASE i = e
      <4>1. \/ leakZones'[i] = [[leakZones[i] EXCEPT !.wet = w] EXCEPT !.detected_at = t]
            \/ leakZones'[i] = [leakZones[i] EXCEPT !.wet = w]
        BY <2>1, <3>2
      <4>2. PICK a \in E : a = leakZones[i]
        BY <2>3
      <4>3. QED
        BY <2>2, <4>1, <4>2
    <3>3. QED
      BY <3>1, <3>2
  <2>6. QED
    BY <2>4, <2>5
<1>4. QED
  BY <1>2, <1>3 DEF WetReading, DryReading, LeakDetected, NewLeak, AlreadyWet, Unknown,
                    Cleared, AlreadyDry, Wet


LEMMA HeardInit ==
    ASSUME HubInit
    PROVE  HeardInv
<1>1. PICK c \in Configs : c = config
  BY DEF HubInit, Init
<1>2. /\ subscriptions = SubscribedTo(c.keys) /\ leakZones = RegisteredZones(c.water)
      /\ pending = <<>> /\ delivered = {}
  BY <1>1 DEF HubInit, Init, SubscriptionTable, HistoryInit
<1>3. \A i \in DOMAIN leakZones : \E j \in DOMAIN c.water : leakZones[i].zone_id = c.water[j]
  BY <1>2 DEF RegisteredZones, DryZone
<1>4. \A k \in RaisedKeys(pending) : Listed(c, k)
  BY <1>2, NoAlert
<1>5. HeardAlertsAreConfigured
  BY <1>2 DEF HeardAlertsAreConfigured
<1>6. QED
  BY <1>1, <1>2, <1>3, <1>4, <1>5 DEF HeardInv

LEMMA HeardNext ==
    ASSUME MsgIdsApart, WatchpointIdsFit, \A c \in Configs : Complete(c),
           TypeOK, HubInv, HeardInv, [HubNext]_hubVars
    PROVE  HeardInv'
<1>0. /\ config \in Configs /\ Complete(config)
      /\ TempInv(temp, config.temp) /\ AirInv(air, config.air) /\ PowerInv(power, config.power)
      /\ pending \in Seq(Alert)
  BY DEF HubInv
<1>00. /\ config.temp \in Seq(Thresholds) /\ DOMAIN config.temp = 1 .. Len(config.temp)
       /\ config.air \in Seq(AirThresholds) /\ DOMAIN config.air = 1 .. Len(config.air)
       /\ config.power \in Seq(CircuitThresholds) /\ DOMAIN config.power = 1 .. Len(config.power)
  <2>1. /\ config.temp \in Seq(Thresholds) /\ config.air \in Seq(AirThresholds)
        /\ config.power \in Seq(CircuitThresholds)
    BY <1>0, ConfiguredLists
  <2>2. QED
    BY <2>1
\* A reading: the dispatcher is left alone, and what is raised is listed.
<1>a. ASSUME UNCHANGED vars, \A k \in RaisedKeys(pending') : Listed(config, k)
      PROVE  HeardInv'
  <2>1. UNCHANGED <<subscriptions, config, leakZones, delivered>>
    BY <1>a DEF vars, alertingVars, dispatcherVars, historyVars
  <2>2. HeardAlertsAreConfigured'
    BY <2>1 DEF HeardInv, HeardAlertsAreConfigured, MsgId
  <2>3. \A k \in RaisedKeys(pending)' : Listed(config, k)
    BY <1>a DEF RaisedKeys
  <2>4. QED
    BY <2>1, <2>2, <2>3 DEF HeardInv, Listed, SubscribedTo, WithSubscription, MsgId
\* An alert of the home is raised.
<1>b. ASSUME NEW k, Listed(config, k), Raise(k), UNCHANGED <<leakZones, config>>,
             RaisedKeys(pending') \subseteq RaisedKeys(pending)
      PROVE  HeardInv'
  <2>1. HeardAlertsAreConfigured' /\ UNCHANGED subscriptions
    BY <1>0, <1>b, RaiseConfigured
  <2>2. \A x \in RaisedKeys(pending') : Listed(config, x)
    BY <1>b DEF HeardInv
  <2>3. QED
    BY <1>b, <2>1, <2>2 DEF HeardInv
<1>1. ASSUME NEW z \in Zones, NEW v \in Int, TempReading(z, v)
      PROVE  HeardInv'
  <2>1. pending' = TempAlerts(z, v) /\ UNCHANGED vars
    BY <1>1 DEF TempReading
  <2>2. ASSUME NEW k \in RaisedKeys(TempAlerts(z, v))
        PROVE  Listed(config, k)
    <3>1. k \in KeysFor(z, TempTypes)
      BY <1>0, TempAlertKeys
    <3>2. PICK i \in 1 .. Len(config.temp) : config.temp[i].zone_id = z
      BY <1>0, TempZoneConfigured
    <3>3. QED
      BY <1>0, <1>00, <3>1, <3>2 DEF Complete
  <2>3. QED
    BY <1>a, <2>1, <2>2
<1>2. ASSUME NEW z \in Zones, NEW r, AirReading(z, r)
      PROVE  HeardInv'
  <2> DEFINE s == AirAlerts(z, PassedOn(r))
  <2>1. pending' = s /\ UNCHANGED vars
    BY <1>2 DEF AirReading
  <2>2. ASSUME NEW k \in RaisedKeys(s)
        PROVE  Listed(config, k)
    <3>1. k \in KeysFor(z, AirTypes)
      BY <1>0, AirAlertKeys, AirTypesRaised
    <3>2. PICK i \in 1 .. Len(config.air) : config.air[i].zone_id = z
      BY <1>0, <1>00, AirZoneConfigured
    <3>3. QED
      BY <1>0, <1>00, <3>1, <3>2 DEF Complete
  <2>3. QED
    BY <1>a, <2>1, <2>2
<1>3. ASSUME NEW id \in Zones, NEW w \in Nat, PowerReading(id, w)
      PROVE  HeardInv'
  <2>1. pending' = PowerAlerts(id, w) /\ UNCHANGED vars
    BY <1>3 DEF PowerReading
  <2>2. ASSUME NEW k \in RaisedKeys(PowerAlerts(id, w))
        PROVE  Listed(config, k)
    <3>1. k \in KeysFor(id, PowerTypes)
      BY <1>0, PowerAlertKeys
    <3>2. PICK i \in 1 .. Len(config.power) : config.power[i].circuit_id = id
      BY <1>0, PowerCircuitConfigured
    <3>3. QED
      BY <1>0, <1>00, <3>1, <3>2 DEF Complete
  <2>3. QED
    BY <1>a, <2>1, <2>2
<1>4. ASSUME NEW z \in Zones, NEW wet \in BOOLEAN, WaterReading(z, wet)
      PROVE  HeardInv'
  <2>1. (WetReading(z) \/ DryReading(z)) /\ UNCHANGED <<pending, config>>
    BY <1>4 DEF WaterReading, monitorVars, WetReading, LeakDetected, DryReading
  <2>2. /\ DOMAIN leakZones' = DOMAIN leakZones
        /\ \A i \in DOMAIN leakZones : leakZones'[i].zone_id = leakZones[i].zone_id
    BY <2>1, LeakZonesKept
  <2>3. \A i \in DOMAIN leakZones' : \E j \in DOMAIN config.water : leakZones'[i].zone_id = config.water[j]
    BY <2>2 DEF HeardInv
  <2>4. CASE LeakDetected(z)
    <3>1. Raise(LeakKey(z)) /\ Known(z)
      BY <2>4 DEF LeakDetected, NewLeak
    <3>2. PICK i \in DOMAIN leakZones : leakZones[i].zone_id = z
      BY <3>1 DEF Known, EntriesOf
    <3>3. PICK j \in DOMAIN config.water : config.water[j] = z
      BY <3>2 DEF HeardInv
    <3>4. Listed(config, LeakKey(z))
      BY <1>0, <3>3 DEF Complete
    <3>5. HeardAlertsAreConfigured' /\ UNCHANGED subscriptions
      BY <1>0, <2>1, <3>1, <3>4, RaiseConfigured
    <3>6. \A x \in RaisedKeys(pending') : Listed(config, x)
      BY <2>1 DEF HeardInv
    <3>7. QED
      BY <2>1, <2>3, <3>5, <3>6 DEF HeardInv
  <2>5. CASE ~ LeakDetected(z)
    <3>1. UNCHANGED <<subscriptions, delivered>>
      BY <2>1, <2>5 DEF WetReading, DryReading, alertingVars, dispatcherVars, historyVars
    <3>2. HeardAlertsAreConfigured'
      BY <2>1, <3>1 DEF HeardInv, HeardAlertsAreConfigured
    <3>3. \A x \in RaisedKeys(pending') : Listed(config, x)
      BY <2>1 DEF HeardInv
    <3>4. QED
      BY <2>1, <2>3, <3>1, <3>2, <3>3 DEF HeardInv
  <2>6. QED
    BY <2>4, <2>5
<1>5. CASE DispatchPending
  <2>1. /\ pending # <<>> /\ OtherAlert(KeyOfAlert(Head(pending))) /\ pending' = Tail(pending)
    BY <1>5 DEF DispatchPending, Idle, KeyOfAlert
  <2>2. PICK k : k = KeyOfAlert(Head(pending))
    OBVIOUS
  <2>3. RaisedKeys(pending) = {k} \cup RaisedKeys(Tail(pending))
    BY <1>0, <2>1, <2>2, HeadAndTail
  <2>4. Listed(config, k)
    BY <2>3 DEF HeardInv
  <2>5. Raise(k) /\ UNCHANGED <<leakZones, config>>
    BY <2>1, <2>2 DEF OtherAlert
  <2>6. RaisedKeys(pending') \subseteq RaisedKeys(pending)
    BY <2>1, <2>3
  <2>7. QED
    BY <1>b, <2>4, <2>5, <2>6
<1>6. CASE ContactStep
  <2>1. PICK i \in DOMAIN config.contacts :
            \E k \in KeysFor(config.contacts[i].zone_id, ContactTypes) : OtherAlert(k)
    BY <1>6 DEF ContactStep
  <2>2. PICK k \in KeysFor(config.contacts[i].zone_id, ContactTypes) : OtherAlert(k)
    BY <2>1
  <2>3. Listed(config, k)
    BY <1>0, <2>1, <2>2 DEF Complete
  <2>4. Raise(k) /\ UNCHANGED <<leakZones, config, pending>>
    BY <1>6, <2>2 DEF OtherAlert, ContactStep, monitorVars
  <2>5. QED
    BY <1>b, <2>3, <2>4
<1>7. CASE HubTick \/ HubClock
  <2>1. UNCHANGED <<subscriptions, delivered, config, leakZones, pending>>
    BY <1>7 DEF HubTick, Tick, HouseKeeping, ClearExpired, HubClock, Clock, ClockStep,
                historyVars, dispatcherVars, monitorVars
  <2>2. HeardAlertsAreConfigured'
    BY <2>1 DEF HeardInv, HeardAlertsAreConfigured
  <2>3. \A x \in RaisedKeys(pending') : Listed(config, x)
    BY <2>1 DEF HeardInv
  <2>4. QED
    BY <2>1, <2>2, <2>3 DEF HeardInv
<1>8. CASE HubRestart
  <2>1. PICK c \in Configs : c = config'
    BY <1>8 DEF HubRestart, Restart
  <2>2. /\ subscriptions' = SubscribedTo(c.keys) /\ leakZones' = RegisteredZones(c.water)
        /\ pending' = <<>> /\ delivered' = {}
    BY <1>8, <2>1 DEF HubRestart, Restart, SubscriptionTable
  <2>3. \A i \in DOMAIN leakZones' : \E j \in DOMAIN c.water : leakZones'[i].zone_id = c.water[j]
    BY <2>2 DEF RegisteredZones, DryZone
  <2>4. \A k \in RaisedKeys(pending') : Listed(c, k)
    BY <2>2, NoAlert
  <2>5. HeardAlertsAreConfigured'
    BY <2>2 DEF HeardAlertsAreConfigured
  <2>6. QED
    BY <2>1, <2>2, <2>3, <2>4, <2>5 DEF HeardInv
<1>9. CASE UNCHANGED hubVars
  BY <1>9, <1>a DEF hubVars, monitorVars, HeardInv
<1>10. QED
  BY <1>0, <1>1, <1>2, <1>3, <1>4, <1>5, <1>6, <1>7, <1>8, <1>9, HubSteps

\* Whatever the owner hears is an alert of the home's configuration that the
\* subscription table had room for: in homes whose alerts have message ids of
\* their own, for zones whose watchpoint ids neither saturate nor wrap.
THEOREM HeardConfiguredHolds ==
    ASSUME MsgIdsApart, WatchpointIdsFit,
           NEW Z, NEW C, Configs \subseteq {ConfigOf(home) : home \in [zones : Seq(Z), contacts : Seq(C)]}
    PROVE  HubSpec => []HeardAlertsAreConfigured
<1>0. \A c \in Configs : Complete(c)
  BY ConfigOfComplete
<1>1. TypeOK /\ HubInv /\ HeardInv /\ [HubNext]_hubVars => HeardInv'
  BY <1>0, HeardNext
<1>2. HeardInv => HeardAlertsAreConfigured
  BY DEF HeardInv
<1>3. HubInit => HeardInv
  BY HeardInit
<1>4. HubSpec => []TypeOK
  BY HubImplementsLeaks, LeakTypeCorrect, PTL
<1>5. QED
  BY <1>1, <1>2, <1>3, <1>4, HubInvariant, PTL DEF HubSpec


-----------------------------------------------------------------------------
(***************************************************************************)
(* The leak monitor and its two copies.                                    *)
(***************************************************************************)
\* Both copies, started with a list of zones, have the hub's table.
LEMMA SameLeakTable ==
    ASSUME NEW c \in Configs
    PROVE  /\ VerifiedLeak!Started(c.water) = RegisteredZones(c.water)
           /\ LeakComponent!Starts(c.water) = RegisteredZones(c.water)
<1> DEFINE ids == c.water
           n == Len(ids)
           rows == [i \in 1 .. n |-> DryZone(ids[i])]
           Turn(f) == [i \in 0 .. n |->
                          IF i = 0 THEN <<>> ELSE OneMore(f[i - 1], DryZone(ids[i]), MaxLeakZones)]
           after == CHOOSE f : f = Turn(f)
<1>1. ids \in Seq(Zones) /\ n \in Nat /\ DOMAIN ids = 1 .. n /\ MaxLeakZones \in Nat
  BY LeakAlertsAssumption, LeakAssumption
<1>2. VerifiedLeak!Started(ids) = after[n] /\ LeakComponent!Starts(ids) = after[n]
  BY DEF VerifiedLeak!Started, VerifiedLeak!Registered, VerifiedLeak!Dry, LeakComponent!Starts,
         LeakComponent!Registered, LeakComponent!Reset, LeakComponent!Dry, DryZone, OneMore
<1>3. \A i \in 1 .. n : rows[i] = DryZone(ids[i])
  OBVIOUS
<1> HIDE DEF n, ids, rows
<1>4. after = Turn(after)
  <2>1. \E f : f = [i \in 0 .. n |-> IF i = 0 THEN <<>> ELSE OneMore(f[i - 1], rows[i], MaxLeakZones)]
    BY <1>1, TableRuns
  <2>2. \E f : f = Turn(f)
    BY <1>1, <1>3, <2>1
  <2>3. QED
    BY <2>2
<1> HIDE DEF after
<1>5. after[0] = <<>> /\ \A i \in 1 .. n : after[i] = OneMore(after[i - 1], rows[i], MaxLeakZones)
  BY <1>1, <1>3, <1>4
<1>6. after[n] = Filled(rows, n, MaxLeakZones)
  BY <1>1, <1>5, TableFills
<1>7. Filled(rows, n, MaxLeakZones) = RegisteredZones(ids)
  BY <1>1, <1>3 DEF Filled, RegisteredZones
<1>8. QED
  BY <1>2, <1>6, <1>7 DEF ids

\* The first entry of a zone is none's but the first.
LEMMA FirstEntry ==
    ASSUME leakZones \in Seq(Entry), NEW z, Known(z)
    PROVE  /\ EntryOf(z) \in DOMAIN leakZones
           /\ LeakComponent!IsFirst(EntryOf(z), z)
           /\ VerifiedLeak!Matching(z) # {} /\ VerifiedLeak!First(z) = EntryOf(z)
<1> DEFINE e == EntryOf(z)
<1>1. DOMAIN leakZones = 1 .. Len(leakZones) /\ EntriesOf(z) \subseteq Nat
  BY DEF EntriesOf
<1>2. PICK i \in EntriesOf(z) : \A j \in EntriesOf(z) : i <= j
  BY <1>1, LeastOf DEF Known
<1>3. e \in EntriesOf(z) /\ \A j \in EntriesOf(z) : e <= j
  BY <1>2 DEF EntryOf
<1> HIDE DEF e
<1>4. e \in 1 .. Len(leakZones) /\ leakZones[e].zone_id = z
  BY <1>1, <1>3 DEF EntriesOf
<1>5. ASSUME NEW j \in 1 .. e - 1
      PROVE  leakZones[j].zone_id # z
  <2>1. j \in DOMAIN leakZones /\ ~ (e <= j)
    BY <1>1, <1>4
  <2>2. j \notin EntriesOf(z)
    BY <1>3, <2>1
  <2>3. QED
    BY <2>1, <2>2 DEF EntriesOf
<1>6. VerifiedLeak!Matching(z) = EntriesOf(z)
  BY DEF VerifiedLeak!Matching, EntriesOf
<1>7. VerifiedLeak!First(z) = EntryOf(z)
  BY <1>6 DEF VerifiedLeak!First, EntryOf
<1>8. QED
  BY <1>1, <1>4, <1>5, <1>6, <1>7 DEF LeakComponent!IsFirst, Known, e

LEMMA ReadingAsCopies ==
    ASSUME leakZones \in Seq(Entry), NEW z \in Zones, UNCHANGED now
    PROVE  /\ NewLeak(z, now) => VerifiedLeak!ProcessEvent(z, TRUE) /\ LeakComponent!WetReading(z)
           /\ Cleared(z) => VerifiedLeak!ProcessEvent(z, FALSE) /\ LeakComponent!DryReading(z)
<1> DEFINE e == EntryOf(z)
<1>1. CASE Known(z)
  <2>1. /\ e \in DOMAIN leakZones /\ LeakComponent!IsFirst(e, z)
        /\ VerifiedLeak!Matching(z) # {} /\ VerifiedLeak!First(z) = e
    BY <1>1, FirstEntry
  <2>2. Wet(z) <=> leakZones[e].wet
    BY <1>1 DEF Wet
  <2> HIDE DEF e
  <2>3. leakZones[e] \in Entry
    BY <2>1
  <2>4. \A r \in Entry : [r EXCEPT !.wet = FALSE, !.detected_at = r.detected_at]
                            = [r EXCEPT !.wet = FALSE]
    BY DEF Entry
  <2>5. CASE NewLeak(z, now)
    <3>1. ~ leakZones[e].wet
          /\ leakZones' = [leakZones EXCEPT ![e].wet = TRUE, ![e].detected_at = now]
      BY <2>2, <2>5 DEF NewLeak, e
    <3>3. VerifiedLeak!ProcessEvent(z, TRUE)
      BY <2>1, <3>1 DEF VerifiedLeak!ProcessEvent
    <3>4. LeakComponent!WetReading(z)
      BY <2>1, <3>1 DEF LeakComponent!WetReading
    <3>5. QED
      BY <2>2, <2>5, <3>3, <3>4 DEF NewLeak, Cleared
  <2>6. CASE Cleared(z)
    <3>1. leakZones[e].wet /\ leakZones' = [leakZones EXCEPT ![e].wet = FALSE]
      BY <2>2, <2>6 DEF Cleared, e
    <3>2. leakZones' = [leakZones EXCEPT
                           ![e].wet = FALSE, ![e].detected_at = leakZones[e].detected_at]
      BY <2>1, <2>3, <2>4, <3>1
    <3>3. VerifiedLeak!ProcessEvent(z, FALSE)
      BY <2>1, <3>2 DEF VerifiedLeak!ProcessEvent
    <3>4. LeakComponent!DryReading(z)
      BY <2>1, <3>1 DEF LeakComponent!DryReading
    <3>5. QED
      BY <2>2, <2>6, <3>3, <3>4 DEF NewLeak, Cleared
  <2>7. QED
    BY <2>5, <2>6
<1>2. CASE ~ Known(z)
  BY <1>2 DEF NewLeak, Cleared, Wet
<1>3. QED
  BY <1>1, <1>2

LEMMA RaiseKeepsTime ==
    ASSUME NEW k, Raise(k)
    PROVE  UNCHANGED now
BY DEF Raise, RaiseUnsubscribed, NotSubscribed, RaiseDuplicate, Deduplicated, RaiseOverBudget,
       RateLimited, RaiseSent, Send

LEMMA LeakCopiesStep ==
    ASSUME TypeOK, [Next]_vars
    PROVE  /\ [VerifiedLeak!Next]_<<leakZones, now>>
           /\ [LeakComponent!Next]_<<leakZones, now>>
<1>0. leakZones \in Seq(Entry) /\ now \in Time
  BY DEF TypeOK, AlertingTypeOK, Entry
<1>1. ASSUME NEW z \in Zones, WetReading(z) \/ DryReading(z)
      PROVE  /\ VerifiedLeak!Next \/ UNCHANGED <<leakZones, now>>
             /\ LeakComponent!Next \/ UNCHANGED <<leakZones, now>>
  <2>1. UNCHANGED now
    BY <1>1, RaiseKeepsTime DEF WetReading, DryReading, LeakDetected, alertingVars, historyVars
  <2>2. NewLeak(z, now) \/ Cleared(z) \/ UNCHANGED leakZones
    BY <1>1 DEF WetReading, DryReading, LeakDetected, AlreadyWet, AlreadyDry, Unknown
  <2>3. CASE NewLeak(z, now)
    <3>1. VerifiedLeak!ProcessEvent(z, TRUE) /\ LeakComponent!WetReading(z)
      BY <1>0, <2>1, <2>3, ReadingAsCopies
    <3>2. QED
      BY <3>1 DEF VerifiedLeak!Next, LeakComponent!Next
  <2>4. CASE Cleared(z)
    <3>1. VerifiedLeak!ProcessEvent(z, FALSE) /\ LeakComponent!DryReading(z)
      BY <1>0, <2>1, <2>4, ReadingAsCopies
    <3>2. QED
      BY <3>1 DEF VerifiedLeak!Next, LeakComponent!Next
  <2>5. QED
    BY <2>1, <2>2, <2>3, <2>4
<1>2. ASSUME NEW k \in Key, OtherAlert(k)
      PROVE  UNCHANGED <<leakZones, now>>
  BY <1>2, RaiseKeepsTime DEF OtherAlert
<1>3. ASSUME Tick
      PROVE  UNCHANGED <<leakZones, now>>
  BY <1>3 DEF Tick, HouseKeeping, historyVars
<1>4. CASE Clock
  <2>1. now' \in Time /\ UNCHANGED leakZones
    BY <1>4 DEF Clock, ClockStep
  <2>2. QED
    BY <2>1 DEF VerifiedLeak!Next, VerifiedLeak!ClockMoves, LeakComponent!Next,
                LeakComponent!ClockMoves
<1>5. CASE Restart
  <2>1. PICK c \in Configs : c = config'
    BY <1>5 DEF Restart
  <2>2. leakZones' = RegisteredZones(c.water) /\ UNCHANGED now /\ c.water \in WaterLists
    BY <1>5, <2>1 DEF Restart, WaterLists
  <2>3. VerifiedLeak!Start /\ LeakComponent!Start
    BY <2>2, SameLeakTable DEF VerifiedLeak!Start, LeakComponent!Start
  <2>4. QED
    BY <2>3 DEF VerifiedLeak!Next, LeakComponent!Next
<1>6. CASE UNCHANGED vars
  BY <1>6 DEF vars, alertingVars, historyVars
<1>7. QED
  BY <1>1, <1>2, <1>3, <1>4, <1>5, <1>6 DEF Next

\* Through its five answers the hub's leak monitor keeps the state the verified
\* one keeps, and the component, whatever the zones it is started with.
THEOREM HubLeakAsVerified == HubSpec => LeakAsVerified
<1>1. HubInit => VerifiedLeak!Init
  <2> SUFFICES ASSUME HubInit PROVE VerifiedLeak!Init
    OBVIOUS
  <2>1. config \in Configs /\ leakZones = RegisteredZones(config.water) /\ now \in Time
    BY DEF HubInit, Init, HistoryInit
  <2>2. QED
    BY <2>1, SameLeakTable DEF VerifiedLeak!Init, WaterLists
<1>2. TypeOK /\ [Next]_vars => [VerifiedLeak!Next]_<<leakZones, now>>
  BY LeakCopiesStep
<1>3. QED
  BY <1>1, <1>2, HubImplementsLeaks, LeakTypeCorrect, PTL
     DEF HubSpec, Spec, LeakAsVerified, VerifiedLeak!Spec

THEOREM HubLeakAsComponent == HubSpec => LeakAsComponent
<1>1. HubInit => LeakComponent!Init
  <2> SUFFICES ASSUME HubInit PROVE LeakComponent!Init
    OBVIOUS
  <2>1. config \in Configs /\ leakZones = RegisteredZones(config.water) /\ now \in Time
    BY DEF HubInit, Init, HistoryInit
  <2>2. QED
    BY <2>1, SameLeakTable DEF LeakComponent!Init, WaterLists
<1>2. TypeOK /\ [Next]_vars => [LeakComponent!Next]_<<leakZones, now>>
  BY LeakCopiesStep
<1>3. QED
  BY <1>1, <1>2, HubImplementsLeaks, LeakTypeCorrect, PTL
     DEF HubSpec, Spec, LeakAsComponent, LeakComponent!Spec


-----------------------------------------------------------------------------
(***************************************************************************)
(* The other monitors and their copies.  The alerts in hand are always of  *)
(* one monitor; Part is what the copies of a monitor see of them.          *)
(***************************************************************************)
AllOf(s, types) == \A i \in 1 .. Len(s) : s[i].type \in types

Kinds == {TempTypes, AirTypes, PowerTypes}

Single(s) == \E types \in Kinds : AllOf(s, types)

Part(s, types) == IF s # <<>> /\ Head(s).type \in types THEN s ELSE <<>>

LEMMA KindsApart ==
    ASSUME NEW a \in Kinds, NEW b \in Kinds, a # b
    PROVE  a \cap b = {}
<1>1. AirTypes \cap (TempTypes \cup PowerTypes) = {}
  <2>1. \A i \in 1 .. 6 : AirAlertTypes[i] \notin TempTypes \cup PowerTypes
    BY DEF AirAlertTypes, TempTypes, PowerTypes
  <2>2. QED
    BY <2>1 DEF AirTypes
<1>2. TempTypes \cap PowerTypes = {}
  BY DEF TempTypes, PowerTypes
<1>3. QED
  BY <1>1, <1>2 DEF Kinds

LEMMA PartOfKind ==
    ASSUME NEW s \in Seq(Alert), NEW a \in Kinds, NEW types \in Kinds, AllOf(s, a)
    PROVE  Part(s, types) = IF a = types THEN s ELSE <<>>
<1>1. CASE s = <<>>
  BY <1>1 DEF Part
<1>2. CASE s # <<>>
  <2>1. Head(s).type \in a
    <3>1. 1 \in 1 .. Len(s) /\ Head(s) = s[1]
      BY <1>2
    <3>2. QED
      BY <3>1 DEF AllOf
  <2>2. QED
    BY <1>2, <2>1, KindsApart DEF Part
<1>3. QED
  BY <1>1, <1>2

LEMMA TailOfKind ==
    ASSUME NEW s \in Seq(Alert), s # <<>>, NEW types, AllOf(s, types)
    PROVE  Tail(s) \in Seq(Alert) /\ AllOf(Tail(s), types)
<1>1. /\ Tail(s) \in Seq(Alert) /\ Len(s) \in Nat /\ Len(Tail(s)) = Len(s) - 1
      /\ \A i \in 1 .. Len(Tail(s)) : Tail(s)[i] = s[i + 1]
  OBVIOUS
<1>2. \A i \in 1 .. Len(Tail(s)) : i + 1 \in 1 .. Len(s)
  BY <1>1
<1>3. QED
  BY <1>1, <1>2 DEF AllOf

LEMMA KindOfKeys ==
    ASSUME NEW s \in Seq(Alert), NEW z, NEW types, RaisedKeys(s) \subseteq KeysFor(z, types)
    PROVE  AllOf(s, types)
<1> SUFFICES ASSUME NEW i \in 1 .. Len(s) PROVE s[i].type \in types
  BY DEF AllOf
<1>1. KeyOfAlert(s[i]) \in KeysFor(z, types)
  BY DEF RaisedKeys
<1>2. PICK type \in types : KeyOfAlert(s[i]) = [zone |-> z, type |-> type]
  BY <1>1 DEF KeysFor
<1>3. KeyOfAlert(s[i]).type = s[i].type
  BY DEF KeyOfAlert
<1>4. QED
  BY <1>2, <1>3

PassedOnce == AirReadings \cup {PacketAir(p) : p \in PacketsOf("co2")}

\* The steps of the hub as its monitors see them.
LEMMA MonitorSteps ==
    ASSUME HubInv, [HubNext]_hubVars
    PROVE  \/ \E z \in Zones, v \in Temperatures : TempReading(z, v)
           \/ \E z \in Zones, r \in PassedOnce : AirReading(z, r)
           \/ \E id \in Zones, w \in AllWatts : PowerReading(id, w)
           \/ DispatchPending
           \/ HubRestart
           \/ now' \in Time /\ UNCHANGED <<temp, air, power, pending>>
<1>0. now \in Time
  BY DEF HubInv
<1> DEFINE Aside == now' \in Time /\ UNCHANGED <<temp, air, power, pending>>
<1>1. ASSUME NEW z, NEW wet, WaterReading(z, wet)
      PROVE  Aside
  <2>1. UNCHANGED now
    BY <1>1, RaiseKeepsTime
       DEF WaterReading, WetReading, DryReading, LeakDetected, alertingVars, historyVars
  <2>2. QED
    BY <1>0, <1>1, <2>1 DEF WaterReading, monitorVars
<1>2. ASSUME NEW c, ContactAlert(c)
      PROVE  Aside
  <2>1. UNCHANGED now
    BY <1>2, RaiseKeepsTime DEF ContactAlert, OtherAlert
  <2>2. QED
    BY <1>0, <1>2, <2>1 DEF ContactAlert, monitorVars
<1>3. ASSUME NEW p \in Packets, Packet(p)
      PROVE  \/ \E z \in Zones, v \in Temperatures : TempReading(z, v)
             \/ \E z \in Zones, r \in PassedOnce : AirReading(z, r)
             \/ \E id \in Zones, w \in AllWatts : PowerReading(id, w)
             \/ Aside
  <2>1. p.zone_id \in Zones /\ p.device_id \in Zones
    BY HubAssumption
  <2>2. CASE p.sensor_type = "temp" /\ TempReading(p.zone_id, p.value)
    BY <2>1, <2>2 DEF Temperatures, PacketsOf
  <2>3. CASE p.sensor_type = "co2" /\ AirReading(p.zone_id, PacketAir(p))
    BY <2>1, <2>3 DEF PassedOnce, PacketsOf
  <2>4. CASE p.sensor_type = "power" /\ PowerReading(p.device_id, PacketWatts(p))
    BY <2>1, <2>4 DEF AllWatts, PacketsOf
  <2>5. CASE WaterReading(p.zone_id, p.value # 0)
    BY <1>1, <2>5
  <2>6. CASE \E c \in ToSet(config.contacts) : c.contact_id = p.device_id /\ ContactAlert(c)
    BY <1>2, <2>6
  <2>7. QED
    BY <1>3, <2>2, <2>3, <2>4, <2>5, <2>6 DEF Packet
<1>4. CASE HubTick \/ HubClock
  <2>1. now' \in Time
    BY <1>0, <1>4, SmallSteps DEF HubTick, Tick, HubClock, Clock
  <2>2. QED
    BY <1>4, <2>1 DEF HubTick, HubClock, monitorVars
<1>5. CASE UNCHANGED hubVars
  BY <1>0, <1>5 DEF hubVars, monitorVars, vars, alertingVars, historyVars
<1>6. ASSUME NEW z \in Zones, NEW v \in TempValues, TempReading(z, v)
      PROVE  \E y \in Zones, u \in Temperatures : TempReading(y, u)
  BY <1>6 DEF Temperatures
<1>7. ASSUME NEW z \in Zones, NEW r \in AirReadings, AirReading(z, r)
      PROVE  \E y \in Zones, s \in PassedOnce : AirReading(y, s)
  BY <1>7 DEF PassedOnce
<1>8. ASSUME NEW id \in Zones, NEW w \in Watts, PowerReading(id, w)
      PROVE  \E y \in Zones, u \in AllWatts : PowerReading(y, u)
  BY <1>8 DEF AllWatts
<1> HIDE DEF Aside
<1>9. ASSUME NEW z \in Zones,
             \/ \E v \in TempValues : TempReading(z, v)
             \/ \E r \in AirReadings : AirReading(z, r)
             \/ \E w \in Watts : PowerReading(z, w)
             \/ \E wet \in BOOLEAN : WaterReading(z, wet)
      PROVE  \/ \E y \in Zones, v \in Temperatures : TempReading(y, v)
             \/ \E y \in Zones, r \in PassedOnce : AirReading(y, r)
             \/ \E id \in Zones, w \in AllWatts : PowerReading(id, w)
             \/ Aside
  <2>1. CASE \E v \in TempValues : TempReading(z, v)
    BY <1>6, <2>1
  <2>2. CASE \E r \in AirReadings : AirReading(z, r)
    BY <1>7, <2>2
  <2>3. CASE \E w \in Watts : PowerReading(z, w)
    BY <1>8, <2>3
  <2>4. CASE \E wet \in BOOLEAN : WaterReading(z, wet)
    BY <1>1, <2>4
  <2>5. QED
    BY <1>9, <2>1, <2>2, <2>3, <2>4
<1>10. CASE HubTick \/ HubClock \/ UNCHANGED hubVars \/ \E c \in ToSet(config.contacts) : ContactAlert(c)
  BY <1>2, <1>4, <1>5, <1>10 DEF Aside
<1>11. CASE DispatchPending \/ HubRestart
  BY <1>11
<1>12. CASE \E p \in Packets : Packet(p)
  BY <1>3, <1>12 DEF Aside
<1>13. CASE \E z \in Zones :
                \/ \E v \in TempValues : TempReading(z, v)
                \/ \E r \in AirReadings : AirReading(z, r)
                \/ \E w \in Watts : PowerReading(z, w)
                \/ \E wet \in BOOLEAN : WaterReading(z, wet)
  BY <1>9, <1>13 DEF Aside
<1>14. QED
  BY <1>10, <1>11, <1>12, <1>13 DEF HubNext

LEMMA WattsAreNat ==
    ASSUME NEW w \in AllWatts
    PROVE  w \in Nat
<1>1. CASE w \in Watts
  BY <1>1, HubAssumption
<1>2. ASSUME NEW p \in PacketsOf("power"), w = PacketWatts(p)
      PROVE  w \in Nat
  <2>1. p.value \in Int
    BY HubAssumption DEF PacketsOf
  <2>2. NonNegative(p.value) \in Nat
    BY <2>1 DEF NonNegative
  <2>3. QED
    BY <1>2, <2>2 DEF PacketWatts
<1>3. QED
  BY <1>1, <1>2 DEF AllWatts

\* What a reading leaves in hand is all of its monitor.
LEMMA TempKind ==
    ASSUME HubInv, NEW z \in Zones, NEW v \in Temperatures, TempReading(z, v)
    PROVE  AllOf(pending', TempTypes)
<1>1. v \in Int
  BY HubAssumption DEF Temperatures, PacketsOf
<1>2. TempAlerts(z, v) \in Seq(Alert) /\ RaisedKeys(TempAlerts(z, v)) \subseteq KeysFor(z, TempTypes)
  BY <1>1, TempAlertKeys DEF HubInv
<1>3. AllOf(TempAlerts(z, v), TempTypes)
  BY <1>2, KindOfKeys
<1>4. QED
  BY <1>3 DEF TempReading

LEMMA AirKind ==
    ASSUME HubInv, NEW z \in Zones, NEW r, AirReading(z, r)
    PROVE  AllOf(pending', AirTypes)
<1> DEFINE s == AirAlerts(z, PassedOn(r))
<1>1. AirRaises(s, 6, z, PassedOn(r))
  BY AirAlertKeys DEF HubInv
<1>2. s \in Seq(Alert)
  BY <1>1 DEF AirRaises
<1>3. RaisedKeys(s) \subseteq KeysFor(z, AirTypes)
  BY <1>1, AirTypesRaised
<1> HIDE DEF s
<1>4. AllOf(s, AirTypes)
  BY <1>2, <1>3, KindOfKeys
<1>5. QED
  BY <1>4 DEF AirReading, s

LEMMA PowerKind ==
    ASSUME HubInv, NEW id \in Zones, NEW w \in AllWatts, PowerReading(id, w)
    PROVE  AllOf(pending', PowerTypes)
<1>1. w \in Nat
  BY WattsAreNat
<1>2. PowerAlerts(id, w) \in Seq(Alert)
      /\ RaisedKeys(PowerAlerts(id, w)) \subseteq KeysFor(id, PowerTypes)
  BY <1>1, PowerAlertKeys DEF HubInv
<1>3. AllOf(PowerAlerts(id, w), PowerTypes)
  BY <1>2, KindOfKeys
<1>4. QED
  BY <1>3 DEF PowerReading

\* The alerts in hand remain those of one monitor.
LEMMA SingleNext ==
    ASSUME HubInv, Single(pending), [HubNext]_hubVars
    PROVE  Single(pending')
<1>1. ASSUME NEW types \in Kinds, AllOf(pending', types)
      PROVE  Single(pending')
  BY <1>1 DEF Single
<1>2. TempTypes \in Kinds /\ AirTypes \in Kinds /\ PowerTypes \in Kinds
  BY DEF Kinds
<1>3. CASE \E z \in Zones, v \in Temperatures : TempReading(z, v)
  BY <1>1, <1>2, <1>3, TempKind
<1>4. CASE \E z \in Zones, r \in PassedOnce : AirReading(z, r)
  BY <1>1, <1>2, <1>4, AirKind
<1>5. CASE \E id \in Zones, w \in AllWatts : PowerReading(id, w)
  BY <1>1, <1>2, <1>5, PowerKind
<1>6. CASE DispatchPending
  <2>1. pending # <<>> /\ pending' = Tail(pending) /\ pending \in Seq(Alert)
    BY <1>6 DEF DispatchPending, Idle, HubInv
  <2>2. QED
    BY <2>1, TailOfKind DEF Single
<1>7. CASE HubRestart
  <2>1. pending' = <<>>
    BY <1>7 DEF HubRestart
  <2>2. AllOf(<<>>, TempTypes)
    BY DEF AllOf
  <2>3. QED
    BY <1>1, <1>2, <2>1, <2>2
<1>8. CASE UNCHANGED pending
  BY <1>8
<1>9. QED
  BY <1>3, <1>4, <1>5, <1>6, <1>7, <1>8, MonitorSteps

\* The steps of the hub as one monitor's copies see them.
LEMMA PartSteps ==
    ASSUME HubInv, Single(pending), [HubNext]_hubVars, NEW types \in Kinds
    PROVE  \/ /\ types = TempTypes /\ UNCHANGED now /\ pending = <<>>
              /\ \E z \in Zones, v \in Temperatures :
                    TempReading(z, v) /\ Part(pending', types) = TempAlerts(z, v)
           \/ /\ types = AirTypes /\ UNCHANGED now /\ pending = <<>>
              /\ \E z \in Zones, r \in PassedOnce :
                    AirReading(z, r) /\ Part(pending', types) = AirAlerts(z, PassedOn(r))
           \/ /\ types = PowerTypes /\ UNCHANGED now /\ pending = <<>>
              /\ \E id \in Zones, w \in AllWatts :
                    PowerReading(id, w) /\ Part(pending', types) = PowerAlerts(id, w)
           \/ /\ Part(pending, types) # <<>> /\ Part(pending', types) = Tail(Part(pending, types))
              /\ UNCHANGED <<temp, air, power, now>>
           \/ HubRestart /\ UNCHANGED now /\ Part(pending', types) = <<>>
           \/ /\ now' \in Time /\ Part(pending', types) = Part(pending, types)
              /\ types = TempTypes => UNCHANGED temp
              /\ types = AirTypes => UNCHANGED air
              /\ types = PowerTypes => UNCHANGED power
<1>0. now \in Time /\ pending \in Seq(Alert) /\ pending' \in Seq(Alert)
  BY HubInvNext DEF HubInv
<1>a. /\ TempTypes \in Kinds /\ AirTypes \in Kinds /\ PowerTypes \in Kinds
      /\ TempTypes # AirTypes /\ TempTypes # PowerTypes /\ AirTypes # PowerTypes
  <2>1. \A i \in 1 .. 6 : AirAlertTypes[i] \in AirTypes
    BY DEF AirTypes
  <2>2. "co2_warning" \in AirTypes
    BY <2>1 DEF AirAlertTypes
  <2>3. QED
    BY <2>2 DEF Kinds, TempTypes, PowerTypes
<1>b. Part(<<>>, types) = <<>>
  BY DEF Part
<1>1. CASE \E z \in Zones, v \in Temperatures : TempReading(z, v)
  <2>1. PICK z \in Zones, v \in Temperatures : TempReading(z, v)
    BY <1>1
  <2>2. /\ pending = <<>> /\ UNCHANGED <<now, air, power>> /\ pending' = TempAlerts(z, v)
    BY <2>1 DEF TempReading, Idle, vars, alertingVars, historyVars
  <2>3. Part(pending', types) = IF TempTypes = types THEN pending' ELSE <<>>
    BY <1>0, <1>a, <2>1, TempKind, PartOfKind
  <2>4. QED
    BY <1>0, <1>a, <1>b, <2>1, <2>2, <2>3
<1>2. CASE \E z \in Zones, r \in PassedOnce : AirReading(z, r)
  <2>1. PICK z \in Zones, r \in PassedOnce : AirReading(z, r)
    BY <1>2
  <2>2. /\ pending = <<>> /\ UNCHANGED <<now, temp, air, power>>
        /\ pending' = AirAlerts(z, PassedOn(r))
    BY <2>1 DEF AirReading, Idle, vars, alertingVars, historyVars
  <2>3. Part(pending', types) = IF AirTypes = types THEN pending' ELSE <<>>
    BY <1>0, <1>a, <2>1, AirKind, PartOfKind
  <2>4. QED
    BY <1>0, <1>a, <1>b, <2>1, <2>2, <2>3
<1>3. CASE \E id \in Zones, w \in AllWatts : PowerReading(id, w)
  <2>1. PICK id \in Zones, w \in AllWatts : PowerReading(id, w)
    BY <1>3
  <2>2. /\ pending = <<>> /\ UNCHANGED <<now, temp, air>> /\ pending' = PowerAlerts(id, w)
    BY <2>1 DEF PowerReading, Idle, vars, alertingVars, historyVars
  <2>3. Part(pending', types) = IF PowerTypes = types THEN pending' ELSE <<>>
    BY <1>0, <1>a, <2>1, PowerKind, PartOfKind
  <2>4. QED
    BY <1>0, <1>a, <1>b, <2>1, <2>2, <2>3
<1>4. CASE DispatchPending
  <2>1. /\ pending # <<>> /\ pending' = Tail(pending) /\ UNCHANGED <<temp, air, power>>
        /\ OtherAlert([zone |-> Head(pending).zone, type |-> Head(pending).type])
    BY <1>4 DEF DispatchPending, Idle
  <2>2. UNCHANGED now
    BY <2>1, RaiseKeepsTime DEF OtherAlert
  <2>3. PICK a \in Kinds : AllOf(pending, a)
    BY DEF Single
  <2>4. AllOf(pending', a)
    BY <1>0, <2>1, <2>3, TailOfKind
  <2>5. /\ Part(pending, types) = IF a = types THEN pending ELSE <<>>
        /\ Part(pending', types) = IF a = types THEN pending' ELSE <<>>
    BY <1>0, <2>3, <2>4, PartOfKind
  <2>6. QED
    BY <1>0, <2>1, <2>2, <2>5
<1>5. CASE HubRestart
  <2>1. pending' = <<>> /\ UNCHANGED now
    BY <1>5 DEF HubRestart, Restart
  <2>2. QED
    BY <1>5, <1>b, <2>1
<1>6. CASE now' \in Time /\ UNCHANGED <<temp, air, power, pending>>
  BY <1>6
<1>7. QED
  BY <1>1, <1>2, <1>3, <1>4, <1>5, <1>6, MonitorSteps

-----------------------------------------------------------------------------
(***************************************************************************)
(* The power meter and its two copies.                                     *)
(***************************************************************************)
LEMMA RaisedIsPart ==
    ASSUME NEW types
    PROVE  /\ Raised(types) = Part(pending, types)
           /\ Raised(types)' = Part(pending', types')
  BY DEF Raised, Part

\* The component, started with a list of circuits, has the hub's table.
LEMMA SamePowerComponent ==
    ASSUME NEW cs
    PROVE  PowerComponent!Starts(cs) = PowerWith(cs)
  BY DEF PowerComponent!Starts, PowerComponent!Registered, PowerComponent!Reset,
         PowerComponent!Circuit, PowerComponent!RelayLc!AddWatchpoint,
         PowerComponent!RelayLc!Watchpoint, PowerWith, RegisterPower, NewPower, Circuit,
         AddWatchpoint, Watchpoint

LEMMA PowerReadingAsComponent ==
    ASSUME HubInv, NEW id \in Zones, NEW w \in AllWatts, PowerReading(id, w), UNCHANGED now,
           Raised(PowerTypes) = <<>>, Raised(PowerTypes)' = PowerAlerts(id, w)
    PROVE  PowerComponent!ProcessReading(id, w)
<1> DEFINE over == AlertOnViolation(power.limits, id, w, id, "overconsumption")
           e == CircuitEntry(id)
<1>1. PowerComponent!Matching(id) = CircuitEntries(id) /\ PowerComponent!First(id) = e
  BY DEF PowerComponent!First, PowerComponent!Matching, CircuitEntry, CircuitEntries
<1>2. PowerComponent!Consumption(id, w) = over
  BY DEF PowerComponent!Consumption, PowerComponent!RelayLc!AlertOnViolation,
         PowerComponent!RelayLc!Evaluate, PowerComponent!RelayLc!Violated,
         PowerComponent!RelayLc!Compare, PowerComponent!RelayLc!Cardinality,
         AlertOnViolation, Evaluate, Violated, Compare, Cardinality
<1>3. over \in Seq(Alert)
  <2>1. power.limits \in Seq(Limit)
    BY DEF HubInv, PowerInv
  <2>2. "overconsumption" \in AlertTypes
    BY HubAssumption DEF PowerTypes
  <2> HIDE DEF over
  <2>3. QED
    BY <2>1, <2>2, ViolationKeys DEF over
<1>4. KeepWatts(id, w, now) /\ PowerAlerts(id, w) = over \o SpikeAlerts(id, w)
  BY DEF PowerReading, PowerAlerts
<1> HIDE DEF over, e
<1>5. CASE CircuitEntries(id) = {}
  <2>1. power' = power /\ PowerAlerts(id, w) = over
    BY <1>3, <1>4, <1>5 DEF KeepWatts, SpikeAlerts
  <2>2. QED
    BY <1>1, <1>2, <1>5, <2>1 DEF PowerComponent!ProcessReading
<1>6. CASE CircuitEntries(id) # {}
  <2>1. e \in 1 .. Len(power.circuits) /\ power.circuits[e] \in CircuitState /\ w \in Nat
    BY <1>6, CircuitEntryFound, WattsAreNat DEF e, HubInv
  <2>2. PowerComponent!Spike(power.circuits[e], id, w) = SpikeAlerts(id, w)
    <3>1. w \in Int /\ power.circuits[e].last_watts \in Int
      BY <2>1 DEF CircuitState
    <3>2. AbsDiff(w, power.circuits[e].last_watts)
              = IF w > power.circuits[e].last_watts THEN w - power.circuits[e].last_watts
                ELSE power.circuits[e].last_watts - w
      BY DEF AbsDiff
    <3>3. QED
      BY <1>6, <3>2 DEF PowerComponent!Spike, SpikeAlerts, PowerAlert, e
  <2>3. power' = [power EXCEPT !.circuits[e].last_watts = w, !.circuits[e].last_time = now]
    BY <1>4, <1>6 DEF KeepWatts, e
  <2>4. QED
    BY <1>1, <1>2, <1>4, <1>6, <2>2, <2>3 DEF PowerComponent!ProcessReading
<1>7. QED
  BY <1>5, <1>6

LEMMA PowerComponentStep ==
    ASSUME HubInv, Single(pending), [HubNext]_hubVars
    PROVE  [PowerComponent!Next]_<<power, Raised(PowerTypes), now>>
<1>0. PowerTypes \in Kinds /\ PowerTypes # TempTypes /\ PowerTypes # AirTypes
  <2>1. \A i \in 1 .. 6 : AirAlertTypes[i] # "power_spike"
    BY DEF AirAlertTypes
  <2>2. QED
    BY <2>1 DEF Kinds, TempTypes, AirTypes, PowerTypes
<1>1. /\ Raised(PowerTypes) = Part(pending, PowerTypes)
      /\ Raised(PowerTypes)' = Part(pending', PowerTypes)
  BY RaisedIsPart DEF PowerTypes
<1>2. CASE /\ UNCHANGED now /\ pending = <<>>
           /\ \E id \in Zones, w \in AllWatts :
                 PowerReading(id, w) /\ Part(pending', PowerTypes) = PowerAlerts(id, w)
  <2>1. PICK id \in Zones, w \in AllWatts :
            PowerReading(id, w) /\ Part(pending', PowerTypes) = PowerAlerts(id, w)
    BY <1>2
  <2>2. Raised(PowerTypes) = <<>> /\ Raised(PowerTypes)' = PowerAlerts(id, w)
    BY <1>1, <1>2, <2>1 DEF Part
  <2>3. PowerComponent!ProcessReading(id, w)
    BY <1>2, <2>1, <2>2, PowerReadingAsComponent
  <2>4. QED
    BY <2>3 DEF PowerComponent!Next
<1>3. CASE /\ Part(pending, PowerTypes) # <<>>
           /\ Part(pending', PowerTypes) = Tail(Part(pending, PowerTypes))
           /\ UNCHANGED <<temp, air, power, now>>
  BY <1>1, <1>3 DEF PowerComponent!Next, PowerComponent!TakeAlert
<1>4. CASE HubRestart /\ UNCHANGED now /\ Part(pending', PowerTypes) = <<>>
  <2>1. config' \in Configs /\ power' = PowerWith(config'.power)
    BY <1>4 DEF HubRestart, Restart
  <2>2. PICK c \in Configs : c = config'
    BY <2>1
  <2>3. c.power \in PowerLists /\ power' = PowerComponent!Starts(c.power)
    BY <2>1, <2>2, SamePowerComponent DEF PowerLists
  <2>4. PowerComponent!Start
    BY <1>1, <1>4, <2>3 DEF PowerComponent!Start
  <2>5. QED
    BY <2>4 DEF PowerComponent!Next
<1>5. CASE /\ now' \in Time /\ Part(pending', PowerTypes) = Part(pending, PowerTypes)
           /\ UNCHANGED power
  BY <1>1, <1>5 DEF PowerComponent!Next, PowerComponent!ClockMoves
<1>6. QED
  BY <1>0, <1>2, <1>3, <1>4, <1>5, PartSteps

\* Whatever the circuits, listed once or often and with room or without, the hub's
\* meter keeps the component's table and raises its alerts in its order.
THEOREM HubPowerAsComponent == HubSpec => PowerAsComponent
<1>1. HubInit => HubInv /\ Single(pending) /\ PowerComponent!Init
  <2> SUFFICES ASSUME HubInit PROVE HubInv /\ Single(pending) /\ PowerComponent!Init
    OBVIOUS
  <2>1. /\ config \in Configs /\ power = PowerWith(config.power) /\ now \in Time
        /\ pending = <<>>
    BY DEF HubInit, Init, HistoryInit
  <2>2. AllOf(<<>>, TempTypes)
    BY DEF AllOf
  <2>3. Single(pending) /\ Raised(PowerTypes) = <<>>
    BY <2>1, <2>2 DEF Single, Kinds, Raised
  <2>4. QED
    BY <2>1, <2>3, SamePowerComponent, HubInvInit DEF PowerComponent!Init, PowerLists
<1>2. HubInv /\ Single(pending) /\ [HubNext]_hubVars => HubInv' /\ Single(pending)'
  BY HubInvNext, SingleNext
<1>3. HubInv /\ Single(pending) /\ [HubNext]_hubVars
          => [PowerComponent!Next]_<<power, Raised(PowerTypes), now>>
  BY PowerComponentStep
<1>4. QED
  BY <1>1, <1>2, <1>3, PTL DEF HubSpec, PowerAsComponent, PowerComponent!Spec

-----------------------------------------------------------------------------
(***************************************************************************)
(* The verified power meter compares a reading with the circuit's own      *)
(* maximum, the hub's leaves it to the watchpoints: the same for circuits  *)
(* listed once, with a watchpoint each.                                    *)
(***************************************************************************)
CircuitsOnce ==
    /\ MaxCircuits <= MaxWatchpoints
    /\ \A c \in Configs : \A i, j \in 1 .. Len(c.power) :
          c.power[i].circuit_id = c.power[j].circuit_id => i = j

CircuitsApart ==
    \A i, j \in 1 .. Len(power.circuits) :
        power.circuits[i].circuit_id = power.circuits[j].circuit_id => i = j

FirstCircuits(cs) == Filled([i \in 1 .. Len(cs) |-> Circuit(cs[i])], Len(cs), MaxCircuits)

\* Both start with the first circuits of the list, as many as there is room for.
LEMMA CircuitsOfList ==
    ASSUME NEW cs \in Seq(CircuitThresholds)
    PROVE  PowerWith(cs).circuits = FirstCircuits(cs)
<1> DEFINE n == Len(cs)
           rows == [i \in 1 .. n |-> Circuit(cs[i])]
<1>1. n \in Nat /\ MaxCircuits \in Nat
  BY PowerAssumption
<1>2. PICK f : PowerRun(f, cs)
  BY PowerStarts
<1> DEFINE g == [i \in 0 .. n |-> f[i].circuits]
<1>3. \A i \in 1 .. n : i \in 0 .. n /\ i - 1 \in 0 .. n
  BY <1>1
<1>4. g[0] = <<>>
  <2>1. f[0].circuits = <<>>
    BY <1>2 DEF PowerRun, NewPower
  <2>2. QED
    BY <1>1, <2>1
<1>5. ASSUME NEW i \in 1 .. n
      PROVE  g[i] = OneMore(g[i - 1], rows[i], MaxCircuits)
  <2>1. f[i] = RegisterPower(f[i - 1], cs[i])
    BY <1>2 DEF PowerRun
  <2>2. f[i].circuits = OneMore(f[i - 1].circuits, Circuit(cs[i]), MaxCircuits)
    <3> DEFINE m == f[i - 1]
    <3> HIDE DEF m
    <3>1. RegisterPower(m, cs[i]).circuits = OneMore(m.circuits, Circuit(cs[i]), MaxCircuits)
      BY DEF RegisterPower, OneMore
    <3>2. QED
      BY <2>1, <3>1 DEF m
  <2>3. g[i] = f[i].circuits /\ g[i - 1] = f[i - 1].circuits /\ rows[i] = Circuit(cs[i])
    BY <1>3
  <2>4. QED
    BY <2>2, <2>3
<1>6. g[n] = PowerWith(cs).circuits
  <2>1. f[n] = PowerWith(cs) /\ n \in 0 .. n
    BY <1>1, <1>2 DEF PowerRun
  <2>2. QED
    BY <2>1
<1> HIDE DEF g, rows, n
<1>7. g[n] = Filled(rows, n, MaxCircuits)
  BY <1>1, <1>4, <1>5, TableFills
<1>8. QED
  BY <1>6, <1>7 DEF FirstCircuits, rows, n

LEMMA SamePowerTable ==
    ASSUME NEW cs \in Seq(CircuitThresholds)
    PROVE  VerifiedPower!Started(cs) = PowerWith(cs).circuits
<1> DEFINE n == Len(cs)
           rows == [i \in 1 .. n |-> Circuit(cs[i])]
           Turn(f) == [i \in 0 .. n |->
                          IF i = 0 THEN <<>> ELSE OneMore(f[i - 1], Circuit(cs[i]), MaxCircuits)]
           after == CHOOSE f : f = Turn(f)
<1>1. n \in Nat /\ MaxCircuits \in Nat
  BY PowerAssumption
<1>2. VerifiedPower!Started(cs) = after[n]
  BY DEF VerifiedPower!Started, VerifiedPower!Registered, VerifiedPower!Circuit, Circuit, OneMore
<1>3. \A i \in 1 .. n : rows[i] = Circuit(cs[i])
  OBVIOUS
<1> HIDE DEF n, rows
<1>4. after = Turn(after)
  <2>1. \E f : f = [i \in 0 .. n |-> IF i = 0 THEN <<>> ELSE OneMore(f[i - 1], rows[i], MaxCircuits)]
    BY <1>1, TableRuns
  <2>2. \E f : f = Turn(f)
    BY <1>1, <1>3, <2>1
  <2>3. QED
    BY <2>2
<1> HIDE DEF after
<1>5. after[0] = <<>> /\ \A i \in 1 .. n : after[i] = OneMore(after[i - 1], rows[i], MaxCircuits)
  BY <1>1, <1>3, <1>4
<1>6. after[n] = Filled(rows, n, MaxCircuits)
  BY <1>1, <1>5, TableFills
<1>7. PowerWith(cs).circuits = Filled(rows, n, MaxCircuits)
  BY CircuitsOfList DEF FirstCircuits, rows, n
<1>8. QED
  BY <1>2, <1>6, <1>7

\* They are listed once in the table, too.
LEMMA FreshCircuitsApart ==
    ASSUME CircuitsOnce, NEW c \in Configs
    PROVE  \A i, j \in 1 .. Len(PowerWith(c.power).circuits) :
               PowerWith(c.power).circuits[i].circuit_id = PowerWith(c.power).circuits[j].circuit_id
                   => i = j
<1> DEFINE cs == c.power
           n == Len(cs)
           D == {i \in 1 .. n : i <= MaxCircuits}
           table == PowerWith(cs).circuits
<1>1. cs \in Seq(CircuitThresholds)
  BY ConfiguredLists
<1>2. table \in Seq(CircuitState)
  BY <1>1, PowerStarts DEF PowerInv
<1>3. table = [i \in D |-> [k \in 1 .. n |-> Circuit(cs[k])][i]]
  BY <1>1, CircuitsOfList DEF FirstCircuits, Filled
<1>4. 1 .. Len(table) = DOMAIN table /\ DOMAIN table = D
  <2>1. DOMAIN table = D
    BY <1>3
  <2>2. QED
    BY <1>2, <2>1
<1>5. \A i \in D : table[i] = Circuit(cs[i])
  BY <1>3
<1>6. \A i \in D : table[i].circuit_id = cs[i].circuit_id
  <2>1. \A x : Circuit(x).circuit_id = x.circuit_id
    BY DEF Circuit
  <2> HIDE DEF table, cs, D
  <2>2. QED
    BY <1>5, <2>1
<1>7. \A i, j \in 1 .. n : cs[i].circuit_id = cs[j].circuit_id => i = j
  BY DEF CircuitsOnce
<1>8. QED
  BY <1>4, <1>6, <1>7

\* With its watchpoint a circuit raises what a comparison would.
LEMMA ConsumptionAlert ==
    ASSUME CircuitsOnce, CircuitsApart, NEW cs, PowerInv(power, cs), NEW id \in Zones, NEW w \in Nat
    PROVE  AlertOnViolation(power.limits, id, w, id, "overconsumption") =
               IF CircuitEntries(id) # {} /\ w > power.circuits[CircuitEntry(id)].max
               THEN <<PowerAlert(id, "overconsumption", power.circuits[CircuitEntry(id)].max)>>
               ELSE <<>>
<1> DEFINE t == power.limits
           a == AlertOnViolation(t, id, w, id, "overconsumption")
           e == CircuitEntry(id)
<1>1. /\ t \in Seq(Limit) /\ power.circuits \in Seq(CircuitState)
      /\ \A j \in 1 .. Len(t) : \E i \in 1 .. Len(power.circuits) :
            t[j] = Consumption(power.circuits[i])
      /\ \A i \in 1 .. Len(power.circuits) : \E j \in 1 .. Len(t) :
            t[j] = Consumption(power.circuits[i])
  BY DEF PowerInv, CircuitsOnce
<1>2. \/ a = <<>> /\ Evaluate(t, id, w) = {}
      \/ \E i \in Evaluate(t, id, w) :
            a = <<[zone |-> id, type |-> "overconsumption", threshold |-> t[i].threshold]>>
  <2>1. "overconsumption" \in AlertTypes
    BY HubAssumption DEF PowerTypes
  <2>2. PICK type \in AlertTypes : type = "overconsumption"
    BY <2>1
  <2> HIDE DEF t
  <2>3. \/ /\ AlertOnViolation(t, id, w, id, type) = <<>>
           /\ Evaluate(t, id, w) = {}
        \/ \E i \in Evaluate(t, id, w) :
              /\ AlertOnViolation(t, id, w, id, type) =
                     <<[zone |-> id, type |-> type, threshold |-> t[i].threshold]>>
              /\ t[i].threshold \in Int
    <3>1. t \in Seq(Limit)
      BY <1>1
    <3>2. QED
      BY <3>1, ViolationAlert
  <2>4. QED
    BY <2>2, <2>3
<1> HIDE DEF a, t, e
<1>3. ASSUME NEW i \in Evaluate(t, id, w)
      PROVE  CircuitEntries(id) # {} /\ t[i].threshold = power.circuits[e].max /\ w > power.circuits[e].max
  <2>1. i \in DOMAIN t /\ t[i].sensor_id = id /\ Compare(w, t[i].op, t[i].threshold)
    BY DEF Evaluate, Violated
  <2>2. PICK k \in 1 .. Len(power.circuits) : t[i] = Consumption(power.circuits[k])
    BY <1>1, <2>1
  <2>3. /\ power.circuits[k].circuit_id = id /\ t[i].threshold = power.circuits[k].max
        /\ t[i].op = "GreaterThan"
    BY <2>1, <2>2 DEF Consumption, Watchpoint
  <2>4. k \in CircuitEntries(id)
    BY <1>1, <2>3 DEF CircuitEntries
  <2>5. k = e
    BY <2>3, <2>4, CircuitEntryFound DEF CircuitsApart, e
  <2>6. w > t[i].threshold
    BY <2>1, <2>3 DEF Compare
  <2>7. QED
    BY <2>3, <2>4, <2>5, <2>6
<1>4. ASSUME CircuitEntries(id) # {}, w > power.circuits[e].max
      PROVE  Evaluate(t, id, w) # {}
  <2>1. e \in 1 .. Len(power.circuits) /\ power.circuits[e].circuit_id = id
    BY <1>4, CircuitEntryFound DEF e
  <2>2. PICK j \in 1 .. Len(t) : t[j] = Consumption(power.circuits[e])
    BY <1>1, <2>1
  <2>3. t[j].sensor_id = id /\ t[j].op = "GreaterThan" /\ t[j].threshold = power.circuits[e].max
    BY <2>1, <2>2 DEF Consumption, Watchpoint
  <2>4. Compare(w, t[j].op, t[j].threshold)
    BY <1>4, <2>3 DEF Compare
  <2>5. QED
    BY <1>1, <2>3, <2>4, SomeViolation
<1>5. QED
  BY <1>2, <1>3, <1>4 DEF PowerAlert, a, t, e

LEMMA PowerReadingAsVerified ==
    ASSUME HubInv, CircuitsOnce, CircuitsApart,
           NEW id \in Zones, NEW w \in AllWatts, PowerReading(id, w), UNCHANGED now,
           Raised(PowerTypes) = <<>>, Raised(PowerTypes)' = PowerAlerts(id, w)
    PROVE  VerifiedPower!ProcessReading(id, w)
<1> DEFINE e == CircuitEntry(id)
           c == power.circuits[e]
<1>1. VerifiedPower!Matching(id) = CircuitEntries(id) /\ VerifiedPower!First(id) = e
  BY DEF VerifiedPower!First, VerifiedPower!Matching, CircuitEntry, CircuitEntries
<1>2. w \in Nat /\ PowerInv(power, config.power)
  BY WattsAreNat DEF HubInv
<1>3. AlertOnViolation(power.limits, id, w, id, "overconsumption") =
          IF CircuitEntries(id) # {} /\ w > c.max
          THEN <<PowerAlert(id, "overconsumption", c.max)>> ELSE <<>>
  BY <1>2, ConsumptionAlert
<1>4. KeepWatts(id, w, now)
  BY DEF PowerReading
<1>5. CASE CircuitEntries(id) = {}
  <2>1. PowerAlerts(id, w) = <<>>
    BY <1>3, <1>5 DEF PowerAlerts, SpikeAlerts
  <2>2. power' = power
    BY <1>4, <1>5 DEF KeepWatts
  <2>3. QED
    BY <1>1, <1>5, <2>1, <2>2 DEF VerifiedPower!ProcessReading
<1>6. CASE CircuitEntries(id) # {}
  <2>1. e \in 1 .. Len(power.circuits) /\ c \in CircuitState
    BY <1>2, <1>6, CircuitEntryFound
  <2>2. power' = [power EXCEPT !.circuits[e].last_watts = w, !.circuits[e].last_time = now]
    BY <1>4, <1>6 DEF KeepWatts
  <2>3. power.circuits' = [power.circuits EXCEPT ![e].last_watts = w, ![e].last_time = now]
    <3>1. power \in [circuits : Seq(CircuitState), limits : Seq(Limit)]
      BY <1>2 DEF PowerInv
    <3> HIDE DEF e, c
    <3>2. QED
      BY <2>2, <3>1
  <2>4. AbsDiff(w, c.last_watts) = VerifiedPower!Difference(w, c.last_watts)
    <3>1. w \in Int /\ c.last_watts \in Int
      BY <1>2, <2>1 DEF CircuitState
    <3>2. QED
      BY <3>1 DEF AbsDiff, VerifiedPower!Difference
  <2>5. PowerAlerts(id, w) = VerifiedPower!AlertsOf(c, id, w)
    <3>1. AlertOnViolation(power.limits, id, w, id, "overconsumption") =
              IF w > c.max THEN <<VerifiedPower!Alert(id, "overconsumption", c.max)>> ELSE <<>>
      BY <1>3, <1>6 DEF PowerAlert, VerifiedPower!Alert
    <3>2. SpikeAlerts(id, w) =
              IF VerifiedPower!Difference(w, c.last_watts) > c.spike /\ c.last_time > 0
              THEN <<VerifiedPower!Alert(id, "power_spike", c.spike)>> ELSE <<>>
      <4>1. SpikeAlerts(id, w) = IF c.last_time > 0 /\ AbsDiff(w, c.last_watts) > c.spike
                                 THEN <<PowerAlert(id, "power_spike", c.spike)>> ELSE <<>>
        BY <1>6 DEF SpikeAlerts
      <4> HIDE DEF c
      <4>2. QED
        BY <2>4, <4>1 DEF PowerAlert, VerifiedPower!Alert
    <3> HIDE DEF c
    <3>3. QED
      BY <3>1, <3>2 DEF PowerAlerts, VerifiedPower!AlertsOf
  <2>6. QED
    BY <1>1, <1>6, <2>3, <2>5 DEF VerifiedPower!ProcessReading
<1>7. QED
  BY <1>5, <1>6

LEMMA CircuitsApartNext ==
    ASSUME CircuitsOnce, HubInv, CircuitsApart, [HubNext]_hubVars
    PROVE  CircuitsApart'
<1>1. CASE \E id \in Zones, w \in AllWatts : PowerReading(id, w)
  <2>1. PICK id \in Zones, w \in AllWatts : PowerReading(id, w)
    BY <1>1
  <2>2. w \in Nat /\ KeepWatts(id, w, now) /\ PowerInv(power, config.power) /\ now \in Time
    BY <2>1, WattsAreNat DEF PowerReading, HubInv
  <2>3. /\ Len(power'.circuits) = Len(power.circuits)
        /\ \A i \in 1 .. Len(power.circuits) :
              power'.circuits[i].circuit_id = power.circuits[i].circuit_id
    BY <2>2, WattsKept
  <2>4. QED
    BY <2>3 DEF CircuitsApart
<1>2. CASE HubRestart
  <2>1. PICK c \in Configs : c = config'
    BY <1>2 DEF HubRestart, Restart
  <2>2. power' = PowerWith(c.power)
    BY <1>2, <2>1 DEF HubRestart
  <2>3. QED
    BY <2>2, FreshCircuitsApart DEF CircuitsApart
<1>3. CASE UNCHANGED power
  BY <1>3 DEF CircuitsApart
<1>4. QED
  BY <1>1, <1>2, <1>3, MonitorSteps DEF TempReading, AirReading, DispatchPending

LEMMA VerifiedPowerStep ==
    ASSUME CircuitsOnce, HubInv, CircuitsApart, Single(pending), [HubNext]_hubVars
    PROVE  [VerifiedPower!Next]_<<power.circuits, Raised(PowerTypes), now>>
<1>0. PowerTypes \in Kinds /\ PowerTypes # TempTypes /\ PowerTypes # AirTypes
  <2>1. \A i \in 1 .. 6 : AirAlertTypes[i] # "power_spike"
    BY DEF AirAlertTypes
  <2>2. QED
    BY <2>1 DEF Kinds, TempTypes, AirTypes, PowerTypes
<1>1. /\ Raised(PowerTypes) = Part(pending, PowerTypes)
      /\ Raised(PowerTypes)' = Part(pending', PowerTypes)
  BY RaisedIsPart DEF PowerTypes
<1>2. CASE /\ UNCHANGED now /\ pending = <<>>
           /\ \E id \in Zones, w \in AllWatts :
                 PowerReading(id, w) /\ Part(pending', PowerTypes) = PowerAlerts(id, w)
  <2>1. PICK id \in Zones, w \in AllWatts :
            PowerReading(id, w) /\ Part(pending', PowerTypes) = PowerAlerts(id, w)
    BY <1>2
  <2>2. Raised(PowerTypes) = <<>> /\ Raised(PowerTypes)' = PowerAlerts(id, w)
    BY <1>1, <1>2, <2>1 DEF Part
  <2>3. VerifiedPower!ProcessReading(id, w)
    BY <1>2, <2>1, <2>2, PowerReadingAsVerified
  <2>4. QED
    BY <2>3 DEF VerifiedPower!Next
<1>3. CASE /\ Part(pending, PowerTypes) # <<>>
           /\ Part(pending', PowerTypes) = Tail(Part(pending, PowerTypes))
           /\ UNCHANGED <<temp, air, power, now>>
  BY <1>1, <1>3 DEF VerifiedPower!Next, VerifiedPower!TakeAlert
<1>4. CASE HubRestart /\ UNCHANGED now /\ Part(pending', PowerTypes) = <<>>
  <2>1. config' \in Configs /\ power' = PowerWith(config'.power)
    BY <1>4 DEF HubRestart, Restart
  <2>2. PICK c \in Configs : c = config'
    BY <2>1
  <2>3. c.power \in PowerLists /\ power'.circuits = VerifiedPower!Started(c.power)
    BY <2>1, <2>2, SamePowerTable, ConfiguredLists DEF PowerLists
  <2>4. VerifiedPower!Start
    BY <1>1, <1>4, <2>3 DEF VerifiedPower!Start
  <2>5. QED
    BY <2>4 DEF VerifiedPower!Next
<1>5. CASE /\ now' \in Time /\ Part(pending', PowerTypes) = Part(pending, PowerTypes)
           /\ UNCHANGED power
  BY <1>1, <1>5 DEF VerifiedPower!Next, VerifiedPower!ClockMoves
<1>6. QED
  BY <1>0, <1>2, <1>3, <1>4, <1>5, PartSteps

\* Circuits listed once, with a watchpoint each, raise what the verified meter
\* raises, reading by reading and over restarts.
THEOREM HubPowerAsVerified ==
    ASSUME CircuitsOnce
    PROVE  HubSpec => PowerAsVerified
<1> DEFINE I == HubInv /\ Single(pending) /\ CircuitsApart
<1>1. HubInit => I /\ VerifiedPower!Init
  <2> SUFFICES ASSUME HubInit PROVE I /\ VerifiedPower!Init
    OBVIOUS
  <2>1. /\ config \in Configs /\ power = PowerWith(config.power) /\ now \in Time
        /\ pending = <<>>
    BY DEF HubInit, Init, HistoryInit
  <2>2. PICK c \in Configs : c = config
    BY <2>1
  <2>3. AllOf(<<>>, TempTypes)
    BY DEF AllOf
  <2>4. Single(pending) /\ Raised(PowerTypes) = <<>>
    BY <2>1, <2>3 DEF Single, Kinds, Raised
  <2>5. power.circuits = VerifiedPower!Started(c.power) /\ c.power \in PowerLists
    BY <2>1, <2>2, SamePowerTable, ConfiguredLists DEF PowerLists
  <2>6. CircuitsApart
    BY <2>1, <2>2, FreshCircuitsApart DEF CircuitsApart
  <2>7. QED
    BY <2>1, <2>4, <2>5, <2>6, HubInvInit DEF VerifiedPower!Init
<1>2. I /\ [HubNext]_hubVars => I'
  BY HubInvNext, SingleNext, CircuitsApartNext
<1>3. I /\ [HubNext]_hubVars => [VerifiedPower!Next]_<<power.circuits, Raised(PowerTypes), now>>
  BY VerifiedPowerStep
<1>4. QED
  BY <1>1, <1>2, <1>3, PTL DEF HubSpec, PowerAsVerified, VerifiedPower!Spec

-----------------------------------------------------------------------------
(***************************************************************************)
(* The temperature monitor and the component's copy, whose arithmetic      *)
(* wraps: the same for zones whose watchpoint ids fit in a u32 and         *)
(* temperatures whose differences fit in an i32.                           *)
(***************************************************************************)
TempIdsFit == \A z \in Zones : 2 * z + 1 <= U32Max

DifferencesFit == \A u, v \in Temperatures : I32Min <= u - v /\ u - v <= I32Max

\* A value a zone was given a reading of.
ReadValues ==
    \A i \in 1 .. Len(temp.zones) :
        temp.zones[i].last_time > 0 => temp.zones[i].last_value \in Temperatures

LEMMA TempIds ==
    ASSUME TempIdsFit, NEW z \in Zones
    PROVE  /\ z \in Nat /\ FreezeWpId(z) = 2 * z /\ OverheatWpId(z) = 2 * z + 1
           /\ TempComponent!FreezeId(z) = FreezeWpId(z)
           /\ TempComponent!OverheatId(z) = OverheatWpId(z)
<1>1. z \in Nat /\ 2 * z + 1 <= U32Max /\ U32Max \in Nat
  BY DispatcherAssumption, WatchpointsAssumption DEF TempIdsFit
<1>2. FreezeWpId(z) = 2 * z /\ OverheatWpId(z) = 2 * z + 1
  BY <1>1 DEF FreezeWpId, OverheatWpId, SatU32
<1>3. \A m, x \in Nat : x < m => x % m = x
  OBVIOUS
<1>4. (2 * z) % (U32Max + 1) = 2 * z /\ (2 * z + 1) % (U32Max + 1) = 2 * z + 1
  <2>1. 2 * z \in Nat /\ 2 * z + 1 \in Nat /\ U32Max + 1 \in Nat
        /\ 2 * z < U32Max + 1 /\ 2 * z + 1 < U32Max + 1
    BY <1>1
  <2>2. QED
    BY <1>3, <2>1
<1>5. z * 2 = 2 * z
  BY <1>1
<1>6. QED
  BY <1>1, <1>2, <1>4, <1>5
     DEF TempComponent!FreezeId, TempComponent!OverheatId, TempComponent!WrapU32

LEMMA TempDifference ==
    ASSUME DifferencesFit, NEW u \in Temperatures, NEW v \in Temperatures
    PROVE  /\ u \in Int /\ v \in Int
           /\ SatI32(u - v) = u - v
           /\ TempComponent!WrapI32(u - v) = u - v
<1>1. u \in Int /\ v \in Int
  BY HubAssumption DEF Temperatures, PacketsOf
<1>2. /\ I32Min <= u - v /\ u - v <= I32Max /\ I32Min \in Int /\ I32Max \in Int
      /\ u - v \in Int
  BY <1>1, TempAssumption DEF DifferencesFit
<1>3. SatI32(u - v) = u - v
  BY <1>2 DEF SatI32
<1> DEFINE x == (u - v) - I32Min
           m == I32Max - I32Min + 1
<1>4. x \in Nat /\ m \in Nat /\ x < m /\ I32Min + x = u - v
  BY <1>1, <1>2
<1>5. \A p, q \in Nat : p < q => p % q = p
  OBVIOUS
<1>6. x % m = x
  <2> HIDE DEF x, m
  <2>1. QED
    BY <1>4, <1>5
<1>7. TempComponent!WrapI32(u - v) = u - v
  BY <1>4, <1>6 DEF TempComponent!WrapI32
<1>8. QED
  BY <1>1, <1>3, <1>7

\* A zone more, in the component as in the hub.
LEMMA SameRegistered ==
    ASSUME TempIdsFit, NEW m, NEW c \in Thresholds
    PROVE  TempComponent!Registered(m, c) = RegisterTemp(m, c)
<1>1. c.zone_id \in Zones
  BY DEF Thresholds
<1>2. TempComponent!FreezeId(c.zone_id) = FreezeWpId(c.zone_id)
      /\ TempComponent!OverheatId(c.zone_id) = OverheatWpId(c.zone_id)
  BY <1>1, TempIds
<1>3. QED
  BY <1>2 DEF TempComponent!Registered, TempComponent!Zone, TempComponent!RelayLc!AddWatchpoint,
              TempComponent!RelayLc!Watchpoint, RegisterTemp, TempZone, AddWatchpoint, Watchpoint

LEMMA SameTempComponent ==
    ASSUME TempIdsFit, NEW cs \in Seq(Thresholds)
    PROVE  TempComponent!Starts(cs) = TempWith(cs)
<1> DEFINE n == Len(cs)
           Turn(f) == [i \in 0 .. n |-> IF i = 0 THEN TempComponent!Reset
                                        ELSE TempComponent!Registered(f[i - 1], cs[i])]
           after == CHOOSE f : f = Turn(f)
<1>1. n \in Nat /\ \A i \in 1 .. n : cs[i] \in Thresholds
  OBVIOUS
<1>2. PICK f : TempRun(f, cs)
  BY TempStarts
<1> DEFINE g == [i \in 0 .. n |-> f[i]]
<1>3. f[0] = TempComponent!Reset
  BY <1>2 DEF TempRun, TempComponent!Reset, NewTemp
<1>4. \A i \in 1 .. n : f[i] = TempComponent!Registered(f[i - 1], cs[i])
  <2>1. \A i \in 1 .. n : f[i] = RegisterTemp(f[i - 1], cs[i])
    BY <1>2 DEF TempRun
  <2>2. QED
    BY <1>1, <2>1, SameRegistered
<1>5. g[0] = TempComponent!Reset /\ g[n] = f[n]
      /\ \A i \in 1 .. n : g[i] = TempComponent!Registered(g[i - 1], cs[i])
  <2>1. \A i \in 1 .. n : i \in 0 .. n /\ i - 1 \in 0 .. n
    BY <1>1
  <2> HIDE DEF n
  <2>2. QED
    BY <1>1, <1>3, <1>4, <2>1
<1>6. TempComponent!Starts(cs) = after[n]
  BY DEF TempComponent!Starts
<1>7. g = Turn(g)
  <2>1. g = [i \in 0 .. n |-> g[i]]
    OBVIOUS
  <2> HIDE DEF g, n
  <2>2. ASSUME NEW i \in 0 .. n
        PROVE  g[i] = IF i = 0 THEN TempComponent!Reset
                      ELSE TempComponent!Registered(g[i - 1], cs[i])
    <3>1. CASE i = 0
      BY <1>5, <3>1
    <3>2. CASE i # 0
      <4>1. i \in 1 .. n
        BY <1>1, <3>2
      <4>2. QED
        BY <1>5, <3>2, <4>1
    <3>3. QED
      BY <3>1, <3>2
  <2>3. QED
    BY <2>1, <2>2
<1>8. after = Turn(after)
  <2> HIDE DEF g
  <2>1. \E h : h = Turn(h)
    BY <1>7
  <2>2. QED
    BY <2>1
<1> HIDE DEF after, g, n
<1>9. after[0] = TempComponent!Reset
      /\ \A i \in 1 .. n : after[i] = TempComponent!Registered(after[i - 1], cs[i])
  BY <1>1, <1>8
<1>10. after[n] = g[n]
  <2>1. \A i \in 1 .. n : after[i - 1] = g[i - 1] => after[i] = g[i]
    BY <1>5, <1>9
  <2>2. QED
    BY <1>1, <1>5, <1>9, <2>1, LoopsAgree
<1>11. f[n] = TempWith(cs)
  BY <1>2 DEF TempRun, n
<1>12. QED
  BY <1>5, <1>6, <1>10, <1>11

\* How a reading is compared with the last one makes no difference.
LEMMA SameRates ==
    ASSUME DifferencesFit, ReadValues, NEW cs, TempInv(temp, cs), NEW z \in Zones,
           NEW v \in Temperatures, TempEntries(z) # {}
    PROVE  LET e == temp.zones[TempEntry(z)]
           IN  /\ RateAlert(z, e.last_value - v, "rapid_drop")
                      = TempComponent!Changed(e, z, e.last_value - v, "rapid_drop")
               /\ RateAlert(z, v - e.last_value, "rapid_rise")
                      = TempComponent!Changed(e, z, v - e.last_value, "rapid_rise")
               /\ RateAlert(z, e.last_value - v, "rapid_drop")
                      = IF e.last_time > 0 /\ e.last_value - v > e.rate
                        THEN <<TempAlert(z, "rapid_drop", e.rate)>> ELSE <<>>
               /\ RateAlert(z, v - e.last_value, "rapid_rise")
                      = IF e.last_time > 0 /\ v - e.last_value > e.rate
                        THEN <<TempAlert(z, "rapid_rise", e.rate)>> ELSE <<>>
<1> DEFINE e == temp.zones[TempEntry(z)]
<1>1. e.last_time > 0 => e.last_value \in Temperatures
  BY TempEntryFound DEF ReadValues
<1>2. ASSUME e.last_time > 0
      PROVE  /\ SatI32(e.last_value - v) = e.last_value - v
             /\ SatI32(v - e.last_value) = v - e.last_value
             /\ TempComponent!WrapI32(e.last_value - v) = e.last_value - v
             /\ TempComponent!WrapI32(v - e.last_value) = v - e.last_value
  BY <1>1, <1>2, TempDifference
<1>3. \A change, type :
          RateAlert(z, change, type) = IF e.last_time > 0 /\ SatI32(change) > e.rate
                                       THEN <<TempAlert(z, type, e.rate)>> ELSE <<>>
  BY DEF RateAlert
<1>4. \A change, type :
          TempComponent!Changed(e, z, change, type) =
              IF e.last_time > 0 /\ TempComponent!WrapI32(change) > e.rate
              THEN <<TempAlert(z, type, e.rate)>> ELSE <<>>
  BY DEF TempComponent!Changed, TempComponent!Alert, TempAlert
<1> HIDE DEF e
<1>5. QED
  BY <1>2, <1>3, <1>4 DEF e

LEMMA TempReadingAsComponent ==
    ASSUME HubInv, TempIdsFit, DifferencesFit, ReadValues,
           NEW z \in Zones, NEW v \in Temperatures, TempReading(z, v), UNCHANGED now,
           Raised(TempTypes) = <<>>, Raised(TempTypes)' = TempAlerts(z, v)
    PROVE  TempComponent!ProcessReading(z, v)
<1> DEFINE a == AlertOnViolation(temp.limits, FreezeWpId(z), v, z, "freeze")
           b == AlertOnViolation(temp.limits, OverheatWpId(z), v, z, "overheat")
           i == TempEntry(z)
           e == temp.zones[i]
           down == RateAlert(z, e.last_value - v, "rapid_drop")
           up == RateAlert(z, v - e.last_value, "rapid_rise")
<1>1. TempComponent!Matching(z) = TempEntries(z) /\ TempComponent!First(z) = i
  BY DEF TempComponent!First, TempComponent!Matching, TempEntry, TempEntries
<1>2. TempComponent!Thresholds(z, v) = a \o b
  <2>1. TempComponent!FreezeId(z) = FreezeWpId(z) /\ TempComponent!OverheatId(z) = OverheatWpId(z)
    BY TempIds
  <2>2. \A id, type : TempComponent!RelayLc!AlertOnViolation(temp.limits, id, v, z, type)
                          = AlertOnViolation(temp.limits, id, v, z, type)
    BY DEF TempComponent!RelayLc!AlertOnViolation,
           TempComponent!RelayLc!Evaluate, TempComponent!RelayLc!Violated,
           TempComponent!RelayLc!Compare, TempComponent!RelayLc!Cardinality,
           AlertOnViolation, Evaluate, Violated, Compare, Cardinality
  <2>3. QED
    BY <2>1, <2>2 DEF TempComponent!Thresholds
<1>3. TempInv(temp, config.temp) /\ v \in Int
  BY HubAssumption DEF HubInv, Temperatures, PacketsOf
<1>4. a \in Seq(Alert) /\ b \in Seq(Alert)
  <2>1. temp.limits \in Seq(Limit)
    BY <1>3 DEF TempInv
  <2>2. "freeze" \in AlertTypes /\ "overheat" \in AlertTypes
    BY HubAssumption DEF TempTypes
  <2> HIDE DEF a, b
  <2>3. QED
    BY <2>1, <2>2, ViolationKeys DEF a, b
<1>5. KeepReading(z, v, now) /\ TempAlerts(z, v) = (a \o b) \o RateAlerts(z, v)
  BY DEF TempReading, TempAlerts
<1> HIDE DEF a, b
<1>6. CASE TempEntries(z) = {}
  <2>1. RateAlerts(z, v) = <<>> /\ temp' = temp
    BY <1>5, <1>6 DEF RateAlerts, KeepReading
  <2>2. TempAlerts(z, v) = a \o b
    BY <1>4, <1>5, <2>1
  <2>3. QED
    BY <1>1, <1>2, <1>6, <2>1, <2>2 DEF TempComponent!ProcessReading
<1>7. CASE TempEntries(z) # {}
  <2>1. RateAlerts(z, v) = down \o up
    BY <1>7 DEF RateAlerts
  <2>2. down \in Seq(Alert) /\ up \in Seq(Alert)
    BY <1>3, <1>7, RateAlertKeys
  <2>3. /\ down = TempComponent!Changed(e, z, e.last_value - v, "rapid_drop")
        /\ up = TempComponent!Changed(e, z, v - e.last_value, "rapid_rise")
    BY <1>3, <1>7, SameRates
  <2>4. temp' = [temp EXCEPT !.zones[i].last_value = v, !.zones[i].last_time = now]
    BY <1>5, <1>7 DEF KeepReading
  <2>5. TempAlerts(z, v) = ((a \o b) \o down) \o up
    <3> HIDE DEF down, up
    <3>1. a \o b \in Seq(Alert)
      BY <1>4
    <3>2. ((a \o b) \o down) \o up = (a \o b) \o (down \o up)
      BY <2>2, <3>1
    <3>3. QED
      BY <1>5, <2>1, <3>2
  <2> HIDE DEF down, up, i
  <2>6. QED
    BY <1>1, <1>2, <1>7, <2>3, <2>4, <2>5 DEF TempComponent!ProcessReading
<1>8. QED
  BY <1>6, <1>7

LEMMA ReadValuesNext ==
    ASSUME HubInv, ReadValues, [HubNext]_hubVars
    PROVE  ReadValues'
<1>1. CASE \E z \in Zones, v \in Temperatures : TempReading(z, v)
  <2>1. PICK z \in Zones, v \in Temperatures : TempReading(z, v)
    BY <1>1
  <2>2. v \in Int /\ KeepReading(z, v, now) /\ TempInv(temp, config.temp) /\ now \in Time
    BY <2>1, HubAssumption DEF TempReading, HubInv, Temperatures, PacketsOf
  <2>3. /\ Len(temp'.zones) = Len(temp.zones)
        /\ \A i \in 1 .. Len(temp.zones) :
              temp'.zones[i] = temp.zones[i] \/ temp'.zones[i].last_value = v
    BY <2>2, ReadingKept
  <2>4. Temperatures' = Temperatures
    BY DEF Temperatures, PacketsOf
  <2>5. QED
    BY <2>3, <2>4 DEF ReadValues
<1>2. CASE HubRestart
  <2>1. PICK c \in Configs : c = config'
    BY <1>2 DEF HubRestart, Restart
  <2>2. temp' = TempWith(c.temp)
    BY <1>2, <2>1 DEF HubRestart
  <2>3. \A i \in 1 .. Len(temp'.zones) : temp'.zones[i].last_time = 0
    BY <2>2, FreshHub DEF Unread
  <2>4. QED
    BY <2>3 DEF ReadValues
<1>3. CASE UNCHANGED temp
  BY <1>3 DEF ReadValues, Temperatures, PacketsOf
<1>4. QED
  BY <1>1, <1>2, <1>3, MonitorSteps DEF AirReading, PowerReading, DispatchPending

LEMMA TempApart == TempTypes \in Kinds /\ TempTypes # AirTypes /\ TempTypes # PowerTypes
<1>1. \A i \in 1 .. 6 : AirAlertTypes[i] # "freeze"
  BY DEF AirAlertTypes
<1>2. QED
  BY <1>1 DEF Kinds, TempTypes, AirTypes, PowerTypes

LEMMA TempComponentStep ==
    ASSUME TempIdsFit, DifferencesFit, HubInv, ReadValues, Single(pending), [HubNext]_hubVars
    PROVE  [TempComponent!Next]_<<temp, Raised(TempTypes), now>>
<1>1. /\ Raised(TempTypes) = Part(pending, TempTypes)
      /\ Raised(TempTypes)' = Part(pending', TempTypes)
  BY RaisedIsPart DEF TempTypes
<1>2. CASE /\ UNCHANGED now /\ pending = <<>>
           /\ \E z \in Zones, v \in Temperatures :
                 TempReading(z, v) /\ Part(pending', TempTypes) = TempAlerts(z, v)
  <2>1. PICK z \in Zones, v \in Temperatures :
            TempReading(z, v) /\ Part(pending', TempTypes) = TempAlerts(z, v)
    BY <1>2
  <2>2. Raised(TempTypes) = <<>> /\ Raised(TempTypes)' = TempAlerts(z, v)
    BY <1>1, <1>2, <2>1 DEF Part
  <2>3. TempComponent!ProcessReading(z, v)
    BY <1>2, <2>1, <2>2, TempReadingAsComponent
  <2>4. QED
    BY <2>3 DEF TempComponent!Next
<1>3. CASE /\ Part(pending, TempTypes) # <<>>
           /\ Part(pending', TempTypes) = Tail(Part(pending, TempTypes))
           /\ UNCHANGED <<temp, air, power, now>>
  BY <1>1, <1>3 DEF TempComponent!Next, TempComponent!TakeAlert
<1>4. CASE HubRestart /\ UNCHANGED now /\ Part(pending', TempTypes) = <<>>
  <2>1. config' \in Configs /\ temp' = TempWith(config'.temp)
    BY <1>4 DEF HubRestart, Restart
  <2>2. PICK c \in Configs : c = config'
    BY <2>1
  <2>3. c.temp \in TempLists /\ temp' = TempComponent!Starts(c.temp)
    BY <2>1, <2>2, SameTempComponent, ConfiguredLists DEF TempLists
  <2>4. TempComponent!Start
    BY <1>1, <1>4, <2>3 DEF TempComponent!Start
  <2>5. QED
    BY <2>4 DEF TempComponent!Next
<1>5. CASE /\ now' \in Time /\ Part(pending', TempTypes) = Part(pending, TempTypes)
           /\ UNCHANGED temp
  BY <1>1, <1>5 DEF TempComponent!Next, TempComponent!ClockMoves
<1>6. QED
  BY <1>2, <1>3, <1>4, <1>5, TempApart, PartSteps

\* The component's wrapping arithmetic makes no difference.
THEOREM HubTempAsComponent ==
    ASSUME TempIdsFit, DifferencesFit
    PROVE  HubSpec => TempAsComponent
<1> DEFINE I == HubInv /\ Single(pending) /\ ReadValues
<1>1. HubInit => I /\ TempComponent!Init
  <2> SUFFICES ASSUME HubInit PROVE I /\ TempComponent!Init
    OBVIOUS
  <2>1. /\ config \in Configs /\ temp = TempWith(config.temp) /\ now \in Time
        /\ pending = <<>>
    BY DEF HubInit, Init, HistoryInit
  <2>2. PICK c \in Configs : c = config
    BY <2>1
  <2>3. AllOf(<<>>, TempTypes)
    BY DEF AllOf
  <2>4. Single(pending) /\ Raised(TempTypes) = <<>>
    BY <2>1, <2>3 DEF Single, Kinds, Raised
  <2>5. temp = TempComponent!Starts(c.temp) /\ c.temp \in TempLists
    BY <2>1, <2>2, SameTempComponent, ConfiguredLists DEF TempLists
  <2>6. ReadValues
    <3>1. \A i \in 1 .. Len(temp.zones) : temp.zones[i].last_time = 0
      BY <2>1, <2>2, FreshHub DEF Unread
    <3>2. QED
      BY <3>1 DEF ReadValues
  <2>7. QED
    BY <2>1, <2>4, <2>5, <2>6, HubInvInit DEF TempComponent!Init
<1>2. I /\ [HubNext]_hubVars => I'
  BY HubInvNext, SingleNext, ReadValuesNext
<1>3. I /\ [HubNext]_hubVars => [TempComponent!Next]_<<temp, Raised(TempTypes), now>>
  BY TempComponentStep
<1>4. QED
  BY <1>1, <1>2, <1>3, PTL DEF HubSpec, TempAsComponent, TempComponent!Spec

-----------------------------------------------------------------------------
(***************************************************************************)
(* The verified temperature monitor compares a reading with the zone's own *)
(* limits: the same, besides, for zones listed once, with both watchpoints *)
(* each.                                                                   *)
(***************************************************************************)
ZonesOnce ==
    /\ 2 * MaxTempZones <= MaxWatchpoints
    /\ \A c \in Configs : \A i, j \in 1 .. Len(c.temp) :
          c.temp[i].zone_id = c.temp[j].zone_id => i = j

ZonesApart ==
    \A i, j \in 1 .. Len(temp.zones) : temp.zones[i].zone_id = temp.zones[j].zone_id => i = j

FirstZones(cs) == Filled([i \in 1 .. Len(cs) |-> TempZone(cs[i])], Len(cs), MaxTempZones)

\* Both start with the first zones of the list, as many as there is room for.
LEMMA ZonesOfList ==
    ASSUME NEW cs \in Seq(Thresholds)
    PROVE  TempWith(cs).zones = FirstZones(cs)
<1> DEFINE n == Len(cs)
           rows == [i \in 1 .. n |-> TempZone(cs[i])]
<1>1. n \in Nat /\ MaxTempZones \in Nat
  BY TempAssumption
<1>2. PICK f : TempRun(f, cs)
  BY TempStarts
<1> DEFINE g == [i \in 0 .. n |-> f[i].zones]
<1>3. \A i \in 1 .. n : i \in 0 .. n /\ i - 1 \in 0 .. n
  BY <1>1
<1>4. g[0] = <<>>
  <2>1. f[0].zones = <<>>
    BY <1>2 DEF TempRun, NewTemp
  <2>2. QED
    BY <1>1, <2>1
<1>5. ASSUME NEW i \in 1 .. n
      PROVE  g[i] = OneMore(g[i - 1], rows[i], MaxTempZones)
  <2>1. f[i] = RegisterTemp(f[i - 1], cs[i])
    BY <1>2 DEF TempRun
  <2>2. f[i].zones = OneMore(f[i - 1].zones, TempZone(cs[i]), MaxTempZones)
    <3> DEFINE m == f[i - 1]
    <3> HIDE DEF m
    <3>1. RegisterTemp(m, cs[i]).zones = OneMore(m.zones, TempZone(cs[i]), MaxTempZones)
      BY DEF RegisterTemp, OneMore
    <3>2. QED
      BY <2>1, <3>1 DEF m
  <2>3. g[i] = f[i].zones /\ g[i - 1] = f[i - 1].zones /\ rows[i] = TempZone(cs[i])
    BY <1>3
  <2>4. QED
    BY <2>2, <2>3
<1>6. g[n] = TempWith(cs).zones
  <2>1. f[n] = TempWith(cs) /\ n \in 0 .. n
    BY <1>1, <1>2 DEF TempRun
  <2>2. QED
    BY <2>1
<1> HIDE DEF g, rows, n
<1>7. g[n] = Filled(rows, n, MaxTempZones)
  BY <1>1, <1>4, <1>5, TableFills
<1>8. QED
  BY <1>6, <1>7 DEF FirstZones, rows, n

LEMMA SameTempTable ==
    ASSUME NEW cs \in Seq(Thresholds)
    PROVE  VerifiedTemp!Started(cs) = TempWith(cs).zones
<1> DEFINE n == Len(cs)
           rows == [i \in 1 .. n |-> TempZone(cs[i])]
           Turn(f) == [i \in 0 .. n |->
                          IF i = 0 THEN <<>> ELSE OneMore(f[i - 1], TempZone(cs[i]), MaxTempZones)]
           after == CHOOSE f : f = Turn(f)
<1>1. n \in Nat /\ MaxTempZones \in Nat
  BY TempAssumption
<1>2. VerifiedTemp!Started(cs) = after[n]
  BY DEF VerifiedTemp!Started, VerifiedTemp!Registered, VerifiedTemp!Zone, TempZone, OneMore
<1>3. \A i \in 1 .. n : rows[i] = TempZone(cs[i])
  OBVIOUS
<1> HIDE DEF n, rows
<1>4. after = Turn(after)
  <2>1. \E f : f = [i \in 0 .. n |-> IF i = 0 THEN <<>> ELSE OneMore(f[i - 1], rows[i], MaxTempZones)]
    BY <1>1, TableRuns
  <2>2. \E f : f = Turn(f)
    BY <1>1, <1>3, <2>1
  <2>3. QED
    BY <2>2
<1> HIDE DEF after
<1>5. after[0] = <<>> /\ \A i \in 1 .. n : after[i] = OneMore(after[i - 1], rows[i], MaxTempZones)
  BY <1>1, <1>3, <1>4
<1>6. after[n] = Filled(rows, n, MaxTempZones)
  BY <1>1, <1>5, TableFills
<1>7. TempWith(cs).zones = Filled(rows, n, MaxTempZones)
  BY ZonesOfList DEF FirstZones, rows, n
<1>8. QED
  BY <1>2, <1>6, <1>7

\* They are listed once in the table, too.
LEMMA FreshZonesApart ==
    ASSUME ZonesOnce, NEW c \in Configs
    PROVE  \A i, j \in 1 .. Len(TempWith(c.temp).zones) :
               TempWith(c.temp).zones[i].zone_id = TempWith(c.temp).zones[j].zone_id => i = j
<1> DEFINE cs == c.temp
           n == Len(cs)
           D == {i \in 1 .. n : i <= MaxTempZones}
           table == TempWith(cs).zones
<1>1. cs \in Seq(Thresholds)
  BY ConfiguredLists
<1>2. table \in Seq(TempState)
  BY <1>1, TempStarts DEF TempInv
<1>3. table = [i \in D |-> [k \in 1 .. n |-> TempZone(cs[k])][i]]
  BY <1>1, ZonesOfList DEF FirstZones, Filled
<1>4. 1 .. Len(table) = DOMAIN table /\ DOMAIN table = D
  <2>1. DOMAIN table = D
    BY <1>3
  <2>2. QED
    BY <1>2, <2>1
<1>5. \A i \in D : table[i] = TempZone(cs[i])
  BY <1>3
<1>6. \A i \in D : table[i].zone_id = cs[i].zone_id
  <2>1. \A x : TempZone(x).zone_id = x.zone_id
    BY DEF TempZone
  <2> HIDE DEF table, cs, D
  <2>2. QED
    BY <1>5, <2>1
<1>7. \A i, j \in 1 .. n : cs[i].zone_id = cs[j].zone_id => i = j
  BY DEF ZonesOnce
<1>8. QED
  BY <1>4, <1>6, <1>7

LEMMA ZonesApartNext ==
    ASSUME ZonesOnce, HubInv, ZonesApart, [HubNext]_hubVars
    PROVE  ZonesApart'
<1>1. CASE \E z \in Zones, v \in Temperatures : TempReading(z, v)
  <2>1. PICK z \in Zones, v \in Temperatures : TempReading(z, v)
    BY <1>1
  <2>2. v \in Int /\ KeepReading(z, v, now) /\ TempInv(temp, config.temp) /\ now \in Time
    BY <2>1, HubAssumption DEF TempReading, HubInv, Temperatures, PacketsOf
  <2>3. /\ Len(temp'.zones) = Len(temp.zones)
        /\ \A i \in 1 .. Len(temp.zones) : temp'.zones[i].zone_id = temp.zones[i].zone_id
    BY <2>2, ReadingKept
  <2>4. QED
    BY <2>3 DEF ZonesApart
<1>2. CASE HubRestart
  <2>1. PICK c \in Configs : c = config'
    BY <1>2 DEF HubRestart, Restart
  <2>2. temp' = TempWith(c.temp)
    BY <1>2, <2>1 DEF HubRestart
  <2>3. QED
    BY <2>2, FreshZonesApart DEF ZonesApart
<1>3. CASE UNCHANGED temp
  BY <1>3 DEF ZonesApart
<1>4. QED
  BY <1>1, <1>2, <1>3, MonitorSteps DEF AirReading, PowerReading, DispatchPending

\* The zone a watchpoint is for is told by its id.
LEMMA LimitOfZone ==
    ASSUME TempIdsFit, NEW cs, TempInv(temp, cs), NEW z \in Zones, NEW j \in 1 .. Len(temp.limits)
    PROVE  /\ temp.limits[j].sensor_id = FreezeWpId(z) =>
                  \E i \in TempEntries(z) : temp.limits[j] = Lower(temp.zones[i])
           /\ temp.limits[j].sensor_id = OverheatWpId(z) =>
                  \E i \in TempEntries(z) : temp.limits[j] = Upper(temp.zones[i])
<1> DEFINE w == temp.limits[j]
<1>1. temp.zones \in Seq(TempState)
  BY DEF TempInv
<1>2. PICK i \in 1 .. Len(temp.zones) : w = Lower(temp.zones[i]) \/ w = Upper(temp.zones[i])
  BY DEF TempInv
<1> DEFINE y == temp.zones[i].zone_id
<1>3. y \in Zones
  <2>1. temp.zones[i] \in TempState
    BY <1>1
  <2>2. QED
    BY <2>1 DEF TempState
<1> HIDE DEF w, y
<1>4. /\ FreezeWpId(y) = 2 * y /\ OverheatWpId(y) = 2 * y + 1 /\ y \in Nat
      /\ FreezeWpId(z) = 2 * z /\ OverheatWpId(z) = 2 * z + 1 /\ z \in Nat
  BY <1>3, TempIds
<1>5. /\ w = Lower(temp.zones[i]) => w.sensor_id = 2 * y
      /\ w = Upper(temp.zones[i]) => w.sensor_id = 2 * y + 1
  BY <1>4 DEF Lower, Upper, Watchpoint, y
<1>6. y = z => i \in TempEntries(z)
  BY <1>1 DEF TempEntries, y
<1>7. ASSUME w.sensor_id = FreezeWpId(z)
      PROVE  w = Lower(temp.zones[i]) /\ y = z
  BY <1>2, <1>4, <1>5, <1>7
<1>8. ASSUME w.sensor_id = OverheatWpId(z)
      PROVE  w = Upper(temp.zones[i]) /\ y = z
  BY <1>2, <1>4, <1>5, <1>8
<1>9. QED
  BY <1>6, <1>7, <1>8 DEF w

\* With its watchpoints a zone raises what two comparisons would.
LEMMA LimitAlerts ==
    ASSUME TempIdsFit, ZonesOnce, ZonesApart, NEW cs, TempInv(temp, cs),
           NEW z \in Zones, NEW v \in Int
    PROVE  LET e == temp.zones[TempEntry(z)]
           IN  /\ AlertOnViolation(temp.limits, FreezeWpId(z), v, z, "freeze") =
                      IF TempEntries(z) # {} /\ v <= e.freeze
                      THEN <<TempAlert(z, "freeze", e.freeze)>> ELSE <<>>
               /\ AlertOnViolation(temp.limits, OverheatWpId(z), v, z, "overheat") =
                      IF TempEntries(z) # {} /\ v >= e.overheat
                      THEN <<TempAlert(z, "overheat", e.overheat)>> ELSE <<>>
<1> DEFINE t == temp.limits
           i == TempEntry(z)
           e == temp.zones[i]
<1>1. t \in Seq(Limit) /\ temp.zones \in Seq(TempState) /\ DOMAIN t = 1 .. Len(t)
  BY DEF TempInv
<1>2. \A k \in TempEntries(z) : k = i
  <2>1. \A k \in TempEntries(z) : k \in 1 .. Len(temp.zones) /\ temp.zones[k].zone_id = z
    BY <1>1 DEF TempEntries
  <2>2. TempEntries(z) # {} => i \in 1 .. Len(temp.zones) /\ temp.zones[i].zone_id = z
    BY TempEntryFound
  <2>3. QED
    BY <2>1, <2>2 DEF ZonesApart
<1>3. ASSUME NEW id, NEW type \in AlertTypes
      PROVE  \/ AlertOnViolation(t, id, v, z, type) = <<>> /\ Evaluate(t, id, v) = {}
             \/ \E j \in Evaluate(t, id, v) :
                   AlertOnViolation(t, id, v, z, type) = <<TempAlert(z, type, t[j].threshold)>>
  <2>1. t \in Seq(Limit)
    BY <1>1
  <2> HIDE DEF t
  <2>2. QED
    BY <2>1, ViolationAlert DEF TempAlert
<1>4. \A id : \A j \in Evaluate(t, id, v) :
          j \in 1 .. Len(t) /\ t[j].sensor_id = id /\ Compare(v, t[j].op, t[j].threshold)
  BY <1>1 DEF Evaluate, Violated
<1>5. /\ Lower(e) = [sensor_id |-> FreezeWpId(e.zone_id), op |-> "LessOrEqual", threshold |-> e.freeze]
      /\ Upper(e) = [sensor_id |-> OverheatWpId(e.zone_id), op |-> "GreaterOrEqual",
                     threshold |-> e.overheat]
  BY DEF Lower, Upper, Watchpoint
<1>6. "freeze" \in AlertTypes /\ "overheat" \in AlertTypes
  BY HubAssumption DEF TempTypes
<1>7. ASSUME TempEntries(z) # {}
      PROVE  /\ e.zone_id = z
             /\ \E j \in 1 .. Len(t) : t[j] = Lower(e)
             /\ \E j \in 1 .. Len(t) : t[j] = Upper(e)
  <2>1. i \in 1 .. Len(temp.zones) /\ e.zone_id = z
    BY <1>7, TempEntryFound
  <2>2. QED
    BY <2>1 DEF TempInv, ZonesOnce
<1>8. \A k \in 1 .. Len(t) :
          /\ t[k].sensor_id = FreezeWpId(z) => t[k] = Lower(e) /\ TempEntries(z) # {}
          /\ t[k].sensor_id = OverheatWpId(z) => t[k] = Upper(e) /\ TempEntries(z) # {}
  BY <1>2, LimitOfZone
<1>9. /\ Compare(v, "LessOrEqual", e.freeze) <=> v <= e.freeze
      /\ Compare(v, "GreaterOrEqual", e.overheat) <=> v >= e.overheat
  BY DEF Compare
<1> HIDE DEF t, e, i
<1>10. ASSUME NEW j \in Evaluate(t, FreezeWpId(z), v)
       PROVE  TempEntries(z) # {} /\ t[j].threshold = e.freeze /\ v <= e.freeze
  BY <1>4, <1>5, <1>8, <1>9
<1>11. ASSUME TempEntries(z) # {}, v <= e.freeze
       PROVE  Evaluate(t, FreezeWpId(z), v) # {}
  <2>1. PICK j \in 1 .. Len(t) : t[j] = Lower(e)
    BY <1>7, <1>11
  <2>2. t[j].sensor_id = FreezeWpId(z) /\ Compare(v, t[j].op, t[j].threshold)
    BY <1>5, <1>7, <1>9, <1>11, <2>1
  <2>3. QED
    BY <1>1, <2>2, SomeViolation
<1>12. ASSUME NEW j \in Evaluate(t, OverheatWpId(z), v)
       PROVE  TempEntries(z) # {} /\ t[j].threshold = e.overheat /\ v >= e.overheat
  BY <1>4, <1>5, <1>8, <1>9
<1>13. ASSUME TempEntries(z) # {}, v >= e.overheat
       PROVE  Evaluate(t, OverheatWpId(z), v) # {}
  <2>1. PICK j \in 1 .. Len(t) : t[j] = Upper(e)
    BY <1>7, <1>13
  <2>2. t[j].sensor_id = OverheatWpId(z) /\ Compare(v, t[j].op, t[j].threshold)
    BY <1>5, <1>7, <1>9, <1>13, <2>1
  <2>3. QED
    BY <1>1, <2>2, SomeViolation
<1>14. AlertOnViolation(t, FreezeWpId(z), v, z, "freeze") =
           IF TempEntries(z) # {} /\ v <= e.freeze
           THEN <<TempAlert(z, "freeze", e.freeze)>> ELSE <<>>
  BY <1>3, <1>6, <1>10, <1>11
<1>15. AlertOnViolation(t, OverheatWpId(z), v, z, "overheat") =
           IF TempEntries(z) # {} /\ v >= e.overheat
           THEN <<TempAlert(z, "overheat", e.overheat)>> ELSE <<>>
  BY <1>3, <1>6, <1>12, <1>13
<1>16. QED
  BY <1>14, <1>15 DEF t, e, i

\* The list of a reading grows check by check and always has room.
LEMMA FourChecks ==
    ASSUME NEW e, NEW z, NEW v
    PROVE  LET C == VerifiedTemp!Checks(e, v)
               One(k) == IF C[k].holds THEN <<VerifiedTemp!Alert(z, C[k])>> ELSE <<>>
           IN  VerifiedTemp!AlertsOf(e, z, v) = ((One(1) \o One(2)) \o One(3)) \o One(4)
<1> DEFINE C == VerifiedTemp!Checks(e, v)
           S == {VerifiedTemp!Alert(z, C[k]) : k \in 1 .. 4}
           One(k) == IF C[k].holds THEN <<VerifiedTemp!Alert(z, C[k])>> ELSE <<>>
           Turn(f) == [n \in 0 .. 4 |-> IF n = 0 THEN <<>>
                                        ELSE VerifiedTemp!Added(f[n - 1], z, C[n])]
           after == CHOOSE f : f = Turn(f)
<1>1. VerifiedTemp!AlertsOf(e, z, v) = after[4]
  BY DEF VerifiedTemp!AlertsOf
<1> DEFINE Grows(list, k) ==
               /\ VerifiedTemp!Added(list, z, C[k]) = list \o One(k)
               /\ list \o One(k) \in Seq(S) /\ Len(list \o One(k)) <= Len(list) + 1
<1>2. ASSUME NEW list \in Seq(S), Len(list) < 4, NEW k \in 1 .. 4
      PROVE  Grows(list, k)
  <2> DEFINE a == VerifiedTemp!Alert(z, C[k])
  <2>1. a \in S
    OBVIOUS
  <2>2. VerifiedTemp!Added(list, z, C[k]) = IF C[k].holds THEN Append(list, a) ELSE list
    BY <1>2 DEF VerifiedTemp!Added
  <2>3. One(k) = IF C[k].holds THEN <<a>> ELSE <<>>
    OBVIOUS
  <2> HIDE DEF a, One, S, C
  <2>4. CASE C[k].holds
    <3>1. Append(list, a) = list \o <<a>> /\ <<a>> \in Seq(S) /\ Len(<<a>>) = 1
      BY <2>1
    <3>2. list \o <<a>> \in Seq(S) /\ Len(list \o <<a>>) = Len(list) + 1
      BY <3>1
    <3>3. QED
      BY <2>2, <2>3, <2>4, <3>1, <3>2
  <2>5. CASE ~ C[k].holds
    BY <2>2, <2>3, <2>5
  <2>6. QED
    BY <2>4, <2>5
<1> DEFINE s1 == <<>> \o One(1)
           s2 == s1 \o One(2)
           s3 == s2 \o One(3)
           s4 == s3 \o One(4)
           g == [n \in 0 .. 4 |-> IF n = 0 THEN <<>> ELSE IF n = 1 THEN s1
                                  ELSE IF n = 2 THEN s2 ELSE IF n = 3 THEN s3 ELSE s4]
<1> HIDE DEF S, One, C, Grows
<1>3. /\ <<>> \in Seq(S) /\ Len(<<>>) = 0
      /\ 1 \in 1 .. 4 /\ 2 \in 1 .. 4 /\ 3 \in 1 .. 4 /\ 4 \in 1 .. 4
  OBVIOUS
<1>4. s1 = VerifiedTemp!Added(<<>>, z, C[1]) /\ s1 \in Seq(S) /\ Len(s1) <= 1
  <2>1. Grows(<<>>, 1)
    <3>0. 0 < 4
      OBVIOUS
    <3>1. PICK list \in Seq(S) : list = <<>> /\ Len(list) < 4
      BY <1>3, <3>0, Zenon
    <3>2. Grows(list, 1)
      BY <1>2, <1>3, <3>1
    <3>3. QED
      BY <3>1, <3>2
  <2>2. QED
    BY <1>3, <2>1 DEF Grows
<1> HIDE DEF s1
<1>5. s2 = VerifiedTemp!Added(s1, z, C[2]) /\ s2 \in Seq(S) /\ Len(s2) <= 2
  <2>1. Len(s1) \in Nat
    BY <1>4
  <2>2. Grows(s1, 2)
    BY <1>2, <1>3, <1>4, <2>1
  <2>3. QED
    BY <1>4, <2>1, <2>2 DEF Grows
<1> HIDE DEF s2
<1>6. s3 = VerifiedTemp!Added(s2, z, C[3]) /\ s3 \in Seq(S) /\ Len(s3) <= 3
  <2>1. Len(s2) \in Nat
    BY <1>5
  <2>2. Grows(s2, 3)
    BY <1>2, <1>3, <1>5, <2>1
  <2>3. QED
    BY <1>5, <2>1, <2>2 DEF Grows
<1> HIDE DEF s3
<1>7. s4 = VerifiedTemp!Added(s3, z, C[4])
  <2>1. Len(s3) \in Nat
    BY <1>6
  <2>2. Grows(s3, 4)
    BY <1>2, <1>3, <1>6, <2>1
  <2>3. QED
    BY <2>2 DEF Grows
<1>8. s1 = One(1)
  <2>1. <<>> \o One(1) = One(1)
    <3>1. PICK a : a = VerifiedTemp!Alert(z, C[1])
      OBVIOUS
    <3>2. One(1) = <<a>> \/ One(1) = <<>>
      BY <3>1 DEF One
    <3>3. <<>> \o <<a>> = <<a>> /\ <<>> \o <<>> = <<>>
      OBVIOUS
    <3>4. QED
      BY <3>2, <3>3
  <2>2. QED
    BY <2>1 DEF s1
<1> HIDE DEF s4
<1>9. g[0] = <<>> /\ g[1] = s1 /\ g[2] = s2 /\ g[3] = s3 /\ g[4] = s4
  OBVIOUS
<1>10. g = Turn(g)
  <2>1. g = [n \in 0 .. 4 |-> g[n]]
    OBVIOUS
  <2> HIDE DEF g
  <2>2. \A n \in 0 .. 4 : n = 0 \/ n = 1 \/ n = 2 \/ n = 3 \/ n = 4
    OBVIOUS
  <2>3. \A n \in 0 .. 4 : g[n] = IF n = 0 THEN <<>> ELSE VerifiedTemp!Added(g[n - 1], z, C[n])
    BY <1>4, <1>5, <1>6, <1>7, <1>9, <2>2
  <2>4. QED
    BY <2>1, <2>3
<1> HIDE DEF g
<1>11. after = Turn(after)
  <2>1. \E f : f = Turn(f)
    BY <1>10
  <2>2. QED
    BY <2>1
<1> HIDE DEF after
<1>12. after[4] = g[4]
  <2>1. after[0] = <<>> /\ g[0] = <<>>
    BY <1>9, <1>11
  <2>2. \A n \in 1 .. 4 : after[n] = VerifiedTemp!Added(after[n - 1], z, C[n])
    BY <1>11
  <2>3. \A n \in 1 .. 4 : g[n] = VerifiedTemp!Added(g[n - 1], z, C[n])
    BY <1>10
  <2>4. \A n \in 1 .. 4 : after[n - 1] = g[n - 1] => after[n] = g[n]
    BY <2>2, <2>3
  <2>5. QED
    BY <2>1, <2>4, LoopsAgree
<1>13. QED
  BY <1>1, <1>8, <1>9, <1>12 DEF s2, s3, s4, One, C

LEMMA TempReadingAsVerified ==
    ASSUME HubInv, TempIdsFit, DifferencesFit, ReadValues, ZonesOnce, ZonesApart,
           NEW z \in Zones, NEW v \in Temperatures, TempReading(z, v), UNCHANGED now,
           Raised(TempTypes) = <<>>, Raised(TempTypes)' = TempAlerts(z, v)
    PROVE  VerifiedTemp!ProcessReading(z, v)
<1> DEFINE a == AlertOnViolation(temp.limits, FreezeWpId(z), v, z, "freeze")
           b == AlertOnViolation(temp.limits, OverheatWpId(z), v, z, "overheat")
           i == TempEntry(z)
           e == temp.zones[i]
           down == RateAlert(z, e.last_value - v, "rapid_drop")
           up == RateAlert(z, v - e.last_value, "rapid_rise")
<1>1. VerifiedTemp!Matching(z) = TempEntries(z) /\ VerifiedTemp!First(z) = i
  BY DEF VerifiedTemp!First, VerifiedTemp!Matching, TempEntry, TempEntries
<1>2. TempInv(temp, config.temp) /\ v \in Int
  BY HubAssumption DEF HubInv, Temperatures, PacketsOf
<1>3. /\ a = IF TempEntries(z) # {} /\ v <= e.freeze
             THEN <<TempAlert(z, "freeze", e.freeze)>> ELSE <<>>
      /\ b = IF TempEntries(z) # {} /\ v >= e.overheat
             THEN <<TempAlert(z, "overheat", e.overheat)>> ELSE <<>>
  BY <1>2, LimitAlerts
<1>4. KeepReading(z, v, now) /\ TempAlerts(z, v) = (a \o b) \o RateAlerts(z, v)
  BY DEF TempReading, TempAlerts
<1> HIDE DEF a, b
<1>5. CASE TempEntries(z) = {}
  <2>1. RateAlerts(z, v) = <<>> /\ temp' = temp /\ a = <<>> /\ b = <<>>
    BY <1>3, <1>4, <1>5 DEF RateAlerts, KeepReading
  <2>2. TempAlerts(z, v) = <<>>
    BY <1>4, <2>1
  <2>3. QED
    BY <1>1, <1>5, <2>1, <2>2 DEF VerifiedTemp!ProcessReading
<1>6. CASE TempEntries(z) # {}
  <2>1. i \in 1 .. Len(temp.zones) /\ RateAlerts(z, v) = down \o up
    BY <1>2, <1>6, TempEntryFound DEF RateAlerts
  <2>2. /\ down = IF e.last_time > 0 /\ e.last_value - v > e.rate
                  THEN <<TempAlert(z, "rapid_drop", e.rate)>> ELSE <<>>
        /\ up = IF e.last_time > 0 /\ v - e.last_value > e.rate
                THEN <<TempAlert(z, "rapid_rise", e.rate)>> ELSE <<>>
    BY <1>2, <1>6, SameRates
  <2>3. a \o b \in Seq(Alert) /\ down \in Seq(Alert) /\ up \in Seq(Alert)
    <3>1. temp.limits \in Seq(Limit) /\ "freeze" \in AlertTypes /\ "overheat" \in AlertTypes
      BY <1>2, HubAssumption DEF TempInv, TempTypes
    <3>2. a \in Seq(Alert) /\ b \in Seq(Alert)
      BY <3>1, ViolationKeys DEF a, b
    <3>3. down \in Seq(Alert) /\ up \in Seq(Alert)
      BY <1>2, <1>6, RateAlertKeys
    <3> HIDE DEF down, up
    <3>4. QED
      BY <3>2, <3>3
  <2> HIDE DEF down, up
  <2>4. TempAlerts(z, v) = ((a \o b) \o down) \o up
    <3>1. ((a \o b) \o down) \o up = (a \o b) \o (down \o up)
      BY <2>3
    <3>2. QED
      BY <1>4, <2>1, <3>1
  <2>5. VerifiedTemp!AlertsOf(e, z, v) = ((a \o b) \o down) \o up
    <3> DEFINE C == VerifiedTemp!Checks(e, v)
               One(k) == IF C[k].holds THEN <<VerifiedTemp!Alert(z, C[k])>> ELSE <<>>
    <3> HIDE DEF e
    <3>1. VerifiedTemp!AlertsOf(e, z, v) = ((One(1) \o One(2)) \o One(3)) \o One(4)
      BY FourChecks
    <3>2. a = One(1) /\ b = One(2)
      BY <1>3, <1>6 DEF VerifiedTemp!Checks, VerifiedTemp!Alert, TempAlert
    <3>3. down = One(3) /\ up = One(4)
      BY <2>2 DEF VerifiedTemp!Checks, VerifiedTemp!Alert, TempAlert
    <3> HIDE DEF One
    <3>4. QED
      BY <3>1, <3>2, <3>3
  <2>6. temp' = [temp EXCEPT !.zones[i].last_value = v, !.zones[i].last_time = now]
    BY <1>4, <1>6 DEF KeepReading
  <2>7. temp.zones' = [temp.zones EXCEPT ![i].last_value = v, ![i].last_time = now]
    <3>1. temp \in [zones : Seq(TempState), limits : Seq(Limit)]
      BY <1>2 DEF TempInv
    <3> HIDE DEF i
    <3>2. QED
      BY <2>6, <3>1
  <2>8. QED
    BY <1>1, <1>6, <2>4, <2>5, <2>7 DEF VerifiedTemp!ProcessReading
<1>7. QED
  BY <1>5, <1>6

LEMMA VerifiedTempStep ==
    ASSUME TempIdsFit, DifferencesFit, ZonesOnce, HubInv, ReadValues, ZonesApart, Single(pending),
           [HubNext]_hubVars
    PROVE  [VerifiedTemp!Next]_<<temp.zones, Raised(TempTypes), now>>
<1>1. /\ Raised(TempTypes) = Part(pending, TempTypes)
      /\ Raised(TempTypes)' = Part(pending', TempTypes)
  BY RaisedIsPart DEF TempTypes
<1>2. CASE /\ UNCHANGED now /\ pending = <<>>
           /\ \E z \in Zones, v \in Temperatures :
                 TempReading(z, v) /\ Part(pending', TempTypes) = TempAlerts(z, v)
  <2>1. PICK z \in Zones, v \in Temperatures :
            TempReading(z, v) /\ Part(pending', TempTypes) = TempAlerts(z, v)
    BY <1>2
  <2>2. Raised(TempTypes) = <<>> /\ Raised(TempTypes)' = TempAlerts(z, v)
    BY <1>1, <1>2, <2>1 DEF Part
  <2>3. VerifiedTemp!ProcessReading(z, v)
    BY <1>2, <2>1, <2>2, TempReadingAsVerified
  <2>4. QED
    BY <2>3 DEF VerifiedTemp!Next
<1>3. CASE /\ Part(pending, TempTypes) # <<>>
           /\ Part(pending', TempTypes) = Tail(Part(pending, TempTypes))
           /\ UNCHANGED <<temp, air, power, now>>
  BY <1>1, <1>3 DEF VerifiedTemp!Next, VerifiedTemp!TakeAlert
<1>4. CASE HubRestart /\ UNCHANGED now /\ Part(pending', TempTypes) = <<>>
  <2>1. config' \in Configs /\ temp' = TempWith(config'.temp)
    BY <1>4 DEF HubRestart, Restart
  <2>2. PICK c \in Configs : c = config'
    BY <2>1
  <2>3. c.temp \in TempLists /\ temp'.zones = VerifiedTemp!Started(c.temp)
    BY <2>1, <2>2, SameTempTable, ConfiguredLists DEF TempLists
  <2>4. VerifiedTemp!Start
    BY <1>1, <1>4, <2>3 DEF VerifiedTemp!Start
  <2>5. QED
    BY <2>4 DEF VerifiedTemp!Next
<1>5. CASE /\ now' \in Time /\ Part(pending', TempTypes) = Part(pending, TempTypes)
           /\ UNCHANGED temp
  BY <1>1, <1>5 DEF VerifiedTemp!Next, VerifiedTemp!ClockMoves
<1>6. QED
  BY <1>2, <1>3, <1>4, <1>5, TempApart, PartSteps

\* Zones listed once, with both watchpoints each, raise what the verified
\* monitor raises, reading by reading and over restarts.
THEOREM HubTempAsVerified ==
    ASSUME TempIdsFit, DifferencesFit, ZonesOnce
    PROVE  HubSpec => TempAsVerified
<1> DEFINE I == HubInv /\ Single(pending) /\ ReadValues /\ ZonesApart
<1>1. HubInit => I /\ VerifiedTemp!Init
  <2> SUFFICES ASSUME HubInit PROVE I /\ VerifiedTemp!Init
    OBVIOUS
  <2>1. /\ config \in Configs /\ temp = TempWith(config.temp) /\ now \in Time
        /\ pending = <<>>
    BY DEF HubInit, Init, HistoryInit
  <2>2. PICK c \in Configs : c = config
    BY <2>1
  <2>3. AllOf(<<>>, TempTypes)
    BY DEF AllOf
  <2>4. Single(pending) /\ Raised(TempTypes) = <<>>
    BY <2>1, <2>3 DEF Single, Kinds, Raised
  <2>5. temp.zones = VerifiedTemp!Started(c.temp) /\ c.temp \in TempLists
    BY <2>1, <2>2, SameTempTable, ConfiguredLists DEF TempLists
  <2>6. ReadValues
    <3>1. \A i \in 1 .. Len(temp.zones) : temp.zones[i].last_time = 0
      BY <2>1, <2>2, FreshHub DEF Unread
    <3>2. QED
      BY <3>1 DEF ReadValues
  <2>7. ZonesApart
    BY <2>1, <2>2, FreshZonesApart DEF ZonesApart
  <2>8. QED
    BY <2>1, <2>4, <2>5, <2>6, <2>7, HubInvInit DEF VerifiedTemp!Init
<1>2. I /\ [HubNext]_hubVars => I'
  BY HubInvNext, SingleNext, ReadValuesNext, ZonesApartNext
<1>3. I /\ [HubNext]_hubVars => [VerifiedTemp!Next]_<<temp.zones, Raised(TempTypes), now>>
  BY VerifiedTempStep
<1>4. QED
  BY <1>1, <1>2, <1>3, PTL DEF HubSpec, TempAsVerified, VerifiedTemp!Spec


-----------------------------------------------------------------------------
(***************************************************************************)
(* The air quality monitor and its component, whose ids wrap where those   *)
(* of the hub's saturate: the same for zones whose first id fits.          *)
(***************************************************************************)
AirBasesFit == \A z \in Zones : 6 * z <= U32Max

LEMMA SameAirIds ==
    ASSUME AirBasesFit, NEW z \in Zones, NEW i
    PROVE  AirComponent!SensorId(z, i) = AirWpId(z, i)
<1>1. z \in Nat /\ ~ (z * 6 > U32Max) /\ U32Max \in Nat
  BY DispatcherAssumption, WatchpointsAssumption DEF AirBasesFit
<1>2. QED
  BY <1>1 DEF AirComponent!SensorId, AirWpId

LEMMA SameLimits ==
    ASSUME AirBasesFit, NEW cs \in Seq(AirThresholds), NEW t, AirTable(t, cs),
           NEW k \in 1 .. Len(cs)
    PROVE  AirComponent!WithLimits(t, cs[k]) = WithLimits(t, cs[k])
<1> DEFINE c == cs[k]
           Turn(f) == [i \in 0 .. 6 |->
                          IF i = 0 THEN t
                          ELSE AirComponent!RelayLc!AddWatchpoint(f[i - 1],
                                   AirComponent!RelayLc!Watchpoint(
                                       AirComponent!SensorId(c.zone_id, i), "GreaterOrEqual",
                                       c.thresholds[i]))]
           after == CHOOSE f : f = Turn(f)
<1>1. c.zone_id \in Zones
  <2>1. c \in AirThresholds
    OBVIOUS
  <2>2. QED
    BY <2>1 DEF AirThresholds
<1>2. PICK f : LimitsRun(f, t, c)
  BY SixLimits
<1>3. AirComponent!WithLimits(t, c) = after[6]
  BY DEF AirComponent!WithLimits
<1> HIDE DEF c
<1>4. \A u, i : AirComponent!RelayLc!AddWatchpoint(u,
                   AirComponent!RelayLc!Watchpoint(
                       AirComponent!SensorId(c.zone_id, i), "GreaterOrEqual", c.thresholds[i]))
               = AddWatchpoint(u, AirLimit(c, i))
  <2>1. \A i : AirComponent!SensorId(c.zone_id, i) = AirWpId(c.zone_id, i)
    BY <1>1, SameAirIds
  <2>2. QED
    BY <2>1 DEF AirComponent!RelayLc!AddWatchpoint, AirComponent!RelayLc!Watchpoint,
                AddWatchpoint, Watchpoint, AirLimit
<1> DEFINE g == [i \in 0 .. 6 |-> f[i]]
<1>5. g[0] = t /\ \A i \in 1 .. 6 : g[i] = AddWatchpoint(g[i - 1], AirLimit(c, i))
  BY <1>2 DEF LimitsRun
<1>6. g = Turn(g)
  <2>1. g = [i \in 0 .. 6 |-> g[i]]
    OBVIOUS
  <2> HIDE DEF g
  <2>2. \A i \in 0 .. 6 : i = 0 \/ i \in 1 .. 6
    OBVIOUS
  <2>3. \A i \in 0 .. 6 : g[i] = IF i = 0 THEN t ELSE AddWatchpoint(g[i - 1], AirLimit(c, i))
    BY <1>5, <2>2
  <2>4. QED
    BY <1>4, <2>1, <2>3
<1>7. after = Turn(after)
  <2> HIDE DEF g
  <2>1. \E h : h = Turn(h)
    BY <1>6
  <2>2. QED
    BY <2>1
<1> HIDE DEF after, g
<1>8. after[0] = t /\ \A i \in 1 .. 6 : after[i] = AddWatchpoint(after[i - 1], AirLimit(c, i))
  BY <1>4, <1>7
<1>9. after[6] = g[6]
  <2>1. \A i \in 1 .. 6 : after[i - 1] = g[i - 1] => after[i] = g[i]
    BY <1>5, <1>8
  <2>2. QED
    BY <1>5, <1>8, <2>1, LoopsAgree
<1>10. g[6] = WithLimits(t, c)
  BY <1>2 DEF LimitsRun, g
<1>11. QED
  BY <1>3, <1>9, <1>10 DEF c

\* The component, started with a list of zones, has the hub's table.
LEMMA SameAirComponent ==
    ASSUME AirBasesFit, NEW cs \in Seq(AirThresholds)
    PROVE  AirComponent!Starts(cs) = AirWith(cs)
<1> DEFINE n == Len(cs)
           Turn(f) == [i \in 0 .. n |-> IF i = 0 THEN AirComponent!Reset
                                        ELSE AirComponent!Registered(f[i - 1], cs[i])]
           after == CHOOSE f : f = Turn(f)
<1>1. n \in Nat
  OBVIOUS
<1>2. PICK f : AirRun(f, cs)
  BY AirStarts
<1> DEFINE g == [i \in 0 .. n |-> f[i]]
<1>3. f[0] = AirComponent!Reset
  BY <1>2 DEF AirRun, AirComponent!Reset, NewAir
<1>4. \A i \in 1 .. n : f[i] = AirComponent!Registered(f[i - 1], cs[i])
  <2> SUFFICES ASSUME NEW i \in 1 .. n
               PROVE  f[i] = AirComponent!Registered(f[i - 1], cs[i])
    OBVIOUS
  <2>1. f[i] = RegisterAir(f[i - 1], cs[i]) /\ AirTable(f[i - 1].limits, cs)
    BY <1>2 DEF AirRun, AirInv
  <2>2. AirComponent!WithLimits(f[i - 1].limits, cs[i]) = WithLimits(f[i - 1].limits, cs[i])
    BY <2>1, SameLimits
  <2>3. QED
    BY <2>1, <2>2 DEF AirComponent!Registered, RegisterAir
<1>5. g[0] = AirComponent!Reset /\ g[n] = f[n]
      /\ \A i \in 1 .. n : g[i] = AirComponent!Registered(g[i - 1], cs[i])
  <2>1. \A i \in 1 .. n : i \in 0 .. n /\ i - 1 \in 0 .. n
    BY <1>1
  <2> HIDE DEF n
  <2>2. QED
    BY <1>1, <1>3, <1>4, <2>1
<1>6. AirComponent!Starts(cs) = after[n]
  BY DEF AirComponent!Starts
<1>7. g = Turn(g)
  <2>1. g = [i \in 0 .. n |-> g[i]]
    OBVIOUS
  <2> HIDE DEF g, n
  <2>2. ASSUME NEW i \in 0 .. n
        PROVE  g[i] = IF i = 0 THEN AirComponent!Reset
                      ELSE AirComponent!Registered(g[i - 1], cs[i])
    <3>1. CASE i = 0
      BY <1>5, <3>1
    <3>2. CASE i # 0
      <4>1. i \in 1 .. n
        BY <1>1, <3>2
      <4>2. QED
        BY <1>5, <3>2, <4>1
    <3>3. QED
      BY <3>1, <3>2
  <2>3. QED
    BY <2>1, <2>2
<1>8. after = Turn(after)
  <2> HIDE DEF g
  <2>1. \E h : h = Turn(h)
    BY <1>7
  <2>2. QED
    BY <2>1
<1> HIDE DEF after, g, n
<1>9. after[0] = AirComponent!Reset
      /\ \A i \in 1 .. n : after[i] = AirComponent!Registered(after[i - 1], cs[i])
  BY <1>1, <1>8
<1>10. after[n] = g[n]
  <2>1. \A i \in 1 .. n : after[i - 1] = g[i - 1] => after[i] = g[i]
    BY <1>5, <1>9
  <2>2. QED
    BY <1>1, <1>5, <1>9, <2>1, LoopsAgree
<1>11. f[n] = AirWith(cs)
  BY <1>2 DEF AirRun, n
<1>12. QED
  BY <1>5, <1>6, <1>10, <1>11


LEMMA AirReadingAsComponent ==
    ASSUME AirBasesFit, HubInv, NEW z \in Zones, NEW r \in PassedOnce, AirReading(z, r),
           Raised(AirTypes) = <<>>, Raised(AirTypes)' = AirAlerts(z, PassedOn(r))
    PROVE  AirComponent!ProcessReading(z, PassedOn(r))
<1> DEFINE p == PassedOn(r)
           Grown(s, i) == s \o AirComponent!RelayLc!AlertOnViolation(
                                   air.limits, AirComponent!SensorId(z, i),
                                   AirComponent!Compared(p)[i], z, AirComponent!Types[i])
           Turn(f) == [i \in 0 .. 6 |-> IF i = 0 THEN <<>> ELSE Grown(f[i - 1], i)]
           after == CHOOSE f : f = Turn(f)
<1>1. PICK f : AirAlertsRun(f, z, p)
  BY AirAlertKeys DEF HubInv
<1>2. AirComponent!AlertsOf(z, p) = after[6]
  BY DEF AirComponent!AlertsOf, Grown
<1> HIDE DEF p
<1>3. \A s, i : Grown(s, i) = AirTurn(s, i, z, p)
  <2>1. \A i : AirComponent!SensorId(z, i) = AirWpId(z, i)
    BY SameAirIds
  <2>2. AirComponent!Compared(p) = Compared(p) /\ AirComponent!Types = AirAlertTypes
    BY DEF AirComponent!Compared, Compared, AirComponent!Types, AirAlertTypes
  <2>3. \A id, v, type : AirComponent!RelayLc!AlertOnViolation(air.limits, id, v, z, type)
                             = AlertOnViolation(air.limits, id, v, z, type)
    BY DEF AirComponent!RelayLc!AlertOnViolation,
           AirComponent!RelayLc!Evaluate, AirComponent!RelayLc!Violated,
           AirComponent!RelayLc!Compare, AirComponent!RelayLc!Cardinality,
           AlertOnViolation, Evaluate, Violated, Compare, Cardinality
  <2>4. QED
    BY <2>1, <2>2, <2>3 DEF AirAlertAt, AirTurn
<1> HIDE DEF Grown
<1> DEFINE g == [i \in 0 .. 6 |-> f[i]]
<1>4. g[0] = <<>> /\ g[6] = AirAlerts(z, p)
      /\ \A i \in 1 .. 6 : g[i] = AirTurn(g[i - 1], i, z, p)
  BY <1>1 DEF AirAlertsRun
<1>5. g = Turn(g)
  <2>1. g = [i \in 0 .. 6 |-> g[i]]
    OBVIOUS
  <2> HIDE DEF g
  <2>2. \A i \in 0 .. 6 : i = 0 \/ i \in 1 .. 6
    OBVIOUS
  <2>3. \A i \in 0 .. 6 : g[i] = IF i = 0 THEN <<>> ELSE AirTurn(g[i - 1], i, z, p)
    BY <1>4, <2>2
  <2>4. QED
    BY <1>3, <2>1, <2>3
<1>6. after = Turn(after)
  <2> HIDE DEF g
  <2>1. \E h : h = Turn(h)
    BY <1>5
  <2>2. QED
    BY <2>1
<1> HIDE DEF after, g
<1>7. after[0] = <<>> /\ \A i \in 1 .. 6 : after[i] = AirTurn(after[i - 1], i, z, p)
  BY <1>3, <1>6
<1>8. after[6] = g[6]
  <2>1. \A i \in 1 .. 6 : after[i - 1] = g[i - 1] => after[i] = g[i]
    BY <1>4, <1>7
  <2>2. QED
    BY <1>4, <1>7, <2>1, LoopsAgree
<1>9. AirComponent!AlertsOf(z, p) = AirAlerts(z, p)
  BY <1>2, <1>4, <1>8
<1>10. UNCHANGED air
  BY DEF AirReading
<1>11. QED
  BY <1>9, <1>10 DEF AirComponent!ProcessReading, p

LEMMA AirApart == AirTypes \in Kinds /\ AirTypes # TempTypes /\ AirTypes # PowerTypes
<1>1. "co2_warning" \in AirTypes
  <2>1. AirAlertTypes[1] \in AirTypes
    BY DEF AirTypes
  <2>2. QED
    BY <2>1 DEF AirAlertTypes
<1>2. QED
  BY <1>1 DEF Kinds, TempTypes, PowerTypes

LEMMA AirComponentStep ==
    ASSUME AirBasesFit, HubInv, Single(pending), [HubNext]_hubVars
    PROVE  [AirComponent!Next]_<<air, Raised(AirTypes)>>
<1>1. /\ Raised(AirTypes) = Part(pending, AirTypes)
      /\ Raised(AirTypes)' = Part(pending', AirTypes)
  BY RaisedIsPart DEF AirTypes
<1>2. CASE /\ pending = <<>>
           /\ \E z \in Zones, r \in PassedOnce :
                 AirReading(z, r) /\ Part(pending', AirTypes) = AirAlerts(z, PassedOn(r))
  <2>1. PICK z \in Zones, r \in PassedOnce :
            AirReading(z, r) /\ Part(pending', AirTypes) = AirAlerts(z, PassedOn(r))
    BY <1>2
  <2>2. Raised(AirTypes) = <<>> /\ Raised(AirTypes)' = AirAlerts(z, PassedOn(r))
    BY <1>1, <1>2, <2>1 DEF Part
  <2>3. AirComponent!ProcessReading(z, PassedOn(r))
    BY <2>1, <2>2, AirReadingAsComponent
  <2>4. PassedOn(r) \in PassedReadings
    BY <2>1 DEF PassedReadings, PassedOnce
  <2>5. QED
    BY <2>3, <2>4 DEF AirComponent!Next
<1>3. CASE /\ Part(pending, AirTypes) # <<>>
           /\ Part(pending', AirTypes) = Tail(Part(pending, AirTypes))
           /\ UNCHANGED <<temp, air, power, now>>
  BY <1>1, <1>3 DEF AirComponent!Next, AirComponent!TakeAlert
<1>4. CASE HubRestart /\ UNCHANGED now /\ Part(pending', AirTypes) = <<>>
  <2>1. config' \in Configs /\ air' = AirWith(config'.air)
    BY <1>4 DEF HubRestart, Restart
  <2>2. PICK c \in Configs : c = config'
    BY <2>1
  <2>3. c.air \in AirLists /\ air' = AirComponent!Starts(c.air)
    BY <2>1, <2>2, SameAirComponent, ConfiguredLists DEF AirLists
  <2>4. AirComponent!Start
    BY <1>1, <1>4, <2>3 DEF AirComponent!Start
  <2>5. QED
    BY <2>4 DEF AirComponent!Next
<1>5. CASE Part(pending', AirTypes) = Part(pending, AirTypes) /\ UNCHANGED air
  BY <1>1, <1>5
<1>6. QED
  BY <1>2, <1>3, <1>4, <1>5, AirApart, PartSteps

\* The ids of the component make no difference, whatever the zones listed.
THEOREM HubAirAsComponent ==
    ASSUME AirBasesFit
    PROVE  HubSpec => AirAsComponent
<1>1. HubInit => HubInv /\ Single(pending) /\ AirComponent!Init
  <2> SUFFICES ASSUME HubInit PROVE HubInv /\ Single(pending) /\ AirComponent!Init
    OBVIOUS
  <2>1. config \in Configs /\ air = AirWith(config.air) /\ pending = <<>>
    BY DEF HubInit, Init
  <2>2. PICK c \in Configs : c = config
    BY <2>1
  <2>3. AllOf(<<>>, TempTypes)
    BY DEF AllOf
  <2>4. Single(pending) /\ Raised(AirTypes) = <<>>
    BY <2>1, <2>3 DEF Single, Kinds, Raised
  <2>5. air = AirComponent!Starts(c.air) /\ c.air \in AirLists
    BY <2>1, <2>2, SameAirComponent, ConfiguredLists DEF AirLists
  <2>6. QED
    BY <2>4, <2>5, HubInvInit DEF AirComponent!Init
<1>2. HubInv /\ Single(pending) /\ [HubNext]_hubVars => HubInv' /\ Single(pending)'
  BY HubInvNext, SingleNext
<1>3. HubInv /\ Single(pending) /\ [HubNext]_hubVars
          => [AirComponent!Next]_<<air, Raised(AirTypes)>>
  BY AirComponentStep
<1>4. QED
  BY <1>1, <1>2, <1>3, PTL DEF HubSpec, AirAsComponent, AirComponent!Spec


-----------------------------------------------------------------------------
(***************************************************************************)
(* The verified air monitor compares a reading with the zone's own limits  *)
(* and raises the worse alert of a metric only: the same, less what is     *)
(* superseded, for zones listed once with all their watchpoints.           *)
(***************************************************************************)
AirZonesOnce ==
    /\ 6 * MaxAirZones <= MaxWatchpoints
    /\ \A c \in Configs : \A i, j \in 1 .. Len(c.air) :
          c.air[i].zone_id = c.air[j].zone_id => i = j

\* The table holds the six watchpoints of each of the first n zones of the list.
AirFull(t, cs, n) ==
    /\ t \in Seq(Limit)
    /\ Len(t) = 6 * n
    /\ \A k \in 1 .. n, i \in 1 .. 6 : t[6 * (k - 1) + i] = AirLimit(cs[k], i)

\* The table t with the first i watchpoints of c behind it.
Followed(u, t, c, i) ==
    /\ u \in Seq(Limit)
    /\ Len(u) = Len(t) + i
    /\ \A j \in 1 .. Len(t) : u[j] = t[j]
    /\ \A m \in 1 .. i : u[Len(t) + m] = AirLimit(c, m)

LEMMA FollowedByOne ==
    ASSUME NEW t \in Seq(Limit), NEW c \in AirThresholds, NEW i \in 1 .. 6,
           Len(t) + 6 <= MaxWatchpoints, NEW u, Followed(u, t, c, i - 1)
    PROVE  Followed(AddWatchpoint(u, AirLimit(c, i)), t, c, i)
<1> DEFINE w == AirLimit(c, i)
           a == AddWatchpoint(u, w)
           l == Len(t)
<1>1. l \in Nat /\ MaxWatchpoints \in Nat /\ w \in Limit
  BY AirLimitType, WatchpointsAssumption
<1>2. u \in Seq(Limit) /\ Len(u) = l + (i - 1) /\ Len(u) < MaxWatchpoints
  BY <1>1 DEF Followed
<1> HIDE DEF w, l
<1>3. a = Append(u, w)
  BY <1>2 DEF AddWatchpoint
<1>4. /\ a \in Seq(Limit) /\ Len(a) = Len(u) + 1 /\ a[Len(u) + 1] = w
      /\ \A j \in 1 .. Len(u) : a[j] = u[j]
  BY <1>1, <1>2, <1>3
<1> HIDE DEF a
<1>5. Len(a) = l + i
  BY <1>1, <1>2, <1>4
<1>6. \A j \in 1 .. l : a[j] = t[j]
  <2>1. \A j \in 1 .. l : j \in 1 .. Len(u) /\ u[j] = t[j]
    BY <1>1, <1>2 DEF Followed, l
  <2>2. QED
    BY <1>4, <2>1
<1>7. ASSUME NEW m \in 1 .. i
      PROVE  a[l + m] = AirLimit(c, m)
  <2>1. CASE m = i
    <3>1. l + m = Len(u) + 1
      BY <1>1, <1>2, <2>1
    <3>2. QED
      BY <1>4, <2>1, <3>1 DEF w
  <2>2. CASE m # i
    <3>1. m \in 1 .. i - 1 /\ l + m \in 1 .. Len(u)
      BY <1>1, <1>2, <2>2
    <3>2. u[l + m] = AirLimit(c, m)
      BY <3>1 DEF Followed, l
    <3>3. QED
      BY <1>4, <3>1, <3>2
  <2>3. QED
    BY <2>1, <2>2
<1>8. QED
  BY <1>4, <1>5, <1>6, <1>7 DEF Followed, a, w, l

LEMMA FollowedBySix ==
    ASSUME NEW t \in Seq(Limit), NEW c \in AirThresholds, Len(t) + 6 <= MaxWatchpoints,
           NEW f, LimitsRun(f, t, c)
    PROVE  Followed(WithLimits(t, c), t, c, 6)
<1> DEFINE P(i) == Followed(f[i], t, c, i)
<1>1. P(0)
  <2>1. f[0] = t /\ Len(t) \in Nat
    BY DEF LimitsRun
  <2>2. QED
    BY <2>1 DEF Followed
<1>2. ASSUME NEW i \in 1 .. 6, P(i - 1)
      PROVE  P(i)
  <2>1. f[i] = AddWatchpoint(f[i - 1], AirLimit(c, i))
    BY DEF LimitsRun
  <2>2. Followed(AddWatchpoint(f[i - 1], AirLimit(c, i)), t, c, i)
    BY <1>2, FollowedByOne
  <2>3. QED
    BY <2>1, <2>2
<1> HIDE DEF P
<1>3. P(1)
  BY <1>1, <1>2
<1>4. P(2)
  BY <1>2, <1>3
<1>5. P(3)
  BY <1>2, <1>4
<1>6. P(4)
  BY <1>2, <1>5
<1>7. P(5)
  BY <1>2, <1>6
<1>8. P(6)
  BY <1>2, <1>7
<1>9. QED
  BY <1>8 DEF P, LimitsRun

LEMMA OneZoneMore ==
    ASSUME AirZonesOnce, NEW cs \in Seq(AirThresholds), NEW t, AirTable(t, cs),
           NEW n \in Nat, n < MaxAirZones, n + 1 \in 1 .. Len(cs), AirFull(t, cs, n)
    PROVE  AirFull(WithLimits(t, cs[n + 1]), cs, n + 1)
<1> DEFINE c == cs[n + 1]
           u == WithLimits(t, c)
<1>1. c \in AirThresholds /\ t \in Seq(Limit) /\ Len(t) = 6 * n
  BY DEF AirFull
<1>2. Len(t) + 6 <= MaxWatchpoints
  BY <1>1, AirAssumption, WatchpointsAssumption DEF AirZonesOnce
<1>3. PICK f : LimitsRun(f, t, c)
  BY SixLimits
<1> HIDE DEF c
<1>4. Followed(u, t, c, 6)
  BY <1>1, <1>2, <1>3, FollowedBySix
<1> HIDE DEF u
<1>5. u \in Seq(Limit) /\ Len(u) = 6 * (n + 1)
  BY <1>1, <1>4 DEF Followed
<1>6. ASSUME NEW k \in 1 .. n + 1, NEW i \in 1 .. 6
      PROVE  u[6 * (k - 1) + i] = AirLimit(cs[k], i)
  <2>1. CASE k = n + 1
    <3>1. 6 * (k - 1) + i = Len(t) + i
      BY <1>1, <2>1
    <3>2. u[Len(t) + i] = AirLimit(c, i)
      BY <1>4 DEF Followed
    <3>3. QED
      BY <2>1, <3>1, <3>2 DEF c
  <2>2. CASE k # n + 1
    <3>1. k \in 1 .. n
      BY <2>2
    <3>2. 6 * (k - 1) + i \in 1 .. Len(t)
      BY <1>1, <3>1
    <3>3. t[6 * (k - 1) + i] = AirLimit(cs[k], i)
      BY <3>1 DEF AirFull
    <3>4. QED
      BY <1>4, <3>2, <3>3 DEF Followed
  <2>3. QED
    BY <2>1, <2>2
<1>7. QED
  BY <1>5, <1>6 DEF AirFull, u, c

\* How many of n zones there was room for.
RoomFor(n) == IF n <= MaxAirZones THEN n ELSE MaxAirZones

LEMMA AirTableIsFull ==
    ASSUME AirZonesOnce, NEW cs \in Seq(AirThresholds)
    PROVE  AirFull(AirWith(cs).limits, cs, RoomFor(Len(cs)))
<1> DEFINE n == Len(cs)
           Q(m, k) == m.zone_count = RoomFor(k) /\ AirFull(m.limits, cs, RoomFor(k))
<1>1. n \in Nat /\ MaxAirZones \in Nat
  BY AirAssumption
<1>2. PICK f : AirRun(f, cs)
  BY AirStarts
<1> DEFINE P == {k \in Nat : k <= n => Q(f[k], k)}
<1>3. 0 \in P
  <2>1. f[0].zone_count = 0 /\ f[0].limits = <<>>
    BY <1>2 DEF AirRun, NewAir
  <2>2. RoomFor(0) = 0
    BY <1>1 DEF RoomFor
  <2>3. AirFull(<<>>, cs, 0)
    BY DEF AirFull
  <2>4. Q(f[0], 0)
    BY <2>1, <2>2, <2>3
  <2> HIDE DEF Q
  <2>5. QED
    BY <2>4
<1>4. ASSUME NEW k \in P
      PROVE  k + 1 \in P
  <2>1. CASE k + 1 <= n
    <3>1. k \in Nat /\ k <= n /\ k + 1 \in 1 .. n /\ (k + 1) - 1 = k
      BY <1>1, <2>1
    <3>2. Q(f[k], k)
      BY <3>1
    <3>3. f[k + 1] = RegisterAir(f[k], cs[k + 1]) /\ AirTable(f[k].limits, cs)
      BY <1>2, <3>1 DEF AirRun, AirInv
    <3>4. CASE k >= MaxAirZones
      <4>1. RoomFor(k) = MaxAirZones /\ RoomFor(k + 1) = MaxAirZones
        BY <1>1, <3>1, <3>4 DEF RoomFor
      <4>2. f[k + 1] = f[k]
        BY <1>1, <3>2, <3>3, <4>1 DEF RegisterAir
      <4>3. Q(f[k + 1], k + 1)
        BY <3>2, <4>1, <4>2
      <4> HIDE DEF Q
      <4>4. QED
        BY <3>1, <4>3
    <3>5. CASE k < MaxAirZones
      <4>1. RoomFor(k) = k /\ RoomFor(k + 1) = k + 1
        BY <1>1, <3>1, <3>5 DEF RoomFor
      <4>2. f[k].zone_count = k /\ AirFull(f[k].limits, cs, k)
        BY <3>2, <4>1
      <4>3. AirFull(WithLimits(f[k].limits, cs[k + 1]), cs, k + 1)
        BY <3>1, <3>3, <3>5, <4>2, OneZoneMore
      <4>4. /\ f[k + 1].zone_count = k + 1
            /\ f[k + 1].limits = WithLimits(f[k].limits, cs[k + 1])
        BY <1>1, <3>1, <3>3, <3>5, <4>2 DEF RegisterAir
      <4>5. Q(f[k + 1], k + 1)
        BY <4>1, <4>3, <4>4
      <4> HIDE DEF Q
      <4>6. QED
        BY <3>1, <4>5
    <3>6. QED
      BY <1>1, <3>1, <3>4, <3>5
  <2>2. CASE ~ (k + 1 <= n)
    BY <2>2
  <2>3. QED
    BY <2>1, <2>2
<1>5. n \in P
  <2> HIDE DEF P
  <2>1. P \in SUBSET Nat
    BY DEF P
  <2>2. QED
    BY <1>1, <1>3, <1>4, <2>1, SetInduction
<1>6. Q(f[n], n)
  <2> HIDE DEF Q
  <2>1. QED
    BY <1>1, <1>5
<1>7. f[n] = AirWith(cs)
  BY <1>2 DEF AirRun
<1>8. QED
  BY <1>6, <1>7


LEMMA RegisteredAirZones ==
    ASSUME config \in Configs
    PROVE  /\ RoomFor(Len(config.air)) \in Nat
           /\ RoomFor(Len(config.air)) <= Len(config.air)
           /\ DOMAIN AirZones = 1 .. RoomFor(Len(config.air))
           /\ \A i \in 1 .. RoomFor(Len(config.air)) : AirZones[i] = config.air[i]
<1> DEFINE cs == config.air
           n == RoomFor(Len(cs))
<1>1. cs \in Seq(AirThresholds) /\ MaxAirZones \in Nat
  BY ConfiguredLists, AirAssumption
<1>2. Len(cs) \in Nat /\ DOMAIN cs = 1 .. Len(cs)
  BY <1>1
<1>3. AirZones = [i \in {j \in DOMAIN cs : j <= MaxAirZones} |-> cs[i]]
  BY DEF AirZones
<1> HIDE DEF cs
<1>4. n \in Nat /\ n <= Len(cs)
  BY <1>1, <1>2 DEF RoomFor
<1>5. {j \in DOMAIN cs : j <= MaxAirZones} = 1 .. n
  BY <1>1, <1>2 DEF RoomFor
<1> HIDE DEF n
<1>6. DOMAIN AirZones = 1 .. n /\ \A i \in 1 .. n : AirZones[i] = cs[i]
  BY <1>3, <1>5
<1>7. QED
  BY <1>4, <1>6 DEF n, cs

\* With its watchpoints a zone raises what six comparisons would.
LEMMA AirLimitAlerts ==
    ASSUME WatchpointIdsFit, AirZonesOnce, config \in Configs, air = AirWith(config.air),
           NEW z \in Zones, NEW p, NEW i \in 1 .. 6
    PROVE  LET c == AirZones[VerifiedAir!First(z)]
           IN  AirAlertAt(i, z, p) =
                   IF VerifiedAir!Matching(z) # {} /\ Compared(p)[i] >= c.thresholds[i]
                   THEN <<VerifiedAir!Alert(z, AirAlertTypes[i], c.thresholds[i])>> ELSE <<>>
<1> DEFINE cs == config.air
           n == RoomFor(Len(cs))
           M == VerifiedAir!Matching(z)
           e == VerifiedAir!First(z)
           c == AirZones[e]
           t == air.limits
           v == Compared(p)[i]
           type == AirAlertTypes[i]
           id == AirWpId(z, i)
<1>1. cs \in Seq(AirThresholds) /\ AirFull(t, cs, n)
  BY ConfiguredLists, AirTableIsFull
<1>2. t \in Seq(Limit) /\ Len(t) = 6 * n /\ DOMAIN t = 1 .. Len(t)
  BY <1>1 DEF AirFull
<1>3. /\ n \in Nat /\ n <= Len(cs) /\ DOMAIN AirZones = 1 .. n
      /\ \A k \in 1 .. n : AirZones[k] = cs[k]
  BY RegisteredAirZones
<1>4. M = {k \in 1 .. n : cs[k].zone_id = z}
  <2>1. M = {k \in DOMAIN AirZones : AirZones[k].zone_id = z}
    BY DEF VerifiedAir!Matching
  <2> HIDE DEF M, cs, n
  <2>2. QED
    BY <1>3, <2>1
<1>5. \A j, k \in M : j = k
  <2>1. \A j, k \in 1 .. Len(cs) : cs[j].zone_id = cs[k].zone_id => j = k
    BY DEF AirZonesOnce
  <2> HIDE DEF M, cs, n
  <2>2. \A j \in M : j \in 1 .. Len(cs) /\ cs[j].zone_id = z
    BY <1>3, <1>4
  <2>3. QED
    BY <2>1, <2>2
<1>6. ASSUME M # {}
      PROVE  e \in M /\ c = cs[e] /\ e \in 1 .. n /\ cs[e].zone_id = z
  <2>1. e = CHOOSE k \in M : \A j \in M : k <= j
    BY DEF VerifiedAir!First
  <2> HIDE DEF M, e, n
  <2>2. M \in SUBSET Nat
    BY <1>3, <1>4
  <2>3. \E k \in M : \A j \in M : k <= j
    BY <1>6, <2>2, LeastOf
  <2>4. e \in M
    BY <2>1, <2>3
  <2>5. QED
    BY <1>3, <1>4, <2>4
<1>7. ASSUME NEW k \in 1 .. n
      PROVE  cs[k] \in AirThresholds /\ cs[k].zone_id \in Zones
  <2>1. cs[k] \in AirThresholds
    <3> HIDE DEF n, cs
    <3>1. k \in 1 .. Len(cs)
      BY <1>1, <1>3
    <3>2. QED
      BY <1>1, <3>1
  <2>2. QED
    BY <2>1 DEF AirThresholds
<1> HIDE DEF cs, n, M, e, t, v
<1>8. \A k \in 1 .. n, m \in 1 .. 6 :
          /\ t[6 * (k - 1) + m] = AirLimit(cs[k], m)
          /\ AirLimit(cs[k], m) = [sensor_id |-> AirWpId(cs[k].zone_id, m),
                                   op |-> "GreaterOrEqual", threshold |-> cs[k].thresholds[m]]
  BY <1>1 DEF AirFull, AirLimit, Watchpoint
<1>9. ASSUME NEW j \in 1 .. Len(t), t[j].sensor_id = id
      PROVE  M # {} /\ t[j] = AirLimit(c, i)
  <2>1. PICK k \in 1 .. n, m \in 1 .. 6 : j = 6 * (k - 1) + m
    <3>1. j \in 1 .. 6 * n
      BY <1>2
    <3>2. \E k \in 1 .. n, m \in 1 .. 6 : j = 6 * (k - 1) + m
      <4> DEFINE q == (j - 1) \div 6
      <4>1. q \in Nat /\ 6 * q <= j - 1 /\ j - 1 < 6 * q + 6
        BY <3>1
      <4> HIDE DEF q
      <4>2. q + 1 \in 1 .. n /\ j - 6 * q \in 1 .. 6 /\ j = 6 * ((q + 1) - 1) + (j - 6 * q)
        BY <1>3, <3>1, <4>1
      <4>3. QED
        BY <4>2
    <3>3. QED
      BY <3>2
  <2>2. PICK y \in Zones : y = cs[k].zone_id
    BY <1>7, <2>1
  <2>3. AirWpId(y, m) = AirWpId(z, i)
    <3>1. t[j] = AirLimit(cs[k], m)
      BY <1>8, <2>1
    <3>2. AirLimit(cs[k], m).sensor_id = AirWpId(cs[k].zone_id, m)
      BY DEF AirLimit, Watchpoint
    <3>3. QED
      BY <1>9, <2>2, <3>1, <3>2 DEF id
  <2>4. /\ y \in Nat /\ AirWpId(y, m) = 6 * y + m - 1
        /\ z \in Nat /\ AirWpId(z, i) = 6 * z + i - 1
    BY AirIds
  <2>5. y = z /\ m = i
    <3>1. 6 * y + m - 1 = 6 * z + i - 1
      BY <2>3, <2>4
    <3>2. \A a, b \in Nat, x, w \in 1 .. 6 : 6 * a + x - 1 = 6 * b + w - 1 => a = b /\ x = w
      OBVIOUS
    <3>3. QED
      BY <2>1, <2>4, <3>1, <3>2
  <2>6. k \in M
    BY <1>4, <2>1, <2>2, <2>5
  <2>7. e = k /\ c = cs[k]
    BY <1>5, <1>6, <2>6
  <2>8. QED
    BY <1>8, <2>1, <2>5, <2>6, <2>7
<1>10. ASSUME M # {}
       PROVE  \E j \in 1 .. Len(t) : t[j] = AirLimit(c, i)
  <2>1. e \in 1 .. n /\ c = cs[e]
    BY <1>6, <1>10
  <2>2. 6 * (e - 1) + i \in 1 .. Len(t)
    BY <1>2, <1>3, <2>1
  <2>3. QED
    BY <1>8, <2>1, <2>2
<1>11. AirLimit(c, i).threshold = c.thresholds[i] /\ AirLimit(c, i).op = "GreaterOrEqual"
       /\ AirLimit(c, i).sensor_id = AirWpId(c.zone_id, i)
  BY DEF AirLimit, Watchpoint
<1>12. Compare(v, "GreaterOrEqual", c.thresholds[i]) <=> v >= c.thresholds[i]
  BY DEF Compare
<1>13. type \in AlertTypes
  BY HubAssumption DEF AirTypes
<1>14. \/ AlertOnViolation(t, id, v, z, type) = <<>> /\ Evaluate(t, id, v) = {}
       \/ \E j \in Evaluate(t, id, v) :
             AlertOnViolation(t, id, v, z, type)
                 = <<VerifiedAir!Alert(z, type, t[j].threshold)>>
  <2> HIDE DEF id, type
  <2>1. t \in Seq(Limit)
    BY <1>2
  <2>2. QED
    BY <1>13, <2>1, ViolationAlert DEF VerifiedAir!Alert
<1>15. \A j \in Evaluate(t, id, v) :
           j \in 1 .. Len(t) /\ t[j].sensor_id = id /\ Compare(v, t[j].op, t[j].threshold)
  BY <1>2 DEF Evaluate, Violated
<1>16. AirAlertAt(i, z, p) = AlertOnViolation(t, id, v, z, type)
  BY DEF AirAlertAt, t, v
<1>17. M # {} => c.zone_id = z
  BY <1>6
<1> HIDE DEF c, type
<1>18. ASSUME NEW j \in Evaluate(t, id, v)
       PROVE  M # {} /\ t[j].threshold = c.thresholds[i] /\ v >= c.thresholds[i]
  <2>1. M # {} /\ t[j] = AirLimit(c, i)
    BY <1>9, <1>15
  <2>2. QED
    BY <1>11, <1>12, <1>15, <2>1
<1>19. ASSUME M # {}, v >= c.thresholds[i]
       PROVE  Evaluate(t, id, v) # {}
  <2>1. PICK j \in 1 .. Len(t) : t[j] = AirLimit(c, i)
    BY <1>10, <1>19
  <2>2. t[j].sensor_id = id /\ Compare(v, t[j].op, t[j].threshold)
    BY <1>11, <1>12, <1>17, <1>19, <2>1 DEF id
  <2>3. QED
    BY <1>2, <2>2, SomeViolation
<1>20. AirAlertAt(i, z, p) = IF M # {} /\ v >= c.thresholds[i]
                             THEN <<VerifiedAir!Alert(z, type, c.thresholds[i])>> ELSE <<>>
  <2>1. CASE Evaluate(t, id, v) = {}
    BY <1>14, <1>16, <1>19, <2>1
  <2>2. CASE Evaluate(t, id, v) # {}
    <3>1. PICK j \in Evaluate(t, id, v) :
              AlertOnViolation(t, id, v, z, type) = <<VerifiedAir!Alert(z, type, t[j].threshold)>>
      BY <1>14, <2>2
    <3>2. QED
      BY <1>16, <1>18, <3>1
  <2>3. QED
    BY <2>1, <2>2
<1>21. QED
  BY <1>20 DEF M, v, c, e, type


\* What is superseded is left out from the end of the list to its head.
OrNot(list, s, n) ==
    IF Superseded(s, Len(s) - n + 1) THEN list ELSE <<s[Len(s) - n + 1]>> \o list

KeptRun(f, s) ==
    /\ f[0] = <<>>
    /\ \A n \in 1 .. Len(s) : f[n] = OrNot(f[n - 1], s, n)
    /\ f[Len(s)] = WithoutSuperseded(s)

LEMMA KeptRuns ==
    ASSUME NEW s \in Seq(Alert)
    PROVE  WithoutSuperseded(s) \in Seq(Alert) /\ \E f : KeptRun(f, s)
<1> DEFINE n == Len(s)
           S == Seq(Alert)
           step == [x \in S \X (1 .. n) |-> OrNot(x[1], s, x[2])]
           Turn(f) == [i \in 0 .. n |-> IF i = 0 THEN <<>> ELSE OrNot(f[i - 1], s, i)]
           kept == CHOOSE f : f = Turn(f)
<1>1. n \in Nat /\ <<>> \in S
  OBVIOUS
<1>2. ASSUME NEW list \in S, NEW i \in 1 .. n
      PROVE  OrNot(list, s, i) \in S
  <2>1. n - i + 1 \in 1 .. Len(s)
    BY <1>1
  <2>2. PICK a \in Alert : a = s[n - i + 1]
    BY <2>1
  <2>3. <<a>> \o list \in S
    OBVIOUS
  <2>4. OrNot(list, s, i) = list \/ OrNot(list, s, i) = <<a>> \o list
    BY <2>2 DEF OrNot
  <2>5. QED
    BY <2>3, <2>4
<1>3. \E f : f = Turn(f)
  <2>1. step \in Steps(S, n)
    <3> HIDE DEF S, n
    <3>1. QED
      BY <1>2 DEF Steps
  <2>2. \A u \in S, i \in 1 .. n : step[<<u, i>>] = OrNot(u, s, i)
    OBVIOUS
  <2> HIDE DEF S, step, n
  <2>3. PICK f : IsRun(f, S, <<>>, n, step)
    BY <1>1, <2>1, LoopRuns
  <2>4. \A i \in 1 .. n : f[i] = OrNot(f[i - 1], s, i)
    <3>1. \A i \in 1 .. n : i - 1 \in 0 .. n
      BY <1>1
    <3>2. QED
      BY <2>2, <2>3, <3>1 DEF IsRun
  <2>5. f = Turn(f)
    BY <1>1, <2>3, <2>4 DEF IsRun
  <2>6. QED
    BY <2>5
<1> HIDE DEF S
<1>4. kept = Turn(kept)
  BY <1>3
<1>5. WithoutSuperseded(s) = kept[n]
  BY DEF WithoutSuperseded, OrNot
<1> HIDE DEF kept, n
<1>6. kept[0] = <<>> /\ \A i \in 1 .. n : kept[i] = OrNot(kept[i - 1], s, i)
  BY <1>1, <1>4
<1>7. kept[n] \in S
  <2>1. \A i \in 1 .. n : kept[i - 1] \in S => kept[i] \in S
    BY <1>2, <1>6
  <2>2. QED
    BY <1>1, <1>6, <2>1, LoopStays
<1>8. KeptRun(kept, s)
  BY <1>5, <1>6 DEF KeptRun, n
<1>9. QED
  BY <1>5, <1>7, <1>8 DEF S

LEMMA NothingKept == WithoutSuperseded(<<>>) = <<>>
<1>1. <<>> \in Seq(Alert) /\ Len(<<>>) = 0
  OBVIOUS
<1>2. PICK f : KeptRun(f, <<>>)
  BY <1>1, KeptRuns
<1>3. QED
  BY <1>1, <1>2 DEF KeptRun

\* The head is kept or left out; the rest is not concerned.
LEMMA HeadKept ==
    ASSUME NEW s \in Seq(Alert), s # <<>>
    PROVE  WithoutSuperseded(s) =
               IF Superseded(s, 1) THEN WithoutSuperseded(Tail(s))
               ELSE <<Head(s)>> \o WithoutSuperseded(Tail(s))
<1> DEFINE t == Tail(s)
           n == Len(t)
<1>1. /\ t \in Seq(Alert) /\ Len(s) \in Nat /\ n \in Nat /\ Len(s) = n + 1
      /\ \A i \in 1 .. n : t[i] = s[i + 1]
  OBVIOUS
<1>2. Head(s) = s[1]
  OBVIOUS
<1>3. PICK f : KeptRun(f, s)
  BY KeptRuns
<1>4. PICK g : KeptRun(g, t)
  BY <1>1, KeptRuns
<1> HIDE DEF t, n
<1>5. ASSUME NEW i \in 1 .. n
      PROVE  Superseded(s, i + 1) <=> Superseded(t, i)
  <2>1. \A j \in i + 1 .. Len(t) : j \in 1 .. n /\ j + 1 \in i + 1 + 1 .. Len(s) /\ t[j] = s[j + 1]
    BY <1>1 DEF n
  <2>2. \A j \in i + 1 + 1 .. Len(s) : j - 1 \in i + 1 .. Len(t) /\ (j - 1) + 1 = j
    BY <1>1 DEF n
  <2>3. t[i] = s[i + 1]
    BY <1>1
  <2>4. Superseded(t, i) => Superseded(s, i + 1)
    <3>1. ASSUME Superseded(t, i)
          PROVE  Superseded(s, i + 1)
      <4>1. PICK j \in i + 1 .. Len(t), m \in {1, 3, 5} :
                t[i].type = AirAlertTypes[m] /\ t[j].type = AirAlertTypes[m + 1]
        BY <3>1 DEF Superseded
      <4>2. QED
        BY <2>1, <2>3, <4>1 DEF Superseded
    <3>2. QED
      BY <3>1
  <2>5. Superseded(s, i + 1) => Superseded(t, i)
    <3>1. ASSUME Superseded(s, i + 1)
          PROVE  Superseded(t, i)
      <4>1. PICK j \in i + 1 + 1 .. Len(s), m \in {1, 3, 5} :
                s[i + 1].type = AirAlertTypes[m] /\ s[j].type = AirAlertTypes[m + 1]
        BY <3>1 DEF Superseded
      <4>2. j - 1 \in i + 1 .. Len(t) /\ t[j - 1] = s[j]
        BY <2>1, <2>2
      <4>3. QED
        BY <2>3, <4>1, <4>2 DEF Superseded
    <3>2. QED
      BY <3>1
  <2>6. QED
    BY <2>4, <2>5
<1>6. ASSUME NEW i \in 1 .. n, NEW list
      PROVE  OrNot(list, s, i) = OrNot(list, t, i)
  <2> DEFINE k == Len(t) - i + 1
  <2>1. k \in 1 .. n /\ Len(s) - i + 1 = k + 1
    BY <1>1 DEF n
  <2> HIDE DEF k
  <2>2. t[k] = s[k + 1] /\ (Superseded(s, k + 1) <=> Superseded(t, k))
    BY <1>1, <1>5, <2>1
  <2>3. OrNot(list, t, i) = IF Superseded(t, k) THEN list ELSE <<t[k]>> \o list
    BY DEF OrNot, k
  <2>4. OrNot(list, s, i) = IF Superseded(s, k + 1) THEN list ELSE <<s[k + 1]>> \o list
    BY <2>1 DEF OrNot
  <2>5. QED
    BY <2>2, <2>3, <2>4
<1>7. f[n] = g[n]
  <2>1. f[0] = g[0]
    BY <1>3, <1>4 DEF KeptRun
  <2>2. ASSUME NEW i \in 1 .. n, f[i - 1] = g[i - 1]
        PROVE  f[i] = g[i]
    <3>1. i \in 1 .. Len(s) /\ i \in 1 .. Len(t)
      BY <1>1 DEF n
    <3>2. f[i] = OrNot(f[i - 1], s, i) /\ g[i] = OrNot(g[i - 1], t, i)
      BY <1>3, <1>4, <3>1 DEF KeptRun
    <3>3. QED
      BY <1>6, <2>2, <3>2
  <2>3. QED
    BY <1>1, <2>1, <2>2, LoopsAgree
<1>8. g[n] = WithoutSuperseded(t)
  BY <1>4 DEF KeptRun, n
<1>9. WithoutSuperseded(s) = OrNot(f[n], s, n + 1)
  <2>1. n + 1 \in 1 .. Len(s) /\ (n + 1) - 1 = n
    BY <1>1
  <2>2. f[n + 1] = OrNot(f[n], s, n + 1) /\ f[n + 1] = WithoutSuperseded(s)
    BY <1>1, <1>3, <2>1 DEF KeptRun
  <2>3. QED
    BY <2>2
<1>10. Len(s) - (n + 1) + 1 = 1
  BY <1>1
<1>11. OrNot(f[n], s, n + 1) = IF Superseded(s, 1) THEN f[n] ELSE <<s[1]>> \o f[n]
  BY <1>10 DEF OrNot
<1>12. QED
  BY <1>2, <1>7, <1>8, <1>9, <1>11 DEF t

Has(s, type) == \E j \in 1 .. Len(s) : s[j].type = type

LEMMA MetricTypesApart ==
    ASSUME NEW m \in {1, 3, 5}, NEW k \in {1, 3, 5}
    PROVE  /\ AirAlertTypes[m] = AirAlertTypes[k] => m = k
           /\ AirAlertTypes[m + 1] = AirAlertTypes[k + 1] => m = k
           /\ AirAlertTypes[m] # AirAlertTypes[k + 1]
  BY DEF AirAlertTypes

LEMMA FirstOfMetric ==
    ASSUME NEW s \in Seq(Alert), NEW a \in Alert, NEW m \in {1, 3, 5}
    PROVE  /\ a.type = AirAlertTypes[m] =>
                  WithoutSuperseded(<<a>> \o s) =
                      IF Has(s, AirAlertTypes[m + 1]) THEN WithoutSuperseded(s)
                      ELSE <<a>> \o WithoutSuperseded(s)
           /\ a.type = AirAlertTypes[m + 1] =>
                  WithoutSuperseded(<<a>> \o s) = <<a>> \o WithoutSuperseded(s)
<1> DEFINE t == <<a>> \o s
<1>1. /\ t \in Seq(Alert) /\ t # <<>> /\ Head(t) = a /\ Tail(t) = s /\ t[1] = a
      /\ Len(s) \in Nat /\ Len(t) = Len(s) + 1
  OBVIOUS
<1>2. \A j \in 1 .. Len(s) : t[j + 1] = s[j]
  OBVIOUS
<1> HIDE DEF t
<1>3. \A j \in 1 .. Len(s) : j + 1 \in 1 + 1 .. Len(t)
  BY <1>1
<1>4. \A j \in 1 + 1 .. Len(t) : j - 1 \in 1 .. Len(s) /\ (j - 1) + 1 = j
  BY <1>1
<1>5. ASSUME a.type = AirAlertTypes[m]
      PROVE  Superseded(t, 1) <=> Has(s, AirAlertTypes[m + 1])
  <2>1. ASSUME Superseded(t, 1)
        PROVE  Has(s, AirAlertTypes[m + 1])
    <3>1. PICK j \in 1 + 1 .. Len(t), k \in {1, 3, 5} :
              t[1].type = AirAlertTypes[k] /\ t[j].type = AirAlertTypes[k + 1]
      BY <2>1 DEF Superseded
    <3>2. k = m
      BY <1>1, <1>5, <3>1, MetricTypesApart
    <3>3. j - 1 \in 1 .. Len(s) /\ t[j] = s[j - 1]
      BY <1>2, <1>4
    <3>4. QED
      BY <3>1, <3>2, <3>3 DEF Has
  <2>2. ASSUME Has(s, AirAlertTypes[m + 1])
        PROVE  Superseded(t, 1)
    <3>1. PICK j \in 1 .. Len(s) : s[j].type = AirAlertTypes[m + 1]
      BY <2>2 DEF Has
    <3>2. j + 1 \in 1 + 1 .. Len(t) /\ t[j + 1].type = AirAlertTypes[m + 1]
      BY <1>2, <1>3, <3>1
    <3>3. QED
      BY <1>1, <1>5, <3>2 DEF Superseded
  <2>3. QED
    BY <2>1, <2>2
<1>6. ASSUME a.type = AirAlertTypes[m + 1]
      PROVE  ~ Superseded(t, 1)
  BY <1>1, <1>6, MetricTypesApart DEF Superseded
<1>7. WithoutSuperseded(t) = IF Superseded(t, 1) THEN WithoutSuperseded(s)
                             ELSE <<a>> \o WithoutSuperseded(s)
  BY <1>1, HeadKept
<1>8. QED
  BY <1>5, <1>6, <1>7 DEF t

Joined(s, t) == s \o t

LEMMA JoinFacts ==
    /\ \A s, t \in Seq(Alert) : Joined(s, t) \in Seq(Alert)
    /\ \A s \in Seq(Alert) : Joined(s, <<>>) = s /\ Joined(<<>>, s) = s
    /\ \A s, t, u \in Seq(Alert) : Joined(Joined(s, t), u) = Joined(s, Joined(t, u))
  BY DEF Joined

Worse(w, cr) == IF cr # <<>> THEN cr ELSE w

\* Of the alerts of one metric the last is kept.
LEMMA MetricKept ==
    ASSUME NEW m \in {1, 3, 5}, NEW w, NEW cr, NEW rest \in Seq(Alert),
           ~ Has(rest, AirAlertTypes[m + 1]),
           w = <<>> \/ \E a \in Alert : w = <<a>> /\ a.type = AirAlertTypes[m],
           cr = <<>> \/ \E a \in Alert : cr = <<a>> /\ a.type = AirAlertTypes[m + 1]
    PROVE  WithoutSuperseded(Joined(w, Joined(cr, rest)))
               = Joined(Worse(w, cr), WithoutSuperseded(rest))
<1> SUFFICES WithoutSuperseded(w \o (cr \o rest))
                 = (IF cr # <<>> THEN cr ELSE w) \o WithoutSuperseded(rest)
  BY DEF Joined, Worse
<1>1. /\ WithoutSuperseded(rest) \in Seq(Alert)
      /\ \A s \in Seq(Alert) : <<>> \o s = s
  BY KeptRuns
<1>2. CASE cr = <<>>
  <2>1. cr \o rest = rest
    BY <1>1, <1>2
  <2>2. CASE w = <<>>
    BY <1>1, <1>2, <2>1, <2>2
  <2>3. ASSUME NEW a \in Alert, w = <<a>>, a.type = AirAlertTypes[m]
        PROVE  WithoutSuperseded(<<a>> \o rest) = <<a>> \o WithoutSuperseded(rest)
    BY <2>3, FirstOfMetric
  <2>4. QED
    BY <1>2, <2>1, <2>2, <2>3
<1>3. ASSUME NEW b \in Alert, cr = <<b>>, b.type = AirAlertTypes[m + 1]
      PROVE  WithoutSuperseded(w \o (cr \o rest)) = cr \o WithoutSuperseded(rest)
  <2> DEFINE s == <<b>> \o rest
  <2>1. WithoutSuperseded(s) = <<b>> \o WithoutSuperseded(rest)
    BY <1>3, FirstOfMetric
  <2>2. s \in Seq(Alert) /\ Len(s) = Len(rest) + 1 /\ s[1] = b
    OBVIOUS
  <2>3. Has(s, AirAlertTypes[m + 1])
    <3>1. 1 \in 1 .. Len(s)
      BY <2>2
    <3> HIDE DEF s
    <3>2. QED
      BY <1>3, <2>2, <3>1 DEF Has
  <2>4. cr \o rest = s
    BY <1>3
  <2> HIDE DEF s
  <2>5. CASE w = <<>>
    BY <1>1, <1>3, <2>1, <2>2, <2>4, <2>5
  <2>6. ASSUME NEW a \in Alert, w = <<a>>, a.type = AirAlertTypes[m]
        PROVE  WithoutSuperseded(<<a>> \o s) = WithoutSuperseded(s)
    BY <2>2, <2>3, <2>6, FirstOfMetric
  <2>7. QED
    BY <1>3, <2>1, <2>4, <2>5, <2>6
<1>4. CASE cr # <<>>
  <2>1. PICK b \in Alert : cr = <<b>> /\ b.type = AirAlertTypes[m + 1]
    BY <1>4
  <2>2. QED
    BY <1>3, <1>4, <2>1
<1>5. QED
  BY <1>2, <1>4

LEMMA HasJoined ==
    ASSUME NEW u \in Seq(Alert), NEW s \in Seq(Alert), NEW type, Has(Joined(u, s), type)
    PROVE  Has(u, type) \/ Has(s, type)
<1> DEFINE t == Joined(u, s)
<1>1. /\ t \in Seq(Alert) /\ Len(u) \in Nat /\ Len(s) \in Nat /\ Len(t) = Len(u) + Len(s)
      /\ \A j \in 1 .. Len(t) : t[j] = IF j <= Len(u) THEN u[j] ELSE s[j - Len(u)]
  BY DEF Joined
<1>2. PICK j \in 1 .. Len(t) : t[j].type = type
  BY DEF Has
<1> HIDE DEF t
<1>3. CASE j <= Len(u)
  BY <1>1, <1>2, <1>3 DEF Has
<1>4. CASE ~ (j <= Len(u))
  <2>1. j - Len(u) \in 1 .. Len(s) /\ s[j - Len(u)].type = type
    BY <1>1, <1>2, <1>4
  <2>2. QED
    BY <2>1 DEF Has
<1>5. QED
  BY <1>3, <1>4

\* Six sequences joined from the first or from the last.
LEMMA SixJoined ==
    ASSUME NEW a \in Seq(Alert), NEW b \in Seq(Alert), NEW c \in Seq(Alert),
           NEW d \in Seq(Alert), NEW e \in Seq(Alert), NEW g \in Seq(Alert)
    PROVE  Joined(Joined(Joined(Joined(Joined(a, b), c), d), e), g)
               = Joined(a, Joined(b, Joined(c, Joined(d, Joined(e, g)))))
<1> DEFINE eg == Joined(e, g)
           deg == Joined(d, eg)
           cdeg == Joined(c, deg)
           ab == Joined(a, b)
           abc == Joined(ab, c)
           abcd == Joined(abc, d)
<1>1. eg \in Seq(Alert) /\ ab \in Seq(Alert)
  BY JoinFacts
<1>2. deg \in Seq(Alert) /\ abc \in Seq(Alert)
  BY <1>1, JoinFacts
<1>3. cdeg \in Seq(Alert) /\ abcd \in Seq(Alert)
  BY <1>2, JoinFacts
<1>4. Joined(Joined(abcd, e), g) = Joined(abcd, eg)
  BY <1>3, JoinFacts
<1>5. Joined(abcd, eg) = Joined(abc, deg)
  BY <1>1, <1>2, JoinFacts
<1>6. Joined(abc, deg) = Joined(ab, cdeg)
  BY <1>1, <1>2, JoinFacts
<1>7. Joined(ab, cdeg) = Joined(a, Joined(b, cdeg))
  BY <1>3, JoinFacts
<1>8. QED
  BY <1>4, <1>5, <1>6, <1>7

\* At most one alert of each type is raised.
LEMMA AirAlertIsOne ==
    ASSUME HubInv, NEW i \in 1 .. 6, NEW z \in Zones, NEW p
    PROVE  /\ AirAlertAt(i, z, p) \in Seq(Alert)
           /\ \/ AirAlertAt(i, z, p) = <<>>
              \/ \E a \in Alert : AirAlertAt(i, z, p) = <<a>> /\ a.type = AirAlertTypes[i]
           /\ \A k \in 1 .. 6 : Has(AirAlertAt(i, z, p), AirAlertTypes[k]) => k = i
<1> DEFINE s == AirAlertAt(i, z, p)
<1>1. AirInv(air, config.air)
  BY DEF HubInv
<1>2. /\ s \in Seq(Alert) /\ Len(s) <= 1
      /\ RaisedKeys(s) \subseteq {[zone |-> z, type |-> AirAlertTypes[i]]}
  BY <1>1, AirAlertType
<1> HIDE DEF s
<1>3. \A j \in 1 .. Len(s) : s[j].type = AirAlertTypes[i]
  <2> SUFFICES ASSUME NEW j \in 1 .. Len(s) PROVE s[j].type = AirAlertTypes[i]
    OBVIOUS
  <2>1. KeyOfAlert(s[j]) = [zone |-> z, type |-> AirAlertTypes[i]]
    BY <1>2 DEF RaisedKeys
  <2>2. KeyOfAlert(s[j]).type = s[j].type
    BY DEF KeyOfAlert
  <2>3. QED
    BY <2>1, <2>2
<1>4. ASSUME s # <<>>
      PROVE  \E a \in Alert : s = <<a>> /\ a.type = AirAlertTypes[i]
  <2>1. s \in Seq(Alert) /\ Len(s) <= 1
    BY <1>2
  <2>2. Len(s) = 1
    <3>1. Len(s) \in Nat /\ (Len(s) = 0 => s = <<>>)
      BY <2>1
    <3>2. Len(s) # 0
      BY <1>4, <3>1
    <3>3. \A n \in Nat : n <= 1 /\ n # 0 => n = 1
      OBVIOUS
    <3>4. QED
      BY <2>1, <3>1, <3>2, <3>3
  <2>3. s[1] \in Alert /\ s[1].type = AirAlertTypes[i]
    BY <1>3, <2>1, <2>2
  <2>4. s = <<s[1]>>
    BY <2>1, <2>2
  <2>5. QED
    BY <2>3, <2>4
<1>5. \A k \in 1 .. 6 : AirAlertTypes[i] = AirAlertTypes[k] => k = i
  BY DEF AirAlertTypes
<1>6. QED
  BY <1>2, <1>3, <1>4, <1>5 DEF Has, s

\* What is not superseded of a reading's alerts, metric by metric.
LEMMA MetricsKept ==
    ASSUME HubInv, NEW z \in Zones, NEW p
    PROVE  WithoutSuperseded(AirAlerts(z, p)) =
               (Worse(AirAlertAt(1, z, p), AirAlertAt(2, z, p))
                \o Worse(AirAlertAt(3, z, p), AirAlertAt(4, z, p)))
               \o Worse(AirAlertAt(5, z, p), AirAlertAt(6, z, p))
<1> DEFINE A(i) == AirAlertAt(i, z, p)
           voc == Joined(A(5), Joined(A(6), <<>>))
           pm25 == Joined(A(3), Joined(A(4), voc))
           co2 == Joined(A(1), Joined(A(2), pm25))
<1>1. PICK f : AirAlertsRun(f, z, p)
  BY AirAlertKeys DEF HubInv
<1>2. \A i \in 1 .. 6 :
          /\ A(i) \in Seq(Alert)
          /\ A(i) = <<>> \/ \E a \in Alert : A(i) = <<a>> /\ a.type = AirAlertTypes[i]
          /\ \A k \in 1 .. 6 : Has(A(i), AirAlertTypes[k]) => k = i
  BY AirAlertIsOne
<1>3. f[0] = <<>> /\ f[6] = AirAlerts(z, p) /\ \A i \in 1 .. 6 : f[i] = Joined(f[i - 1], A(i))
  BY <1>1 DEF AirAlertsRun, AirTurn, Joined
<1> HIDE DEF A
<1>4. /\ A(1) \in Seq(Alert) /\ A(2) \in Seq(Alert) /\ A(3) \in Seq(Alert)
      /\ A(4) \in Seq(Alert) /\ A(5) \in Seq(Alert) /\ A(6) \in Seq(Alert)
  BY <1>2
<1>5. AirAlerts(z, p) = co2
  <2>1. f[1] = Joined(f[0], A(1)) /\ f[2] = Joined(f[1], A(2)) /\ f[3] = Joined(f[2], A(3))
        /\ f[4] = Joined(f[3], A(4)) /\ f[5] = Joined(f[4], A(5)) /\ f[6] = Joined(f[5], A(6))
    BY <1>3
  <2>2. f[1] = A(1) /\ Joined(A(6), <<>>) = A(6)
    BY <1>3, <1>4, <2>1, JoinFacts
  <2>3. f[6] = Joined(Joined(Joined(Joined(Joined(A(1), A(2)), A(3)), A(4)), A(5)), A(6))
    BY <2>1, <2>2
  <2>4. f[6] = Joined(A(1), Joined(A(2), Joined(A(3), Joined(A(4), Joined(A(5), A(6))))))
    BY <1>4, <2>3, SixJoined
  <2>5. QED
    BY <1>3, <2>2, <2>4
<1>6. /\ voc \in Seq(Alert) /\ \A k \in 1 .. 4 : ~ Has(voc, AirAlertTypes[k])
      /\ \A type : ~ Has(<<>>, type)
  <2>1. <<>> \in Seq(Alert) /\ Joined(A(6), <<>>) = A(6)
    BY <1>4, JoinFacts
  <2>2. voc \in Seq(Alert)
    BY <1>4, <2>1, JoinFacts
  <2>3. \A type : Has(voc, type) => Has(A(5), type) \/ Has(A(6), type)
    BY <1>4, <2>1, HasJoined
  <2>4. \A type : ~ Has(<<>>, type)
    BY DEF Has
  <2> HIDE DEF voc
  <2>5. QED
    BY <1>2, <2>2, <2>3, <2>4
<1> HIDE DEF voc
<1>7. pm25 \in Seq(Alert) /\ \A k \in 1 .. 2 : ~ Has(pm25, AirAlertTypes[k])
  <2>1. Joined(A(4), voc) \in Seq(Alert)
    BY <1>4, <1>6, JoinFacts
  <2>2. pm25 \in Seq(Alert)
    BY <1>4, <2>1, JoinFacts
  <2>3. \A type : Has(pm25, type) => Has(A(3), type) \/ Has(Joined(A(4), voc), type)
    BY <1>4, <2>1, HasJoined
  <2>4. \A type : Has(Joined(A(4), voc), type) => Has(A(4), type) \/ Has(voc, type)
    BY <1>4, <1>6, HasJoined
  <2> HIDE DEF pm25
  <2>5. QED
    BY <1>2, <1>6, <2>2, <2>3, <2>4
<1> HIDE DEF pm25
<1>8. ASSUME NEW m \in {1, 3, 5}, NEW k, k = m + 1, NEW rest \in Seq(Alert),
             ~ Has(rest, AirAlertTypes[k])
      PROVE  WithoutSuperseded(Joined(A(m), Joined(A(k), rest)))
                 = Joined(Worse(A(m), A(k)), WithoutSuperseded(rest))
  <2>1. m \in 1 .. 6 /\ k \in 1 .. 6
    BY <1>8
  <2>2. /\ A(m) = <<>> \/ \E a \in Alert : A(m) = <<a>> /\ a.type = AirAlertTypes[m]
        /\ A(k) = <<>> \/ \E a \in Alert : A(k) = <<a>> /\ a.type = AirAlertTypes[m + 1]
    BY <1>2, <1>8, <2>1
  <2>3. ~ Has(rest, AirAlertTypes[m + 1])
    BY <1>8
  <2>4. QED
    BY <2>2, <2>3, MetricKept
<1>9. WithoutSuperseded(voc) = Joined(Worse(A(5), A(6)), <<>>)
  <2>1. <<>> \in Seq(Alert) /\ 5 \in {1, 3, 5} /\ 6 = 5 + 1
    OBVIOUS
  <2>2. WithoutSuperseded(voc) = Joined(Worse(A(5), A(6)), WithoutSuperseded(<<>>))
    BY <1>6, <1>8, <2>1 DEF voc
  <2>3. QED
    BY <2>2, NothingKept
<1>10. WithoutSuperseded(pm25) = Joined(Worse(A(3), A(4)), WithoutSuperseded(voc))
  <2>1. 3 \in {1, 3, 5} /\ 4 = 3 + 1
    OBVIOUS
  <2>2. QED
    BY <1>6, <1>8, <2>1 DEF pm25
<1>11. WithoutSuperseded(co2) = Joined(Worse(A(1), A(2)), WithoutSuperseded(pm25))
  <2>1. 1 \in {1, 3, 5} /\ 2 = 1 + 1
    OBVIOUS
  <2>2. QED
    BY <1>7, <1>8, <2>1
<1>12. /\ Worse(A(1), A(2)) \in Seq(Alert) /\ Worse(A(3), A(4)) \in Seq(Alert)
       /\ Worse(A(5), A(6)) \in Seq(Alert)
  BY <1>4 DEF Worse
<1> HIDE DEF co2
<1>13. WithoutSuperseded(AirAlerts(z, p))
           = Joined(Worse(A(1), A(2)), Joined(Worse(A(3), A(4)), Worse(A(5), A(6))))
  BY <1>5, <1>9, <1>10, <1>11, <1>12, JoinFacts
<1>14. WithoutSuperseded(AirAlerts(z, p))
           = Joined(Joined(Worse(A(1), A(2)), Worse(A(3), A(4))), Worse(A(5), A(6)))
  BY <1>12, <1>13, JoinFacts
<1>15. QED
  BY <1>14 DEF Joined, A

\* A reading raises what the verified monitor raises and, of each metric, a
\* warning that its critical alert supersedes.
LEMMA AirReadingKept ==
    ASSUME WatchpointIdsFit, AirZonesOnce, HubInv, air = AirWith(config.air),
           NEW z \in Zones, NEW p
    PROVE  WithoutSuperseded(AirAlerts(z, p)) =
               IF VerifiedAir!Matching(z) = {} THEN <<>>
               ELSE VerifiedAir!AlertsOf(z, AirZones[VerifiedAir!First(z)], p)
<1> DEFINE A(i) == AirAlertAt(i, z, p)
           found == VerifiedAir!Matching(z) # {}
           c == AirZones[VerifiedAir!First(z)]
           co2 == VerifiedAir!Metric(z, c, p.co2, 1, "co2_warning", "co2_critical")
           pm25 == VerifiedAir!Metric(z, c, p.pm25, 3, "pm25_warning", "pm25_critical")
           voc == VerifiedAir!Metric(z, c, p.voc, 5, "voc_warning", "voc_critical")
<1>1. config \in Configs
  BY DEF HubInv
<1>2. \A i \in 1 .. 6 :
          A(i) = IF found /\ Compared(p)[i] >= c.thresholds[i]
                 THEN <<VerifiedAir!Alert(z, AirAlertTypes[i], c.thresholds[i])>> ELSE <<>>
  BY <1>1, AirLimitAlerts
<1>3. WithoutSuperseded(AirAlerts(z, p)) =
          (Worse(A(1), A(2)) \o Worse(A(3), A(4))) \o Worse(A(5), A(6))
  BY MetricsKept
<1>4. VerifiedAir!AlertsOf(z, c, p) = (co2 \o pm25) \o voc
  BY DEF VerifiedAir!AlertsOf
<1>5. /\ Compared(p)[1] = p.co2 /\ Compared(p)[2] = p.co2
      /\ Compared(p)[3] = p.pm25 /\ Compared(p)[4] = p.pm25
      /\ Compared(p)[5] = p.voc /\ Compared(p)[6] = p.voc
  BY DEF Compared
<1>6. /\ AirAlertTypes[1] = "co2_warning" /\ AirAlertTypes[2] = "co2_critical"
      /\ AirAlertTypes[3] = "pm25_warning" /\ AirAlertTypes[4] = "pm25_critical"
      /\ AirAlertTypes[5] = "voc_warning" /\ AirAlertTypes[6] = "voc_critical"
  BY DEF AirAlertTypes
<1>7. \A x : <<x>> # <<>>
  OBVIOUS
<1> HIDE DEF A, c, found
<1>8. CASE ~ found
  <2>1. A(1) = <<>> /\ A(2) = <<>> /\ A(3) = <<>> /\ A(4) = <<>> /\ A(5) = <<>> /\ A(6) = <<>>
    BY <1>2, <1>8
  <2>2. Worse(A(1), A(2)) = <<>> /\ Worse(A(3), A(4)) = <<>> /\ Worse(A(5), A(6)) = <<>>
    BY <2>1 DEF Worse
  <2>3. (<<>> \o <<>>) \o <<>> = <<>>
    OBVIOUS
  <2>4. QED
    BY <1>3, <1>8, <2>2, <2>3 DEF found
<1>9. CASE found
  <2>1. /\ A(1) = IF p.co2 >= c.thresholds[1]
                  THEN <<VerifiedAir!Alert(z, "co2_warning", c.thresholds[1])>> ELSE <<>>
        /\ A(2) = IF p.co2 >= c.thresholds[2]
                  THEN <<VerifiedAir!Alert(z, "co2_critical", c.thresholds[2])>> ELSE <<>>
    BY <1>2, <1>5, <1>6, <1>9
  <2>2. /\ A(3) = IF p.pm25 >= c.thresholds[3]
                  THEN <<VerifiedAir!Alert(z, "pm25_warning", c.thresholds[3])>> ELSE <<>>
        /\ A(4) = IF p.pm25 >= c.thresholds[4]
                  THEN <<VerifiedAir!Alert(z, "pm25_critical", c.thresholds[4])>> ELSE <<>>
    BY <1>2, <1>5, <1>6, <1>9
  <2>3. /\ A(5) = IF p.voc >= c.thresholds[5]
                  THEN <<VerifiedAir!Alert(z, "voc_warning", c.thresholds[5])>> ELSE <<>>
        /\ A(6) = IF p.voc >= c.thresholds[6]
                  THEN <<VerifiedAir!Alert(z, "voc_critical", c.thresholds[6])>> ELSE <<>>
    BY <1>2, <1>5, <1>6, <1>9
  <2>4. 1 + 1 = 2 /\ 3 + 1 = 4 /\ 5 + 1 = 6
    OBVIOUS
  <2>5. Worse(A(1), A(2)) = co2
    BY <1>7, <2>1, <2>4 DEF Worse, VerifiedAir!Metric
  <2>6. Worse(A(3), A(4)) = pm25
    BY <1>7, <2>2, <2>4 DEF Worse, VerifiedAir!Metric
  <2>7. Worse(A(5), A(6)) = voc
    BY <1>7, <2>3, <2>4 DEF Worse, VerifiedAir!Metric
  <2> HIDE DEF co2, pm25, voc
  <2>8. WithoutSuperseded(AirAlerts(z, p)) = VerifiedAir!AlertsOf(z, c, p)
    BY <1>3, <1>4, <2>5, <2>6, <2>7
  <2>9. QED
    BY <1>9, <2>8 DEF found, c
<1>10. QED
  BY <1>8, <1>9

\* The verified monitor, started with a list of zones, keeps those the hub registers.
LEMMA SameAirTable ==
    ASSUME NEW cs
    PROVE  cs \in Seq(AirThresholds) =>
               VerifiedAir!Started(cs) = Filled(cs, Len(cs), MaxAirZones)
<1> SUFFICES ASSUME cs \in Seq(AirThresholds)
             PROVE  VerifiedAir!Started(cs) = Filled(cs, Len(cs), MaxAirZones)
  OBVIOUS
<1> DEFINE n == Len(cs)
           Turn(f) == [i \in 0 .. n |->
                          IF i = 0 THEN <<>> ELSE OneMore(f[i - 1], cs[i], MaxAirZones)]
           after == CHOOSE f : f = Turn(f)
<1>1. n \in Nat /\ MaxAirZones \in Nat
  BY AirAssumption
<1>2. VerifiedAir!Started(cs) = after[n]
  BY DEF VerifiedAir!Started, VerifiedAir!Registered, OneMore
<1> HIDE DEF n
<1>3. after = Turn(after)
  <2>1. \E f : f = Turn(f)
    BY <1>1, TableRuns
  <2>2. QED
    BY <2>1
<1> HIDE DEF after
<1>4. after[0] = <<>> /\ \A i \in 1 .. n : after[i] = OneMore(after[i - 1], cs[i], MaxAirZones)
  BY <1>1, <1>3
<1>5. after[n] = Filled(cs, n, MaxAirZones)
  BY <1>1, <1>4, TableFills
<1>6. QED
  BY <1>2, <1>5 DEF n

\* The configuration and the air table change with the process only.
LEMMA ConfigKept ==
    ASSUME [HubNext]_hubVars
    PROVE  HubRestart \/ UNCHANGED <<config, air>>
<1>1. ASSUME NEW z, NEW v, TempReading(z, v)
      PROVE  UNCHANGED <<config, air>>
  BY <1>1 DEF TempReading, vars
<1>2. ASSUME NEW z, NEW r, AirReading(z, r)
      PROVE  UNCHANGED <<config, air>>
  BY <1>2 DEF AirReading, vars
<1>3. ASSUME NEW id, NEW w, PowerReading(id, w)
      PROVE  UNCHANGED <<config, air>>
  BY <1>3 DEF PowerReading, vars
<1>4. ASSUME NEW z, NEW wet, WaterReading(z, wet)
      PROVE  UNCHANGED <<config, air>>
  BY <1>4 DEF WaterReading, WetReading, DryReading, LeakDetected, monitorVars
<1>5. ASSUME NEW c, ContactAlert(c)
      PROVE  UNCHANGED <<config, air>>
  BY <1>5 DEF ContactAlert, OtherAlert, monitorVars
<1>6. ASSUME NEW p, Packet(p)
      PROVE  UNCHANGED <<config, air>>
  <2>1. CASE TempReading(p.zone_id, p.value)
    BY <1>1, <2>1
  <2>2. CASE AirReading(p.zone_id, PacketAir(p))
    BY <1>2, <2>2
  <2>3. CASE PowerReading(p.device_id, PacketWatts(p))
    BY <1>3, <2>3
  <2>4. CASE WaterReading(p.zone_id, p.value # 0)
    BY <1>4, <2>4
  <2>5. CASE \E c \in ToSet(config.contacts) : ContactAlert(c)
    BY <1>5, <2>5
  <2>6. QED
    BY <1>6, <2>1, <2>2, <2>3, <2>4, <2>5 DEF Packet
<1>7. CASE HubTick \/ HubClock \/ UNCHANGED hubVars \/ DispatchPending
  BY <1>7 DEF HubTick, Tick, HubClock, Clock, DispatchPending, OtherAlert, hubVars, monitorVars, vars
<1>8. CASE \E c \in ToSet(config.contacts) : ContactAlert(c)
  BY <1>5, <1>8
<1>9. CASE \E p \in Packets : Packet(p)
  BY <1>6, <1>9
<1>10. ASSUME NEW z \in Zones,
              \/ \E v \in TempValues : TempReading(z, v)
              \/ \E r \in AirReadings : AirReading(z, r)
              \/ \E w \in Watts : PowerReading(z, w)
              \/ \E wet \in BOOLEAN : WaterReading(z, wet)
       PROVE  UNCHANGED <<config, air>>
  <2>1. CASE \E v \in TempValues : TempReading(z, v)
    BY <1>1, <2>1
  <2>2. CASE \E r \in AirReadings : AirReading(z, r)
    BY <1>2, <2>2
  <2>3. CASE \E w \in Watts : PowerReading(z, w)
    BY <1>3, <2>3
  <2>4. CASE \E wet \in BOOLEAN : WaterReading(z, wet)
    BY <1>4, <2>4
  <2>5. QED
    BY <1>10, <2>1, <2>2, <2>3, <2>4
<1>11. QED
  BY <1>7, <1>8, <1>9, <1>10 DEF HubNext

AirTableFits == air = AirWith(config.air)

LEMMA AirTableFitsNext ==
    ASSUME AirTableFits, [HubNext]_hubVars
    PROVE  AirTableFits'
<1>1. CASE HubRestart
  BY <1>1 DEF HubRestart, AirTableFits
<1>2. CASE UNCHANGED <<config, air>>
  BY <1>2 DEF AirTableFits
<1>3. QED
  BY <1>1, <1>2, ConfigKept

\* The alerts the verified monitor has in hand are those of the hub less the
\* superseded ones: taking one of these is no step of it.
LEMMA VerifiedAirStep ==
    ASSUME WatchpointIdsFit, AirZonesOnce, HubInv, Single(pending), AirTableFits,
           [HubNext]_hubVars
    PROVE  [VerifiedAir!Next]_<<AirZones, WithoutSuperseded(Raised(AirTypes))>>
<1> DEFINE s == Raised(AirTypes)
           t == Raised(AirTypes)'
           taken == WithoutSuperseded(Raised(AirTypes))'
<1>1. s = Part(pending, AirTypes) /\ t = Part(pending', AirTypes)
  BY RaisedIsPart DEF AirTypes
<1>2. taken = WithoutSuperseded(t)
  BY DEF WithoutSuperseded, Superseded, AirAlertTypes
<1>3. s \in Seq(Alert) /\ WithoutSuperseded(<<>>) = <<>>
  BY <1>1, NothingKept DEF HubInv, Part
<1> HIDE DEF s, t, taken
<1>4. CASE HubRestart
  <2>1. config' \in Configs /\ pending' = <<>>
    BY <1>4 DEF HubRestart, Restart
  <2>2. PICK c \in Configs : c = config'
    BY <2>1
  <2>3. c.air \in AirLists /\ c.air \in Seq(AirThresholds)
    BY ConfiguredLists DEF AirLists
  <2>4. AirZones' = Filled(c.air, Len(c.air), MaxAirZones)
    <3>1. DOMAIN c.air = 1 .. Len(c.air)
      BY <2>3
    <3>2. QED
      BY <2>2, <3>1 DEF AirZones, Filled
  <2>5. AirZones' = VerifiedAir!Started(c.air)
    BY <2>3, <2>4, SameAirTable
  <2>6. taken = <<>>
    BY <1>1, <1>2, <1>3, <2>1 DEF Part
  <2>7. VerifiedAir!Start
    BY <2>3, <2>5, <2>6 DEF VerifiedAir!Start, taken
  <2>8. QED
    BY <2>7 DEF VerifiedAir!Next
<1>5. CASE ~ HubRestart
  <2>1. UNCHANGED AirZones
    BY <1>5, ConfigKept DEF AirZones
  <2>2. CASE /\ pending = <<>>
             /\ \E z \in Zones, r \in PassedOnce :
                   AirReading(z, r) /\ Part(pending', AirTypes) = AirAlerts(z, PassedOn(r))
    <3>1. PICK z \in Zones, r \in PassedOnce :
              AirReading(z, r) /\ Part(pending', AirTypes) = AirAlerts(z, PassedOn(r))
      BY <2>2
    <3>2. WithoutSuperseded(s) = <<>> /\ taken = WithoutSuperseded(AirAlerts(z, PassedOn(r)))
      BY <1>1, <1>2, <1>3, <2>2, <3>1 DEF Part
    <3>3. taken = IF VerifiedAir!Matching(z) = {} THEN <<>>
                  ELSE VerifiedAir!AlertsOf(z, AirZones[VerifiedAir!First(z)], PassedOn(r))
      BY <3>2, AirReadingKept DEF AirTableFits
    <3>4. VerifiedAir!ProcessReading(z, PassedOn(r))
      BY <2>1, <3>2, <3>3 DEF VerifiedAir!ProcessReading, s, taken
    <3>5. PassedOn(r) \in PassedReadings
      BY <3>1 DEF PassedReadings, PassedOnce
    <3>6. QED
      BY <3>4, <3>5 DEF VerifiedAir!Next
  <2>3. CASE Part(pending, AirTypes) # <<>> /\ Part(pending', AirTypes) = Tail(Part(pending, AirTypes))
    <3>1. s # <<>> /\ t = Tail(s)
      BY <1>1, <2>3
    <3>2. WithoutSuperseded(s) = IF Superseded(s, 1) THEN taken ELSE <<Head(s)>> \o taken
      BY <1>2, <1>3, <3>1, HeadKept
    <3>3. CASE Superseded(s, 1)
      BY <2>1, <3>2, <3>3 DEF s, taken
    <3>4. CASE ~ Superseded(s, 1)
      <4>1. Head(s) \in Alert /\ taken \in Seq(Alert)
        <5>1. Head(s) \in Alert /\ Tail(s) \in Seq(Alert)
          BY <1>3, <3>1
        <5>2. QED
          BY <1>2, <3>1, <5>1, KeptRuns
      <4>2. <<Head(s)>> \o taken # <<>> /\ Tail(<<Head(s)>> \o taken) = taken
        BY <4>1
      <4>3. VerifiedAir!TakeAlert
        BY <2>1, <3>2, <3>4, <4>2 DEF VerifiedAir!TakeAlert, s, taken
      <4>4. QED
        BY <4>3 DEF VerifiedAir!Next
    <3>5. QED
      BY <3>3, <3>4
  <2>4. CASE Part(pending', AirTypes) = Part(pending, AirTypes)
    BY <1>1, <1>2, <2>1, <2>4 DEF s, taken
  <2>5. QED
    BY <1>5, <2>2, <2>3, <2>4, AirApart, PartSteps
<1>6. QED
  BY <1>4, <1>5

\* Zones listed once, with all their watchpoints, raise what the verified
\* monitor raises, reading by reading and over restarts, and besides only the
\* warnings that the critical alert of the same metric follows.
THEOREM HubAirAsVerified ==
    ASSUME WatchpointIdsFit, AirZonesOnce
    PROVE  HubSpec => AirAsVerified
<1> DEFINE I == HubInv /\ Single(pending) /\ AirTableFits
<1>1. HubInit => I /\ VerifiedAir!Init
  <2> SUFFICES ASSUME HubInit PROVE I /\ VerifiedAir!Init
    OBVIOUS
  <2>1. config \in Configs /\ AirTableFits /\ pending = <<>>
    BY DEF HubInit, Init, AirTableFits
  <2>2. PICK c \in Configs : c = config
    BY <2>1
  <2>3. AllOf(<<>>, TempTypes)
    BY DEF AllOf
  <2>4. Single(pending) /\ Raised(AirTypes) = <<>>
    BY <2>1, <2>3 DEF Single, Kinds, Raised
  <2>5. c.air \in AirLists /\ c.air \in Seq(AirThresholds) /\ DOMAIN c.air = 1 .. Len(c.air)
    <3>1. c.air \in Seq(AirThresholds)
      BY ConfiguredLists
    <3>2. QED
      BY <3>1 DEF AirLists
  <2>6. AirZones = VerifiedAir!Started(c.air)
    <3>1. AirZones = Filled(c.air, Len(c.air), MaxAirZones)
      BY <2>2, <2>5 DEF AirZones, Filled
    <3>2. QED
      BY <2>5, <3>1, SameAirTable
  <2>7. QED
    BY <2>1, <2>4, <2>5, <2>6, HubInvInit, NothingKept DEF VerifiedAir!Init
<1>2. I /\ [HubNext]_hubVars => I'
  BY HubInvNext, SingleNext, AirTableFitsNext
<1>3. I /\ [HubNext]_hubVars
          => [VerifiedAir!Next]_<<AirZones, WithoutSuperseded(Raised(AirTypes))>>
  BY VerifiedAirStep
<1>4. QED
  BY <1>1, <1>2, <1>3, PTL DEF HubSpec, AirAsVerified, VerifiedAir!Spec

=============================================================================
