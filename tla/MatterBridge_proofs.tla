------------------------- MODULE MatterBridge_proofs -------------------------
(***************************************************************************)
(* What a controller reads is the last reading, and a leak exactly while   *)
(* one is latched, for every home whose ids are apart, any number of       *)
(* meters, any readings and any interleaving with the controller.          *)
(***************************************************************************)
EXTENDS MatterBridge, WellFoundedInduction, TLAPS

\* The alerts of a door go to its zone: no reading is published there but, if
\* the contact has the id of its zone, the contact's own.
ZonesApart ==
    \A c \in Contacts : ZoneOf[c] \notin WaterZones /\ ZoneOf[c] \notin Contacts \ {c}

ContactsApart == Contacts \cap WaterZones = {}

\* The values the conversions return for an attribute.
Valued(k, x) ==
    /\ k.cluster = "BooleanState" => x \in BOOLEAN
    /\ k.cluster = "TemperatureMeasurement" => x \in Int16

Clusters ==
    {"BooleanState", "TemperatureMeasurement", "ElectricalPowerMeasurement",
     "CarbonDioxide", "Pm25", "Voc"}

Attribute == [endpoint : Nat, cluster : Clusters]

Write ==
    {w \in [key : Attribute, value : BOOLEAN \cup Int, reading : BOOLEAN] :
        Valued(w.key, w.value)}

Flag(e, x, r) == [key |-> Key(e, "BooleanState"), value |-> x, reading |-> r]

Pending(k) == \E w \in Range(writes) : w.key = k

BridgeInv ==
    /\ writes \in Seq(Write)
    /\ \A k \in DOMAIN cache : Valued(k, cache[k])
    /\ \A k \in DOMAIN last : Valued(k, last[k]) /\ (k \in DOMAIN cache \/ Pending(k))

\* Whatever is still to be written of a key that had a reading is the last
\* reading, whether it comes from the reading itself or from an alert.
MirrorInv ==
    /\ CacheMirrorsReadings
    /\ \A w \in Range(writes) : w.key \in DOMAIN last => w.value = last[w.key]
    /\ \A k \in DOMAIN last :
           k.cluster = "BooleanState" => k.endpoint \in Contacts \cup WaterZones

Entry == [zone_id : Nat, wet : BOOLEAN, detected_at : Nat]

Table == DOMAIN leakZones \subseteq Nat /\ leakZones \in [DOMAIN leakZones -> Entry]

\* The last reading of a water zone says what the monitor has latched, and
\* nothing but its readings is ever written to it first.
LatchInv ==
    \A z \in WaterZones :
        LET k == Key(z, "BooleanState") IN
        /\ k \in DOMAIN cache \/ Pending(k) => k \in DOMAIN last
        /\ Known(z) => (Wet(z) <=> k \in DOMAIN last /\ last[k] = TRUE)

-----------------------------------------------------------------------------
(***************************************************************************)
(* Facts about sequences.                                                  *)
(***************************************************************************)
LEMMA LeastOf ==
    ASSUME NEW S \in SUBSET Nat, S # {}
    PROVE  \E n \in S : \A m \in S : n <= m
<1> DEFINE R == OpToRel(<, Nat)
<1>1. \A i, j \in Nat : <<i, j>> \notin R => j <= i
  BY DEF OpToRel
<1>2. IsWellFoundedOn(R, Nat)
  BY NatLessThanWellFounded
<1> HIDE DEF R
<1>3. PICK n \in S : \A m \in S : <<m, n>> \notin R
  BY <1>2, WFMin
<1>4. QED
  BY <1>1, <1>3

\* Induction over 1 .. n without a predicate.
LEMMA SetInduction ==
    ASSUME NEW n \in Nat, NEW P, 1 \in P, \A i \in 1 .. n - 1 : i \in P => i + 1 \in P
    PROVE  \A i \in 1 .. n : i \in P
<1> SUFFICES ASSUME (1 .. n) \ P # {} PROVE FALSE
  OBVIOUS
<1>1. PICK i \in (1 .. n) \ P : \A j \in (1 .. n) \ P : i <= j
  <2>1. (1 .. n) \ P \in SUBSET Nat
    OBVIOUS
  <2>2. QED
    BY <2>1, LeastOf
<1>2. i # 1 /\ i - 1 \in 1 .. n - 1
  <2>1. i # 1 /\ i \in 1 .. n
    BY <1>1
  <2>2. QED
    BY <2>1
<1>3. i - 1 \in P
  <2>1. i - 1 \in 1 .. n /\ ~ (i <= i - 1)
    BY <1>2
  <2>2. QED
    BY <1>1, <2>1
<1>4. (i - 1) + 1 = i
  BY <1>2
<1>5. QED
  BY <1>1, <1>2, <1>3, <1>4

\* Flattening sequences over T gives one over T.
LEMMA FlattenType ==
    ASSUME NEW T, NEW ss \in Seq(Seq(T))
    PROVE  FlattenSeq(ss) \in Seq(T)
<1>1. CASE Len(ss) = 0
  BY <1>1 DEF FlattenSeq
<1>2. CASE Len(ss) # 0
  <2> DEFINE N == Len(ss)
             Step(f) == [i \in 1 .. N |-> IF i = 1 THEN ss[i] ELSE f[i - 1] \o ss[i]]
             flat == CHOOSE f : f = Step(f)
             Starts(f, n) == \A i \in 1 .. n :
                                /\ f[i] \in Seq(T)
                                /\ f[i] = IF i = 1 THEN ss[i] ELSE f[i - 1] \o ss[i]
             P == {n \in 1 .. N : \E f \in [1 .. n -> Seq(T)] : Starts(f, n)}
  <2>1. N \in Nat /\ N >= 1 /\ \A i \in 1 .. N : ss[i] \in Seq(T)
    BY <1>2
  <2>2. FlattenSeq(ss) = flat[N]
    BY <1>2 DEF FlattenSeq
  <2> HIDE DEF N, P
  <2>3. 1 \in P
    <3> DEFINE f == [i \in 1 .. 1 |-> ss[1]]
    <3>1. f \in [1 .. 1 -> Seq(T)] /\ f[1] = ss[1] /\ ss[1] \in Seq(T)
      BY <2>1
    <3> HIDE DEF f
    <3>2. \A i \in 1 .. 1 : i = 1
      OBVIOUS
    <3>3. Starts(f, 1)
      BY <3>1, <3>2
    <3>4. QED
      BY <2>1, <3>1, <3>3 DEF P
  <2>4. ASSUME NEW n \in 1 .. N - 1, n \in P
        PROVE  n + 1 \in P
    <3>1. PICK f \in [1 .. n -> Seq(T)] : Starts(f, n)
      BY <2>4 DEF P
    <3> DEFINE g == [i \in 1 .. n + 1 |-> IF i <= n THEN f[i] ELSE f[n] \o ss[n + 1]]
    <3>2. n \in 1 .. N /\ n + 1 \in 1 .. N
      BY <2>1, <2>4
    <3>3. f[n] \o ss[n + 1] \in Seq(T)
      BY <2>1, <3>2
    <3>4. g \in [1 .. n + 1 -> Seq(T)]
      BY <3>2, <3>3
    <3>5. Starts(g, n + 1)
      <4> SUFFICES ASSUME NEW i \in 1 .. n + 1
                   PROVE  /\ g[i] \in Seq(T)
                          /\ g[i] = IF i = 1 THEN ss[i] ELSE g[i - 1] \o ss[i]
        OBVIOUS
      <4>1. g[i] \in Seq(T)
        BY <3>4
      <4>2. CASE i \in 1 .. n
        <5>1. g[i] = f[i] /\ (i # 1 => g[i - 1] = f[i - 1])
          BY <3>2, <4>2
        <5>2. f[i] = IF i = 1 THEN ss[i] ELSE f[i - 1] \o ss[i]
          BY <3>1, <4>2
        <5> HIDE DEF g
        <5>3. QED
          BY <4>1, <5>1, <5>2
      <4>3. CASE i = n + 1
        BY <3>2, <4>1, <4>3
      <4>4. QED
        BY <4>2, <4>3
    <3> HIDE DEF g
    <3>6. QED
      BY <3>2, <3>4, <3>5 DEF P
  <2>5. N \in P
    <3>1. \A i \in 1 .. N : i \in P
      BY <2>1, <2>3, <2>4, SetInduction
    <3>2. QED
      BY <2>1, <3>1
  <2>6. PICK f \in [1 .. N -> Seq(T)] : Starts(f, N)
    BY <2>5 DEF P
  <2>7. f = Step(f)
    BY <2>6
  <2>8. flat = Step(flat)
    BY <2>7
  <2>9. \A i \in 1 .. N : flat[i] = IF i = 1 THEN ss[i] ELSE flat[i - 1] \o ss[i]
    BY <2>8
  <2> DEFINE Q == {i \in 1 .. N : flat[i] \in Seq(T)}
  <2> HIDE DEF flat
  <2>10. 1 \in Q /\ \A i \in 1 .. N - 1 : i \in Q => i + 1 \in Q
    <3>1. 1 \in Q
      <4>1. 1 \in 1 .. N
        BY <2>1
      <4>2. flat[1] = ss[1] /\ ss[1] \in Seq(T)
        BY <2>1, <2>9, <4>1
      <4>3. QED
        BY <4>1, <4>2
    <3>2. ASSUME NEW i \in 1 .. N - 1, i \in Q
          PROVE  i + 1 \in Q
      <4>1. i + 1 \in 1 .. N /\ i + 1 # 1 /\ (i + 1) - 1 = i
        BY <2>1
      <4>2. flat[i + 1] = flat[i] \o ss[i + 1]
        BY <2>9, <4>1
      <4>3. flat[i] \in Seq(T) /\ ss[i + 1] \in Seq(T)
        BY <2>1, <3>2, <4>1
      <4>4. \A s, t \in Seq(T) : s \o t \in Seq(T)
        OBVIOUS
      <4>5. flat[i + 1] \in Seq(T)
        BY <4>2, <4>3, <4>4
      <4>6. QED
        BY <4>1, <4>5
    <3>3. QED
      BY <3>1, <3>2
  <2> HIDE DEF Q
  <2>11. N \in Q
    <3>1. \A i \in 1 .. N : i \in Q
      BY <2>1, <2>10, SetInduction
    <3>2. QED
      BY <2>1, <3>1
  <2>12. QED
    BY <2>2, <2>11 DEF Q
<1>3. QED
  BY <1>1, <1>2

-----------------------------------------------------------------------------
(***************************************************************************)
(* The tables and the conversions.                                         *)
(***************************************************************************)

\* An alert that a reading raises belongs to the reading's cluster, which is
\* not BooleanState, and two kinds never share one.
LEMMA Tables ==
    ASSUME NEW kind \in DOMAIN RaisedBy
    PROVE  /\ ReadingCluster[kind] \in Clusters /\ ReadingCluster[kind] # "BooleanState"
           /\ \A other \in DOMAIN RaisedBy :
                  ReadingCluster[other] = ReadingCluster[kind] => other = kind
           /\ \E n \in Nat : DOMAIN RaisedBy[kind] = 1 .. n
           /\ \A j \in DOMAIN RaisedBy[kind] :
                  /\ RaisedBy[kind][j] \in DOMAIN AlertCluster
                  /\ AlertCluster[RaisedBy[kind][j]] = ReadingCluster[kind]
<1>1. DOMAIN RaisedBy = {"Temperature", "Power", "Co2", "Pm25", "Voc"}
  BY DEF RaisedBy
<1>2. /\ ReadingCluster[kind] \in Clusters /\ ReadingCluster[kind] # "BooleanState"
      /\ \A other \in DOMAIN RaisedBy :
             ReadingCluster[other] = ReadingCluster[kind] => other = kind
  <2>1. /\ ReadingCluster["Temperature"] = "TemperatureMeasurement"
        /\ ReadingCluster["Power"] = "ElectricalPowerMeasurement"
        /\ ReadingCluster["Co2"] = "CarbonDioxide"
        /\ ReadingCluster["Pm25"] = "Pm25"
        /\ ReadingCluster["Voc"] = "Voc"
    BY DEF ReadingCluster
  <2>2. QED
    BY <1>1, <2>1 DEF Clusters
<1>3. \E n \in Nat : DOMAIN RaisedBy[kind] = 1 .. n
  <2>1. /\ DOMAIN RaisedBy["Temperature"] = 1 .. 4
        /\ \A k \in {"Power", "Co2", "Pm25", "Voc"} : DOMAIN RaisedBy[k] = 1 .. 2
    BY DEF RaisedBy
  <2>2. DOMAIN RaisedBy[kind] = 1 .. 4 \/ DOMAIN RaisedBy[kind] = 1 .. 2
    BY <1>1, <2>1
  <2>3. QED
    BY <2>2
<1>4. \A j \in DOMAIN RaisedBy[kind] :
          /\ RaisedBy[kind][j] \in DOMAIN AlertCluster
          /\ AlertCluster[RaisedBy[kind][j]] = ReadingCluster[kind]
  BY <1>1 DEF RaisedBy, ReadingCluster, AlertCluster
<1>5. QED
  BY <1>2, <1>3, <1>4

LEMMA ConvertType ==
    ASSUME NEW c \in Clusters, NEW v \in Int, c # "BooleanState"
    PROVE  /\ Convert(c, v) \in Int
           /\ c = "TemperatureMeasurement" => Convert(c, v) \in Int16
           /\ ConvertAlert(c, v) = Convert(c, v)
  BY BridgeAssumption DEF Convert, ConvertAlert, Int16

LEMMA StateReadings ==
    ASSUME NEW e
    PROVE  /\ ReadingWrite(e, "WaterPresence", 1) = Flag(e, TRUE, TRUE)
           /\ ReadingWrite(e, "WaterPresence", 0) = Flag(e, FALSE, TRUE)
           /\ ReadingWrite(e, "Contact", 1) = Flag(e, TRUE, TRUE)
           /\ ReadingWrite(e, "Contact", 0) = Flag(e, FALSE, TRUE)
<1>1. 1 # 0
  OBVIOUS
<1>2. Convert("BooleanState", 1) = TRUE /\ Convert("BooleanState", 0) = FALSE
  BY <1>1, Zenon DEF Convert
<1>3. ReadingCluster["WaterPresence"] = "BooleanState" /\ ReadingCluster["Contact"] = "BooleanState"
  BY DEF ReadingCluster
<1>4. QED
  BY <1>2, <1>3 DEF ReadingWrite, Flag

LEMMA StateAlerts ==
    ASSUME NEW ids
    PROVE  /\ \A tag \in {"water_leak", "door_open_too_long", "door_opened_at_night"} :
                  AlertWrites(ids, tag, 0) = <<Flag(Head(ids), TRUE, FALSE)>>
           /\ AlertWrites(ids, "health_miss", 0) = <<>>
<1>1. \A tag \in {"water_leak", "door_open_too_long", "door_opened_at_night"} :
        tag \in DOMAIN AlertCluster /\ AlertCluster[tag] = "BooleanState"
  BY DEF AlertCluster
<1>2. "health_miss" \notin DOMAIN AlertCluster
  BY DEF AlertCluster
<1>3. ConvertAlert("BooleanState", 0) = TRUE
  BY DEF ConvertAlert
<1>4. QED
  BY <1>1, <1>2, <1>3 DEF AlertWrites, Flag, AlertEndpoint

LEMMA FlagIsWrite ==
    ASSUME NEW e \in Nat, NEW x \in BOOLEAN, NEW r \in BOOLEAN
    PROVE  Flag(e, x, r) \in Write
<1>1. Key(e, "BooleanState") \in Attribute
  BY DEF Key, Attribute, Clusters
<1>2. Valued(Key(e, "BooleanState"), x)
  BY DEF Valued, Key
<1>3. QED
  BY <1>1, <1>2 DEF Flag, Write

LEMMA ReadingIsWrite ==
    ASSUME NEW e \in Nat, NEW kind \in DOMAIN RaisedBy, NEW v \in Int
    PROVE  /\ ReadingWrite(e, kind, v) \in Write
           /\ ReadingWrite(e, kind, v).reading = TRUE
           /\ ReadingWrite(e, kind, v).key = Key(e, ReadingCluster[kind])
           /\ ReadingWrite(e, kind, v).value = Convert(ReadingCluster[kind], v)
<1> DEFINE c == ReadingCluster[kind]
           x == Convert(c, v)
<1>1. c \in Clusters /\ c # "BooleanState"
  BY Tables
<1>2. x \in Int /\ (c = "TemperatureMeasurement" => x \in Int16)
  BY <1>1, ConvertType
<1>3. ReadingWrite(e, kind, v) = [key |-> Key(e, c), value |-> x, reading |-> TRUE]
  BY DEF ReadingWrite
<1> HIDE DEF c, x
<1>4. Key(e, c) \in Attribute /\ Key(e, c).cluster = c
  BY <1>1 DEF Key, Attribute
<1>5. Valued(Key(e, c), x)
  BY <1>1, <1>2, <1>4 DEF Valued
<1>6. [key |-> Key(e, c), value |-> x, reading |-> TRUE] \in Write
  BY <1>2, <1>4, <1>5 DEF Write
<1>7. QED
  BY <1>3, <1>6 DEF c, x

\* The alert carries what its reading carries.
LEMMA AlertFollowsReading ==
    ASSUME NEW e \in Nat, NEW kind \in DOMAIN RaisedBy, NEW v \in Int,
           NEW j \in DOMAIN RaisedBy[kind]
    PROVE  AlertWrites(<<e>>, RaisedBy[kind][j], v) =
             <<[key |-> ReadingWrite(e, kind, v).key,
                value |-> ReadingWrite(e, kind, v).value, reading |-> FALSE]>>
<1> DEFINE c == ReadingCluster[kind]
<1>1. /\ RaisedBy[kind][j] \in DOMAIN AlertCluster
      /\ AlertCluster[RaisedBy[kind][j]] = c
      /\ c \in Clusters /\ c # "BooleanState"
  BY Tables
<1>2. ConvertAlert(c, v) = Convert(c, v)
  BY <1>1, ConvertType
<1>3. AlertEndpoint(<<e>>) = e
  BY DEF AlertEndpoint
<1> HIDE DEF c
<1>4. AlertWrites(<<e>>, RaisedBy[kind][j], v) =
        <<[key |-> Key(e, c), value |-> Convert(c, v), reading |-> FALSE]>>
  BY <1>1, <1>2, <1>3 DEF AlertWrites
<1>5. QED
  BY <1>4, ReadingIsWrite DEF c

-----------------------------------------------------------------------------
(***************************************************************************)
(* The table of the leak monitor.                                          *)
(***************************************************************************)
LEMMA EntryOfExists ==
    ASSUME Table, NEW z, Known(z)
    PROVE  EntryOf(z) \in DOMAIN leakZones /\ leakZones[EntryOf(z)].zone_id = z
<1>1. EntriesOf(z) \in SUBSET Nat /\ EntriesOf(z) # {}
  BY DEF EntriesOf, Known, Table
<1>2. EntryOf(z) \in EntriesOf(z)
  BY <1>1, LeastOf DEF EntryOf
<1>3. QED
  BY <1>2 DEF EntriesOf

\* A reading changes the flag of its zone's entry and of no other zone's.
LEMMA FlagWrite ==
    ASSUME Table, NEW z, Known(z), NEW x \in BOOLEAN,
           \/ leakZones' = [leakZones EXCEPT ![EntryOf(z)].wet = x,
                                             ![EntryOf(z)].detected_at = 0]
           \/ leakZones' = [leakZones EXCEPT ![EntryOf(z)].wet = x]
    PROVE  /\ Table'
           /\ Wet(z)' <=> x
           /\ \A y : Known(y)' <=> Known(y)
           /\ \A y : y # z => (Wet(y)' <=> Wet(y))
<1> DEFINE e == EntryOf(z)
<1>1. e \in DOMAIN leakZones /\ leakZones[e].zone_id = z
  BY EntryOfExists
<1>2. DOMAIN leakZones' = DOMAIN leakZones
  OBVIOUS
<1> HIDE DEF e
<1>3. leakZones'[e] \in Entry /\ leakZones'[e].zone_id = z /\ leakZones'[e].wet = x
  BY <1>1 DEF Entry, Table, e
<1>4. \A i \in DOMAIN leakZones : i # e => leakZones'[i] = leakZones[i]
  BY DEF e
<1>5. \A y : EntriesOf(y)' = EntriesOf(y)
  BY <1>1, <1>2, <1>3, <1>4 DEF EntriesOf
<1>6. \A y : EntryOf(y)' = EntryOf(y) /\ (Known(y)' <=> Known(y))
  BY <1>5 DEF EntryOf, Known
<1>7. leakZones' \in [DOMAIN leakZones' -> Entry]
  <2>1. \A i \in DOMAIN leakZones : leakZones'[i] \in Entry
    BY <1>3, <1>4 DEF Table
  <2>2. QED
    BY <1>2, <2>1
<1>8. Wet(z)' <=> x
  BY <1>3, <1>6 DEF Wet, e
<1>9. ASSUME NEW y, y # z
      PROVE  Wet(y)' <=> Wet(y)
  <2>1. CASE Known(y)
    <3>1. EntryOf(y) \in DOMAIN leakZones /\ EntryOf(y) # e
      BY <1>1, <1>9, <2>1, EntryOfExists
    <3>2. leakZones'[EntryOf(y)] = leakZones[EntryOf(y)] /\ EntryOf(y)' = EntryOf(y)
      BY <1>4, <1>6, <3>1
    <3>3. QED
      BY <1>6, <3>2 DEF Wet
  <2>2. CASE ~ Known(y)
    BY <1>6, <2>2 DEF Wet
  <2>3. QED
    BY <2>1, <2>2
<1>10. QED
  BY <1>2, <1>6, <1>7, <1>8, <1>9 DEF Table

LEMMA SameTable ==
    ASSUME UNCHANGED leakZones, Table
    PROVE  Table' /\ \A y : (Wet(y)' <=> Wet(y)) /\ (Known(y)' <=> Known(y))
<1>1. \A y : EntriesOf(y)' = EntriesOf(y)
  BY DEF EntriesOf
<1>2. QED
  BY <1>1 DEF EntryOf, Known, Wet, Table

-----------------------------------------------------------------------------
(***************************************************************************)
(* What an event publishes.                                                *)
(***************************************************************************)
ReadingsOf(rs) ==
    /\ rs \in Seq(Write)
    /\ \A i, j \in DOMAIN rs : rs[i].key = rs[j].key => i = j
    /\ \A w \in Range(rs) :
           /\ w.reading
           /\ w.key.cluster = "BooleanState" => w.key.endpoint \in Contacts \cup WaterZones

\* An alert carries the value of a reading published before it, or is that of
\* a contact that is open, at the contact's zone.
AlertsOf(rs, alerts) ==
    /\ alerts \in Seq(Write)
    /\ \A a \in Range(alerts) :
           \/ \E w \in Range(rs) : w.key = a.key /\ w.value = a.value
           \/ \E c \in Contacts :
                 /\ a = Flag(ZoneOf[c], TRUE, FALSE)
                 /\ \/ Flag(c, TRUE, TRUE) \in Range(rs)
                    \/ /\ Key(c, "BooleanState") \in DOMAIN last
                       /\ last[Key(c, "BooleanState")] = TRUE
                       /\ rs = <<>>

WaterReading(rs, z, x) ==
    /\ rs = <<Flag(z, x, TRUE)>>
    /\ Known(z) => (Wet(z)' <=> x)
    /\ \A y : (Known(y)' <=> Known(y)) /\ (y # z => (Wet(y)' <=> Wet(y)))

LatchOf(rs) ==
    /\ Table'
    /\ \/ \E z \in WaterZones, x \in BOOLEAN : WaterReading(rs, z, x)
       \/ /\ \A w \in Range(rs) :
                 w.key.cluster = "BooleanState" => w.key.endpoint \in Contacts
          /\ UNCHANGED leakZones

Event ==
    /\ Idle
    /\ \E rs, alerts : /\ Publishes(rs, alerts)
                       /\ ReadingsOf(rs) /\ AlertsOf(rs, alerts) /\ LatchOf(rs)

LEMMA ZonesAreNat == Contacts \subseteq Nat /\ WaterZones \subseteq Nat /\ \A c \in Contacts : ZoneOf[c] \in Nat
  BY BridgeAssumption DEF Contacts, WaterZones, Range

\* An event with a single reading of a Boolean state.
LEMMA OneFlag ==
    ASSUME NEW e \in Contacts \cup WaterZones, NEW x \in BOOLEAN
    PROVE  /\ ReadingsOf(<<Flag(e, x, TRUE)>>)
           /\ Range(<<Flag(e, x, TRUE)>>) = {Flag(e, x, TRUE)}
           /\ Flag(e, x, TRUE).key = Key(e, "BooleanState")
           /\ Key(e, "BooleanState").endpoint = e
<1> DEFINE w == Flag(e, x, TRUE)
<1>1. w \in Write
  BY ZonesAreNat, FlagIsWrite
<1>2. w.reading = TRUE /\ w.key = Key(e, "BooleanState") /\ w.key.endpoint = e
  BY DEF Flag, Key
<1> HIDE DEF w
<1>3. DOMAIN <<w>> = {1} /\ Range(<<w>>) = {w} /\ <<w>> \in Seq(Write)
  BY <1>1 DEF Range
<1>4. ReadingsOf(<<w>>)
  BY <1>2, <1>3 DEF ReadingsOf
<1>5. QED
  BY <1>2, <1>3, <1>4 DEF w

\* Nothing, or one alert.
LEMMA OneAlert ==
    ASSUME NEW a \in Write
    PROVE  /\ <<a>> \in Seq(Write) /\ Range(<<a>>) = {a}
           /\ <<>> \in Seq(Write) /\ Range(<<>>) = {}
  BY DEF Range

LEMMA NoAlerts ==
    ASSUME NEW rs
    PROVE  AlertsOf(rs, <<>>)
<1>1. <<>> \in Seq(Write) /\ Range(<<>>) = {}
  BY DEF Range
<1>2. QED
  BY <1>1 DEF AlertsOf

\* The alert of a door, to its zone.
LEMMA DoorAlert ==
    ASSUME NEW c \in Contacts, NEW rs,
           NEW tag \in {"door_open_too_long", "door_opened_at_night"},
           \/ Flag(c, TRUE, TRUE) \in Range(rs)
           \/ /\ Key(c, "BooleanState") \in DOMAIN last
              /\ last[Key(c, "BooleanState")] = TRUE
              /\ rs = <<>>
    PROVE  AlertsOf(rs, AlertWrites(<<ZoneOf[c], c>>, tag, 0))
<1> DEFINE a == Flag(ZoneOf[c], TRUE, FALSE)
<1>1. Head(<<ZoneOf[c], c>>) = ZoneOf[c]
  OBVIOUS
<1>2. AlertWrites(<<ZoneOf[c], c>>, tag, 0) = <<a>>
  BY <1>1, StateAlerts
<1>3. a \in Write
  BY ZonesAreNat, FlagIsWrite
<1>4. <<a>> \in Seq(Write) /\ Range(<<a>>) = {a}
  BY <1>3, OneAlert
<1>5. QED
  BY <1>2, <1>4 DEF AlertsOf

LEMMA WaterEvent ==
    ASSUME Table, NEW z \in WaterZones, WetReading(z) \/ DryReading(z)
    PROVE  Event
<1>1. \A x \in BOOLEAN : ReadingsOf(<<Flag(z, x, TRUE)>>)
  BY OneFlag
<1>2. CASE WetReading(z)
  <2> DEFINE w == Flag(z, TRUE, TRUE)
  <2>1. PICK alert : Publishes(<<w>>, alert) /\ alert \in {<<>>, AlertWrites(<<z>>, "water_leak", 0)}
    BY <1>2, StateReadings DEF WetReading, Optional
  <2>2. Idle /\ (NewLeak(z, 0) \/ AlreadyWet(z) \/ Unknown(z))
    BY <1>2 DEF WetReading
  <2>3. AlertsOf(<<w>>, AlertWrites(<<z>>, "water_leak", 0))
    <3> DEFINE a == Flag(z, TRUE, FALSE)
    <3>1. Head(<<z>>) = z
      OBVIOUS
    <3>2. AlertWrites(<<z>>, "water_leak", 0) = <<a>>
      BY <3>1, StateAlerts
    <3>3. a \in Write
      BY ZonesAreNat, FlagIsWrite
    <3>4. <<a>> \in Seq(Write) /\ Range(<<a>>) = {a}
      BY <3>3, OneAlert
    <3>5. w \in Range(<<w>>) /\ w.key = a.key /\ w.value = a.value
      BY OneFlag DEF Flag
    <3> HIDE DEF a, w
    <3>6. QED
      BY <3>2, <3>4, <3>5 DEF AlertsOf
  <2>4. AlertsOf(<<w>>, alert)
    BY <2>1, <2>3, NoAlerts
  <2>5. Table' /\ WaterReading(<<w>>, z, TRUE)
    <3>1. CASE NewLeak(z, 0)
      BY <3>1, FlagWrite DEF NewLeak, WaterReading
    <3>2. CASE AlreadyWet(z) \/ Unknown(z)
      BY <3>2, SameTable DEF AlreadyWet, Unknown, WaterReading
    <3>3. QED
      BY <2>2, <3>1, <3>2
  <2>6. LatchOf(<<w>>)
    BY <2>5 DEF LatchOf
  <2>7. QED
    BY <1>1, <2>1, <2>2, <2>4, <2>6 DEF Event
<1>3. CASE DryReading(z)
  <2> DEFINE w == Flag(z, FALSE, TRUE)
  <2>1. /\ Idle /\ Publishes(<<w>>, <<>>)
        /\ Cleared(z) \/ AlreadyDry(z) \/ Unknown(z)
    BY <1>3, StateReadings DEF DryReading
  <2>2. Table' /\ WaterReading(<<w>>, z, FALSE)
    <3>1. CASE Cleared(z)
      <4>1. Known(z)
        BY <3>1 DEF Cleared, Wet
      <4>2. QED
        BY <3>1, <4>1, FlagWrite DEF Cleared, WaterReading
    <3>2. CASE AlreadyDry(z) \/ Unknown(z)
      BY <3>2, SameTable DEF AlreadyDry, Unknown, WaterReading
    <3>3. QED
      BY <2>1, <3>1, <3>2
  <2>3. LatchOf(<<w>>)
    BY <2>2 DEF LatchOf
  <2>4. QED
    BY <1>1, <2>1, <2>3, NoAlerts DEF Event
<1>4. QED
  BY <1>2, <1>3

LEMMA DoorEvent ==
    ASSUME Table, BridgeInv, NEW c \in Contacts,
           ContactOpens(c) \/ ContactCloses(c) \/ DoorTimeout(c)
    PROVE  Event
<1>1. Idle /\ UNCHANGED leakZones
  BY DEF ContactOpens, ContactCloses, DoorTimeout
<1>2. \A x \in BOOLEAN : ReadingsOf(<<Flag(c, x, TRUE)>>) /\ LatchOf(<<Flag(c, x, TRUE)>>)
  <2> SUFFICES ASSUME NEW x \in BOOLEAN
               PROVE  ReadingsOf(<<Flag(c, x, TRUE)>>) /\ LatchOf(<<Flag(c, x, TRUE)>>)
    OBVIOUS
  <2>1. /\ ReadingsOf(<<Flag(c, x, TRUE)>>)
        /\ Range(<<Flag(c, x, TRUE)>>) = {Flag(c, x, TRUE)}
        /\ Flag(c, x, TRUE).key.endpoint = c
    BY OneFlag
  <2>2. QED
    BY <1>1, <2>1, SameTable DEF LatchOf
<1>3. CASE ContactOpens(c)
  <2> DEFINE rs == <<Flag(c, TRUE, TRUE)>>
             alerts == AlertWrites(<<ZoneOf[c], c>>, "door_opened_at_night", 0)
  <2>1. Publishes(rs, <<>>) \/ Publishes(rs, alerts)
    BY <1>3, StateReadings DEF ContactOpens, Optional
  <2>2. Flag(c, TRUE, TRUE) \in Range(rs)
    BY OneFlag
  <2>3. AlertsOf(rs, alerts)
    BY <2>2, DoorAlert
  <2>4. ReadingsOf(rs) /\ LatchOf(rs)
    BY <1>2
  <2> HIDE DEF rs, alerts
  <2>5. QED
    BY <1>1, <2>1, <2>3, <2>4, NoAlerts DEF Event
<1>4. CASE ContactCloses(c)
  <2>1. Publishes(<<Flag(c, FALSE, TRUE)>>, <<>>)
    BY <1>4, StateReadings DEF ContactCloses
  <2>2. QED
    BY <1>1, <1>2, <2>1, NoAlerts DEF Event
<1>5. CASE DoorTimeout(c)
  <2> DEFINE alerts == AlertWrites(<<ZoneOf[c], c>>, "door_open_too_long", 0)
             k == Key(c, "BooleanState")
  <2>1. k \in DOMAIN last /\ last[k] = TRUE
    <3>1. k \in DOMAIN last /\ last[k]
      BY <1>5 DEF DoorTimeout
    <3>2. last[k] \in BOOLEAN
      BY <3>1 DEF BridgeInv, Valued, Key
    <3>3. QED
      BY <3>1, <3>2
  <2>2. AlertsOf(<<>>, alerts)
    BY <2>1, DoorAlert
  <2>3. Publishes(<<>>, alerts)
    <3>1. Publishes(<<>>, <<>> \o alerts)
      BY <1>5, StateAlerts DEF DoorTimeout, Optional
    <3>2. alerts \in Seq(Write)
      BY <2>2 DEF AlertsOf
    <3> HIDE DEF alerts
    <3>3. <<>> \o alerts = alerts
      BY <3>2
    <3>4. QED
      BY <3>1, <3>3
  <2>4. ReadingsOf(<<>>) /\ LatchOf(<<>>)
    <3>1. <<>> \in Seq(Write) /\ Range(<<>>) = {} /\ DOMAIN <<>> = {}
      BY DEF Range
    <3>2. QED
      BY <1>1, <3>1, SameTable DEF ReadingsOf, LatchOf
  <2>5. QED
    BY <1>1, <2>2, <2>3, <2>4 DEF Event
<1>6. QED
  BY <1>3, <1>4, <1>5

LEMMA MeterEvent ==
    ASSUME Table, NEW m \in Meters, Measurement(m)
    PROVE  Event
<1>1. PICK v \in [DOMAIN m.kinds -> Measured], raised \in SUBSET MayRaise(m) :
        Publishes([i \in DOMAIN m.kinds |-> ReadingWrite(m.endpoint, m.kinds[i], v[i])],
                  AlertsOn(m, v, raised))
  BY DEF Measurement
<1>2. Idle /\ UNCHANGED leakZones
  BY DEF Measurement
<1>3. PICK n \in Nat : DOMAIN m.kinds = 1 .. n
  BY MeterAssumption
<1>4. /\ m.endpoint \in Nat
      /\ \A i \in 1 .. n : m.kinds[i] \in DOMAIN RaisedBy /\ v[i] \in Int
      /\ \A i, j \in 1 .. n : m.kinds[i] = m.kinds[j] => i = j
  BY <1>3, MeterAssumption, BridgeAssumption
<1> DEFINE R(i) == ReadingWrite(m.endpoint, m.kinds[i], v[i])
           rs == [i \in 1 .. n |-> R(i)]
           A(i) == [key |-> R(i).key, value |-> R(i).value, reading |-> FALSE]
           T == {A(i) : i \in 1 .. n}
<1>5. \A i \in 1 .. n :
        /\ R(i) \in Write /\ R(i).reading = TRUE
        /\ R(i).key.cluster = ReadingCluster[m.kinds[i]]
        /\ R(i).key.cluster # "BooleanState"
  <2> SUFFICES ASSUME NEW i \in 1 .. n
               PROVE  /\ R(i) \in Write /\ R(i).reading = TRUE
                      /\ R(i).key.cluster = ReadingCluster[m.kinds[i]]
                      /\ R(i).key.cluster # "BooleanState"
    OBVIOUS
  <2>1. PICK kind \in DOMAIN RaisedBy : kind = m.kinds[i]
    BY <1>4
  <2>2. /\ R(i) \in Write /\ R(i).reading = TRUE
        /\ R(i).key = Key(m.endpoint, ReadingCluster[kind])
    BY <1>4, <2>1, ReadingIsWrite
  <2>3. R(i).key.cluster = ReadingCluster[kind]
    BY <2>2 DEF Key
  <2>4. QED
    BY <2>1, <2>2, <2>3, Tables
<1>6. T \subseteq Write
  <2> SUFFICES ASSUME NEW i \in 1 .. n PROVE A(i) \in Write
    OBVIOUS
  <2>1. PICK w \in Write : w = R(i)
    BY <1>5
  <2>2. [key |-> w.key, value |-> w.value, reading |-> FALSE] \in Write
    BY DEF Write
  <2>3. QED
    BY <2>1, <2>2
<1>7. AlertsOn(m, v, raised) \in Seq(T)
  <2> DEFINE S(i, j) == IF <<i, RaisedBy[m.kinds[i]][j]>> \in raised
                        THEN AlertWrites(<<m.endpoint>>, RaisedBy[m.kinds[i]][j], v[i]) ELSE <<>>
             F(i) == [j \in DOMAIN RaisedBy[m.kinds[i]] |-> S(i, j)]
             G == [i \in 1 .. n |-> FlattenSeq(F(i))]
  <2>1. AlertsOn(m, v, raised) = FlattenSeq(G)
    BY <1>3 DEF AlertsOn
  <2>2. ASSUME NEW i \in 1 .. n
        PROVE  FlattenSeq(F(i)) \in Seq(T)
    <3>1. ASSUME NEW j \in DOMAIN RaisedBy[m.kinds[i]]
          PROVE  S(i, j) \in Seq(T)
      <4>1. AlertWrites(<<m.endpoint>>, RaisedBy[m.kinds[i]][j], v[i]) = <<A(i)>>
        BY <1>4, AlertFollowsReading
      <4>2. A(i) \in T
        OBVIOUS
      <4> HIDE DEF A, T
      <4>3. <<A(i)>> \in Seq(T) /\ <<>> \in Seq(T)
        BY <4>2
      <4>4. QED
        BY <4>1, <4>3
    <3>2. PICK l \in Nat : DOMAIN RaisedBy[m.kinds[i]] = 1 .. l
      BY <1>4, Tables
    <3> HIDE DEF S, T
    <3>3. F(i) \in Seq(Seq(T))
      BY <3>1, <3>2
    <3>4. QED
      BY <3>3, FlattenType
  <2> HIDE DEF F, T
  <2>3. G \in Seq(Seq(T))
    BY <2>2
  <2>4. QED
    BY <2>1, <2>3, FlattenType
<1>8. rs \in Seq(Write) /\ DOMAIN rs = 1 .. n /\ Range(rs) = {R(i) : i \in 1 .. n}
  BY <1>5 DEF Range
<1>9. ReadingsOf(rs)
  <2>1. \A i, j \in 1 .. n : R(i).key = R(j).key => i = j
    BY <1>4, <1>5, Tables
  <2>2. QED
    BY <1>5, <1>8, <2>1 DEF ReadingsOf
<1>10. AlertsOf(rs, AlertsOn(m, v, raised))
  <2>1. AlertsOn(m, v, raised) \in Seq(Write)
    BY <1>6, <1>7
  <2>2. \A a \in Range(AlertsOn(m, v, raised)) : a \in T
    BY <1>7 DEF Range
  <2>3. \A a \in T : \E w \in Range(rs) : w.key = a.key /\ w.value = a.value
    BY <1>8
  <2>4. QED
    BY <2>1, <2>2, <2>3 DEF AlertsOf
<1>11. LatchOf(rs)
  BY <1>2, <1>5, <1>8, SameTable DEF LatchOf
<1>12. Publishes(rs, AlertsOn(m, v, raised))
  BY <1>1, <1>3
<1> HIDE DEF rs
<1>13. QED
  BY <1>2, <1>9, <1>10, <1>11, <1>12 DEF Event

LEMMA EventOrPublish ==
    ASSUME Table, BridgeInv, [Next]_vars
    PROVE  Event \/ Publish \/ UNCHANGED vars
<1>1. ASSUME NEW z \in WaterZones, WetReading(z) \/ DryReading(z) PROVE Event
  BY <1>1, WaterEvent
<1>2. ASSUME NEW c \in Contacts, ContactOpens(c) \/ ContactCloses(c) \/ DoorTimeout(c)
      PROVE  Event
  BY <1>2, DoorEvent
<1>3. ASSUME NEW m \in Meters, Measurement(m) PROVE Event
  BY <1>3, MeterEvent
<1>4. QED
  BY <1>1, <1>2, <1>3 DEF Next

-----------------------------------------------------------------------------
(***************************************************************************)
(* Types.                                                                  *)
(***************************************************************************)

\* What queueing an event does to the state.
LEMMA Queued ==
    ASSUME NEW rs, NEW alerts, Publishes(rs, alerts), ReadingsOf(rs), alerts \in Seq(Write)
    PROVE  /\ writes' \in Seq(Write)
           /\ Range(writes') = Range(rs) \cup Range(alerts)
           /\ cache' = cache
           /\ DOMAIN last' = {w.key : w \in Range(rs)} \cup DOMAIN last
           /\ \A w \in Range(rs) : last'[w.key] = w.value
           /\ \A k \in DOMAIN last \ {w.key : w \in Range(rs)} : last'[k] = last[k]
<1> DEFINE Keys == {w.key : w \in Range(rs)}
           of == [k \in Keys |-> (CHOOSE w \in Range(rs) : w.key = k).value]
<1>1. writes' = rs \o alerts /\ last' = Over(of, last) /\ cache' = cache
  BY DEF Publishes
<1>2. rs \in Seq(Write) /\ alerts \in Seq(Write)
  BY DEF ReadingsOf
<1>3. writes' \in Seq(Write) /\ Range(writes') = Range(rs) \cup Range(alerts)
  <2>1. PICK l \in Nat, n \in Nat :
          l = Len(rs) /\ DOMAIN rs = 1 .. l /\ n = Len(alerts) /\ DOMAIN alerts = 1 .. n
    BY <1>2
  <2>2. /\ writes' \in Seq(Write) /\ DOMAIN writes' = 1 .. l + n
        /\ \A i \in 1 .. l : writes'[i] = rs[i]
        /\ \A i \in l + 1 .. l + n : writes'[i] = alerts[i - l]
    BY <1>1, <1>2, <2>1
  <2>3. \A i \in 1 .. n : i + l \in l + 1 .. l + n /\ writes'[i + l] = alerts[i]
    BY <2>1, <2>2
  <2>4. \A i \in 1 .. l : i \in 1 .. l + n
    BY <2>1
  <2>5. \A i \in 1 .. l + n : i \in 1 .. l \/ i \in l + 1 .. l + n
    BY <2>1
  <2>6. \A i \in l + 1 .. l + n : i - l \in 1 .. n
    BY <2>1
  <2>7. Range(rs) \cup Range(alerts) \subseteq Range(writes')
    <3>1. \A i \in 1 .. l : rs[i] \in Range(writes')
      BY <2>2, <2>4 DEF Range
    <3>2. \A i \in 1 .. n : alerts[i] \in Range(writes')
      <4> SUFFICES ASSUME NEW i \in 1 .. n PROVE alerts[i] \in Range(writes')
        OBVIOUS
      <4>1. i + l \in 1 .. l + n /\ writes'[i + l] = alerts[i]
        BY <2>1, <2>3
      <4>2. QED
        BY <2>2, <4>1 DEF Range
    <3>3. QED
      BY <2>1, <3>1, <3>2 DEF Range
  <2>8. Range(writes') \subseteq Range(rs) \cup Range(alerts)
    <3>1. \A i \in 1 .. l + n : writes'[i] \in Range(rs) \cup Range(alerts)
      <4> SUFFICES ASSUME NEW i \in 1 .. l + n
                   PROVE  writes'[i] \in Range(rs) \cup Range(alerts)
        OBVIOUS
      <4>1. CASE i \in 1 .. l
        BY <2>1, <2>2, <4>1 DEF Range
      <4>2. CASE i \in l + 1 .. l + n
        BY <2>1, <2>2, <2>6, <4>2 DEF Range
      <4>3. QED
        BY <2>5, <4>1, <4>2
    <3>2. QED
      BY <2>2, <3>1 DEF Range
  <2>9. QED
    BY <2>2, <2>7, <2>8
<1>4. \A w \in Range(rs) : of[w.key] = w.value
  <2> SUFFICES ASSUME NEW w \in Range(rs) PROVE of[w.key] = w.value
    OBVIOUS
  <2>1. \A x \in Range(rs) : x.key = w.key => x = w
    BY DEF ReadingsOf, Range
  <2>2. (CHOOSE x \in Range(rs) : x.key = w.key) = w
    BY <2>1
  <2>3. QED
    BY <2>2
<1>5. DOMAIN of = Keys
  OBVIOUS
<1>6. \A w \in Range(rs) : w.key \in Keys
  OBVIOUS
<1> HIDE DEF Keys, of
<1>7. /\ DOMAIN last' = Keys \cup DOMAIN last
      /\ \A k \in Keys : last'[k] = of[k]
      /\ \A k \in DOMAIN last \ Keys : last'[k] = last[k]
  BY <1>1, <1>5 DEF Over
<1>8. QED
  BY <1>1, <1>3, <1>4, <1>6, <1>7 DEF Keys

\* What the head of the queue does to the cache.
LEMMA Published ==
    ASSUME BridgeInv, Publish
    PROVE  \E w \in Range(writes) :
             /\ w = Head(writes) /\ w \in Write
             /\ writes' \in Seq(Write) /\ UNCHANGED <<leakZones, last>>
             /\ Range(writes) = {w} \cup Range(writes')
             /\ DOMAIN cache' = {w.key} \cup DOMAIN cache
             /\ cache'[w.key] = w.value
             /\ \A k \in DOMAIN cache \ {w.key} : cache'[k] = cache[k]
<1>1. PICK n \in Nat : n = Len(writes) /\ DOMAIN writes = 1 .. n /\ n >= 1
  BY DEF BridgeInv, Publish
<1>2. writes \in Seq(Write) /\ writes # <<>> /\ writes' = Tail(writes)
  BY DEF BridgeInv, Publish
<1>3. PICK w \in Write : w = Head(writes) /\ w = writes[1]
  BY <1>1, <1>2
<1>4. /\ writes' \in Seq(Write) /\ DOMAIN writes' = 1 .. n - 1
      /\ \A i \in 1 .. n - 1 : writes'[i] = writes[i + 1]
  BY <1>1, <1>2
<1>5. w \in Range(writes) /\ Range(writes) = {w} \cup Range(writes')
  <2>1. \A i \in 1 .. n : i = 1 \/ (i - 1 \in 1 .. n - 1 /\ writes'[i - 1] = writes[i])
    BY <1>1, <1>4
  <2>2. 1 \in 1 .. n /\ \A i \in 1 .. n - 1 : i + 1 \in 1 .. n
    BY <1>1
  <2>3. {w} \cup Range(writes') \subseteq Range(writes)
    <3>1. \A i \in 1 .. n - 1 : writes'[i] \in Range(writes)
      BY <1>1, <1>4, <2>2 DEF Range
    <3>2. w \in Range(writes)
      BY <1>1, <1>3, <2>2 DEF Range
    <3>3. QED
      BY <1>4, <3>1, <3>2 DEF Range
  <2>4. Range(writes) \subseteq {w} \cup Range(writes')
    <3>1. \A i \in 1 .. n : writes[i] \in {w} \cup Range(writes')
      <4> SUFFICES ASSUME NEW i \in 1 .. n PROVE writes[i] \in {w} \cup Range(writes')
        OBVIOUS
      <4>1. CASE i = 1
        BY <1>3, <4>1
      <4>2. CASE i - 1 \in 1 .. n - 1 /\ writes'[i - 1] = writes[i]
        BY <1>4, <4>2 DEF Range
      <4>3. QED
        BY <2>1, <4>1, <4>2
    <3>2. QED
      BY <1>1, <3>1 DEF Range
  <2>5. QED
    BY <2>3, <2>4
<1>6. cache' = Over([k \in {w.key} |-> w.value], cache) /\ UNCHANGED <<leakZones, last>>
  BY <1>3 DEF Publish
<1>7. /\ DOMAIN cache' = {w.key} \cup DOMAIN cache
      /\ cache'[w.key] = w.value
      /\ \A k \in DOMAIN cache \ {w.key} : cache'[k] = cache[k]
  BY <1>6 DEF Over
<1>8. QED
  BY <1>3, <1>4, <1>5, <1>6, <1>7

TypeInv == BridgeInv /\ Table

LEMMA BridgeInit == Init => TypeInv
<1> SUFFICES ASSUME Init PROVE TypeInv
  OBVIOUS
<1>1. BridgeInv
  BY DEF Init, BridgeInv
<1>2. LeakConfig \in Seq(Nat)
  BY BridgeAssumption
<1>3. Table
  BY <1>2 DEF Init, RegisteredZones, DryZone, Table, Entry
<1>4. QED
  BY <1>1, <1>3 DEF TypeInv

LEMMA BridgeNext == TypeInv /\ [Next]_vars => TypeInv'
<1> SUFFICES ASSUME TypeInv, [Next]_vars PROVE TypeInv'
  OBVIOUS
<1>1. CASE Event
  <2>1. PICK rs, alerts :
          Idle /\ Publishes(rs, alerts) /\ ReadingsOf(rs) /\ AlertsOf(rs, alerts) /\ LatchOf(rs)
    BY <1>1 DEF Event
  <2>2. /\ writes' \in Seq(Write) /\ cache' = cache
        /\ Range(writes') = Range(rs) \cup Range(alerts)
        /\ DOMAIN last' = {w.key : w \in Range(rs)} \cup DOMAIN last
        /\ \A w \in Range(rs) : last'[w.key] = w.value
        /\ \A k \in DOMAIN last \ {w.key : w \in Range(rs)} : last'[k] = last[k]
    BY <2>1, Queued DEF AlertsOf
  <2>3. \A w \in Range(rs) : Valued(w.key, w.value)
    BY <2>1 DEF ReadingsOf, Range, Write
  <2>4. \A k \in DOMAIN last : k \in DOMAIN cache
    BY <2>1 DEF TypeInv, BridgeInv, Idle, Pending, Range
  <2>5. ASSUME NEW k \in DOMAIN last'
        PROVE  Valued(k, last'[k]) /\ (k \in DOMAIN cache' \/ Pending(k)')
    <3>1. CASE k \in {w.key : w \in Range(rs)}
      <4>1. PICK w \in Range(rs) : k = w.key
        BY <3>1
      <4>2. QED
        BY <4>1, <2>2, <2>3 DEF Pending
    <3>2. CASE k \notin {w.key : w \in Range(rs)}
      BY <2>2, <2>4, <3>2 DEF TypeInv, BridgeInv
    <3>3. QED
      BY <3>1, <3>2
  <2>6. BridgeInv'
    BY <2>2, <2>5 DEF BridgeInv, TypeInv
  <2>7. QED
    BY <2>1, <2>6 DEF TypeInv, LatchOf
<1>2. CASE Publish
  <2>1. PICK w \in Range(writes) :
          /\ w \in Write
          /\ writes' \in Seq(Write) /\ UNCHANGED <<leakZones, last>>
          /\ Range(writes) = {w} \cup Range(writes')
          /\ DOMAIN cache' = {w.key} \cup DOMAIN cache
          /\ cache'[w.key] = w.value
          /\ \A k \in DOMAIN cache \ {w.key} : cache'[k] = cache[k]
    BY <1>2, Published DEF TypeInv
  <2>2. Valued(w.key, w.value)
    BY <2>1 DEF Write
  <2>3. \A k \in DOMAIN cache' : Valued(k, cache'[k])
    BY <2>1, <2>2 DEF TypeInv, BridgeInv
  <2>4. \A k \in DOMAIN last' : Valued(k, last'[k]) /\ (k \in DOMAIN cache' \/ Pending(k)')
    BY <2>1 DEF TypeInv, BridgeInv, Pending
  <2>5. QED
    BY <2>1, <2>3, <2>4 DEF TypeInv, BridgeInv, Table
<1>3. CASE UNCHANGED vars
  BY <1>3 DEF vars, TypeInv, BridgeInv, Table, Pending
<1>4. QED
  BY <1>1, <1>2, <1>3, EventOrPublish DEF TypeInv

\* Every attribute has a value of its cluster's type, a temperature within 16
\* bits whatever was measured, and no reading is lost before it is published.
THEOREM BridgeTypeCorrect == Spec => []TypeOK
<1>1. TypeInv => TypeOK
  BY DEF TypeInv, BridgeInv, Valued, Pending, TypeOK
<1>2. QED
  BY <1>1, BridgeInit, BridgeNext, PTL DEF Spec

-----------------------------------------------------------------------------
(***************************************************************************)
(* The cache mirrors the readings.                                         *)
(***************************************************************************)
LEMMA MirrorInit == Init => MirrorInv
  BY DEF Init, MirrorInv, CacheMirrorsReadings, Range

\* No alert of the event in hand contradicts a last reading.
LEMMA AlertsAgree ==
    ASSUME ZonesApart, MirrorInv, NEW rs, NEW alerts,
           Publishes(rs, alerts), ReadingsOf(rs), AlertsOf(rs, alerts),
           NEW a \in Range(alerts), a.key \in DOMAIN last'
    PROVE  a.value = last'[a.key]
<1>1. /\ DOMAIN last' = {w.key : w \in Range(rs)} \cup DOMAIN last
      /\ \A w \in Range(rs) : last'[w.key] = w.value
      /\ \A k \in DOMAIN last \ {w.key : w \in Range(rs)} : last'[k] = last[k]
  BY Queued DEF AlertsOf
<1>2. CASE \E w \in Range(rs) : w.key = a.key /\ w.value = a.value
  BY <1>1, <1>2
<1>3. ASSUME NEW c \in Contacts, a = Flag(ZoneOf[c], TRUE, FALSE),
             \/ Flag(c, TRUE, TRUE) \in Range(rs)
             \/ /\ Key(c, "BooleanState") \in DOMAIN last
                /\ last[Key(c, "BooleanState")] = TRUE
                /\ rs = <<>>
      PROVE  a.value = last'[a.key]
  <2> DEFINE k == Key(c, "BooleanState")
  <2>1. /\ a.key.endpoint = ZoneOf[c] /\ a.key.cluster = "BooleanState" /\ a.value = TRUE
        /\ a.key = Key(ZoneOf[c], "BooleanState")
    BY <1>3 DEF Flag, Key
  <2>2. a.key.endpoint \in Contacts \cup WaterZones
    BY <1>1, <2>1 DEF MirrorInv, ReadingsOf
  <2>3. ZoneOf[c] = c
    BY <2>1, <2>2 DEF ZonesApart
  <2>4. a.key = k
    BY <2>1, <2>3
  <2>5. last'[k] = TRUE
    <3>1. CASE Flag(c, TRUE, TRUE) \in Range(rs)
      <4>1. Flag(c, TRUE, TRUE).key = k /\ Flag(c, TRUE, TRUE).value = TRUE
        BY DEF Flag
      <4>2. QED
        BY <1>1, <3>1, <4>1
    <3>2. CASE k \in DOMAIN last /\ last[k] = TRUE /\ rs = <<>>
      <4>1. Range(rs) = {}
        BY <3>2 DEF Range
      <4> HIDE DEF k
      <4>2. QED
        BY <1>1, <3>2, <4>1
    <3>3. QED
      BY <1>3, <3>1, <3>2
  <2>6. QED
    BY <2>1, <2>4, <2>5
<1>4. QED
  BY <1>2, <1>3 DEF AlertsOf

LEMMA MirrorNext ==
    ASSUME ZonesApart, TypeInv, MirrorInv, [Next]_vars
    PROVE  MirrorInv'
<1>1. CASE Event
  <2>1. PICK rs, alerts :
          Idle /\ Publishes(rs, alerts) /\ ReadingsOf(rs) /\ AlertsOf(rs, alerts)
    BY <1>1 DEF Event
  <2>2. /\ cache' = cache
        /\ Range(writes') = Range(rs) \cup Range(alerts)
        /\ DOMAIN last' = {w.key : w \in Range(rs)} \cup DOMAIN last
        /\ \A w \in Range(rs) : last'[w.key] = w.value
        /\ \A k \in DOMAIN last \ {w.key : w \in Range(rs)} : last'[k] = last[k]
    BY <2>1, Queued DEF AlertsOf
  <2>3. \A k \in DOMAIN last : k \in DOMAIN cache /\ cache[k] = last[k]
    BY <2>1 DEF MirrorInv, CacheMirrorsReadings, Idle, Range
  <2>4. \A w \in Range(rs) : w.reading
    BY <2>1 DEF ReadingsOf
  <2>5. CacheMirrorsReadings'
    <3> SUFFICES ASSUME NEW k \in DOMAIN last'
                 PROVE  \/ k \in DOMAIN cache' /\ cache'[k] = last'[k]
                        \/ \E w \in Range(writes') : w.reading /\ w.key = k
      BY DEF CacheMirrorsReadings
    <3>1. CASE k \in {w.key : w \in Range(rs)}
      BY <2>2, <2>4, <3>1
    <3>2. CASE k \notin {w.key : w \in Range(rs)}
      BY <2>2, <2>3, <3>2
    <3>3. QED
      BY <3>1, <3>2
  <2>6. \A w \in Range(writes') : w.key \in DOMAIN last' => w.value = last'[w.key]
    BY <2>1, <2>2, AlertsAgree
  <2>7. \A k \in DOMAIN last' :
           k.cluster = "BooleanState" => k.endpoint \in Contacts \cup WaterZones
    BY <2>1, <2>2 DEF MirrorInv, ReadingsOf
  <2>8. QED
    BY <2>5, <2>6, <2>7 DEF MirrorInv
<1>2. CASE Publish
  <2>1. PICK w \in Range(writes) :
          /\ last' = last
          /\ Range(writes) = {w} \cup Range(writes')
          /\ DOMAIN cache' = {w.key} \cup DOMAIN cache
          /\ cache'[w.key] = w.value
          /\ \A k \in DOMAIN cache \ {w.key} : cache'[k] = cache[k]
    BY <1>2, Published DEF TypeInv
  <2>2. CacheMirrorsReadings'
    <3> SUFFICES ASSUME NEW k \in DOMAIN last
                 PROVE  \/ k \in DOMAIN cache' /\ cache'[k] = last[k]
                        \/ \E x \in Range(writes') : x.reading /\ x.key = k
      BY <2>1 DEF CacheMirrorsReadings
    <3>1. CASE k = w.key
      BY <2>1, <3>1 DEF MirrorInv
    <3>2. CASE k # w.key
      BY <2>1, <3>2 DEF MirrorInv, CacheMirrorsReadings
    <3>3. QED
      BY <3>1, <3>2
  <2>3. QED
    BY <2>1, <2>2 DEF MirrorInv
<1>3. CASE UNCHANGED vars
  BY <1>3 DEF vars, MirrorInv, CacheMirrorsReadings
<1>4. QED
  BY <1>1, <1>2, <1>3, EventOrPublish DEF TypeInv

\* Where no contact's zone has the id of another contact or of a water zone, what
\* a controller reads is the last reading, whatever alerts go out in between.
THEOREM MirrorHolds == ZonesApart /\ Spec => []CacheMirrorsReadings
<1> SUFFICES ASSUME ZonesApart PROVE Spec => []CacheMirrorsReadings
  OBVIOUS
<1>1. Init => TypeInv /\ MirrorInv
  BY BridgeInit, MirrorInit
<1>2. TypeInv /\ MirrorInv /\ [Next]_vars => (TypeInv /\ MirrorInv)'
  BY BridgeNext, MirrorNext
<1>3. MirrorInv => CacheMirrorsReadings
  BY DEF MirrorInv
<1>4. QED
  BY <1>1, <1>2, <1>3, PTL DEF Spec

-----------------------------------------------------------------------------
(***************************************************************************)
(* A leak shows exactly while it is latched.                               *)
(***************************************************************************)
LEMMA LatchInit == Init => LatchInv
<1> SUFFICES ASSUME Init PROVE LatchInv
  OBVIOUS
<1>1. DOMAIN cache = {} /\ DOMAIN last = {} /\ Range(writes) = {}
  BY DEF Init, Range
<1>2. \A i \in DOMAIN leakZones : leakZones[i].wet = FALSE
  BY DEF Init, RegisteredZones, DryZone
<1>3. ASSUME NEW z, Known(z) PROVE ~ Wet(z)
  <2>1. EntryOf(z) \in DOMAIN leakZones
    BY <1>3, BridgeInit, EntryOfExists DEF TypeInv
  <2>2. QED
    BY <1>2, <2>1 DEF Wet
<1>4. QED
  BY <1>1, <1>3 DEF LatchInv, Pending

LEMMA LatchNext ==
    ASSUME ZonesApart, ContactsApart, TypeInv, LatchInv, [Next]_vars
    PROVE  LatchInv'
<1>1. CASE Event
  <2>1. PICK rs, alerts :
          Idle /\ Publishes(rs, alerts) /\ ReadingsOf(rs) /\ AlertsOf(rs, alerts) /\ LatchOf(rs)
    BY <1>1 DEF Event
  <2>2. /\ cache' = cache
        /\ Range(writes') = Range(rs) \cup Range(alerts)
        /\ DOMAIN last' = {w.key : w \in Range(rs)} \cup DOMAIN last
        /\ \A w \in Range(rs) : last'[w.key] = w.value
        /\ \A k \in DOMAIN last \ {w.key : w \in Range(rs)} : last'[k] = last[k]
    BY <2>1, Queued DEF AlertsOf
  <2> SUFFICES ASSUME NEW z \in WaterZones
               PROVE  LET k == Key(z, "BooleanState") IN
                      /\ k \in DOMAIN cache' \/ Pending(k)' => k \in DOMAIN last'
                      /\ Known(z)' => (Wet(z)' <=> k \in DOMAIN last' /\ last'[k] = TRUE)
    BY DEF LatchInv
  <2> DEFINE k == Key(z, "BooleanState")
  <2>3. k.endpoint = z /\ k.cluster = "BooleanState"
    BY DEF Key
  <2>4. /\ k \in DOMAIN cache => k \in DOMAIN last
        /\ Known(z) => (Wet(z) <=> k \in DOMAIN last /\ last[k] = TRUE)
    BY DEF LatchInv
  <2> HIDE DEF k
  <2>5. ASSUME NEW a \in Range(alerts), a.key = k
        PROVE  k \in {w.key : w \in Range(rs)}
    <3>1. ASSUME NEW c \in Contacts, a = Flag(ZoneOf[c], TRUE, FALSE)
          PROVE  FALSE
      <4>1. a.key.endpoint = ZoneOf[c]
        BY <3>1 DEF Flag, Key
      <4>2. QED
        BY <2>3, <2>5, <4>1 DEF ZonesApart
    <3>2. QED
      BY <2>1, <2>5, <3>1 DEF AlertsOf
  <2>6. k \in DOMAIN cache' \/ Pending(k)' => k \in DOMAIN last'
    BY <2>2, <2>4, <2>5 DEF Pending
  <2>7. Known(z)' => (Wet(z)' <=> k \in DOMAIN last' /\ last'[k] = TRUE)
    <3>1. ASSUME NEW y \in WaterZones, NEW x \in BOOLEAN, WaterReading(rs, y, x)
          PROVE  Known(z)' => (Wet(z)' <=> k \in DOMAIN last' /\ last'[k] = TRUE)
      <4> DEFINE w == Flag(y, x, TRUE)
      <4>1. /\ Range(rs) = {w} /\ w.key.endpoint = y
            /\ w.key = Key(y, "BooleanState") /\ w.value = x
        BY <3>1, OneFlag DEF WaterReading, Flag
      <4> HIDE DEF w
      <4>2. CASE y = z
        <5>1. w.key = k
          BY <4>1, <4>2 DEF k
        <5>2. k \in DOMAIN last' /\ last'[k] = x
          BY <2>2, <4>1, <5>1
        <5>3. Known(z)' => (Wet(z)' <=> x)
          BY <3>1, <4>2 DEF WaterReading
        <5>4. QED
          BY <5>2, <5>3
      <4>3. CASE y # z
        <5>1. w.key # k
          BY <2>3, <4>1, <4>3
        <5>2. k \notin {u.key : u \in Range(rs)}
          BY <4>1, <5>1
        <5>3. (k \in DOMAIN last' <=> k \in DOMAIN last) /\ (k \in DOMAIN last => last'[k] = last[k])
          BY <2>2, <5>2
        <5>4. (Wet(z)' <=> Wet(z)) /\ (Known(z)' <=> Known(z))
          BY <3>1, <4>3 DEF WaterReading
        <5>5. QED
          BY <2>4, <5>3, <5>4
      <4>4. QED
        BY <4>2, <4>3
    <3>2. CASE /\ UNCHANGED leakZones
               /\ \A w \in Range(rs) :
                     w.key.cluster = "BooleanState" => w.key.endpoint \in Contacts
      <4>1. k \notin {w.key : w \in Range(rs)}
        BY <2>3, <3>2 DEF ContactsApart
      <4>2. (k \in DOMAIN last' <=> k \in DOMAIN last) /\ (k \in DOMAIN last => last'[k] = last[k])
        BY <2>2, <4>1
      <4>3. (Wet(z)' <=> Wet(z)) /\ (Known(z)' <=> Known(z))
        BY <3>2, SameTable DEF TypeInv
      <4>4. QED
        BY <2>4, <4>2, <4>3
    <3>3. QED
      BY <2>1, <3>1, <3>2 DEF LatchOf
  <2>8. QED
    BY <2>6, <2>7 DEF k
<1>2. CASE Publish
  <2>1. PICK w \in Range(writes) :
          /\ UNCHANGED <<leakZones, last>>
          /\ Range(writes) = {w} \cup Range(writes')
          /\ DOMAIN cache' = {w.key} \cup DOMAIN cache
    BY <1>2, Published DEF TypeInv
  <2>2. \A z : (Wet(z)' <=> Wet(z)) /\ (Known(z)' <=> Known(z))
    BY <2>1, SameTable DEF TypeInv
  <2>3. \A k : k \in DOMAIN cache' \/ Pending(k)' => k \in DOMAIN cache \/ Pending(k)
    BY <2>1 DEF Pending
  <2>4. QED
    BY <2>1, <2>2, <2>3 DEF LatchInv
<1>3. CASE UNCHANGED vars
  <2>1. UNCHANGED <<leakZones, cache, writes, last>>
    BY <1>3 DEF vars
  <2>2. \A z : (Wet(z)' <=> Wet(z)) /\ (Known(z)' <=> Known(z))
    BY <2>1, SameTable DEF TypeInv
  <2>3. QED
    BY <2>1, <2>2 DEF LatchInv, Pending
<1>4. QED
  BY <1>1, <1>2, <1>3, EventOrPublish DEF TypeInv

\* With the ids apart, a controller that reads between two events sees a leak
\* of a zone with a sensor exactly while the monitor has it latched.
THEOREM LeakShows == ZonesApart /\ ContactsApart /\ Spec => []ShowsLeak
<1> SUFFICES ASSUME ZonesApart, ContactsApart PROVE Spec => []ShowsLeak
  OBVIOUS
<1>1. Init => TypeInv /\ MirrorInv /\ LatchInv
  BY BridgeInit, MirrorInit, LatchInit
<1>2. TypeInv /\ MirrorInv /\ LatchInv /\ [Next]_vars => (TypeInv /\ MirrorInv /\ LatchInv)'
  BY BridgeNext, MirrorNext, LatchNext
<1>3. TypeInv /\ MirrorInv /\ LatchInv => ShowsLeak
  <2> SUFFICES ASSUME TypeInv, MirrorInv, LatchInv, Idle, NEW z \in WaterZones, Known(z)
               PROVE  StateValue(z) = Wet(z)
    BY DEF ShowsLeak
  <2> DEFINE k == Key(z, "BooleanState")
  <2>1. k.cluster = "BooleanState"
    BY DEF Key
  <2>2. /\ k \in DOMAIN cache => k \in DOMAIN last
        /\ Wet(z) <=> k \in DOMAIN last /\ last[k] = TRUE
    BY DEF LatchInv
  <2>3. k \in DOMAIN last => k \in DOMAIN cache /\ cache[k] = last[k] /\ last[k] \in BOOLEAN
    BY <2>1 DEF TypeInv, BridgeInv, Valued, MirrorInv, CacheMirrorsReadings, Idle, Range
  <2>4. StateValue(z) <=> k \in DOMAIN cache /\ cache[k]
    BY DEF StateValue
  <2> HIDE DEF k
  <2>5. StateValue(z) <=> Wet(z)
    BY <2>2, <2>3, <2>4
  <2>6. StateValue(z) \in BOOLEAN /\ Wet(z) \in BOOLEAN
    BY DEF StateValue, Wet
  <2>7. QED
    BY <2>5, <2>6
<1>4. QED
  BY <1>1, <1>2, <1>3, PTL DEF Spec

=============================================================================
