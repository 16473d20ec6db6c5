---------------------------- MODULE MatterBridge ----------------------------
(***************************************************************************)
(* The Matter bridge: the cache of attributes between the hub's thread,    *)
(* which publishes readings and dispatched alerts as they come, and the    *)
(* Matter thread, which reads an attribute when a controller asks for it.  *)
(*                                                                         *)
(* An event of the hub queues what it publishes, its readings first and    *)
(* the alerts the dispatcher let through at the end; every write takes the *)
(* lock of the cache by itself, so a controller may read between any two.  *)
(* Which alerts a reading raises, and which of them survive the dispatcher,*)
(* is left open here: Dispatcher and the monitors decide that.             *)
(***************************************************************************)
EXTENDS LeakDetector, SequencesExt

CONSTANTS
    LeakConfig,     \* ids of the zones with a water sensor, in order
    ZoneOf,         \* zone_id of each contact
    Meters,         \* an endpoint and the kinds of its events' readings, in order
    Measured,       \* values measured
    Int16Min,       \* i16::MIN (-32768)
    Int16Max        \* i16::MAX (32767)

ASSUME BridgeAssumption ==
    /\ Int16Min \in Int
    /\ Int16Max \in Int
    /\ Int16Min <= Int16Max
    /\ LeakConfig \in Seq(Nat)
    /\ ZoneOf \in [DOMAIN ZoneOf -> Nat]
    /\ DOMAIN ZoneOf \subseteq Nat
    /\ \A v \in Measured : v \in Int

VARIABLES
    cache,      \* AttributeCache.inner: a function of the keys published so far
    writes,     \* what the event in hand has still to publish
    last        \* history: the last reading of each key

vars == <<leakZones, cache, writes, last>>

\* The attribute is determined by the cluster.
Key(e, c) == [endpoint |-> e, cluster |-> c]

Contacts == DOMAIN ZoneOf
WaterZones == Range(LeakConfig)
Int16 == Int16Min .. Int16Max

-----------------------------------------------------------------------------
(***************************************************************************)
(* The tables of cluster.rs and the conversions.                           *)
(***************************************************************************)
\* mapping_for_reading
ReadingCluster ==
    [Contact |-> "BooleanState", WaterPresence |-> "BooleanState",
     Temperature |-> "TemperatureMeasurement", Power |-> "ElectricalPowerMeasurement",
     Co2 |-> "CarbonDioxide", Pm25 |-> "Pm25", Voc |-> "Voc"]

\* The alerts the hub raises on a reading, in order.
RaisedBy ==
    [Temperature |-> <<"freeze", "overheat", "rapid_drop", "rapid_rise">>,
     Power |-> <<"overconsumption", "power_spike">>,
     Co2 |-> <<"co2_warning", "co2_critical">>,
     Pm25 |-> <<"pm25_warning", "pm25_critical">>,
     Voc |-> <<"voc_warning", "voc_critical">>]

\* An event has at most one reading of a kind.
ASSUME MeterAssumption ==
    \A m \in Meters :
        /\ m.endpoint \in Nat
        /\ m.kinds \in Seq(DOMAIN RaisedBy)
        /\ \A i, j \in DOMAIN m.kinds : m.kinds[i] = m.kinds[j] => i = j

\* from_tag and mapping_for_alert, for the tags the hub uses; health_miss is
\* the one that has no cluster.
AlertCluster ==
    [water_leak |-> "BooleanState",
     door_open_too_long |-> "BooleanState", door_opened_at_night |-> "BooleanState",
     freeze |-> "TemperatureMeasurement", overheat |-> "TemperatureMeasurement",
     rapid_drop |-> "TemperatureMeasurement", rapid_rise |-> "TemperatureMeasurement",
     overconsumption |-> "ElectricalPowerMeasurement",
     power_spike |-> "ElectricalPowerMeasurement",
     co2_warning |-> "CarbonDioxide", co2_critical |-> "CarbonDioxide",
     pm25_warning |-> "Pm25", pm25_critical |-> "Pm25",
     voc_warning |-> "Voc", voc_critical |-> "Voc"]

\* Mutant: a temperature is not clamped at the lower end.
ConvertUnclamped(c, v) ==
    CASE c = "BooleanState" -> v # 0
      [] c = "TemperatureMeasurement" -> IF v > Int16Max THEN Int16Max ELSE v
      [] OTHER -> v

\* The scaling of watts and the float32 of a concentration lose nothing here.
Convert(c, v) ==
    CASE c = "BooleanState" -> v # 0
      [] c = "TemperatureMeasurement" ->
             IF v > Int16Max THEN Int16Max ELSE IF v < Int16Min THEN Int16Min ELSE v
      [] OTHER -> v

ReadingWrite(e, kind, v) ==
    [key |-> Key(e, ReadingCluster[kind]), value |-> Convert(ReadingCluster[kind], v),
     reading |-> TRUE]

\* zone_id.or(contact_id).or(circuit_id), of the ids the alert has.
AlertEndpoint(ids) == Head(ids)

\* Mutant: an alert of BooleanState, which has no value, is converted like a reading.
ConvertAlertByValue(c, v) == Convert(c, v)

\* Any alert of a BooleanState cluster sets it, whatever its value.
ConvertAlert(c, v) == IF c = "BooleanState" THEN TRUE ELSE Convert(c, v)

\* publish_alert: nothing for a tag without a cluster.
AlertWrites(ids, tag, v) ==
    IF tag \notin DOMAIN AlertCluster THEN <<>>
    ELSE <<[key |-> Key(AlertEndpoint(ids), AlertCluster[tag]),
            value |-> ConvertAlert(AlertCluster[tag], v), reading |-> FALSE]>>

\* An alert the dispatcher may have suppressed.
Optional(alerts) == {<<>>, alerts}

Init ==
    /\ leakZones = RegisteredZones(LeakConfig)
    /\ cache = <<>>
    /\ writes = <<>>
    /\ last = <<>>

-----------------------------------------------------------------------------
(***************************************************************************)
(* The hub's thread.                                                       *)
(***************************************************************************)
Idle == writes = <<>>

\* f, and g where f is undefined.
Over(f, g) ==
    [x \in DOMAIN f \cup DOMAIN g |-> IF x \in DOMAIN f THEN f[x] ELSE g[x]]

\* An event publishes the readings rs, then the alerts.
Publishes(rs, alerts) ==
    /\ writes' = rs \o alerts
    /\ last' = Over([k \in {w.key : w \in Range(rs)} |->
                         (CHOOSE w \in Range(rs) : w.key = k).value], last)
    /\ UNCHANGED cache

WetReading(z) ==
    /\ Idle
    /\ \/ /\ NewLeak(z, 0)
          /\ \E alert \in Optional(AlertWrites(<<z>>, "water_leak", 0)) :
                Publishes(<<ReadingWrite(z, "WaterPresence", 1)>>, alert)
       \/ /\ AlreadyWet(z) \/ Unknown(z)
          /\ Publishes(<<ReadingWrite(z, "WaterPresence", 1)>>, <<>>)

DryReading(z) ==
    /\ Idle
    /\ Cleared(z) \/ AlreadyDry(z) \/ Unknown(z)
    /\ Publishes(<<ReadingWrite(z, "WaterPresence", 0)>>, <<>>)

\* An open event may raise OpenedAtNight.
ContactOpens(c) ==
    /\ Idle
    /\ \E alert \in Optional(AlertWrites(<<ZoneOf[c], c>>, "door_opened_at_night", 0)) :
          Publishes(<<ReadingWrite(c, "Contact", 1)>>, alert)
    /\ UNCHANGED leakZones

ContactCloses(c) ==
    /\ Idle
    /\ Publishes(<<ReadingWrite(c, "Contact", 0)>>, <<>>)
    /\ UNCHANGED leakZones

\* A tick that finds a contact open too long; more of them are more such ticks.
\* A monitor that missed its health check raises an alert as well, before it.
DoorTimeout(c) ==
    /\ Idle
    /\ Key(c, "BooleanState") \in DOMAIN last
    /\ last[Key(c, "BooleanState")]
    /\ \E missed \in Optional(AlertWrites(<<>>, "health_miss", 0)) :
          Publishes(<<>>, missed \o AlertWrites(<<ZoneOf[c], c>>, "door_open_too_long", 0))
    /\ UNCHANGED leakZones

\* The alerts that readings of m with the values v may raise, and what those
\* of raised publish, in their order: an alert carries the value of the reading
\* that raised it.
MayRaise(m) == UNION {{i} \X Range(RaisedBy[m.kinds[i]]) : i \in DOMAIN m.kinds}

AlertsOn(m, v, raised) ==
    FlattenSeq([i \in DOMAIN m.kinds |->
        FlattenSeq([j \in DOMAIN RaisedBy[m.kinds[i]] |->
            LET tag == RaisedBy[m.kinds[i]][j]
            IN  IF <<i, tag>> \in raised THEN AlertWrites(<<m.endpoint>>, tag, v[i]) ELSE <<>>])])

\* A temperature, power or air event; an air event has several readings.
Measurement(m) ==
    /\ Idle
    /\ \E v \in [DOMAIN m.kinds -> Measured], raised \in SUBSET MayRaise(m) :
          Publishes([i \in DOMAIN m.kinds |-> ReadingWrite(m.endpoint, m.kinds[i], v[i])],
                    AlertsOn(m, v, raised))
    /\ UNCHANGED leakZones

\* Mutant: a value is written once and kept.
PublishOnce ==
    /\ writes # <<>>
    /\ cache' = Over(cache, [k \in {Head(writes).key} |-> Head(writes).value])
    /\ writes' = Tail(writes)
    /\ UNCHANGED <<leakZones, last>>

\* AttributeCache::set.
Publish ==
    /\ writes # <<>>
    /\ cache' = Over([k \in {Head(writes).key} |-> Head(writes).value], cache)
    /\ writes' = Tail(writes)
    /\ UNCHANGED <<leakZones, last>>

Next ==
    \/ \E z \in WaterZones : WetReading(z) \/ DryReading(z)
    \/ \E c \in Contacts : ContactOpens(c) \/ ContactCloses(c) \/ DoorTimeout(c)
    \/ \E m \in Meters : Measurement(m)
    \/ Publish

Spec == Init /\ [][Next]_vars

-----------------------------------------------------------------------------
(***************************************************************************)
(* The Matter thread: what a controller reads, at any time.                *)
(***************************************************************************)
\* CacheBooleanState::current_state; an attribute never published is false.
StateValue(e) ==
    LET k == Key(e, "BooleanState") IN k \in DOMAIN cache /\ cache[k]

-----------------------------------------------------------------------------
(***************************************************************************)
(* Properties.                                                             *)
(***************************************************************************)
TypeOK ==
    /\ \A k \in DOMAIN cache :
          /\ k.cluster = "BooleanState" => cache[k] \in BOOLEAN
          /\ k.cluster = "TemperatureMeasurement" => cache[k] \in Int16
    /\ DOMAIN last \subseteq DOMAIN cache \cup {w.key : w \in Range(writes)}

\* What a controller can read of a key is its last reading at any time but
\* the moment before that reading is published: an alert published after it
\* never puts another value in its place.  It holds where no contact's zone has
\* the id of another contact or of a water zone.
CacheMirrorsReadings ==
    \A k \in DOMAIN last :
        \/ k \in DOMAIN cache /\ cache[k] = last[k]
        \/ \E w \in Range(writes) : w.reading /\ w.key = k

\* Between two events the endpoint of a water zone shows a leak exactly when
\* the leak monitor has latched one ("`true` means leak detected", cluster.rs).
\* It holds where no water zone has the id of a contact or is a contact's zone.
ShowsLeak == Idle => \A z \in WaterZones : Known(z) => StateValue(z) = Wet(z)

=============================================================================
