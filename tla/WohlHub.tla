------------------------------- MODULE WohlHub -------------------------------
(***************************************************************************)
(* The hub: main, WohlHub::new and the arms of WohlHub::process_event,     *)
(* which give every reading to its monitor and every alert the monitor     *)
(* raises, one after the other, to the dispatcher.                         *)
(*                                                                         *)
(* The Water arm is that of LeakAlerts.  A reading of the Temp, Air and    *)
(* Power arms may raise several alerts; each is dispatched in a step of    *)
(* its own, pending being those still to come, and the hub, which has one  *)
(* thread, handles nothing else before they are dispatched.  The alerts of *)
(* contacts come from outside, see DoorAlerts.                             *)
(***************************************************************************)
EXTENDS LeakAlerts, TempMonitor, AirMonitor, PowerMonitor, HubConfig

CONSTANTS
    TempValues, AirReadings, Watts,     \* what a line of JSON may report
    Packets                             \* what a CCSDS packet may hold

\* The alerts each monitor raises.
TempTypes == {"freeze", "overheat", "rapid_drop", "rapid_rise"}
AirTypes == {AirAlertTypes[i] : i \in 1 .. 6}
PowerTypes == {"overconsumption", "power_spike"}
ContactTypes == {"door_open_too_long", "door_opened_at_night"}

ASSUME HubAssumption ==
    /\ Leak = "water_leak"
    /\ TempTypes \cup AirTypes \cup PowerTypes \cup ContactTypes \subseteq AlertTypes
    /\ TempValues \subseteq Int
    /\ AirReadings \subseteq [co2 : Nat, pm25 : SUBSET Nat, voc : SUBSET Nat]
    /\ Watts \subseteq Nat
    /\ \A p \in Packets : p.zone_id \in Zones /\ p.device_id \in Zones /\ p.value \in Int
    /\ \A c \in Configs :
          /\ c.temp \in Seq([zone_id : Zones, freeze : Int, overheat : Int, rate : Int])
          /\ c.air \in Seq([zone_id : Zones, thresholds : [1 .. 6 -> Int]])
          /\ c.power \in Seq([circuit_id : Zones, max : Nat, spike : Nat])
          /\ \A i \in DOMAIN c.contacts : c.contacts[i].zone_id \in Zones

VARIABLE pending        \* alerts of the event in hand still to be dispatched

monitorVars == <<temp, air, power, pending>>
hubVars == <<vars, monitorVars>>

-----------------------------------------------------------------------------
(***************************************************************************)
(* The process starts, and starts again.                                   *)
(***************************************************************************)
\* What the hub may be started with, given what may be found on the disk.
Startable(disks) ==
    {ConfigOf(home) : home \in UNION {LoadConfig(d.explicit, d.search) : d \in disks}}

HubInit ==
    /\ Init
    /\ temp = TempWith(config.temp)
    /\ air = AirWith(config.air)
    /\ power = PowerWith(config.power)
    /\ pending = <<>>

-----------------------------------------------------------------------------
(***************************************************************************)
(* process_event.                                                          *)
(***************************************************************************)
Idle == pending = <<>>

TempReading(z, v) ==
    /\ Idle
    /\ pending' = TempAlerts(z, v)
    /\ KeepReading(z, v, now)
    /\ UNCHANGED <<vars, air, power>>

\* A metric the event lacks is passed on as 0.
PassedOn(r) == [co2 |-> r.co2, pm25 |-> Or(r.pm25, 0), voc |-> Or(r.voc, 0)]

AirReading(z, r) ==
    /\ Idle
    /\ pending' = AirAlerts(z, PassedOn(r))
    /\ UNCHANGED <<vars, temp, air, power>>

PowerReading(id, w) ==
    /\ Idle
    /\ pending' = PowerAlerts(id, w)
    /\ KeepWatts(id, w, now)
    /\ UNCHANGED <<vars, temp, air>>

\* Mutant: an alert that is not sent ends the event.
DispatchUntilRefused ==
    /\ ~ Idle
    /\ OtherAlert([zone |-> Head(pending).zone, type |-> Head(pending).type])
    /\ pending' = IF result'.action = "Send" THEN Tail(pending) ELSE <<>>
    /\ UNCHANGED <<temp, air, power>>

\* One turn of the loop over the alerts of a reading.
DispatchPending ==
    /\ ~ Idle
    /\ OtherAlert([zone |-> Head(pending).zone, type |-> Head(pending).type])
    /\ pending' = Tail(pending)
    /\ UNCHANGED <<temp, air, power>>

WaterReading(z, wet) ==
    /\ Idle
    /\ \/ wet /\ WetReading(z)
       \/ ~ wet /\ DryReading(z)
    /\ UNCHANGED monitorVars

ContactAlert(c) ==
    /\ Idle
    /\ \E k \in ToSet(Keys(c.zone_id, <<"door_open_too_long", "door_opened_at_night">>)) :
          OtherAlert(k)
    /\ UNCHANGED monitorVars

\* packet_to_event: no value is negative, power comes in tenths of a watt, and
\* the packets of other sensors are dropped.
NonNegative(v) == IF v < 0 THEN 0 ELSE v
PacketAir(p) == [co2 |-> NonNegative(p.value), pm25 |-> {}, voc |-> {}]
PacketWatts(p) == NonNegative(p.value) \div 10

Packet(p) ==
    \/ p.sensor_type = "temp" /\ TempReading(p.zone_id, p.value)
    \/ p.sensor_type = "co2" /\ AirReading(p.zone_id, PacketAir(p))
    \/ p.sensor_type = "power" /\ PowerReading(p.device_id, PacketWatts(p))
    \/ p.sensor_type = "water" /\ WaterReading(p.zone_id, p.value # 0)
    \/ /\ p.sensor_type = "contact"
       /\ \E c \in ToSet(config.contacts) : c.contact_id = p.device_id /\ ContactAlert(c)

HubTick == Idle /\ Tick /\ UNCHANGED monitorVars

HubClock == Idle /\ Clock /\ UNCHANGED monitorVars

\* A new process, whatever the old one was about.
HubRestart ==
    /\ Restart
    /\ temp' = TempWith(config'.temp)
    /\ air' = AirWith(config'.air)
    /\ power' = PowerWith(config'.power)
    /\ pending' = <<>>

HubNext ==
    \/ \E z \in Zones :
           \/ \E v \in TempValues : TempReading(z, v)
           \/ \E r \in AirReadings : AirReading(z, r)
           \/ \E w \in Watts : PowerReading(z, w)
           \/ \E wet \in BOOLEAN : WaterReading(z, wet)
    \/ \E p \in Packets : Packet(p)
    \/ DispatchPending
    \/ \E c \in ToSet(config.contacts) : ContactAlert(c)
    \/ HubTick
    \/ HubClock
    \/ HubRestart

HubSpec == HubInit /\ [][HubNext]_hubVars

-----------------------------------------------------------------------------
(***************************************************************************)
(* Properties.                                                             *)
(***************************************************************************)

\* Every table stays within its array, and no reading raises more alerts than
\* its result has room for.
HubTypeOK ==
    /\ TypeOK
    /\ Len(temp.zones) <= MaxTempZones
    /\ air.zone_count <= MaxAirZones
    /\ Len(power.circuits) <= MaxCircuits
    /\ \A m \in {temp, air, power} : Len(m.limits) <= MaxWatchpoints
    /\ pending \in Seq([zone : Zones, type : AlertTypes, threshold : Int])
    /\ Len(pending) <= 6

\* What is wrong by the last reading of a zone or circuit, and since when.  A
\* reading stamped 0 counts as none (last_time > 0 in process_reading).
Excesses(id, time, types) ==
    IF time > 0 THEN {[key |-> [zone |-> id, type |-> t], time |-> time] : t \in types} ELSE {}

ZoneExcesses(e) ==
    Excesses(e.zone_id, e.last_time, {t \in {"freeze"} : e.last_value <= e.freeze}
                                     \cup {t \in {"overheat"} : e.last_value >= e.overheat})

CircuitExcesses(e) ==
    Excesses(e.circuit_id, e.last_time, {t \in {"overconsumption"} : e.last_watts > e.max})

Standing ==
    UNION ({ZoneExcesses(e) : e \in ToSet(temp.zones)}
           \cup {CircuitExcesses(e) : e \in ToSet(power.circuits)})

\* Unlike a leak, an excess that stands is raised again by every reading: when
\* an event is over, each excess the last readings show was told to the owner
\* within the cooldown before its reading, or the budget of that minute was
\* spent, by this run of the hub.  No other alert of the reading, no other
\* zone, no tick and no restart may lose it.  (For a clock that never goes
\* back.)
StandingExcessIsHeard ==
    Idle => \A x \in Standing :
                IsSubscribed(x.key) => HeardBefore(x.key, x.time) \/ BudgetSpent(x.time)

\* The owner only hears of alerts the home is configured for, and of those only
\* the ones the subscription table had room for, in the order of the file.  It
\* takes all three of the filters by id: a reading of a zone that is not
\* configured reaches the watchpoints, whose ids are computed from the zone,
\* and its alert the subscriptions, which know 24 bits of it.
HeardAlertsAreConfigured ==
    \A d \in delivered :
        \E i \in DOMAIN config.keys :
            /\ config.keys[i] = d.key
            /\ Cardinality({MsgId(config.keys[j]) : j \in 1 .. i}) <= MaxSubscriptions

-----------------------------------------------------------------------------
(***************************************************************************)
(* The monitors the hub links against their verified twins and against the *)
(* components built from the same repository: in the hub each behaves as   *)
(* either would.  It does so for homes that list a zone once, with ids     *)
(* whose watchpoints do not saturate and values whose differences fit.     *)
(***************************************************************************)
\* What the configurations pass on to each monitor.
WaterLists == {c.water : c \in Configs}
TempLists == {c.temp : c \in Configs}
AirLists == {c.air : c \in Configs}
PowerLists == {c.power : c \in Configs}

\* And what readings they get.
PacketsOf(type) == {p \in Packets : p.sensor_type = type}
Temperatures == TempValues \cup {p.value : p \in PacketsOf("temp")}
PassedReadings == {PassedOn(r) : r \in AirReadings \cup {PacketAir(p) : p \in PacketsOf("co2")}}
AllWatts == Watts \cup {PacketWatts(p) : p \in PacketsOf("power")}

\* The alerts still to come, if they are those of the monitor with these types:
\* they are never of two monitors at a time.
Raised(types) == IF pending # <<>> /\ Head(pending).type \in types THEN pending ELSE <<>>

VerifiedTemp == INSTANCE VerifiedTemp WITH
    zones <- temp.zones, alerts <- Raised(TempTypes),
    Ids <- Zones, Values <- Temperatures, Times <- Time,
    Lists <- TempLists, MaxZones <- MaxTempZones, MaxAlertsPerReading <- 4

TempComponent == INSTANCE TempComponent WITH
    table <- temp, alerts <- Raised(TempTypes),
    Ids <- Zones, Values <- Temperatures, Times <- Time,
    Lists <- TempLists, MaxZones <- MaxTempZones

\* A warning is superseded by a critical alert of the same metric after it.
Superseded(s, i) ==
    \E j \in i + 1 .. Len(s), n \in {1, 3, 5} :
        s[i].type = AirAlertTypes[n] /\ s[j].type = AirAlertTypes[n + 1]

\* From the last alert to the first.
WithoutSuperseded(s) ==
    LET kept[n \in 0 .. Len(s)] ==
            IF n = 0 THEN <<>>
            ELSE IF Superseded(s, Len(s) - n + 1) THEN kept[n - 1]
            ELSE <<s[Len(s) - n + 1]>> \o kept[n - 1]
    IN  kept[Len(s)]

\* The zones of the list that were registered.
AirZones == [i \in {j \in DOMAIN config.air : j <= MaxAirZones} |-> config.air[i]]

VerifiedAir == INSTANCE VerifiedAir WITH
    zones <- AirZones,
    alerts <- WithoutSuperseded(Raised(AirTypes)),
    Ids <- Zones, Readings <- PassedReadings,
    Lists <- AirLists, MaxZones <- MaxAirZones, MaxAlertsPerReading <- 6

AirComponent == INSTANCE AirComponent WITH
    table <- air, alerts <- Raised(AirTypes),
    Ids <- Zones, Readings <- PassedReadings,
    Lists <- AirLists, MaxZones <- MaxAirZones

VerifiedPower == INSTANCE VerifiedPower WITH
    circuits <- power.circuits, alerts <- Raised(PowerTypes),
    Ids <- Zones, Watts <- AllWatts, Times <- Time,
    Lists <- PowerLists, MaxAlertsPerReading <- 4

PowerComponent == INSTANCE PowerComponent WITH
    table <- power, alerts <- Raised(PowerTypes),
    Ids <- Zones, Watts <- AllWatts, Times <- Time, Lists <- PowerLists

VerifiedLeak == INSTANCE VerifiedLeak WITH
    zones <- leakZones, Ids <- Zones, Times <- Time,
    Lists <- WaterLists, MaxZones <- MaxLeakZones

LeakComponent == INSTANCE LeakComponent WITH
    table <- leakZones, Ids <- Zones, Times <- Time,
    Lists <- WaterLists, MaxZones <- MaxLeakZones

\* The temperature monitor with its watchpoints raises what the verified one
\* raises, and keeps the same last readings.
TempAsVerified == VerifiedTemp!Spec

\* The component's wrapping arithmetic makes no difference in the hub.
TempAsComponent == TempComponent!Spec

\* The air monitor raises what the verified one raises and, before each
\* critical alert, the warning that alert supersedes; nothing else.
AirAsVerified == VerifiedAir!Spec

\* The component's ids make no difference in the hub.
AirAsComponent == AirComponent!Spec

\* The power meter raises what the verified one raises.
PowerAsVerified == VerifiedPower!Spec

\* The power meter raises what the component raises.
PowerAsComponent == PowerComponent!Spec

\* The leak monitor, through its five answers, keeps the state the verified
\* one keeps, and dates a leak by the reading that detected it.
LeakAsVerified == VerifiedLeak!Spec

\* Likewise for the component.
LeakAsComponent == LeakComponent!Spec

=============================================================================
