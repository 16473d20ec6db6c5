------------------------------ MODULE HubConfig ------------------------------
(***************************************************************************)
(* The configuration of the hub: which file it comes from, the one built   *)
(* in, and what each zone and contact of it amounts to once the thresholds *)
(* it leaves out have their defaults.                                      *)
(*                                                                         *)
(* A field a file may leave out is a set of at most one value.  Names, the *)
(* scheduler's tick rate and the alert limits, which the hub reads and     *)
(* does not use, are left out.                                             *)
(***************************************************************************)
EXTENDS Integers, Sequences, SequencesExt

Or(option, default) == IF option = {} THEN default ELSE CHOOSE v \in option : TRUE

\* HubConfig, ZoneConfig and ContactConfigToml.
Home(zones, contacts) == [zones |-> zones, contacts |-> contacts]

Zone(id, sensors) ==
    [id |-> id, sensors |-> sensors, temp_freeze |-> {}, temp_overheat |-> {}, temp_rate |-> {},
     co2_warn |-> {}, co2_critical |-> {}, power_max_watts |-> {}, power_spike |-> {}]

Contact(id, zone) ==
    [id |-> id, zone |-> zone, max_open_sec |-> {}, night_start |-> {}, night_end |-> {}]

\* default_config
DefaultHome ==
    Home(<<[Zone(1, {"temp", "water", "air"}) EXCEPT
               !.temp_freeze = {0}, !.temp_overheat = {4000}, !.temp_rate = {500},
               !.co2_warn = {1000}, !.co2_critical = {2000}],
           [Zone(2, {"temp", "water"}) EXCEPT !.temp_freeze = {500}, !.temp_overheat = {3500}],
           [Zone(3, {"water", "power"}) EXCEPT
               !.power_max_watts = {30000}, !.power_spike = {10000}]>>,
         <<[Contact(1, 1) EXCEPT
               !.max_open_sec = {300}, !.night_start = {22}, !.night_end = {6}]>>)

-----------------------------------------------------------------------------
(***************************************************************************)
(* load_config.  A file cannot be read, cannot be parsed, or holds a home. *)
(***************************************************************************)
Unreadable == [status |-> "unreadable"]
Malformed == [status |-> "malformed"]
File(home) == [status |-> "ok", home |-> home]

\* The homes a process may start with, given the file named by --config or
\* WOHL_CONFIG, if any, and those of the search list: none at all when the
\* file named is no good, where it exits.
LoadConfig(explicit, search) ==
    LET good(files) == SelectSeq(files, LAMBDA f : f.status = "ok")
    IN  IF explicit # {} THEN {f.home : f \in {g \in explicit : g.status = "ok"}}
        ELSE IF good(search) # <<>> THEN {Head(good(search)).home}
        ELSE {DefaultHome}

-----------------------------------------------------------------------------
(***************************************************************************)
(* configure: what it registers with each monitor.                         *)
(***************************************************************************)
TempConfig(zn) ==
    [zone_id |-> zn.id, freeze |-> Or(zn.temp_freeze, 0),
     overheat |-> Or(zn.temp_overheat, 4000), rate |-> Or(zn.temp_rate, 500)]

\* The thresholds in the order of the monitor's alert types.
AirConfig(zn) ==
    [zone_id |-> zn.id,
     thresholds |-> <<Or(zn.co2_warn, 1000), Or(zn.co2_critical, 2000), 250, 500, 200, 400>>]

CircuitConfig(zn) ==
    [circuit_id |-> zn.id, max |-> Or(zn.power_max_watts, 30000),
     spike |-> Or(zn.power_spike, 10000)]

ContactConfig(c) ==
    [contact_id |-> c.id, zone_id |-> c.zone, max_open_sec |-> Or(c.max_open_sec, 300),
     night_start_hour |-> Or(c.night_start, 22), night_end_hour |-> Or(c.night_end, 6)]

\* The zones that have a sensor, in order, as configure registers them.
ZonesWith(home, sensor) ==
    LET zones[n \in 0 .. Len(home.zones)] ==
            IF n = 0 THEN <<>>
            ELSE IF sensor \in home.zones[n].sensors THEN Append(zones[n - 1], home.zones[n])
            ELSE zones[n - 1]
    IN  zones[Len(home.zones)]

-----------------------------------------------------------------------------
(***************************************************************************)
(* configure: what it subscribes, in order.                                *)
(***************************************************************************)
Keys(id, types) == [i \in DOMAIN types |-> [zone |-> id, type |-> types[i]]]

KeysOf(sensor) ==
    CASE sensor = "temp" -> <<"freeze", "overheat", "rapid_drop", "rapid_rise">>
      [] sensor = "water" -> <<"water_leak">>
      [] sensor = "air" -> <<"co2_warning", "co2_critical", "pm25_warning", "pm25_critical",
                             "voc_warning", "voc_critical">>
      [] sensor = "power" -> <<"overconsumption", "power_spike">>

ZoneKeys(zn) ==
    FlattenSeq([i \in 1 .. 4 |->
        LET sensor == <<"temp", "water", "air", "power">>[i]
        IN  IF sensor \in zn.sensors THEN Keys(zn.id, KeysOf(sensor)) ELSE <<>>])

ContactKeys(c) == Keys(c.zone, <<"door_open_too_long", "door_opened_at_night">>)

\* What configure passes on to each part of the hub.
ConfigOf(home) ==
    LET waterZones == ZonesWith(home, "water")
        tempZones == ZonesWith(home, "temp")
        airZones == ZonesWith(home, "air")
        powerZones == ZonesWith(home, "power")
    IN  [water |-> [i \in DOMAIN waterZones |-> waterZones[i].id],
         temp |-> [i \in DOMAIN tempZones |-> TempConfig(tempZones[i])],
         air |-> [i \in DOMAIN airZones |-> AirConfig(airZones[i])],
         power |-> [i \in DOMAIN powerZones |-> CircuitConfig(powerZones[i])],
         contacts |-> [i \in DOMAIN home.contacts |-> ContactConfig(home.contacts[i])],
         keys |-> FlattenSeq([i \in DOMAIN home.zones |-> ZoneKeys(home.zones[i])])
                  \o FlattenSeq([i \in DOMAIN home.contacts |-> ContactKeys(home.contacts[i])])]

=============================================================================
