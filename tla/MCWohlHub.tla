------------------------------ MODULE MCWohlHub ------------------------------
(***************************************************************************)
(* An instance of WohlHub for TLC: homes that have one or two monitors     *)
(* each, chosen whenever it starts, on one small dispatcher.               *)
(*                                                                         *)
(* Zone 3 is never configured; it has the message id of zone 1, and the    *)
(* largest watchpoint ids that do not saturate.                            *)
(***************************************************************************)
EXTENDS WohlHub

MCZones == {1, 2, 3}
MCTypes == TempTypes \cup AirTypes \cup PowerTypes \cup ContactTypes \cup {"water_leak"}

Small(id, sensors) ==
    [Zone(id, sensors) EXCEPT !.temp_freeze = {1}, !.temp_overheat = {3}, !.temp_rate = {1},
                              !.co2_warn = {1}, !.co2_critical = {2},
                              !.power_max_watts = {3}, !.power_spike = {2}]

\* Two water zones; a water zone listed twice, which leaves no room in the
\* monitor's table for the other, with contacts as competitors; temperature in
\* two zones, one more than the monitor has room for; air in two zones; power;
\* and air and water, where the alerts of air take every subscription there is
\* room for.
MCHomes ==
    {Home(<<Small(1, {"water"}), Small(2, {"water"})>>, <<>>),
     Home(<<Small(1, {"water"}), Small(1, {"water"}), Small(2, {"water"})>>, <<Contact(1, 1)>>),
     Home(<<Small(1, {"temp"}), Small(2, {"temp"})>>, <<>>),
     Home(<<Small(1, {"air"}), Small(2, {"air"})>>, <<>>),
     Home(<<Small(2, {"power"})>>, <<>>),
     Home(<<Small(1, {"air"}), Small(2, {"water"})>>, <<>>)}

\* Each home in the file the unit names, or in the second of those searched;
\* and disks with nothing to find.
MCDisks ==
    {[explicit |-> {File(h)}, search |-> <<Malformed, Unreadable>>] : h \in MCHomes}
    \cup {[explicit |-> {}, search |-> <<Malformed, File(h)>>] : h \in MCHomes}
    \cup {[explicit |-> {Malformed}, search |-> <<Unreadable, File(DefaultHome)>>],
          [explicit |-> {Unreadable}, search |-> <<Unreadable, Unreadable>>]}

MCConfigs == Startable(MCDisks)

MCTempValues == {1, 2, 3}
MCAirReadings ==
    {[co2 |-> 0, pm25 |-> {}, voc |-> {}],
     [co2 |-> 1, pm25 |-> {500}, voc |-> {0}],
     [co2 |-> 2, pm25 |-> {}, voc |-> {200}]}
MCWatts == {0, 3, 4}
MCPackets ==
    [sensor_type : {"temp"}, zone_id : {1}, device_id : {3}, value : {3}]
    \cup [sensor_type : {"co2"}, zone_id : {1}, device_id : {3}, value : {-5, 2}]
    \cup [sensor_type : {"power"}, zone_id : {1}, device_id : {2}, value : {-5, 39}]
    \cup [sensor_type : {"water"}, zone_id : {1}, device_id : {3}, value : {0, 1}]
    \cup [sensor_type : {"contact", "humidity"}, zone_id : {2}, device_id : {1}, value : {1}]
MCI32Min == -8

=============================================================================
