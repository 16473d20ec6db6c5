---------------------------- MODULE MCDoorAlerts ----------------------------
(***************************************************************************)
(* Instances of DoorCopies for TLC: two contacts of one zone and one of    *)
(* another, days of four hours, and nights with and without midnight.      *)
(***************************************************************************)
EXTENDS DoorCopies

Contact(id, zone, night) ==
    [contact_id |-> id, zone_id |-> zone, max_open_sec |-> 1,
     night_start_hour |-> night[1], night_end_hour |-> night[2]]

MCZones == {1, 2}

\* Three contacts, one more than a check reports, and a fourth the table has no
\* room for; and a list that repeats an id, whose second entry is never found.
MCHomes == {<<Contact(1, 1, <<3, 1>>), Contact(2, 2, <<0, 0>>),
              Contact(3, 1, <<0, 0>>), Contact(4, 2, <<0, 0>>)>>,
            <<Contact(1, 1, <<1, 3>>), Contact(1, 2, <<0, 0>>), Contact(2, 2, <<1, 2>>)>>}

MCOne == {<<Contact(1, 1, <<0, 0>>)>>}

=============================================================================
