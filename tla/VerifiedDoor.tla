----------------------------- MODULE VerifiedDoor -----------------------------
(***************************************************************************)
(* The door monitor that Verus verifies (wohl-door/src/engine.rs):         *)
(* DOOR-P02 to P04, for a caller that takes the alerts of one call         *)
(* before the next.                                                        *)
(***************************************************************************)
EXTENDS Integers, Sequences

CONSTANTS
    Ids,                \* contact ids an event may hold
    Times,              \* what the clock may show
    Lists,              \* lists of contacts it may be started with
    MaxContacts,        \* MAX_CONTACTS (32)
    MaxAlertsPerCheck,  \* MAX_ALERTS_PER_CHECK (4)
    DaySec, HourSec     \* 86400, 3600

VARIABLES
    contacts,   \* configs and states, up to contact_count
    alerts,     \* alerts of the last call its caller has still to take
    now         \* its caller's clock

\* A contact configured, closed.
Closed(c) == [contact_id |-> c.contact_id, zone_id |-> c.zone_id,
              max_open_sec |-> c.max_open_sec,
              night_start_hour |-> c.night_start_hour, night_end_hour |-> c.night_end_hour,
              open |-> FALSE, opened_at |-> 0]

Registered(table, c) ==
    IF Len(table) >= MaxContacts THEN table ELSE Append(table, Closed(c))

Started(cs) ==
    LET after[n \in 0 .. Len(cs)] == IF n = 0 THEN <<>> ELSE Registered(after[n - 1], cs[n])
    IN  after[Len(cs)]

Matching(id) == {i \in DOMAIN contacts : contacts[i].contact_id = id}
First(id) == CHOOSE i \in Matching(id) : \A j \in Matching(id) : i <= j

NightHour(c, hour) ==
    LET after == hour >= c.night_start_hour
        before == hour < c.night_end_hour
    IN  IF c.night_start_hour <= c.night_end_hour THEN after /\ before ELSE after \/ before

Alert(c, type) == [contact |-> c.contact_id, zone |-> c.zone_id, type |-> type]

-----------------------------------------------------------------------------
Init == \E cs \in Lists : contacts = Started(cs) /\ alerts = <<>> /\ now \in Times

\* DOOR-P04: an opening in the night raises an alert, as often as it is read.
ProcessEvent(id, open) ==
    /\ alerts = <<>>
    /\ Matching(id) # {}
    /\ LET i == First(id)
       IN  /\ contacts' = [contacts EXCEPT
                             ![i].open = open,
                             ![i].opened_at = IF open THEN now ELSE contacts[i].opened_at]
           /\ alerts' = IF open /\ NightHour(contacts[i], (now % DaySec) \div HourSec)
                        THEN <<Alert(contacts[i], "opened_at_night")>> ELSE <<>>
    /\ UNCHANGED now

\* DOOR-P03: of the contacts open for longer than they may, the first few.
Late(c) == c.open /\ now >= c.opened_at /\ now - c.opened_at > c.max_open_sec

CheckTimeouts ==
    LET list[n \in 0 .. Len(contacts)] ==
            IF n = 0 THEN <<>>
            ELSE IF Late(contacts[n]) /\ Len(list[n - 1]) < MaxAlertsPerCheck
                 THEN Append(list[n - 1], Alert(contacts[n], "open_too_long"))
                 ELSE list[n - 1]
    IN  /\ alerts = <<>>
        /\ alerts' = list[Len(contacts)]
        /\ UNCHANGED <<contacts, now>>

TakeAlert == alerts # <<>> /\ alerts' = Tail(alerts) /\ UNCHANGED <<contacts, now>>

ClockMoves == now' \in Times /\ UNCHANGED <<contacts, alerts>>

Next ==
    \/ \E id \in Ids, open \in BOOLEAN : ProcessEvent(id, open)
    \/ CheckTimeouts
    \/ TakeAlert
    \/ ClockMoves

Spec == Init /\ [][Next]_<<contacts, alerts, now>>

=============================================================================
