------------------------------ MODULE DoorWatch ------------------------------
(***************************************************************************)
(* The door and window monitor of wohl-door: per contact, whether it is    *)
(* open and since when.  An opening at night is an alert of its own; a     *)
(* contact open for too long is found by check_timeouts, which the hub     *)
(* runs from its scheduler.                                                *)
(*                                                                         *)
(* A contact is one record for its ContactConfig and its ContactState,     *)
(* which the code keeps at the same index of two arrays.  The hub enables  *)
(* every contact, so the enabled flag is left out.                         *)
(***************************************************************************)
EXTENDS Integers, Sequences, FiniteSets

CONSTANTS
    MaxContacts,        \* MAX_CONTACTS (32)
    MaxAlertsPerCheck,  \* MAX_ALERTS_PER_CHECK (4)
    DaySec,             \* 86400
    HourSec,            \* 3600
    WordSpan            \* 2^64, the range of a u64

ASSUME DoorAssumption ==
    /\ MaxContacts \in Nat
    /\ MaxAlertsPerCheck \in Nat \ {0}
    /\ HourSec \in Nat \ {0}
    /\ DaySec \in Nat \ {0}
    /\ WordSpan \in Nat \ {0}

VARIABLE contacts       \* the first contact_count contacts

\* A configured contact, closed.
Closed(c) == [contact_id |-> c.contact_id, zone_id |-> c.zone_id,
              max_open_sec |-> c.max_open_sec,
              night_start_hour |-> c.night_start_hour,
              night_end_hour |-> c.night_end_hour,
              open |-> FALSE, opened_at |-> 0]

\* The contacts after a call of register_contact for each of cs in turn.
RegisteredContacts(cs) ==
    [i \in {j \in DOMAIN cs : j <= MaxContacts} |-> Closed(cs[i])]

\* The contact process_event works on: the first with that id.
EntriesFor(id) == {i \in DOMAIN contacts : contacts[i].contact_id = id}
EntryFor(id) == CHOOSE i \in EntriesFor(id) : \A j \in EntriesFor(id) : i <= j

\* is_night_hour, at the hour of day of t.
Hour(t) == (t % DaySec) \div HourSec

IsNight(c, t) ==
    IF c.night_start_hour <= c.night_end_hour
    THEN Hour(t) >= c.night_start_hour /\ Hour(t) < c.night_end_hour
    ELSE Hour(t) >= c.night_start_hour \/ Hour(t) < c.night_end_hour

-----------------------------------------------------------------------------
\* process_event(id, true, t): a contact already open starts its time anew.
Opens(i, t) ==
    contacts' = [contacts EXCEPT ![i].open = TRUE, ![i].opened_at = t]

\* process_event(id, false, t)
Closes(i) == contacts' = [contacts EXCEPT ![i].open = FALSE]

(***************************************************************************)
(* check_timeouts(t): the contacts open for too long, the first of them as *)
(* many as the result has room for.  The subtraction is of u64 values;     *)
(* only the comparison before it keeps it from wrapping.                   *)
(***************************************************************************)
Elapsed(c, t) == (t - c.opened_at) % WordSpan

\* Mutant: the comparison before the subtraction is dropped.
OverdueUnguarded(c, t) ==
    c.open /\ Elapsed(c, t) > c.max_open_sec

Overdue(c, t) ==
    c.open /\ t >= c.opened_at /\ Elapsed(c, t) > c.max_open_sec

TimedOut(t) == {i \in DOMAIN contacts : Overdue(contacts[i], t)}

\* Mutant: the check on the length of the array is dropped.
CheckTimeoutsUnbounded(t) == TimedOut(t)

CheckTimeouts(t) ==
    {i \in TimedOut(t) : Cardinality({j \in TimedOut(t) : j < i}) < MaxAlertsPerCheck}

=============================================================================
