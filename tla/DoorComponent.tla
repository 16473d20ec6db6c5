---------------------------- MODULE DoorComponent ----------------------------
(***************************************************************************)
(* The WASM component of wohl-door (wasm_component.rs): a monitor of its   *)
(* own source in a static table, reset by the export init.  The table is   *)
(* the two arrays of the code, and a result grows contact by contact.      *)
(***************************************************************************)
EXTENDS Integers, Sequences

CONSTANTS
    Ids,                \* contact ids an event may hold
    Times,              \* what the clock may show
    Lists,              \* lists of contacts its host may register
    MaxContacts, MaxAlertsPerCheck, DaySec, HourSec

VARIABLES
    configs, states,    \* TABLE, up to contact_count
    alerts,             \* the list the last export returned, less what was read
    now                 \* its host's clock

Closed == [open |-> FALSE, opened_at |-> 0]

\* is_night_hour
IsNightHour(hour, start, end) ==
    \/ start <= end /\ hour >= start /\ hour < end
    \/ start > end /\ (hour >= start \/ hour < end)

\* The first contact with that id.
IsFirst(i, id) ==
    configs[i].contact_id = id /\ \A j \in 1 .. i - 1 : configs[j].contact_id # id

\* Alerts of contact i: at night, or open for too long.
NightAlert(i) == [contact |-> configs[i].contact_id, zone |-> configs[i].zone_id,
                  type |-> "opened_at_night"]
TimeoutAlert(i) == [contact |-> configs[i].contact_id, zone |-> configs[i].zone_id,
                    type |-> "open_too_long"]

-----------------------------------------------------------------------------
\* A host calls init, then register_contact for each of cs.
Starts(cs) ==
    /\ configs = [i \in {j \in DOMAIN cs : j <= MaxContacts} |-> cs[i]]
    /\ states = [i \in DOMAIN configs |-> Closed]
    /\ alerts = <<>>

Init == now \in Times /\ \E cs \in Lists : Starts(cs)

Opens(id) ==
    \E i \in DOMAIN configs :
        /\ IsFirst(i, id)
        /\ states' = [states EXCEPT ![i] = [open |-> TRUE, opened_at |-> now]]
        /\ alerts' = IF IsNightHour((now % DaySec) \div HourSec,
                                    configs[i].night_start_hour, configs[i].night_end_hour)
                     THEN <<NightAlert(i)>> ELSE <<>>

Closes(id) ==
    \E i \in DOMAIN configs :
        /\ IsFirst(i, id)
        /\ states' = [states EXCEPT ![i].open = FALSE]
        /\ alerts' = <<>>

Ignores(id) ==
    /\ \A i \in DOMAIN configs : configs[i].contact_id # id
    /\ alerts' = <<>>
    /\ UNCHANGED states

ProcessEvent(id) ==
    /\ alerts = <<>>
    /\ Opens(id) \/ Closes(id) \/ Ignores(id)
    /\ UNCHANGED <<configs, now>>

Expired(i) ==
    /\ states[i].open
    /\ now >= states[i].opened_at
    /\ now - states[i].opened_at > configs[i].max_open_sec

CheckTimeouts ==
    LET list[n \in 0 .. Len(configs)] ==
            IF n = 0 THEN <<>>
            ELSE IF Expired(n) /\ Len(list[n - 1]) < MaxAlertsPerCheck
                 THEN Append(list[n - 1], TimeoutAlert(n)) ELSE list[n - 1]
    IN  /\ alerts = <<>>
        /\ alerts' = list[Len(configs)]
        /\ UNCHANGED <<configs, states, now>>

TakeAlert ==
    alerts # <<>> /\ alerts' = Tail(alerts) /\ UNCHANGED <<configs, states, now>>

ClockMoves == now' \in Times /\ UNCHANGED <<configs, states, alerts>>

Next ==
    \/ \E id \in Ids : ProcessEvent(id)
    \/ CheckTimeouts
    \/ TakeAlert
    \/ ClockMoves

Spec == Init /\ [][Next]_<<configs, states, alerts, now>>

=============================================================================
