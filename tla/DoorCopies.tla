------------------------------ MODULE DoorCopies ------------------------------
(***************************************************************************)
(* The door monitor the hub links, with the hub of DoorAlerts around it,   *)
(* against the two other sources of the same monitor in this repository.   *)
(***************************************************************************)
EXTENDS DoorAlerts

\* An alert of one of the contacts cs, as the copies write it.
Written(cs, a) ==
    [contact |-> cs[a.contact].contact_id, zone |-> cs[a.contact].zone_id,
     type |-> IF a.type = DoorNight THEN "opened_at_night" ELSE "open_too_long"]

\* Alerts of the contacts cs in their order; no contact has more than one.
ListOf(cs, alerts) ==
    LET list[n \in 0 .. Len(cs)] ==
            IF n = 0 THEN <<>>
            ELSE IF \E a \in alerts : a.contact = n
                 THEN Append(list[n - 1], Written(cs, CHOOSE a \in alerts : a.contact = n))
                 ELSE list[n - 1]
    IN  list[Len(cs)]

\* Those still to be dispatched.
Listed == ListOf(contacts, due)

VerifiedDoor == INSTANCE VerifiedDoor WITH
    alerts <- Listed, Ids <- ContactIds, Times <- Time, Lists <- Configs

DoorComponent == INSTANCE DoorComponent WITH
    configs <- [i \in DOMAIN contacts |-> config[i]],
    states <- [i \in DOMAIN contacts |->
                  [open |-> contacts[i].open, opened_at |-> contacts[i].opened_at]],
    alerts <- Listed, Ids <- ContactIds, Times <- Time, Lists <- Configs

\* Whatever is read and whenever the scheduler runs the check, the monitor
\* raises what the verified one raises, in the same order.
DoorAsVerified == VerifiedDoor!Spec

\* Likewise for the component.
DoorAsComponent == DoorComponent!Spec

=============================================================================
