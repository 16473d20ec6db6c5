----------------------------- MODULE DoorAlerts -----------------------------
(***************************************************************************)
(* From a door left open to the home owner: the door monitor, the hub's    *)
(* scheduler slot and the alert dispatcher, as the Contact and Tick arms   *)
(* of WohlHub::process_event couple them.                                  *)
(*                                                                         *)
(* An opening at night raises an alert, a tick up to MaxAlertsPerCheck of  *)
(* them, in the order of their contacts.  Each is dispatched in a step of  *)
(* its own, due being those still to come; the hub has one thread, so no   *)
(* other event is handled until the one in hand is over, a tick when it    *)
(* has cleared the expired entries.                                        *)
(***************************************************************************)
EXTENDS Alerting, DoorWatch, SequencesExt

CONSTANTS
    DoorOpenTooLong,    \* ALERT_DOOR_OPEN_TOO_LONG
    DoorNight,          \* ALERT_DOOR_NIGHT
    FrameTime,          \* the literal 1000 of the Tick arm
    MinorFrames,        \* the literal 60 of the Tick arm
    Configs             \* lists of contacts, in the order of the file

ContactConfig == [contact_id : Nat, zone_id : Zones, max_open_sec : Nat,
                  night_start_hour : Nat, night_end_hour : Nat]

ASSUME DoorAlertsAssumption ==
    /\ \A c \in Configs : c \in Seq(ContactConfig)
    /\ DoorOpenTooLong # DoorNight
    /\ AlertTypes = {DoorOpenTooLong, DoorNight}
    /\ FrameTime \in Nat \ {0}
    /\ MinorFrames \in Nat \ {0}
    /\ MaxTime <= WordSpan

VARIABLES
    config,     \* the contacts the hub was started with
    inTick,     \* the hub is handling a tick
    due,        \* alerts of the event in hand still to be dispatched
    alertedAt   \* history: when a contact's timeout alert was sent, if it was
                \* since the contact last changed

doorVars == <<contacts, config, inTick, due>>
vars == <<alertingVars, doorVars, alertedAt>>

\* An alert of the monitor: the contact (its index) and what it did.
TooLong(i) == [contact |-> i, type |-> DoorOpenTooLong]
AtNight(i) == [contact |-> i, type |-> DoorNight]

\* What the dispatcher is told of it.
KeyOf(a) == [zone |-> contacts[a.contact].zone_id, type |-> a.type]

Never == MaxTime

\* WohlHub::configure for the contacts: register, then subscribe both alerts
\* of the contact's zone.
ContactKeys(c) ==
    [n \in 1 .. 2 * Len(c) |->
        [zone |-> c[(n + 1) \div 2].zone_id,
         type |-> IF n % 2 = 1 THEN DoorOpenTooLong ELSE DoorNight]]

Init ==
    /\ config \in Configs
    /\ contacts = RegisteredContacts(config)
    /\ recent = {}
    /\ minuteCount = 0
    /\ minuteStart = 0
    /\ subscriptions = SubscribedTo(ContactKeys(config))
    /\ HistoryInit
    /\ inTick = FALSE
    /\ due = {}
    /\ alertedAt = [i \in DOMAIN contacts |-> Never]

-----------------------------------------------------------------------------
(***************************************************************************)
(* The Contact arm.                                                        *)
(***************************************************************************)
Idle == ~ inTick /\ due = {}

ContactOpens(i) ==
    /\ Opens(i, now)
    /\ due' = IF IsNight(contacts[i], now) THEN {AtNight(i)} ELSE {}
    /\ alertedAt' = [alertedAt EXCEPT ![i] = Never]

ContactCloses(i) ==
    /\ Closes(i)
    /\ alertedAt' = [alertedAt EXCEPT ![i] = Never]
    /\ UNCHANGED due

\* A contact that is not configured is ignored.
ContactEvent(id) ==
    /\ Idle
    /\ \/ EntriesFor(id) # {} /\ (ContactOpens(EntryFor(id)) \/ ContactCloses(EntryFor(id)))
       \/ EntriesFor(id) = {} /\ UNCHANGED <<contacts, due, alertedAt>>
    /\ UNCHANGED <<alertingVars, config, inTick>>

(***************************************************************************)
(* The Tick arm.  relay-sch runs a slot of minor frame 0 and major frame 0 *)
(* whenever the minor frame of the tick is 0.                              *)
(***************************************************************************)
SlotFires(t) == (t \div FrameTime) % MinorFrames = 0

TickStarts ==
    /\ Idle
    /\ inTick' = TRUE
    /\ due' = IF SlotFires(now) THEN {TooLong(i) : i \in CheckTimeouts(now)} ELSE {}
    /\ UNCHANGED <<alertingVars, contacts, config, alertedAt>>

(***************************************************************************)
(* The loops over the alerts, of either arm.                               *)
(***************************************************************************)
FirstDue == CHOOSE a \in due : \A b \in due : a.contact <= b.contact

\* Mutant: the loop ends at the first alert that is not sent.
DispatchDueBreaks ==
    /\ due # {}
    /\ Raise(KeyOf(FirstDue))
    /\ due' = IF result'.action = "Send" THEN due \ {FirstDue} ELSE {}
    /\ alertedAt' = IF result'.action = "Send" /\ FirstDue.type = DoorOpenTooLong
                    THEN [alertedAt EXCEPT ![FirstDue.contact] = now] ELSE alertedAt
    /\ UNCHANGED <<contacts, config, inTick>>

DispatchDue ==
    /\ due # {}
    /\ Raise(KeyOf(FirstDue))
    /\ due' = due \ {FirstDue}
    /\ alertedAt' = IF result'.action = "Send" /\ FirstDue.type = DoorOpenTooLong
                    THEN [alertedAt EXCEPT ![FirstDue.contact] = now] ELSE alertedAt
    /\ UNCHANGED <<contacts, config, inTick>>

TickEnds ==
    /\ inTick
    /\ due = {}
    /\ HouseKeeping
    /\ inTick' = FALSE
    /\ UNCHANGED <<contacts, config, due, alertedAt>>

Clock ==
    /\ Idle
    /\ ClockStep
    /\ UNCHANGED <<doorVars, alertedAt>>

ContactIds == {c.contact_id : c \in UNION {ToSet(s) : s \in Configs}}

Next ==
    \/ \E id \in ContactIds : ContactEvent(id)
    \/ TickStarts
    \/ DispatchDue
    \/ TickEnds
    \/ Clock

Spec == Init /\ [][Next]_vars

-----------------------------------------------------------------------------
(***************************************************************************)
(* Properties.                                                             *)
(***************************************************************************)
TypeOK ==
    /\ AlertingTypeOK
    /\ Len(contacts) <= MaxContacts
    /\ \A i \in DOMAIN contacts :
           contacts[i].open \in BOOLEAN /\ contacts[i].opened_at \in Time
    /\ inTick \in BOOLEAN
    /\ due \subseteq [contact : DOMAIN contacts, type : AlertTypes]
    /\ Cardinality(due) <= MaxAlertsPerCheck
    /\ alertedAt \in [DOMAIN contacts -> 0 .. MaxTime]

\* A timeout alert is for a contact that had been open, without a new reading,
\* for more than its limit when it was sent; the subtraction of unsigned times
\* never wraps.  Holds for timestamps in any order.
TimeoutIsGenuine ==
    \A i \in DOMAIN contacts :
        alertedAt[i] # Never =>
            /\ contacts[i].open
            /\ alertedAt[i] > contacts[i].opened_at + contacts[i].max_open_sec

\* What may silence an alert raised at t: one sent for its zone, less than a
\* cooldown before or stamped later; or the budget of the minute.
SentForZone(k, t) ==
    \E d \in delivered : d.key = k /\ t < SatAdd(d.time, Cooldown)

BudgetSpent == minuteCount = MaxPerMinute

OverdueNow(i) == now > contacts[i].opened_at + contacts[i].max_open_sec

\* When a tick that ran the timeout check has dispatched its alerts, a contact
\* open for too long and never reported has an excuse, if the table had room
\* for its subscription: as many contacts as a check reports, registered before
\* it, are open for too long as well; or its zone was reported already; or the
\* budget of the minute is spent.  Holds for timestamps in any order.
SilenceIsExcused ==
    (inTick /\ due = {} /\ SlotFires(now)) =>
        \A i \in DOMAIN contacts :
            (/\ contacts[i].open /\ OverdueNow(i) /\ alertedAt[i] = Never
             /\ IsSubscribed(KeyOf(TooLong(i)))) =>
                \/ Cardinality({j \in 1 .. i - 1 : contacts[j].open /\ OverdueNow(j)})
                       >= MaxAlertsPerCheck
                \/ SentForZone(KeyOf(TooLong(i)), now)
                \/ BudgetSpent

-----------------------------------------------------------------------------
(***************************************************************************)
(* What comments and requirements say and the code does not do.            *)
(***************************************************************************)

\* "minor_frame=0, major_frame=0 (every tick)" (WohlHub::configure): at the end
\* of any tick the lone contact of a home, open for too long, was reported
\* unless its zone or the budget stands in the way.
TimeoutsCheckedEveryTick ==
    (inTick /\ due = {}) =>
        \A i \in DOMAIN contacts :
            (contacts[i].open /\ OverdueNow(i) /\ alertedAt[i] = Never) =>
                SentForZone(KeyOf(TooLong(i)), now) \/ BudgetSpent

=============================================================================
