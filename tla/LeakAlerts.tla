----------------------------- MODULE LeakAlerts -----------------------------
(***************************************************************************)
(* From a wet sensor to the home owner: the leak monitor and the alert     *)
(* dispatcher as WohlHub::process_event couples them, with the alerts of   *)
(* the other monitors competing for the same dispatcher, and the hub       *)
(* restarted by systemd at any time.                                       *)
(*                                                                         *)
(* The coupling is where a leak can be lost: the monitor latches a zone    *)
(* wet in the very call whose alert the dispatcher may then suppress, and  *)
(* no later wet reading raises it again.                                   *)
(***************************************************************************)
EXTENDS Alerting, LeakDetector, SequencesExt

CONSTANTS
    Leak,       \* ALERT_WATER_LEAK; the other AlertTypes come from other monitors
    Configs     \* configurations: the zones with a water sensor and the alerts
                \* the hub subscribes to, in the order of the file

ASSUME LeakAlertsAssumption ==
    /\ Leak \in AlertTypes
    /\ \A c \in Configs : c.water \in Seq(Zones) /\ c.keys \in Seq(Key)

VARIABLES
    config,     \* the configuration the hub was started with
    reports     \* history: leak alerts sent for the zone since it was last dry

vars == <<alertingVars, leakZones, config, reports>>

LeakKey(z) == [zone |-> z, type |-> Leak]

\* The subscription table after WohlHub::configure; what it has no room for is
\* refused without a word.
SubscriptionTable(c) == SubscribedTo(c.keys)

\* A hub that has just started: nothing is kept on disk.  The history is that
\* of the running hub.
Init ==
    /\ config \in Configs
    /\ leakZones = RegisteredZones(config.water)
    /\ recent = {}
    /\ minuteCount = 0
    /\ minuteStart = 0
    /\ subscriptions = SubscriptionTable(config)
    /\ HistoryInit
    /\ reports = [z \in Zones |-> 0]

-----------------------------------------------------------------------------
(***************************************************************************)
(* The arms of process_event.                                              *)
(***************************************************************************)
LeakDetected(z) ==
    /\ NewLeak(z, now)
    /\ Raise(LeakKey(z))
    /\ reports' = IF result'.action = "Send"
                  THEN [reports EXCEPT ![z] = @ + 1] ELSE reports
    /\ UNCHANGED config

WetReading(z) ==
    \/ LeakDetected(z)
    \/ (AlreadyWet(z) \/ Unknown(z)) /\ UNCHANGED <<alertingVars, config, reports>>

\* A cleared leak raises no alert.
DryReading(z) ==
    /\ Cleared(z) \/ AlreadyDry(z) \/ Unknown(z)
    /\ reports' = [reports EXCEPT ![z] = 0]
    /\ UNCHANGED <<alertingVars, config>>

OtherAlert(k) ==
    /\ k.type # Leak
    /\ Raise(k)
    /\ UNCHANGED <<leakZones, config, reports>>

Tick ==
    /\ HouseKeeping
    /\ UNCHANGED <<leakZones, config, reports>>

Clock ==
    /\ ClockStep
    /\ UNCHANGED <<leakZones, config, reports>>

\* Mutant: the wet flags outlive the process.
RestartKeepsZones ==
    /\ config' \in Configs
    /\ UNCHANGED leakZones
    /\ recent' = {}
    /\ minuteCount' = 0
    /\ minuteStart' = 0
    /\ subscriptions' = SubscriptionTable(config')
    /\ result' = None
    /\ delivered' = {}
    /\ sends' = {}
    /\ reports' = [z \in Zones |-> 0]
    /\ UNCHANGED now

\* Restart=always in the systemd unit: a new process, with the configuration
\* it finds.
Restart ==
    /\ config' \in Configs
    /\ leakZones' = RegisteredZones(config'.water)
    /\ recent' = {}
    /\ minuteCount' = 0
    /\ minuteStart' = 0
    /\ subscriptions' = SubscriptionTable(config')
    /\ result' = None
    /\ delivered' = {}
    /\ sends' = {}
    /\ reports' = [z \in Zones |-> 0]
    /\ UNCHANGED now

Next ==
    \/ \E z \in Zones : WetReading(z) \/ DryReading(z)
    \/ \E k \in Key : OtherAlert(k)
    \/ Tick
    \/ Clock
    \/ Restart

Spec == Init /\ [][Next]_vars

-----------------------------------------------------------------------------
(***************************************************************************)
(* Properties.                                                             *)
(***************************************************************************)

\* The tables stay within their arrays.
TypeOK ==
    /\ AlertingTypeOK
    /\ leakZones \in Seq([zone_id : Zones, wet : BOOLEAN, detected_at : Time])
    /\ Len(leakZones) <= MaxLeakZones
    /\ config \in Configs
    /\ reports \in [Zones -> Nat]

\* Of one episode, from the first wet reading to a dry one, the owner is told
\* at most once by one run of the hub, however often the sensor repeats itself
\* and however far the cooldown is past.
OneReportPerEpisode == \A z \in Zones : reports[z] <= 1

\* What may silence an alert raised at t: one sent for its key less than a
\* cooldown before, or a minute whose budget was sent.
HeardBefore(k, t) ==
    \E d \in delivered :
        d.key = k /\ d.time <= t /\ t < SatAdd(d.time, Cooldown)

BudgetSpent(t) == SentBetween(t - MinuteSec + 1, t) >= MaxPerMinute

\* A zone known to be wet whose leak was not sent when it was detected has an
\* excuse: its last leak was sent less than a cooldown before, or the budget
\* of the minute was spent, by this run of the hub.  Nothing else may silence
\* it: not another zone's leak, not another alert of the zone, not what the
\* hub sent before a restart.  (For a clock that never goes back.)
SilenceIsExcused ==
    \A z \in Zones :
        (Wet(z) /\ IsSubscribed(LeakKey(z))) =>
            \/ HeardBefore(LeakKey(z), DetectedAt(z))
            \/ BudgetSpent(DetectedAt(z))

-----------------------------------------------------------------------------
(***************************************************************************)
(* What the requirements say and the code does not do.                     *)
(***************************************************************************)

\* "no delay, no dedup, immediate dispatch" (SYSREQ-WOHL-001): a zone the
\* monitor holds wet was reported when the leak was detected.
EveryLeakIsReported ==
    \A z \in Zones :
        Wet(z) => \E d \in delivered :
                      d.key = LeakKey(z) /\ d.time = DetectedAt(z)

=============================================================================
