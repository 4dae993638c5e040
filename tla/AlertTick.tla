----------------------------- MODULE AlertTick -----------------------------
(***************************************************************************)
(* What ticks do to alerts (core/stats.rs after_update, stats_actions.rs,  *)
(* actions/run.rs, alerts.rs, events.rs, plugins/alert.rs, quicklook.rs)   *)
(* and what requests make of them (outputs/web/health.rs, mutate.rs).      *)
(*                                                                         *)
(* In each tick, each plugin in registration order is updated, then has    *)
(* its alert commands run, then its views rebuilt, which classifies its    *)
(* reading and logs it.  The alert plugin's views are a copy of the log.   *)
(* Quicklook's reading is filled in from a sibling after all of them, so   *)
(* its views are one tick behind.  A request may clear the log between any *)
(* two of these steps: the events mutex is held only inside one (StatsHub).*)
(*                                                                         *)
(* A monitored plugin has one stat, named by the plugin's position.  Time  *)
(* is counted in units; ages above Recency are all alike.                  *)
(***************************************************************************)
EXTENDS AlertEngine, Sequences, FiniteSets

CONSTANTS
    NPlugins,    \* number of registered plugins
    AlertPos,    \* position of the alert plugin
    QuickPos,    \* position of quicklook
    QuickSource, \* the plugin whose reading quicklook summarizes
    Defaults,    \* the built-in limits
    Configured,  \* the limits of the configuration file
    Samples,     \* readings a plugin can store
    Zero,        \* the reading fill_quicklook stores when it finds none
    Absent,      \* no reading: the field or element is not listed
    Logged,      \* plugins whose classification is logged
    Acting,      \* plugins with commands configured for their bands
    Repeat,      \* those whose commands are *_action_repeat
    Cap,         \* EventLog::max
    Recency,     \* ALERT_RECENCY_SECS, in units
    MaxGap,      \* bound: units between two ticks
    None         \* no word yet

Plugins == 1..NPlugins
Monitored == Plugins \ {AlertPos}
Ages == 0..Recency + 1

ASSUME AlertAssumption ==
    /\ {NPlugins, Cap, Recency, MaxGap} \subseteq Nat
    /\ {AlertPos, QuickPos, QuickSource} \subseteq Plugins
    /\ QuickPos # AlertPos /\ QuickSource \in Monitored \ {QuickPos}
    /\ Zero \in Samples /\ Absent \notin Samples
    /\ Logged \subseteq Monitored /\ Acting \subseteq Monitored
    /\ Repeat \subseteq Acting
    /\ None \notin Words /\ None \notin Ages

VARIABLES
    stage,      \* sleep, or the step tick() is at: update, actions, views
    at,         \* the plugin it is at
    reading,    \* reading[p]: what p's stats hold
    thresholds, \* thresholds[p]: p's remembered word
    log,        \* the event log, oldest first
    alerts,     \* the stats of the alert plugin, newest first
    status,     \* GlancesActions::status
    grace,      \* whether the startup grace lasts
    sinceTick,  \* units since the last tick began
    ran,        \* history: commands run in the last step, <<plugin, word>>
    critical,   \* history: critical[p], age of p's last breach, None if never
    lit,        \* history: lit[p], whether p was in breach at its last turn
    cleared     \* history: age of the last full clear, and whether the alert
                \* plugin has copied the log since

vars == <<stage, at, reading, thresholds, log, alerts, status, grace,
          sinceTick, ran, critical, lit, cleared>>

Init ==
    /\ stage = "sleep"
    /\ at = 1
    /\ reading = [p \in Monitored |-> IF p = QuickPos THEN Zero ELSE Absent]
    /\ thresholds = [p \in Monitored |-> None]
    /\ log = <<>>
    /\ alerts = <<>>
    /\ status = [p \in Monitored |-> None]
    /\ grace = TRUE
    /\ sinceTick = 0
    /\ ran = {}
    /\ critical = [p \in Monitored |-> None]
    /\ lit = [p \in Monitored |-> FALSE]
    /\ cleared = [age |-> None, copied |-> FALSE]

-----------------------------------------------------------------------------
(* The event log.                                                          *)

Event(p, word) == [stat |-> p, severity |-> word, age |-> 0]

\* EventLog::push: the oldest goes when the log is full.
Push(l, e) ==
    IF Cap = 0 THEN l
    ELSE Append(IF Len(l) < Cap THEN l ELSE Tail(l), e)

\* VecDeque::retain: the entries at the positions kept, in their order.
Retain(l, kept) ==
    LET Nth(n) == CHOOSE i \in kept : Cardinality({j \in kept : j <= i}) = n
    IN [n \in 1..Cardinality(kept) |-> l[Nth(n)]]

Minor(e) == e.severity \in {"WARNING", "CAREFUL"}

\* Fault form: the two clears are swapped.
CleanSwapped(l, all) ==
    IF ~all THEN <<>> ELSE Retain(l, {i \in DOMAIN l : ~Minor(l[i])})

\* EventLog::clean: everything, or the two lower bands.
Clean(l, all) ==
    IF all THEN <<>> ELSE Retain(l, {i \in DOMAIN l : ~Minor(l[i])})

NewestFirst(l) == [i \in 1..Len(l) |-> l[Len(l) + 1 - i]]

Older(age) == IF age \in Nat /\ age <= Recency THEN age + 1 ELSE age
AgeEvents(l) == [i \in 1..Len(l) |-> [l[i] EXCEPT !.age = Older(@)]]

-----------------------------------------------------------------------------
(* A tick.                                                                 *)

Limits == WithDefaults(Defaults, Configured)

WordOf(p) == Classify(Limits, p, p, reading[p])

\* Whether build_views reaches the end of get_alert for p's reading.
Classified(p) == reading[p] # Absent /\ ~Unclassified(reading[p])

\* The reading is up at its critical limit.
Breaching(p) ==
    /\ Classified(p)
    /\ ~(reading[p].current < reading[p].minimum)
    /\ Reaches(reading[p], GetLimit(Limits, p, p, "CRITICAL"))

StartTick ==
    /\ stage = "sleep"
    /\ stage' = "update"
    /\ at' = 1
    /\ sinceTick' = 0
    /\ ran' = {}
    /\ UNCHANGED <<reading, thresholds, log, alerts, status, grace, critical,
                   lit, cleared>>

\* The readings update() can leave behind; the alert plugin's and quicklook's
\* update do nothing.
NewReading ==
    IF at \in {AlertPos, QuickPos}
    THEN UNCHANGED reading
    ELSE \E r \in Samples \cup {Absent} : reading' = [reading EXCEPT ![at] = r]

UpdateOk ==
    /\ stage = "update"
    /\ at \in Plugins
    /\ NewReading
    /\ stage' = "actions"
    /\ ran' = {}
    /\ UNCHANGED <<at, thresholds, log, alerts, status, grace, sinceTick,
                   critical, lit, cleared>>

\* update() fails: no commands, no views, nothing classified for this plugin.
UpdateFails ==
    /\ stage = "update"
    /\ at \in Plugins \ {AlertPos, QuickPos}
    /\ NewReading
    /\ at' = at + 1
    /\ ran' = {}
    /\ lit' = [lit EXCEPT ![at] = FALSE]
    /\ UNCHANGED <<stage, thresholds, log, alerts, status, grace, sinceTick,
                   critical, cleared>>

\* GlancesActions::run is gated on a level it already ran, unless it repeats.
Fires(p) ==
    /\ p \in Acting
    /\ thresholds[p] \in Bands
    /\ p \in Repeat \/ status[p] # thresholds[p]
    /\ ~grace

\* run_plugin_actions: the commands of the words remembered so far.
RunActions ==
    /\ stage = "actions"
    /\ IF at \in Monitored /\ Fires(at)
       THEN /\ ran' = {<<at, thresholds[at]>>}
            /\ status' = [status EXCEPT ![at] = thresholds[at]]
       ELSE /\ ran' = {}
            /\ UNCHANGED status
    /\ stage' = "views"
    /\ UNCHANGED <<at, reading, thresholds, log, alerts, grace, sinceTick,
                   critical, lit, cleared>>

\* update_views of a monitored plugin: get_alert on its reading.
ClassifyViews ==
    /\ stage = "views"
    /\ at \in Monitored
    /\ IF Classified(at)
       THEN /\ thresholds' = [thresholds EXCEPT ![at] = WordOf(at)]
            /\ log' = IF at \in Logged /\ Severe(WordOf(at))
                      THEN Push(log, Event(at, WordOf(at))) ELSE log
       ELSE UNCHANGED <<thresholds, log>>
    /\ critical' = IF Breaching(at) THEN [critical EXCEPT ![at] = 0] ELSE critical
    /\ lit' = [lit EXCEPT ![at] = Breaching(at)]
    /\ stage' = "update"
    /\ at' = at + 1
    /\ ran' = {}
    /\ UNCHANGED <<reading, alerts, status, grace, sinceTick, cleared>>

\* update_views of the alert plugin: the log as it is now.
CopyLog ==
    /\ stage = "views"
    /\ at = AlertPos
    /\ alerts' = NewestFirst(log)
    /\ cleared' = [cleared EXCEPT !.copied = TRUE]
    /\ stage' = "update"
    /\ at' = at + 1
    /\ ran' = {}
    /\ UNCHANGED <<reading, thresholds, log, status, grace, sinceTick,
                   critical, lit>>

\* fill_quicklook, and the end of the tick.
FillQuicklook ==
    /\ stage = "update"
    /\ at = NPlugins + 1
    /\ reading' = [reading EXCEPT ![QuickPos] =
                      IF reading[QuickSource] = Absent
                      THEN Zero ELSE reading[QuickSource]]
    /\ stage' = "sleep"
    /\ ran' = {}
    /\ UNCHANGED <<at, thresholds, log, alerts, status, grace, sinceTick,
                   critical, lit, cleared>>

-----------------------------------------------------------------------------
(* Everything else.                                                        *)

\* POST /api/4/events/clear/{all,warning}.
ClearEvents ==
    /\ \E all \in BOOLEAN :
           /\ log' = Clean(log, all)
           /\ cleared' = IF all THEN [age |-> 0, copied |-> FALSE] ELSE cleared
    /\ ran' = {}
    /\ UNCHANGED <<stage, at, reading, thresholds, alerts, status, grace,
                   sinceTick, critical, lit>>

\* A unit of time passes between ticks.
Elapse ==
    /\ stage = "sleep"
    /\ sinceTick < MaxGap
    /\ sinceTick' = sinceTick + 1
    /\ log' = AgeEvents(log)
    /\ alerts' = AgeEvents(alerts)
    /\ critical' = [p \in Monitored |-> Older(critical[p])]
    /\ cleared' = [cleared EXCEPT !.age = Older(@)]
    /\ ran' = {}
    /\ UNCHANGED <<stage, at, reading, thresholds, status, grace, lit>>

\* Twice the refresh time has passed since the start.
EndGrace ==
    /\ grace
    /\ grace' = FALSE
    /\ ran' = {}
    /\ UNCHANGED <<stage, at, reading, thresholds, log, alerts, status,
                   sinceTick, critical, lit, cleared>>

Next ==
    \/ StartTick \/ UpdateOk \/ UpdateFails \/ RunActions
    \/ ClassifyViews \/ CopyLog \/ FillQuicklook
    \/ ClearEvents \/ Elapse \/ EndGrace

Spec == Init /\ [][Next]_vars

-----------------------------------------------------------------------------
(* The health rollup's view of the alerts.                                 *)

\* Fault form: an alert counts whatever its age.
RecentAny(e) == TRUE

\* Only entries of the last 60 s count.
Recent(e) == e.age <= Recency

RecentWords == {alerts[i].severity : i \in {j \in DOMAIN alerts : Recent(alerts[j])}}

\* alert_check.
HealthWord ==
    IF "CRITICAL" \in RecentWords THEN "critical"
    ELSE IF RecentWords \cap {"WARNING", "CAREFUL"} # {} THEN "warning"
    ELSE "ok"

-----------------------------------------------------------------------------
(* Properties.                                                             *)

Events == [stat : Monitored, severity : Bands, age : Ages]

\* Every variable has the values the code can give it; the log and its copy
\* stay within the capacity, and OK and DEFAULT are never logged.
TypeOK ==
    /\ stage \in {"sleep", "update", "actions", "views"}
    /\ at \in 1..NPlugins + 1
    /\ reading \in [Monitored -> Samples \cup {Absent}]
    /\ thresholds \in [Monitored -> Words \cup {None}]
    /\ log \in Seq(Events) /\ Len(log) <= Cap
    /\ alerts \in Seq(Events) /\ Len(alerts) <= Cap
    /\ status \in [Monitored -> Bands \cup {None}]
    /\ grace \in BOOLEAN
    /\ sinceTick \in 0..MaxGap
    /\ ran \subseteq Monitored \X Bands
    /\ critical \in [Monitored -> Ages \cup {None}]
    /\ lit \in [Monitored -> BOOLEAN]
    /\ cleared \in [age : Ages \cup {None}, copied : BOOLEAN]

IsRecent(age) == age # None /\ age <= Recency

ClearedSince(age) == cleared.age # None /\ cleared.age <= age

\* The rollup never raises a critical alert without a reason: some logged
\* reading was up at its critical limit in the last 60 s.  An ended breach fades without a
\* clear, whatever the log has kept of it.
HealthHonest ==
    HealthWord = "critical" => \E p \in Logged : IsRecent(critical[p])

\* A logged plugin registered before the alert plugin that was in breach in the
\* last tick shows as critical until the next one, however long that takes up
\* to 60 s, whatever the other plugins logged after it and however full the
\* log was, unless the log was cleared since.
BreachShows ==
    (stage = "sleep" /\ Cardinality(Logged) <= Cap /\ MaxGap <= Recency) =>
        \A p \in Logged :
            (p < AlertPos /\ lit[p] /\ ~ClearedSince(sinceTick))
                => HealthWord = "critical"

\* No event of l is older than the last full clear.
NoneOlder(l, clear) ==
    \A i \in DOMAIN l : clear.age = None \/ l[i].age <= clear.age

\* Once the alert plugin has copied the log after a full clear, nothing from
\* before the clear is shown again, though ticks go on logging around it.
ClearReaches == cleared.copied => NoneOlder(alerts, cleared)

\* Every CRITICAL event of l has a breach no older than it behind it.
Founded(l, last) ==
    \A i \in DOMAIN l : l[i].severity = "CRITICAL" =>
        /\ l[i].stat \in Logged
        /\ last[l[i].stat] # None
        /\ last[l[i].stat] <= l[i].age

\* What makes HealthHonest and ClearReaches inductive: the same holds of the
\* log the alerts are copied from.
AlertInv ==
    /\ TypeOK
    /\ Founded(log, critical) /\ Founded(alerts, critical)
    /\ NoneOlder(log, cleared) /\ ClearReaches

\* core/stats_actions.rs:7-8: "Fire configured `*_action` commands for a
\* plugin's live CAREFUL/WARNING/CRITICAL triggers".
LiveTriggers ==
    \A run \in ran : Classified(run[1]) => WordOf(run[1]) = run[2]
=============================================================================
