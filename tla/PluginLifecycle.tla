-------------------------- MODULE PluginLifecycle --------------------------
(***************************************************************************)
(* The plugin's process on each node of a cluster: activation, the hook    *)
(* for a changed configuration, the goroutines that start and restart the  *)
(* plugin, and deactivation. Each step of start and stop that another      *)
(* goroutine can see is an action.                                         *)
(*                                                                         *)
(* A goroutine, and the monitor it creates, has a number: 0 is start, 1,   *)
(* 2, ... are the restarts, StopId is OnDeactivate. A job is the pair of a *)
(* monitor and the goroutine that started it.                              *)
(***************************************************************************)
EXTENDS Naturals, FiniteSets

CONSTANTS
    Nodes,
    Apps,        \* tenant and client settings an admin may enter
    Connectable, \* those a client can be made of
    Checked,     \* those that leave the check of credentials on
    Secrets,     \* webhook secret and encryption key, generated together
    MaxSaves,    \* bound on the changes of the saved configuration
    Overlap,     \* a change may come while an earlier one is being applied
    None

ASSUME AppsAssumption ==
    Connectable \subseteq Apps /\ Checked \subseteq Apps /\ None \notin Apps \cup Secrets
ASSUME MaxSavesAssumption == MaxSaves \in Nat
ASSUME OverlapAssumption  == Overlap \in BOOLEAN

VARIABLES
    saved,    \* the configuration the servers have
    saves,    \* how often it was changed
    phase,    \* of each node: "off", "loaded", "secrets", "store", "running"
    pending,  \* calls of OnConfigurationChange that are due
    cfg,      \* p.configuration
    client,   \* settings of p.msteamsAppClient
    restarts, \* restarts begun
    pc,       \* next step of each goroutine
    target,   \* the monitor a goroutine is starting
    monitors, \* secret and job of the monitors created
    monitor,  \* p.monitor
    jobs,     \* monitoring jobs that are open
    creds,    \* p.checkCredentialsJob
    checks,   \* credentials jobs that are open
    metrics,  \* the metrics job is open
    workers   \* the activity handler has its workers

goroutines == <<restarts, pc, target>>
monitoring == <<monitors, monitor, jobs>>
checking == <<creds, checks>>
node == <<phase, pending, cfg, client, goroutines, monitoring, checking, metrics, workers>>
vars == <<saved, saves, node>>

StartIds == 0..MaxSaves
StopId == MaxSaves + 1
Ids == StartIds \cup {StopId}

Configuration == [app : Apps \cup {None}, secret : Secrets \cup {None}]
ASSUME NoneAssumption == None \notin StartIds \cup Configuration

Valid(c) == c.app # None /\ c.secret # None

Steps == {"none", "begin", "stopMonitor", "stopSubscriptions", "stopWorkers", "stopChecks",
          "stopMetrics", "closeStore", "connect", "newMonitor", "closePrevious", "schedule",
          "check", "done"}

TypeOK ==
    /\ saved \in Configuration /\ saves \in 0..MaxSaves
    /\ phase \in [Nodes -> {"off", "loaded", "secrets", "store", "running"}]
    /\ pending \in [Nodes -> Nat]
    /\ cfg \in [Nodes -> Configuration \cup {None}]
    /\ client \in [Nodes -> Apps \cup {None}]
    /\ restarts \in [Nodes -> Nat]
    /\ pc \in [Nodes -> [Ids -> Steps]]
    /\ target \in [Nodes -> [Ids -> StartIds]]
    /\ monitors \in [Nodes -> [StartIds -> [secret : Secrets \cup {None},
                                            job : StartIds \cup {None}]]]
    /\ monitor \in [Nodes -> StartIds \cup {None}]
    /\ jobs \in [Nodes -> SUBSET (StartIds \X StartIds)]
    /\ creds \in [Nodes -> StartIds \cup {None}]
    /\ checks \in [Nodes -> SUBSET StartIds]
    /\ metrics \in [Nodes -> BOOLEAN] /\ workers \in [Nodes -> BOOLEAN]

NoMonitor == [secret |-> None, job |-> None]

Init ==
    /\ saved \in Configuration /\ saves = 0
    /\ phase = [n \in Nodes |-> "off"] /\ pending = [n \in Nodes |-> 0]
    /\ cfg = [n \in Nodes |-> None] /\ client = [n \in Nodes |-> None]
    /\ restarts = [n \in Nodes |-> 0]
    /\ pc = [n \in Nodes |-> [g \in Ids |-> "none"]]
    /\ target = [n \in Nodes |-> [g \in Ids |-> 0]]
    /\ monitors = [n \in Nodes |-> [m \in StartIds |-> NoMonitor]]
    /\ monitor = [n \in Nodes |-> None] /\ jobs = [n \in Nodes |-> {}]
    /\ creds = [n \in Nodes |-> None] /\ checks = [n \in Nodes |-> {}]
    /\ metrics = [n \in Nodes |-> FALSE] /\ workers = [n \in Nodes |-> FALSE]

-----------------------------------------------------------------------------
Configured(n) == IF cfg[n] = None THEN [app |-> None, secret |-> None] ELSE cfg[n]

(* The servers tell each running process of the plugin.                    *)
Save(c) ==
    /\ saves < MaxSaves
    /\ saved' = c /\ saves' = saves + 1
    /\ pending' = [n \in Nodes |-> IF phase[n] = "off" THEN 0 ELSE pending[n] + 1]

(* An admin changes settings, or has the secrets generated anew.           *)
Edit ==
    /\ \/ \E app \in Apps : Save([saved EXCEPT !.app = app])
       \/ \E s \in Secrets \ {saved.secret} : Save([saved EXCEPT !.secret = s])
    /\ UNCHANGED <<phase, cfg, client, goroutines, monitoring, checking, metrics, workers>>

(* The process ends, by OnDeactivate, a failed activation or a crash.      *)
Exit(n) ==
    /\ phase' = [phase EXCEPT ![n] = "off"] /\ pending' = [pending EXCEPT ![n] = 0]
    /\ cfg' = [cfg EXCEPT ![n] = None] /\ client' = [client EXCEPT ![n] = None]
    /\ restarts' = [restarts EXCEPT ![n] = 0]
    /\ pc' = [pc EXCEPT ![n] = [g \in Ids |-> "none"]]
    /\ target' = [target EXCEPT ![n] = [g \in Ids |-> 0]]
    /\ monitors' = [monitors EXCEPT ![n] = [m \in StartIds |-> NoMonitor]]
    /\ monitor' = [monitor EXCEPT ![n] = None] /\ jobs' = [jobs EXCEPT ![n] = {}]
    /\ creds' = [creds EXCEPT ![n] = None] /\ checks' = [checks EXCEPT ![n] = {}]
    /\ metrics' = [metrics EXCEPT ![n] = FALSE] /\ workers' = [workers EXCEPT ![n] = FALSE]
    /\ UNCHANGED <<saved, saves>>

Crash(n) == phase[n] # "off" /\ Exit(n)

(* The hook the process begins with: there is no store yet.                *)
FirstConfigurationChange(n) ==
    /\ phase[n] = "off"
    /\ phase' = [phase EXCEPT ![n] = "loaded"]
    /\ cfg' = [cfg EXCEPT ![n] = IF Valid(saved) THEN saved ELSE None]
    /\ UNCHANGED <<saved, saves, pending, client, goroutines, monitoring, checking, metrics,
                   workers>>

(* OnActivate, as far as generatePluginSecrets. What is saved are the      *)
(* settings p has, which are none if the hook refused them for the want of *)
(* secrets.                                                                *)
GeneratePluginSecrets(n) ==
    /\ phase[n] = "loaded"
    /\ phase' = [phase EXCEPT ![n] = "secrets"]
    /\ \/ Configured(n).secret # None /\ UNCHANGED <<saved, saves, pending, cfg>>
       \/ /\ Configured(n).secret = None
          /\ \E s \in Secrets :
                LET c == [Configured(n) EXCEPT !.secret = s]
                IN  cfg' = [cfg EXCEPT ![n] = c] /\ Save(c)
    /\ UNCHANGED <<client, goroutines, monitoring, checking, metrics, workers>>

InitStore(n) ==
    /\ phase[n] = "secrets"
    /\ phase' = [phase EXCEPT ![n] = "store"]
    /\ UNCHANGED <<saved, saves, pending, cfg, client, goroutines, monitoring, checking,
                   metrics, workers>>

Activated(n) ==
    /\ phase[n] = "store" /\ Valid(Configured(n))
    /\ phase' = [phase EXCEPT ![n] = "running"]
    /\ pc' = [pc EXCEPT ![n][0] = "begin"]
    /\ UNCHANGED <<saved, saves, pending, cfg, client, restarts, target, monitoring, checking,
                   metrics, workers>>

Busy(n) == phase[n] = "store" \/ \E g \in Ids : pc[n][g] \notin {"none", "done"}

(* Mutant: what is started is kept.                                        *)
OnlyLoad(n) ==
    /\ pending[n] > 0 /\ pc[n][StopId] = "none"
    /\ Overlap \/ ~Busy(n)
    /\ pending' = [pending EXCEPT ![n] = @ - 1]
    /\ cfg' = [cfg EXCEPT ![n] = IF Valid(saved) THEN saved ELSE @]
    /\ UNCHANGED <<saved, saves, phase, client, goroutines, monitoring, checking, metrics,
                   workers>>

(* A configuration that is refused changes nothing. Without a store there  *)
(* is nothing to restart.                                                  *)
OnConfigurationChange(n) ==
    /\ pending[n] > 0 /\ pc[n][StopId] = "none"
    /\ Overlap \/ ~Busy(n)
    /\ pending' = [pending EXCEPT ![n] = @ - 1]
    /\ \/ ~Valid(saved) /\ UNCHANGED <<cfg, restarts, pc>>
       \/ /\ Valid(saved)
          /\ cfg' = [cfg EXCEPT ![n] = saved]
          /\ \/ phase[n] \in {"loaded", "secrets"} /\ UNCHANGED <<restarts, pc>>
             \/ /\ phase[n] \in {"store", "running"}
                /\ restarts' = [restarts EXCEPT ![n] = @ + 1]
                /\ pc' = [pc EXCEPT ![n][restarts'[n]] = "stopMonitor"]
    /\ UNCHANGED <<saved, saves, phase, client, target, monitoring, checking, metrics, workers>>

OnDeactivate(n) ==
    /\ phase[n] = "running" /\ pc[n][StopId] = "none"
    /\ Overlap \/ ~Busy(n)
    /\ pc' = [pc EXCEPT ![n][StopId] = "stopMonitor"]
    /\ UNCHANGED <<saved, saves, phase, pending, cfg, client, restarts, target, monitoring,
                   checking, metrics, workers>>

-----------------------------------------------------------------------------
(* stop.                                                                   *)

Step(n, g, from, to) == pc[n][g] = from /\ pc' = [pc EXCEPT ![n][g] = to]
Elsewhere == UNCHANGED <<saved, saves, phase, pending, cfg, restarts>>

CloseJob(n, m) == jobs' = [jobs EXCEPT ![n] = @ \ {<<m, monitors[n][m].job>>}]

(* Mutant: a restart leaves the monitor alone.                             *)
StopMonitorAtEnd(n, g) ==
    /\ Step(n, g, "stopMonitor", "stopSubscriptions")
    /\ IF monitor[n] = None \/ g # StopId THEN UNCHANGED jobs ELSE CloseJob(n, monitor[n])
    /\ Elsewhere
    /\ UNCHANGED <<client, target, monitors, monitor, checking, metrics, workers>>

StopMonitor(n, g) ==
    /\ Step(n, g, "stopMonitor", "stopSubscriptions")
    /\ IF monitor[n] = None THEN UNCHANGED jobs ELSE CloseJob(n, monitor[n])
    /\ Elsewhere
    /\ UNCHANGED <<client, target, monitors, monitor, checking, metrics, workers>>

(* The context that is cancelled is nobody's; the goroutine sleeps.        *)
StopSubscriptions(n, g) ==
    /\ Step(n, g, "stopSubscriptions", IF g = StopId THEN "stopWorkers" ELSE "stopChecks")
    /\ Elsewhere
    /\ UNCHANGED <<client, target, monitoring, checking, metrics, workers>>

StopWorkers(n) ==
    /\ Step(n, StopId, "stopWorkers", "stopChecks")
    /\ workers' = [workers EXCEPT ![n] = FALSE]
    /\ Elsewhere
    /\ UNCHANGED <<client, target, monitoring, checking, metrics>>

(* Mutant: the job is closed for good only.                                *)
StopChecksAtRestart(n, g) ==
    /\ Step(n, g, "stopChecks", IF g = StopId THEN "stopMetrics" ELSE "connect")
    /\ checks' = [checks EXCEPT ![n] = IF g = StopId THEN @ ELSE @ \ {creds[n]}]
    /\ creds' = [creds EXCEPT ![n] = None]
    /\ Elsewhere
    /\ UNCHANGED <<client, target, monitoring, metrics, workers>>

StopChecks(n, g) ==
    /\ Step(n, g, "stopChecks", IF g = StopId THEN "stopMetrics" ELSE "connect")
    /\ checks' = [checks EXCEPT ![n] = @ \ {creds[n]}]
    /\ creds' = [creds EXCEPT ![n] = None]
    /\ Elsewhere
    /\ UNCHANGED <<client, target, monitoring, metrics, workers>>

StopMetrics(n) ==
    /\ Step(n, StopId, "stopMetrics", "closeStore")
    /\ metrics' = [metrics EXCEPT ![n] = FALSE]
    /\ Elsewhere
    /\ UNCHANGED <<client, target, monitoring, checking, workers>>

(* The store is closed and the process ends.                               *)
CloseStore(n) == pc[n][StopId] = "closeStore" /\ Exit(n)

-----------------------------------------------------------------------------
(* start.                                                                  *)

(* That the metrics job fails to start is only logged: it then counts as   *)
(* open, for nothing depends on it.                                        *)
Begin(n) ==
    /\ Step(n, 0, "begin", "connect")
    /\ metrics' = [metrics EXCEPT ![n] = TRUE]
    /\ workers' = [workers EXCEPT ![n] = TRUE]
    /\ Elsewhere
    /\ UNCHANGED <<client, target, monitoring, checking>>

(* The client is made once. One that cannot connect is kept nevertheless,  *)
(* and the next restart goes on with it.                                   *)
ConnectTeamsAppClient(n, g) ==
    /\ \/ client[n] # None /\ Step(n, g, "connect", "newMonitor") /\ UNCHANGED client
       \/ /\ client[n] = None
          /\ client' = [client EXCEPT ![n] = Configured(n).app]
          /\ Step(n, g, "connect",
                  IF Configured(n).app \in Connectable THEN "newMonitor" ELSE "done")
    /\ Elsewhere
    /\ UNCHANGED <<target, monitoring, checking, metrics, workers>>

(* NewMonitor and the assignment to p.monitor, of which Start is called.   *)
NewMonitor(n, g) ==
    /\ Step(n, g, "newMonitor", "closePrevious")
    /\ monitors' =
          [monitors EXCEPT ![n][g] = [secret |-> Configured(n).secret, job |-> None]]
    /\ monitor' = [monitor EXCEPT ![n] = g]
    /\ target' = [target EXCEPT ![n][g] = g]
    /\ Elsewhere
    /\ UNCHANGED <<client, jobs, checking, metrics, workers>>

(* "Close the previous background job if exists": this monitor's.          *)
ClosePrevious(n, g) ==
    /\ Step(n, g, "closePrevious", "schedule")
    /\ CloseJob(n, target[n][g])
    /\ Elsewhere
    /\ UNCHANGED <<client, target, monitors, monitor, checking, metrics, workers>>

(* cluster.Schedule, which may fail.                                       *)
Schedule(n, g) ==
    /\ Step(n, g, "schedule", "check")
    /\ \/ /\ jobs' = [jobs EXCEPT ![n] = @ \cup {<<target[n][g], g>>}]
          /\ monitors' = [monitors EXCEPT ![n][target[n][g]].job = g]
       \/ UNCHANGED <<jobs, monitors>>
    /\ Elsewhere
    /\ UNCHANGED <<client, target, monitor, checking, metrics, workers>>

ScheduleCheck(n, g) ==
    /\ Step(n, g, "check", "done")
    /\ \/ /\ Configured(n).app \in Checked
          /\ checks' = [checks EXCEPT ![n] = @ \cup {g}]
          /\ creds' = [creds EXCEPT ![n] = g]
       \/ UNCHANGED <<creds, checks>>
    /\ Elsewhere
    /\ UNCHANGED <<client, target, monitoring, metrics, workers>>

Stop(n, g) == StopMonitor(n, g) \/ StopSubscriptions(n, g) \/ StopChecks(n, g)

Start(n, g) ==
    \/ ConnectTeamsAppClient(n, g) \/ NewMonitor(n, g)
    \/ ClosePrevious(n, g) \/ Schedule(n, g) \/ ScheduleCheck(n, g)

Next ==
    \/ Edit
    \/ \E n \in Nodes :
          \/ Crash(n) \/ FirstConfigurationChange(n) \/ GeneratePluginSecrets(n)
          \/ InitStore(n) \/ Activated(n) \/ OnConfigurationChange(n) \/ OnDeactivate(n)
          \/ StopWorkers(n) \/ StopMetrics(n) \/ CloseStore(n) \/ Begin(n)
          \/ \E g \in Ids : Stop(n, g)
          \/ \E g \in StartIds : Start(n, g)

Spec == Init /\ [][Next]_vars

-----------------------------------------------------------------------------
(* No job of the monitor is left behind: there is one at most on a node,   *)
(* and p.monitor, which closes it, knows it; likewise for the credentials. *)
OneJob ==
    \A n \in Nodes :
        /\ \A j \in jobs[n] : monitor[n] = j[1] /\ monitors[n][j[1]].job = j[2]
        /\ checks[n] \subseteq {creds[n]}

(* A node that has caught up works with what is saved, unless that is      *)
(* refused, and so does its monitoring job: no node is left with the       *)
(* secret another one, or an earlier configuration, had.                   *)
Current ==
    \A n \in Nodes :
        phase[n] = "running" /\ ~Busy(n) /\ pending[n] = 0 /\ Valid(saved) =>
            /\ cfg[n] = saved
            /\ \A j \in jobs[n] : monitors[n][j[1]].secret = saved.secret

(* The store is closed when nothing of the plugin is at work any more.     *)
ClosedLast ==
    \A n \in Nodes :
        pc[n][StopId] = "closeStore" =>
            jobs[n] = {} /\ checks[n] = {} /\ ~metrics[n] /\ ~workers[n]
=============================================================================
