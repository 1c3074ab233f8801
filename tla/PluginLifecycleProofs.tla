----------------------- MODULE PluginLifecycleProofs -----------------------
(***************************************************************************)
(* Proofs about PluginLifecycle for any number of nodes and of changes.    *)
(*                                                                         *)
(* The code has nothing that would order two changes (see the run          *)
(* PluginOverlap). As long as each is applied before the next one comes,   *)
(* one goroutine at most is at work on a node (Alone), and where it is     *)
(* tells what is open: nothing of the monitor between stopMonitor and      *)
(* schedule, no check between stopChecks and check (IInv). What holds even *)
(* if they overlap is SharedInv: which goroutine a job belongs to.         *)
(***************************************************************************)
EXTENDS PluginLifecycle, TLAPS

Active(n, g) == pc[n][g] \notin {"none", "done"}
Alone(n) == \A g, h \in Ids : Active(n, g) /\ Active(n, h) => g = h

(* Before it runs a process has no goroutines and nothing open.            *)
NotYet(n) ==
    phase[n] # "running" =>
        /\ \A g \in Ids : pc[n][g] = "none"
        /\ jobs[n] = {} /\ checks[n] = {}

(* Each restart answers a change that came when the process was there.     *)
Counted(n) ==
    /\ restarts[n] + pending[n] <= saves
    /\ phase[n] = "off" => pending[n] = 0

Unscheduled == {"stopSubscriptions", "stopWorkers", "stopChecks", "stopMetrics", "closeStore",
                "begin", "connect", "newMonitor", "closePrevious", "schedule"}
Unchecked == {"stopMetrics", "closeStore", "begin", "connect", "newMonitor", "closePrevious",
              "schedule", "check"}

Open(n) ==
    \A g \in Ids :
        /\ pc[n][g] \in Unscheduled => jobs[n] = {}
        /\ pc[n][g] \in Unchecked => checks[n] = {}
        /\ pc[n][g] \in {"closePrevious", "schedule"} =>
              target[n][g] = g /\ monitor[n] = g /\ g \in StartIds

Known(n) ==
    /\ \A j \in jobs[n] : monitor[n] = j[1] /\ monitors[n][j[1]].job = j[2]
    /\ checks[n] \subseteq {creds[n]}

(* Only a restart about to close it leaves a job with an older secret.     *)
Loaded(n) ==
    /\ phase[n] # "off" /\ pending[n] = 0 /\ Valid(saved) => cfg[n] = saved
    /\ \A g \in Ids : pc[n][g] \in {"closePrevious", "schedule"} =>
          monitors[n][g].secret = Configured(n).secret
    /\ (\A g \in StartIds : pc[n][g] # "stopMonitor") =>
          \A j \in jobs[n] : monitors[n][j[1]].secret = Configured(n).secret

Down(n) ==
    /\ pc[n][StopId] \in {"stopChecks", "stopMetrics", "closeStore"} => ~workers[n]
    /\ pc[n][StopId] = "closeStore" => ~metrics[n]

NodeInv(n) ==
    Alone(n) /\ NotYet(n) /\ Counted(n) /\ Open(n) /\ Known(n) /\ Loaded(n) /\ Down(n)

IInv == TypeOK /\ \A n \in Nodes : NodeInv(n)

-----------------------------------------------------------------------------
(* The numbers of the goroutines.                                          *)
LEMMA StopIdFacts == StopId \notin StartIds /\ StopId \in Ids /\ StartIds \subseteq Ids /\ 0 \in StartIds
BY MaxSavesAssumption DEF StopId, StartIds, Ids

(* The first state.                                                        *)
LEMMA InitIInv == Init => IInv
<1> SUFFICES ASSUME Init PROVE IInv
  OBVIOUS
<1>1. TypeOK
  BY StopIdFacts, MaxSavesAssumption DEF Init, TypeOK, NoMonitor, Steps, StartIds
<1>2. ASSUME NEW n \in Nodes PROVE NodeInv(n)
  BY StopIdFacts, <1>1 DEF Init, NodeInv, Alone, Active, NotYet, Counted, Open, Known, Loaded, Down,
     Unscheduled, Unchecked, NoMonitor, TypeOK
<1> QED BY <1>1, <1>2 DEF IInv

(* What another node does.                                                 *)
Same(n) ==
    /\ UNCHANGED <<saved, saves>>
    /\ phase'[n] = phase[n] /\ pending'[n] = pending[n] /\ cfg'[n] = cfg[n]
    /\ restarts'[n] = restarts[n] /\ pc'[n] = pc[n] /\ target'[n] = target[n]
    /\ monitors'[n] = monitors[n] /\ monitor'[n] = monitor[n] /\ jobs'[n] = jobs[n]
    /\ creds'[n] = creds[n] /\ checks'[n] = checks[n] /\ metrics'[n] = metrics[n]
    /\ workers'[n] = workers[n]

(* It changes nothing of this one.                                         *)
LEMMA OtherNode == ASSUME NEW n \in Nodes, NodeInv(n), Same(n) PROVE NodeInv(n)'
BY DEF Same, NodeInv, Alone, Active, NotYet, Counted, Open, Known, Loaded, Down, Configured

(* A change of the saved configuration, which is not applied yet.          *)
LEMMA SaveStep ==
  ASSUME IInv, NEW c \in Configuration, Save(c), NEW n \in Nodes,
         phase'[n] = phase[n] \/ (phase[n] = "loaded" /\ phase'[n] = "secrets"),
         UNCHANGED <<goroutines, monitoring, checking, metrics, workers>>,
         cfg'[n] = cfg[n] \/ phase[n] = "loaded"
  PROVE  NodeInv(n)'
<1>1. /\ saves' = saves + 1 /\ saved' = c
      /\ pending'[n] = IF phase[n] = "off" THEN 0 ELSE pending[n] + 1
  BY DEF Save
<1>2. saves \in Nat /\ pending[n] \in Nat /\ restarts[n] \in Nat
  BY MaxSavesAssumption DEF IInv, TypeOK
<1>3. NodeInv(n)
  BY DEF IInv
<1>4. Alone(n)' /\ NotYet(n)' /\ Open(n)' /\ Known(n)' /\ Down(n)'
  BY <1>3 DEF NodeInv, goroutines, monitoring, checking, Alone, Active, NotYet, Open, Known, Down
<1>5. Counted(n)'
  BY <1>1, <1>2, <1>3 DEF NodeInv, goroutines, Counted
<1>6. Loaded(n)'
  BY <1>1, <1>2, <1>3 DEF NodeInv, goroutines, monitoring, Loaded, Configured, NotYet
<1> QED BY <1>4, <1>5, <1>6 DEF NodeInv

-----------------------------------------------------------------------------
(* Types. A restart has a number because each has its change (Counted).    *)
LEMMA TypingStep ==
  ASSUME TypeOK, \A n \in Nodes : Counted(n), [Next]_vars
  PROVE  TypeOK'
<1> USE StopIdFacts, AppsAssumption, MaxSavesAssumption
<1>1. CASE Edit
  <2>1. PICK c \in Configuration : Save(c)
    BY <1>1 DEF Edit, Configuration, TypeOK
  <2>2. /\ saved' \in Configuration /\ saves' \in 0..MaxSaves
        /\ pending' \in [Nodes -> Nat]
    BY <2>1 DEF Save, TypeOK
  <2> QED BY <1>1, <2>2 DEF Edit, TypeOK, goroutines, monitoring, checking
<1>2. ASSUME NEW n \in Nodes, Exit(n) PROVE TypeOK'
  BY <1>2 DEF Exit, TypeOK, NoMonitor, Steps, StartIds
<1>3. ASSUME NEW n \in Nodes, FirstConfigurationChange(n) PROVE TypeOK'
  BY <1>3 DEF FirstConfigurationChange, TypeOK, goroutines, monitoring, checking
<1>4. ASSUME NEW n \in Nodes, GeneratePluginSecrets(n) PROVE TypeOK'
  <2>1. Configured(n) \in Configuration
    BY DEF Configured, Configuration, TypeOK
  <2>2. CASE UNCHANGED <<saved, saves, pending, cfg>>
    BY <1>4, <2>2 DEF GeneratePluginSecrets, TypeOK, goroutines, monitoring, checking
  <2>3. ASSUME NEW s \in Secrets, NEW c, c = [Configured(n) EXCEPT !.secret = s],
               cfg' = [cfg EXCEPT ![n] = c], Save(c)
        PROVE  TypeOK'
    <3>1. c \in Configuration
      BY <2>1, <2>3 DEF Configuration
    <3> QED BY <1>4, <2>3, <3>1 DEF GeneratePluginSecrets, Save, TypeOK, goroutines,
                                   monitoring, checking
  <2> QED BY <1>4, <2>2, <2>3 DEF GeneratePluginSecrets
<1>5. ASSUME NEW n \in Nodes, InitStore(n) PROVE TypeOK'
  BY <1>5 DEF InitStore, TypeOK, goroutines, monitoring, checking
<1>6. ASSUME NEW n \in Nodes, Activated(n) PROVE TypeOK'
  BY <1>6 DEF Activated, TypeOK, Steps, monitoring, checking
<1>7. ASSUME NEW n \in Nodes, OnConfigurationChange(n) PROVE TypeOK'
  <2>1. pending'[n] \in Nat /\ pending' = [pending EXCEPT ![n] = @ - 1]
    BY <1>7 DEF OnConfigurationChange, TypeOK
  <2>2. restarts[n] + 1 \in StartIds
    <3>1. restarts[n] \in Nat /\ pending[n] \in Nat /\ saves \in 0..MaxSaves /\ pending[n] > 0
      BY <1>7 DEF OnConfigurationChange, TypeOK
    <3>2. restarts[n] + pending[n] <= saves
      BY DEF Counted
    <3> QED BY <3>1, <3>2 DEF StartIds
  <2>3. CASE UNCHANGED <<cfg, restarts, pc>>
    BY <1>7, <2>1, <2>3 DEF OnConfigurationChange, TypeOK, monitoring, checking
  <2>4. CASE cfg' = [cfg EXCEPT ![n] = saved] /\ UNCHANGED <<restarts, pc>>
    BY <1>7, <2>1, <2>4 DEF OnConfigurationChange, TypeOK, monitoring, checking
  <2>5. CASE /\ cfg' = [cfg EXCEPT ![n] = saved]
             /\ restarts' = [restarts EXCEPT ![n] = @ + 1]
             /\ pc' = [pc EXCEPT ![n][restarts'[n]] = "stopMonitor"]
    <3>1. restarts' \in [Nodes -> Nat] /\ restarts'[n] \in Ids
      BY <2>2, <2>5 DEF TypeOK
    <3>2. pc' \in [Nodes -> [Ids -> Steps]]
      BY <2>5, <3>1 DEF TypeOK, Steps
    <3> QED BY <1>7, <2>1, <2>5, <3>1, <3>2
            DEF OnConfigurationChange, TypeOK, monitoring, checking
  <2> QED BY <1>7, <2>3, <2>4, <2>5 DEF OnConfigurationChange
<1>8. ASSUME NEW n \in Nodes, OnDeactivate(n) PROVE TypeOK'
  BY <1>8 DEF OnDeactivate, TypeOK, Steps, monitoring, checking
<1>9. ASSUME NEW n \in Nodes, NEW g \in Ids, NEW from, NEW to \in Steps, Step(n, g, from, to)
      PROVE  pc' \in [Nodes -> [Ids -> Steps]]
  BY <1>9 DEF Step, TypeOK
<1>10. ASSUME NEW n \in Nodes, NEW g \in Ids, Stop(n, g) PROVE TypeOK'
  <2>1. CASE StopMonitor(n, g)
    <3>1. jobs' \in [Nodes -> SUBSET (StartIds \X StartIds)]
      <4> DEFINE x == <<monitor[n], monitors[n][monitor[n]].job>>
      <4>1. jobs' = jobs \/ jobs' = [jobs EXCEPT ![n] = @ \ {x}]
        BY <2>1 DEF StopMonitor, CloseJob
      <4> HIDE DEF x
      <4>2. jobs \in [Nodes -> SUBSET (StartIds \X StartIds)]
        BY DEF TypeOK
      <4> QED BY <4>1, <4>2
    <3>2. pc' \in [Nodes -> [Ids -> Steps]]
      BY <1>9, <2>1 DEF StopMonitor, Steps
    <3> QED BY <2>1, <3>1, <3>2 DEF StopMonitor, Elsewhere, TypeOK, checking
  <2>2. CASE StopSubscriptions(n, g)
    BY <1>9, <2>2 DEF StopSubscriptions, Elsewhere, Steps, TypeOK, monitoring, checking
  <2>3. CASE StopChecks(n, g)
    BY <1>9, <2>3 DEF StopChecks, Elsewhere, Steps, TypeOK, monitoring
  <2> QED BY <1>10, <2>1, <2>2, <2>3 DEF Stop
<1>11. ASSUME NEW n \in Nodes, StopWorkers(n) PROVE TypeOK'
  BY <1>9, <1>11 DEF StopWorkers, Elsewhere, Steps, TypeOK, monitoring, checking
<1>12. ASSUME NEW n \in Nodes, StopMetrics(n) PROVE TypeOK'
  BY <1>9, <1>12 DEF StopMetrics, Elsewhere, Steps, TypeOK, monitoring, checking
<1>13. ASSUME NEW n \in Nodes, Begin(n) PROVE TypeOK'
  BY <1>9, <1>13 DEF Begin, Elsewhere, Steps, TypeOK, monitoring, checking
<1>14. ASSUME NEW n \in Nodes, NEW g \in StartIds, Start(n, g) PROVE TypeOK'
  <2>1. CASE ConnectTeamsAppClient(n, g)
    <3>1. Configured(n).app \in Apps \cup {None}
      BY DEF Configured, Configuration, TypeOK
    <3>2. client' \in [Nodes -> Apps \cup {None}]
      BY <2>1, <3>1 DEF ConnectTeamsAppClient, TypeOK
    <3> QED BY <1>9, <2>1, <3>2 DEF ConnectTeamsAppClient, Elsewhere, Steps, TypeOK,
                                   monitoring, checking
  <2>2. CASE NewMonitor(n, g)
    <3>1. Configured(n).secret \in Secrets \cup {None}
      BY DEF Configured, Configuration, TypeOK
    <3> QED BY <1>9, <2>2, <3>1 DEF NewMonitor, Elsewhere, Steps, TypeOK, checking
  <2>3. CASE ClosePrevious(n, g)
    BY <1>9, <2>3 DEF ClosePrevious, CloseJob, Elsewhere, Steps, TypeOK, checking
  <2>4. CASE Schedule(n, g)
    <3>1. target[n][g] \in StartIds
      BY DEF TypeOK
    <3>2. pc' \in [Nodes -> [Ids -> Steps]]
      BY <1>9, <2>4 DEF Schedule, Steps
    <3>3. jobs' \in [Nodes -> SUBSET (StartIds \X StartIds)]
      <4> DEFINE x == <<target[n][g], g>>
      <4>1. x \in StartIds \X StartIds
        BY <3>1
      <4>2. jobs' = jobs \/ jobs' = [jobs EXCEPT ![n] = @ \cup {x}]
        BY <2>4 DEF Schedule
      <4> HIDE DEF x
      <4>3. jobs \in [Nodes -> SUBSET (StartIds \X StartIds)]
        BY DEF TypeOK
      <4> QED BY <4>1, <4>2, <4>3
    <3>4. monitors' \in [Nodes -> [StartIds -> [secret : Secrets \cup {None},
                                               job : StartIds \cup {None}]]]
      <4>1. \/ monitors' = monitors
            \/ monitors' = [monitors EXCEPT ![n][target[n][g]].job = g]
        BY <2>4 DEF Schedule
      <4>2. monitors \in [Nodes -> [StartIds -> [secret : Secrets \cup {None},
                                                job : StartIds \cup {None}]]]
        BY DEF TypeOK
      <4> QED BY <3>1, <4>1, <4>2
    <3> QED BY <2>4, <3>2, <3>3, <3>4 DEF Schedule, Elsewhere, TypeOK, checking
  <2>5. CASE ScheduleCheck(n, g)
    <3>1. pc' \in [Nodes -> [Ids -> Steps]]
      BY <1>9, <2>5 DEF ScheduleCheck, Steps
    <3>2. /\ checks' \in [Nodes -> SUBSET StartIds]
          /\ creds' \in [Nodes -> StartIds \cup {None}]
      <4>1. \/ UNCHANGED <<creds, checks>>
            \/ /\ checks' = [checks EXCEPT ![n] = @ \cup {g}]
               /\ creds' = [creds EXCEPT ![n] = g]
        BY <2>5 DEF ScheduleCheck
      <4>2. /\ checks \in [Nodes -> SUBSET StartIds]
            /\ creds \in [Nodes -> StartIds \cup {None}]
        BY DEF TypeOK
      <4> QED BY <4>1, <4>2
    <3> QED BY <2>5, <3>1, <3>2 DEF ScheduleCheck, Elsewhere, TypeOK, monitoring
  <2> QED BY <1>14, <2>1, <2>2, <2>3, <2>4, <2>5 DEF Start
<1>15. CASE UNCHANGED vars
  BY <1>15 DEF vars, node, goroutines, monitoring, checking, TypeOK
<1> QED
  BY <1>1, <1>2, <1>3, <1>4, <1>5, <1>6, <1>7, <1>8, <1>10, <1>11, <1>12, <1>13, <1>14, <1>15
     DEF Next, Crash, CloseStore

-----------------------------------------------------------------------------
(* The goroutine that takes a step is the only one at work on its node.    *)
LEMMA GoroutineFacts ==
  ASSUME IInv, NEW n \in Nodes, NEW g \in Ids, NEW from, NEW to,
         from \notin {"none", "done"}, to # "none", Step(n, g, from, to), Elsewhere
  PROVE  /\ phase[n] = "running" /\ phase'[n] = "running"
         /\ pc[n][g] = from /\ pc'[n][g] = to
         /\ \A h \in Ids \ {g} : pc'[n][h] = pc[n][h] /\ pc[n][h] \in {"none", "done"}
         /\ Alone(n)' /\ NotYet(n)' /\ Counted(n)'
         /\ Configured(n)' = Configured(n)
<1>1. pc \in [Nodes -> [Ids -> Steps]] /\ NodeInv(n)
  BY DEF IInv, TypeOK
<1>2. pc[n][g] = from /\ pc'[n] = [pc[n] EXCEPT ![g] = to]
  BY <1>1 DEF Step
<1>3. \A h \in Ids \ {g} : pc'[n][h] = pc[n][h] /\ pc[n][h] \in {"none", "done"}
  BY <1>1, <1>2 DEF NodeInv, Alone, Active
<1>4. phase[n] = "running" /\ phase'[n] = "running"
  BY <1>1, <1>2 DEF NodeInv, NotYet, Elsewhere
<1>5. Alone(n)'
  BY <1>1, <1>2, <1>3 DEF Alone, Active
<1>6. NotYet(n)' /\ Counted(n)' /\ Configured(n)' = Configured(n)
  BY <1>1, <1>4 DEF NodeInv, NotYet, Counted, Elsewhere, Configured
<1>7. pc'[n][g] = to
  BY <1>1, <1>2
<1> QED BY <1>2, <1>3, <1>4, <1>5, <1>6, <1>7

(* The steps of stop.                                                      *)
LEMMA StopStep ==
  ASSUME IInv, NEW n \in Nodes, NEW g \in Ids,
         Stop(n, g) \/ (g = StopId /\ (StopWorkers(n) \/ StopMetrics(n)))
  PROVE  NodeInv(n)'
<1> USE StopIdFacts
<1>1. NodeInv(n) /\ TypeOK
  BY DEF IInv
<1>2. CASE StopMonitor(n, g)
  <2>1. /\ phase[n] = "running" /\ pc[n][g] = "stopMonitor"
        /\ pc'[n][g] = "stopSubscriptions"
        /\ \A h \in Ids \ {g} : pc'[n][h] = pc[n][h] /\ pc[n][h] \in {"none", "done"}
        /\ Alone(n)' /\ NotYet(n)' /\ Counted(n)' /\ Configured(n)' = Configured(n)
    BY <1>2, GoroutineFacts DEF StopMonitor
  <2>2. jobs'[n] = {}
    <3>1. ASSUME NEW j \in jobs[n]
          PROVE  monitor[n] # None /\ j = <<monitor[n], monitors[n][monitor[n]].job>>
      <4>1. j \in StartIds \X StartIds
        BY <1>1 DEF TypeOK
      <4>2. monitor[n] = j[1] /\ monitors[n][j[1]].job = j[2]
        BY <1>1 DEF NodeInv, Known
      <4> QED BY <4>1, <4>2, NoneAssumption
    <3>2. CASE monitor[n] = None
      BY <1>2, <3>1, <3>2 DEF StopMonitor
    <3>3. CASE monitor[n] # None
      <4>1. jobs'[n] = jobs[n] \ {<<monitor[n], monitors[n][monitor[n]].job>>}
        BY <1>1, <1>2, <3>3 DEF StopMonitor, CloseJob, TypeOK
      <4> QED BY <3>1, <4>1
    <3> QED BY <3>2, <3>3
  <2>3. Open(n)' /\ Known(n)' /\ Loaded(n)' /\ Down(n)'
    BY <1>1, <1>2, <2>1, <2>2
       DEF StopMonitor, Elsewhere, NodeInv, Open, Known, Loaded, Down, Unscheduled, Unchecked,
           checking
  <2> QED BY <2>1, <2>3 DEF NodeInv
<1>3. CASE StopSubscriptions(n, g)
  <2> DEFINE to == IF g = StopId THEN "stopWorkers" ELSE "stopChecks"
  <2>1. /\ phase[n] = "running" /\ pc[n][g] = "stopSubscriptions"
        /\ pc'[n][g] = to
        /\ \A h \in Ids \ {g} : pc'[n][h] = pc[n][h] /\ pc[n][h] \in {"none", "done"}
        /\ Alone(n)' /\ NotYet(n)' /\ Counted(n)' /\ Configured(n)' = Configured(n)
    BY <1>3, GoroutineFacts DEF StopSubscriptions
  <2>2. Open(n)' /\ Known(n)' /\ Loaded(n)' /\ Down(n)'
    BY <1>1, <1>3, <2>1
       DEF StopSubscriptions, Elsewhere, NodeInv, Open, Known, Loaded, Down, Unscheduled,
           Unchecked, monitoring, checking
  <2> QED BY <2>1, <2>2 DEF NodeInv
<1>4. CASE StopChecks(n, g)
  <2> DEFINE to == IF g = StopId THEN "stopMetrics" ELSE "connect"
  <2>1. /\ phase[n] = "running" /\ pc[n][g] = "stopChecks"
        /\ pc'[n][g] = to
        /\ \A h \in Ids \ {g} : pc'[n][h] = pc[n][h] /\ pc[n][h] \in {"none", "done"}
        /\ Alone(n)' /\ NotYet(n)' /\ Counted(n)' /\ Configured(n)' = Configured(n)
    BY <1>4, GoroutineFacts DEF StopChecks
  <2>2. checks'[n] = {} /\ creds'[n] = None
    BY <1>1, <1>4 DEF StopChecks, NodeInv, Known, TypeOK
  <2>3. Open(n)' /\ Known(n)' /\ Loaded(n)' /\ Down(n)'
    BY <1>1, <1>4, <2>1, <2>2
       DEF StopChecks, Elsewhere, NodeInv, Open, Known, Loaded, Down, Unscheduled,
           Unchecked, monitoring
  <2> QED BY <2>1, <2>3 DEF NodeInv
<1>5. CASE g = StopId /\ StopWorkers(n)
  <2>1. /\ phase[n] = "running" /\ pc[n][g] = "stopWorkers"
        /\ pc'[n][g] = "stopChecks"
        /\ \A h \in Ids \ {g} : pc'[n][h] = pc[n][h] /\ pc[n][h] \in {"none", "done"}
        /\ Alone(n)' /\ NotYet(n)' /\ Counted(n)' /\ Configured(n)' = Configured(n)
    BY <1>5, GoroutineFacts DEF StopWorkers
  <2>2. ~workers'[n]
    BY <1>1, <1>5 DEF StopWorkers, TypeOK
  <2>3. Open(n)' /\ Known(n)' /\ Loaded(n)' /\ Down(n)'
    BY <1>1, <1>5, <2>1, <2>2
       DEF StopWorkers, Elsewhere, NodeInv, Open, Known, Loaded, Down, Unscheduled,
           Unchecked, monitoring, checking
  <2> QED BY <2>1, <2>3 DEF NodeInv
<1>6. CASE g = StopId /\ StopMetrics(n)
  <2>1. /\ phase[n] = "running" /\ pc[n][g] = "stopMetrics"
        /\ pc'[n][g] = "closeStore"
        /\ \A h \in Ids \ {g} : pc'[n][h] = pc[n][h] /\ pc[n][h] \in {"none", "done"}
        /\ Alone(n)' /\ NotYet(n)' /\ Counted(n)' /\ Configured(n)' = Configured(n)
    BY <1>6, GoroutineFacts DEF StopMetrics
  <2>2. ~metrics'[n]
    BY <1>1, <1>6 DEF StopMetrics, TypeOK
  <2>3. Open(n)' /\ Known(n)' /\ Loaded(n)' /\ Down(n)'
    BY <1>1, <1>6, <2>1, <2>2
       DEF StopMetrics, Elsewhere, NodeInv, Open, Known, Loaded, Down, Unscheduled,
           Unchecked, monitoring, checking
  <2> QED BY <2>1, <2>3 DEF NodeInv
<1> QED BY <1>2, <1>3, <1>4, <1>5, <1>6 DEF Stop

(* The steps of start.                                                     *)
LEMMA BeginStep ==
  ASSUME IInv, NEW n \in Nodes, Begin(n)
  PROVE  NodeInv(n)'
<1> USE StopIdFacts
<1>1. NodeInv(n) /\ TypeOK
  BY DEF IInv
<1>2. /\ phase[n] = "running" /\ pc[n][0] = "begin" /\ pc'[n][0] = "connect"
      /\ \A h \in Ids \ {0} : pc'[n][h] = pc[n][h] /\ pc[n][h] \in {"none", "done"}
      /\ Alone(n)' /\ NotYet(n)' /\ Counted(n)' /\ Configured(n)' = Configured(n)
  BY GoroutineFacts DEF Begin
<1>3. Open(n)' /\ Known(n)' /\ Loaded(n)' /\ Down(n)'
  BY <1>1, <1>2 DEF Begin, Elsewhere, NodeInv, Open, Known, Loaded, Down, Unscheduled,
                    Unchecked, monitoring, checking
<1> QED BY <1>2, <1>3 DEF NodeInv

(* The rest of start.                                                      *)
LEMMA StartStep ==
  ASSUME IInv, NEW n \in Nodes, NEW g \in StartIds, Start(n, g)
  PROVE  NodeInv(n)'
<1> USE StopIdFacts
<1>1. NodeInv(n) /\ TypeOK /\ g \in Ids /\ g # StopId
  BY DEF IInv
<1>2. CASE ConnectTeamsAppClient(n, g)
  <2>1. PICK to \in {"newMonitor", "done"} : Step(n, g, "connect", to)
    BY <1>2 DEF ConnectTeamsAppClient
  <2>2. /\ phase[n] = "running" /\ pc[n][g] = "connect" /\ pc'[n][g] = to
        /\ \A h \in Ids \ {g} : pc'[n][h] = pc[n][h] /\ pc[n][h] \in {"none", "done"}
        /\ Alone(n)' /\ NotYet(n)' /\ Counted(n)' /\ Configured(n)' = Configured(n)
    BY <1>1, <1>2, <2>1, GoroutineFacts DEF ConnectTeamsAppClient
  <2>3. Open(n)' /\ Known(n)' /\ Loaded(n)' /\ Down(n)'
    BY <1>1, <1>2, <2>1, <2>2
       DEF ConnectTeamsAppClient, Elsewhere, NodeInv, Open, Known, Loaded, Down, Unscheduled,
           Unchecked, monitoring, checking
  <2> QED BY <2>2, <2>3 DEF NodeInv
<1>3. CASE NewMonitor(n, g)
  <2>1. /\ phase[n] = "running" /\ pc[n][g] = "newMonitor" /\ pc'[n][g] = "closePrevious"
        /\ \A h \in Ids \ {g} : pc'[n][h] = pc[n][h] /\ pc[n][h] \in {"none", "done"}
        /\ Alone(n)' /\ NotYet(n)' /\ Counted(n)' /\ Configured(n)' = Configured(n)
    BY <1>1, <1>3, GoroutineFacts DEF NewMonitor
  <2>2. jobs'[n] = {} /\ checks'[n] = {}
    BY <1>1, <1>3, <2>1 DEF NewMonitor, NodeInv, Open, Unscheduled, Unchecked, checking
  <2>3. /\ monitor'[n] = g /\ target'[n][g] = g
        /\ monitors'[n][g].secret = Configured(n).secret
    BY <1>1, <1>3 DEF NewMonitor, TypeOK
  <2>4. Open(n)' /\ Known(n)' /\ Loaded(n)' /\ Down(n)'
    BY <1>1, <1>3, <2>1, <2>2, <2>3
       DEF NewMonitor, Elsewhere, NodeInv, Open, Known, Loaded, Down, Unscheduled,
           Unchecked, checking
  <2> QED BY <2>1, <2>4 DEF NodeInv
<1>4. CASE ClosePrevious(n, g)
  <2>1. /\ phase[n] = "running" /\ pc[n][g] = "closePrevious" /\ pc'[n][g] = "schedule"
        /\ \A h \in Ids \ {g} : pc'[n][h] = pc[n][h] /\ pc[n][h] \in {"none", "done"}
        /\ Alone(n)' /\ NotYet(n)' /\ Counted(n)' /\ Configured(n)' = Configured(n)
    BY <1>1, <1>4, GoroutineFacts DEF ClosePrevious
  <2>2. jobs'[n] = {}
    BY <1>1, <1>4, <2>1 DEF ClosePrevious, CloseJob, NodeInv, Open, Unscheduled, TypeOK
  <2>3. Open(n)' /\ Known(n)' /\ Loaded(n)' /\ Down(n)'
    BY <1>1, <1>4, <2>1, <2>2
       DEF ClosePrevious, Elsewhere, NodeInv, Open, Known, Loaded, Down, Unscheduled,
           Unchecked, checking
  <2> QED BY <2>1, <2>3 DEF NodeInv
<1>5. CASE Schedule(n, g)
  <2>1. /\ phase[n] = "running" /\ pc[n][g] = "schedule" /\ pc'[n][g] = "check"
        /\ \A h \in Ids \ {g} : pc'[n][h] = pc[n][h] /\ pc[n][h] \in {"none", "done"}
        /\ Alone(n)' /\ NotYet(n)' /\ Counted(n)' /\ Configured(n)' = Configured(n)
    BY <1>1, <1>5, GoroutineFacts DEF Schedule
  <2>2. /\ jobs[n] = {} /\ target[n][g] = g /\ monitor[n] = g
        /\ monitors[n][g].secret = Configured(n).secret
    BY <1>1, <2>1 DEF NodeInv, Open, Loaded, Unscheduled
  <2>3. \/ jobs'[n] = {} /\ monitors'[n] = monitors[n]
        \/ /\ jobs'[n] = {<<g, g>>} /\ monitors'[n][g].job = g
           /\ monitors'[n][g].secret = monitors[n][g].secret
    <3>1. \/ jobs' = jobs /\ monitors' = monitors
          \/ /\ jobs' = [jobs EXCEPT ![n] = @ \cup {<<g, g>>}]
             /\ monitors' = [monitors EXCEPT ![n][g].job = g]
      BY <1>5, <2>2 DEF Schedule
    <3>2. jobs \in [Nodes -> SUBSET (StartIds \X StartIds)]
      BY <1>1 DEF TypeOK
    <3>3. monitors \in [Nodes -> [StartIds -> [secret : Secrets \cup {None},
                                              job : StartIds \cup {None}]]]
      BY <1>1 DEF TypeOK
    <3> QED BY <2>2, <3>1, <3>2, <3>3
  <2>4. Open(n)' /\ Known(n)' /\ Loaded(n)' /\ Down(n)'
    BY <1>1, <1>5, <2>1, <2>2, <2>3
       DEF Schedule, Elsewhere, NodeInv, Open, Known, Loaded, Down, Unscheduled,
           Unchecked, checking
  <2> QED BY <2>1, <2>4 DEF NodeInv
<1>6. CASE ScheduleCheck(n, g)
  <2>1. /\ phase[n] = "running" /\ pc[n][g] = "check" /\ pc'[n][g] = "done"
        /\ \A h \in Ids \ {g} : pc'[n][h] = pc[n][h] /\ pc[n][h] \in {"none", "done"}
        /\ Alone(n)' /\ NotYet(n)' /\ Counted(n)' /\ Configured(n)' = Configured(n)
    BY <1>1, <1>6, GoroutineFacts DEF ScheduleCheck
  <2>2. checks[n] = {}
    BY <1>1, <2>1 DEF NodeInv, Open, Unchecked
  <2>3. checks'[n] \subseteq {creds'[n]}
    BY <1>1, <1>6, <2>2 DEF ScheduleCheck, TypeOK
  <2>4. Open(n)' /\ Known(n)' /\ Loaded(n)' /\ Down(n)'
    BY <1>1, <1>6, <2>1, <2>3
       DEF ScheduleCheck, Elsewhere, NodeInv, Open, Known, Loaded, Down, Unscheduled,
           Unchecked, monitoring
  <2> QED BY <2>1, <2>4 DEF NodeInv
<1> QED BY <1>2, <1>3, <1>4, <1>5, <1>6 DEF Start

(* The hooks, activation and the end of the process, of the node itself.   *)
LEMMA HookStep ==
  ASSUME ~Overlap, IInv, NEW n \in Nodes,
         \/ FirstConfigurationChange(n) \/ InitStore(n) \/ Activated(n)
         \/ OnConfigurationChange(n) \/ OnDeactivate(n) \/ Exit(n)
  PROVE  NodeInv(n)'
<1> USE StopIdFacts
<1>1. NodeInv(n) /\ TypeOK
  BY DEF IInv
<1>2. CASE FirstConfigurationChange(n)
  <2>1. /\ phase'[n] = "loaded"
        /\ cfg'[n] = IF Valid(saved) THEN saved ELSE None
        /\ UNCHANGED <<saved, saves, pending, goroutines, monitoring, checking, metrics, workers>>
    BY <1>1, <1>2 DEF FirstConfigurationChange, TypeOK
  <2>2. jobs[n] = {} /\ checks[n] = {} /\ \A g \in Ids : pc[n][g] = "none"
    BY <1>1, <1>2 DEF FirstConfigurationChange, NodeInv, NotYet
  <2> QED BY <1>1, <2>1, <2>2
          DEF NodeInv, Alone, Active, NotYet, Counted, Open, Known, Loaded, Down, Unscheduled,
              Unchecked, goroutines, monitoring, checking
<1>3. CASE InitStore(n)
  <2>1. phase[n] = "secrets" /\ phase'[n] = "store"
    BY <1>1, <1>3 DEF InitStore, TypeOK
  <2> QED BY <1>1, <1>3, <2>1
          DEF InitStore, NodeInv, Alone, Active, NotYet, Counted, Open, Known, Loaded, Down,
              Configured, goroutines, monitoring, checking
<1>4. CASE Activated(n)
  <2>1. phase[n] = "store" /\ phase'[n] = "running"
    BY <1>1, <1>4 DEF Activated, TypeOK
  <2>2. jobs[n] = {} /\ checks[n] = {} /\ \A g \in Ids : pc[n][g] = "none"
    BY <1>1, <2>1 DEF NodeInv, NotYet
  <2>3. pc'[n][0] = "begin" /\ \A g \in Ids \ {0} : pc'[n][g] = "none"
    BY <1>1, <1>4, <2>2 DEF Activated, TypeOK
  <2> QED BY <1>1, <1>4, <2>1, <2>2, <2>3
          DEF Activated, NodeInv, Alone, Active, NotYet, Counted, Open, Known, Loaded, Down,
              Unscheduled, Unchecked, Configured, monitoring, checking
<1>5. CASE OnConfigurationChange(n)
  <2>1. /\ pending[n] > 0 /\ phase[n] # "store" /\ pc[n][StopId] = "none"
        /\ \A g \in Ids : pc[n][g] \in {"none", "done"}
        /\ UNCHANGED <<saved, saves, phase, target, monitoring, checking, metrics, workers>>
    BY <1>5 DEF OnConfigurationChange, Busy
  <2>2. pending'[n] = pending[n] - 1 /\ pending[n] \in Nat /\ restarts[n] \in Nat
        /\ saves \in Nat
    BY <1>1, <1>5 DEF OnConfigurationChange, TypeOK
  <2>3. phase[n] # "off"
    BY <1>1, <2>1, <2>2 DEF NodeInv, Counted
  <2>4. CASE ~Valid(saved) /\ UNCHANGED <<cfg, restarts, pc>>
    BY <1>1, <2>1, <2>2, <2>3, <2>4
       DEF NodeInv, Alone, Active, NotYet, Counted, Open, Known, Loaded, Down, Configured,
           monitoring, checking
  <2>5. CASE /\ cfg' = [cfg EXCEPT ![n] = saved] /\ phase[n] \in {"loaded", "secrets"}
             /\ UNCHANGED <<restarts, pc>>
    <3>1. cfg'[n] = saved
      BY <1>1, <2>5 DEF TypeOK
    <3>2. jobs[n] = {} /\ checks[n] = {} /\ \A g \in Ids : pc[n][g] = "none"
      BY <1>1, <2>5 DEF NodeInv, NotYet
    <3> QED BY <1>1, <2>1, <2>2, <2>3, <2>5, <3>1, <3>2
            DEF NodeInv, Alone, Active, NotYet, Counted, Open, Known, Loaded, Down,
                Unscheduled, Unchecked, monitoring, checking
  <2>6. CASE /\ cfg' = [cfg EXCEPT ![n] = saved] /\ phase[n] \in {"store", "running"}
             /\ restarts' = [restarts EXCEPT ![n] = @ + 1]
             /\ pc' = [pc EXCEPT ![n][restarts'[n]] = "stopMonitor"]
    <3> DEFINE g == restarts[n] + 1
    <3>1. cfg'[n] = saved /\ restarts'[n] = g
      BY <1>1, <2>6 DEF TypeOK
    <3>2. restarts[n] + pending[n] <= saves /\ saves <= MaxSaves
      BY <1>1 DEF NodeInv, Counted, TypeOK
    <3>3. g \in StartIds /\ g \in Ids /\ g # StopId
      BY <2>1, <2>2, <3>2, MaxSavesAssumption DEF StartIds, StopId, Ids
    <3>4. pc'[n] = [pc[n] EXCEPT ![g] = "stopMonitor"]
      BY <1>1, <2>6, <3>1 DEF TypeOK
    <3>5. /\ pc'[n][g] = "stopMonitor"
          /\ \A h \in Ids \ {g} : pc'[n][h] = pc[n][h] /\ pc'[n][h] \in {"none", "done"}
      BY <1>1, <2>1, <3>3, <3>4 DEF TypeOK
    <3>6. Alone(n)' /\ NotYet(n)' /\ Open(n)' /\ Known(n)' /\ Down(n)'
      BY <1>1, <2>1, <2>6, <3>3, <3>5
         DEF NodeInv, Alone, Active, NotYet, Open, Known, Down, Unscheduled, Unchecked,
             monitoring, checking
    <3>7. Counted(n)'
      BY <2>1, <2>2, <2>3, <3>1, <3>2 DEF Counted
    <3>8. Loaded(n)'
      BY <2>1, <3>1, <3>3, <3>5 DEF Loaded
    <3> QED BY <3>6, <3>7, <3>8 DEF NodeInv
  <2> QED BY <1>5, <2>4, <2>5, <2>6 DEF OnConfigurationChange
<1>6. CASE OnDeactivate(n)
  <2>1. /\ phase[n] = "running" /\ \A g \in Ids : pc[n][g] \in {"none", "done"}
        /\ UNCHANGED <<saved, saves, phase, pending, cfg, client, restarts, target, monitoring,
                       checking, metrics, workers>>
    BY <1>6 DEF OnDeactivate, Busy
  <2>2. /\ pc'[n][StopId] = "stopMonitor"
        /\ \A h \in Ids \ {StopId} : pc'[n][h] = pc[n][h] /\ pc'[n][h] \in {"none", "done"}
    BY <1>1, <1>6, <2>1 DEF OnDeactivate, TypeOK
  <2> QED BY <1>1, <2>1, <2>2
          DEF NodeInv, Alone, Active, NotYet, Counted, Open, Known, Loaded, Down, Configured,
              Unscheduled, Unchecked, monitoring, checking
<1>7. CASE Exit(n)
  <2>1. /\ phase'[n] = "off" /\ pending'[n] = 0 /\ restarts'[n] = 0
        /\ \A g \in Ids : pc'[n][g] = "none"
        /\ jobs'[n] = {} /\ checks'[n] = {} /\ UNCHANGED <<saved, saves>>
    BY <1>1, <1>7 DEF Exit, TypeOK
  <2>2. saves \in Nat
    BY <1>1 DEF TypeOK
  <2> QED BY <2>1, <2>2
          DEF NodeInv, Alone, Active, NotYet, Counted, Open, Known, Loaded, Down, Unscheduled,
              Unchecked
<1> QED BY <1>2, <1>3, <1>4, <1>5, <1>6, <1>7

(* What a step of node n leaves of node m, but for a change of the saved   *)
(* configuration.                                                          *)
LEMMA Apart ==
  ASSUME TypeOK, NEW n \in Nodes, NEW m \in Nodes \ {n},
         \/ FirstConfigurationChange(n) \/ InitStore(n) \/ Activated(n)
         \/ OnConfigurationChange(n) \/ OnDeactivate(n) \/ Exit(n)
         \/ StopWorkers(n) \/ StopMetrics(n) \/ Begin(n)
         \/ \E g \in Ids : Stop(n, g)
         \/ \E g \in StartIds : Start(n, g)
  PROVE  Same(m)
<1> USE DEF Same
<1>2. CASE FirstConfigurationChange(n) \/ InitStore(n) \/ Activated(n)
  BY <1>2 DEF FirstConfigurationChange, InitStore, Activated, TypeOK, goroutines, monitoring,
                    checking
<1>3. CASE OnConfigurationChange(n)
  BY <1>3 DEF OnConfigurationChange, TypeOK, monitoring, checking
<1>4. CASE OnDeactivate(n)
  BY <1>4 DEF OnDeactivate, TypeOK, monitoring, checking
<1>5. CASE Exit(n)
  BY <1>5 DEF Exit, TypeOK
<1>6. CASE StopWorkers(n) \/ StopMetrics(n) \/ Begin(n)
  BY <1>6 DEF StopWorkers, StopMetrics, Begin, Step, Elsewhere, TypeOK, monitoring, checking
<1>7. ASSUME NEW g \in Ids, Stop(n, g) PROVE Same(m)
  BY <1>7 DEF Stop, StopMonitor, StopSubscriptions, StopChecks, CloseJob, Step, Elsewhere,
                    TypeOK, monitoring, checking
<1>8. ASSUME NEW g \in StartIds, Start(n, g) PROVE Same(m)
  <2>1. CASE ConnectTeamsAppClient(n, g) \/ ScheduleCheck(n, g)
    BY <2>1 DEF ConnectTeamsAppClient, ScheduleCheck, Step, Elsewhere, TypeOK, monitoring,
                      checking
  <2>2. CASE NewMonitor(n, g) \/ ClosePrevious(n, g)
    BY <2>2 DEF NewMonitor, ClosePrevious, CloseJob, Step, Elsewhere, TypeOK, checking
  <2>3. CASE Schedule(n, g)
    BY <2>3 DEF Schedule, Step, Elsewhere, TypeOK, checking
  <2> QED BY <1>8, <2>1, <2>2, <2>3 DEF Start
<1> QED BY <1>2, <1>3, <1>4, <1>5, <1>6, <1>7, <1>8

-----------------------------------------------------------------------------
(* Every step, of one node and for all of them.                            *)
LEMMA Inductive == ASSUME ~Overlap, IInv, [Next]_vars PROVE IInv'
<1>1. TypeOK'
  BY TypingStep DEF IInv, NodeInv
<1> SUFFICES ASSUME NEW m \in Nodes PROVE NodeInv(m)'
  BY <1>1 DEF IInv
<1>2. NodeInv(m) /\ TypeOK
  BY DEF IInv
<1>3. CASE Edit
  <2>1. PICK c \in Configuration : Save(c)
    BY <1>2, <1>3 DEF Edit, Configuration, TypeOK
  <2> QED BY <1>3, <2>1, SaveStep DEF Edit
<1>4. ASSUME NEW n \in Nodes, GeneratePluginSecrets(n) PROVE NodeInv(m)'
  <2>1. phase[n] = "loaded" /\ phase' = [phase EXCEPT ![n] = "secrets"]
    BY <1>4 DEF GeneratePluginSecrets
  <2>2. phase'[m] = phase[m] \/ (phase[m] = "loaded" /\ phase'[m] = "secrets")
    BY <1>2, <2>1 DEF TypeOK
  <2>3. CASE UNCHANGED <<saved, saves, pending, cfg>>
    BY <1>2, <1>4, <2>2, <2>3
       DEF GeneratePluginSecrets, NodeInv, Alone, Active, NotYet, Counted, Open, Known, Loaded,
           Down, Configured, goroutines, monitoring, checking
  <2>4. ASSUME NEW s \in Secrets, NEW c, c = [Configured(n) EXCEPT !.secret = s],
               cfg' = [cfg EXCEPT ![n] = c], Save(c)
        PROVE  NodeInv(m)'
    <3>1. Configured(n) \in Configuration
      BY <1>2 DEF Configured, Configuration, TypeOK
    <3>2. c \in Configuration
      BY <2>4, <3>1 DEF Configuration
    <3>3. cfg'[m] = cfg[m] \/ phase[m] = "loaded"
      BY <1>2, <2>1, <2>4 DEF TypeOK
    <3> QED BY <1>4, <2>2, <2>4, <3>2, <3>3, SaveStep DEF GeneratePluginSecrets
  <2> QED BY <1>4, <2>3, <2>4 DEF GeneratePluginSecrets
<1>5. ASSUME NEW n \in Nodes,
             \/ FirstConfigurationChange(n) \/ InitStore(n) \/ Activated(n)
             \/ OnConfigurationChange(n) \/ OnDeactivate(n) \/ Exit(n)
      PROVE  NodeInv(m)'
  BY <1>5, HookStep, Apart, OtherNode DEF IInv
<1>6. ASSUME NEW n \in Nodes, NEW g \in Ids, Stop(n, g) PROVE NodeInv(m)'
  BY <1>6, StopStep, Apart, OtherNode DEF IInv
<1>7. ASSUME NEW n \in Nodes, StopWorkers(n) \/ StopMetrics(n) PROVE NodeInv(m)'
  BY <1>7, StopStep, StopIdFacts, Apart, OtherNode DEF IInv
<1>8. ASSUME NEW n \in Nodes, Begin(n) PROVE NodeInv(m)'
  BY <1>8, BeginStep, Apart, OtherNode DEF IInv
<1>9. ASSUME NEW n \in Nodes, NEW g \in StartIds, Start(n, g) PROVE NodeInv(m)'
  BY <1>9, StartStep, Apart, OtherNode DEF IInv
<1>10. CASE UNCHANGED vars
  BY <1>2, <1>10, OtherNode DEF Same, vars, node, goroutines, monitoring, checking
<1> QED
  BY <1>3, <1>4, <1>5, <1>6, <1>7, <1>8, <1>9, <1>10 DEF Next, Crash, CloseStore

-----------------------------------------------------------------------------
(* What holds even if changes overlap.                                     *)

(* A job is opened by the goroutine that made its monitor, which then      *)
(* knows it, and by no goroutine that has not come so far.                 *)
Owned(n) ==
    /\ \A j \in jobs[n] :
          /\ j[1] = j[2] /\ j[1] <= restarts[n]
          /\ monitors[n][j[1]].job = j[1] /\ pc[n][j[1]] \in {"check", "done"}
    /\ \A g \in checks[n] : g <= restarts[n] /\ pc[n][g] = "done"

Numbered(n) ==
    /\ phase[n] # "running" => pc[n][0] = "none"
    /\ \A g \in StartIds :
          /\ g > restarts[n] => pc[n][g] = "none"
          /\ pc[n][g] \in {"closePrevious", "schedule"} =>
                target[n][g] = g /\ monitors[n][g].job = None

Shared(n) == Counted(n) /\ Owned(n) /\ Numbered(n)

SharedInv == TypeOK /\ \A n \in Nodes : Shared(n)

(* The parts of the types that the jobs depend on.                         *)
LEMMA JobTypes ==
  ASSUME TypeOK, NEW n \in Nodes
  PROVE  /\ jobs[n] \subseteq StartIds \X StartIds /\ checks[n] \subseteq StartIds
         /\ restarts[n] \in Nat /\ pending[n] \in Nat /\ saves \in 0..MaxSaves
         /\ pc[n] \in [Ids -> Steps] /\ target[n] \in [Ids -> StartIds]
         /\ StartIds \subseteq Nat /\ None \notin StartIds
BY NoneAssumption DEF TypeOK, StartIds

(* The first state, and what another node does.                            *)
LEMMA SharedInit == Init => SharedInv
<1> SUFFICES ASSUME Init PROVE SharedInv
  OBVIOUS
<1>1. TypeOK
  BY InitIInv DEF IInv
<1>2. ASSUME NEW n \in Nodes PROVE Shared(n)
  BY <1>1, <1>2, StopIdFacts DEF Init, TypeOK, Shared, Counted, Owned, Numbered
<1> QED BY <1>1, <1>2 DEF SharedInv

(* Another node's steps, and those of no node.                             *)
LEMMA SharedSame == ASSUME NEW n \in Nodes, Shared(n), Same(n) PROVE Shared(n)'
BY DEF Same, Shared, Counted, Owned, Numbered

(* A change that is not applied yet.                                       *)
LEMMA SharedSave ==
  ASSUME SharedInv, NEW c \in Configuration, Save(c), NEW n \in Nodes,
         phase'[n] = phase[n] \/ (phase[n] = "loaded" /\ phase'[n] = "secrets"),
         UNCHANGED <<goroutines, monitoring, checking, metrics, workers>>
  PROVE  Shared(n)'
<1>1. /\ saves' = saves + 1 /\ pending'[n] = IF phase[n] = "off" THEN 0 ELSE pending[n] + 1
  BY DEF Save
<1>2. saves \in Nat /\ pending[n] \in Nat /\ restarts[n] \in Nat
  BY MaxSavesAssumption DEF SharedInv, TypeOK
<1>3. Shared(n)
  BY DEF SharedInv
<1>4. Owned(n)' /\ Numbered(n)'
  BY <1>3 DEF Shared, goroutines, monitoring, checking, Owned, Numbered
<1>5. Counted(n)'
  BY <1>1, <1>2, <1>3 DEF Shared, goroutines, Counted
<1> QED BY <1>4, <1>5 DEF Shared

(* A goroutine takes a step.                                               *)
LEMMA Stepped ==
  ASSUME TypeOK, NEW n \in Nodes, NEW g \in Ids, NEW from, NEW to, Step(n, g, from, to)
  PROVE  /\ pc[n][g] = from /\ pc'[n][g] = to
         /\ \A h \in Ids \ {g} : pc'[n][h] = pc[n][h]
BY DEF Step, TypeOK

(* Steps between two at which nothing is opened.                           *)
LEMMA SharedQuiet ==
  ASSUME SharedInv, NEW n \in Nodes, NEW g \in Ids, NEW from, NEW to, Step(n, g, from, to),
         from \notin {"none", "check", "done"},
         to \notin {"closePrevious", "schedule"},
         Elsewhere,
         jobs'[n] \subseteq jobs[n], checks'[n] \subseteq checks[n],
         UNCHANGED <<target, monitors>>
  PROVE  Shared(n)'
<1> USE StopIdFacts
<1>1. /\ pc[n][g] = from /\ pc'[n][g] = to
      /\ \A h \in Ids \ {g} : pc'[n][h] = pc[n][h]
  BY Stepped DEF SharedInv
<1>2. Shared(n) /\ TypeOK
  BY DEF SharedInv
<1>3. Counted(n)'
  BY <1>2 DEF Shared, Counted, Elsewhere
<1>4. Owned(n)'
  BY <1>1, <1>2, JobTypes DEF Shared, Owned, Elsewhere
<1>5. Numbered(n)'
  BY <1>1, <1>2 DEF Shared, Numbered, Elsewhere
<1> QED BY <1>3, <1>4, <1>5 DEF Shared

(* The steps of stop.                                                      *)
LEMMA SharedStop ==
  ASSUME SharedInv, NEW n \in Nodes, NEW g \in Ids,
         \/ Stop(n, g)
         \/ g = StopId /\ (StopWorkers(n) \/ StopMetrics(n))
         \/ g = 0 /\ Begin(n)
  PROVE  Shared(n)'
<1>1. TypeOK
  BY DEF SharedInv
<1>2. CASE StopMonitor(n, g)
  <2>1. jobs'[n] \subseteq jobs[n]
    BY <1>1, <1>2 DEF StopMonitor, CloseJob, TypeOK
  <2> QED BY <1>2, <2>1, SharedQuiet DEF StopMonitor, checking
<1>3. CASE StopSubscriptions(n, g)
  BY <1>3, SharedQuiet DEF StopSubscriptions, monitoring, checking
<1>4. CASE StopChecks(n, g)
  <2>1. checks'[n] \subseteq checks[n]
    BY <1>1, <1>4 DEF StopChecks, TypeOK
  <2> QED BY <1>4, <2>1, SharedQuiet DEF StopChecks, monitoring
<1>5. CASE g = StopId /\ (StopWorkers(n) \/ StopMetrics(n))
  BY <1>5, SharedQuiet DEF StopWorkers, StopMetrics, monitoring, checking
<1>6. CASE g = 0 /\ Begin(n)
  BY <1>6, SharedQuiet DEF Begin, monitoring, checking
<1> QED BY <1>2, <1>3, <1>4, <1>5, <1>6 DEF Stop

(* The steps of start.                                                     *)
LEMMA SharedStart ==
  ASSUME SharedInv, NEW n \in Nodes, NEW g \in StartIds, Start(n, g)
  PROVE  Shared(n)'
<1> USE StopIdFacts
<1>1. TypeOK /\ Shared(n) /\ g \in Ids
  BY DEF SharedInv
<1>2. CASE ConnectTeamsAppClient(n, g)
  <2>1. PICK to \in {"newMonitor", "done"} : Step(n, g, "connect", to)
    BY <1>2 DEF ConnectTeamsAppClient
  <2> QED BY <1>1, <1>2, <2>1, SharedQuiet DEF ConnectTeamsAppClient, monitoring, checking
<1>3. CASE NewMonitor(n, g)
  <2>1. /\ pc[n][g] = "newMonitor" /\ pc'[n][g] = "closePrevious"
        /\ \A h \in Ids \ {g} : pc'[n][h] = pc[n][h]
    BY <1>1, <1>3, Stepped DEF NewMonitor
  <2>2. /\ target'[n][g] = g /\ monitors'[n][g].job = None
        /\ \A h \in StartIds \ {g} : /\ target'[n][h] = target[n][h]
                                     /\ monitors'[n][h] = monitors[n][h]
    BY <1>1, <1>3 DEF NewMonitor, TypeOK
  <2>3. Counted(n)'
    BY <1>1, <1>3 DEF NewMonitor, Shared, Counted, Elsewhere
  <2>4. Owned(n)'
    BY <1>1, <1>3, <2>1, <2>2, JobTypes DEF NewMonitor, Shared, Owned, Elsewhere, checking
  <2>5. Numbered(n)'
    BY <1>1, <1>3, <2>1, <2>2 DEF NewMonitor, Shared, Numbered, Elsewhere
  <2> QED BY <2>3, <2>4, <2>5 DEF Shared
<1>4. CASE ClosePrevious(n, g)
  <2>1. /\ pc[n][g] = "closePrevious" /\ pc'[n][g] = "schedule"
        /\ \A h \in Ids \ {g} : pc'[n][h] = pc[n][h]
    BY <1>1, <1>4, Stepped DEF ClosePrevious
  <2>2. jobs'[n] \subseteq jobs[n]
    BY <1>1, <1>4 DEF ClosePrevious, CloseJob, TypeOK
  <2>3. Counted(n)'
    BY <1>1, <1>4 DEF ClosePrevious, Shared, Counted, Elsewhere
  <2>4. Owned(n)'
    BY <1>1, <1>4, <2>1, <2>2, JobTypes DEF ClosePrevious, Shared, Owned, Elsewhere, checking
  <2>5. Numbered(n)'
    BY <1>1, <1>4, <2>1 DEF ClosePrevious, Shared, Numbered, Elsewhere
  <2> QED BY <2>3, <2>4, <2>5 DEF Shared
<1>5. CASE Schedule(n, g)
  <2>1. /\ pc[n][g] = "schedule" /\ pc'[n][g] = "check" /\ target[n][g] = g
        /\ \A h \in Ids \ {g} : pc'[n][h] = pc[n][h]
    BY <1>1, <1>5, Stepped DEF Schedule, Shared, Numbered
  <2>2. \/ jobs'[n] = jobs[n] /\ monitors'[n] = monitors[n]
        \/ /\ jobs'[n] = jobs[n] \cup {<<g, g>>} /\ monitors'[n][g].job = g
           /\ \A h \in StartIds \ {g} : monitors'[n][h] = monitors[n][h]
    <3>1. \/ jobs' = jobs /\ monitors' = monitors
          \/ /\ jobs' = [jobs EXCEPT ![n] = @ \cup {<<g, g>>}]
             /\ monitors' = [monitors EXCEPT ![n][g].job = g]
      BY <1>5, <2>1 DEF Schedule
    <3>2. jobs \in [Nodes -> SUBSET (StartIds \X StartIds)]
      BY <1>1 DEF TypeOK
    <3>3. monitors \in [Nodes -> [StartIds -> [secret : Secrets \cup {None},
                                              job : StartIds \cup {None}]]]
      BY <1>1 DEF TypeOK
    <3> QED BY <3>1, <3>2, <3>3
  <2>3. Counted(n)'
    BY <1>1, <1>5 DEF Schedule, Shared, Counted, Elsewhere
  <2>4. g <= restarts[n]
    BY <1>1, <2>1, JobTypes DEF Shared, Numbered
  <2>5. Owned(n)'
    BY <1>1, <1>5, <2>1, <2>2, <2>4, JobTypes DEF Schedule, Shared, Owned, Elsewhere, checking
  <2>6. Numbered(n)'
    BY <1>1, <1>5, <2>1, <2>2 DEF Schedule, Shared, Numbered, Elsewhere
  <2> QED BY <2>3, <2>5, <2>6 DEF Shared
<1>6. CASE ScheduleCheck(n, g)
  <2>1. /\ pc[n][g] = "check" /\ pc'[n][g] = "done"
        /\ \A h \in Ids \ {g} : pc'[n][h] = pc[n][h]
    BY <1>1, <1>6, Stepped DEF ScheduleCheck
  <2>2. checks'[n] \subseteq checks[n] \cup {g}
    BY <1>1, <1>6 DEF ScheduleCheck, TypeOK
  <2>3. Counted(n)'
    BY <1>1, <1>6 DEF ScheduleCheck, Shared, Counted, Elsewhere
  <2>4. g <= restarts[n]
    BY <1>1, <2>1, JobTypes DEF Shared, Numbered
  <2>5. Owned(n)'
    BY <1>1, <1>6, <2>1, <2>2, <2>4, JobTypes DEF ScheduleCheck, Shared, Owned, Elsewhere,
                                                  monitoring
  <2>6. Numbered(n)'
    BY <1>1, <1>6, <2>1 DEF ScheduleCheck, Shared, Numbered, Elsewhere, monitoring
  <2> QED BY <2>3, <2>5, <2>6 DEF Shared
<1> QED BY <1>2, <1>3, <1>4, <1>5, <1>6 DEF Start

(* The hooks, activation and the end of the process.                       *)
LEMMA SharedHook ==
  ASSUME SharedInv, NEW n \in Nodes,
         \/ FirstConfigurationChange(n) \/ InitStore(n) \/ Activated(n)
         \/ OnConfigurationChange(n) \/ OnDeactivate(n) \/ Exit(n)
  PROVE  Shared(n)'
<1> USE StopIdFacts
<1>1. Shared(n) /\ TypeOK
  BY DEF SharedInv
<1>2. CASE FirstConfigurationChange(n)
  <2>1. /\ phase[n] = "off" /\ phase'[n] = "loaded"
        /\ cfg'[n] = IF Valid(saved) THEN saved ELSE None
        /\ UNCHANGED <<saved, saves, pending, goroutines, monitoring, checking>>
    BY <1>1, <1>2 DEF FirstConfigurationChange, TypeOK
  <2> QED BY <1>1, <2>1 DEF Shared, Counted, Owned, Numbered, goroutines, monitoring,
                            checking
<1>3. CASE InitStore(n)
  <2>1. phase[n] = "secrets" /\ phase'[n] = "store"
    BY <1>1, <1>3 DEF InitStore, TypeOK
  <2> QED BY <1>1, <1>3, <2>1 DEF InitStore, Shared, Counted, Owned, Numbered, goroutines,
                                  monitoring, checking
<1>4. CASE Activated(n)
  <2>1. phase[n] = "store" /\ phase'[n] = "running" /\ pc[n][0] = "none"
    BY <1>1, <1>4 DEF Activated, TypeOK, Shared, Numbered
  <2>2. pc'[n][0] = "begin" /\ \A g \in Ids \ {0} : pc'[n][g] = pc[n][g]
    BY <1>1, <1>4 DEF Activated, TypeOK
  <2>3. Counted(n)'
    BY <1>1, <1>4, <2>1 DEF Activated, Shared, Counted
  <2>4. Owned(n)'
    BY <1>1, <1>4, <2>1, <2>2, JobTypes DEF Activated, Shared, Owned, monitoring, checking
  <2>5. Numbered(n)'
    BY <1>1, <1>4, <2>1, <2>2, JobTypes DEF Activated, Shared, Numbered, monitoring
  <2> QED BY <2>3, <2>4, <2>5 DEF Shared
<1>5. CASE OnConfigurationChange(n)
  <2>1. /\ pending[n] > 0 /\ pending'[n] = pending[n] - 1
        /\ UNCHANGED <<saved, saves, phase, target, monitoring, checking>>
    BY <1>1, <1>5 DEF OnConfigurationChange, TypeOK
  <2>2. phase[n] # "off"
    BY <1>1, <2>1, JobTypes DEF Shared, Counted
  <2>3. CASE ~Valid(saved) /\ UNCHANGED <<cfg, restarts, pc>>
    BY <1>1, <2>1, <2>2, <2>3, JobTypes
       DEF Shared, Counted, Owned, Numbered, monitoring, checking
  <2>4. CASE cfg' = [cfg EXCEPT ![n] = saved] /\ UNCHANGED <<restarts, pc>>
    <3>1. cfg'[n] = saved
      BY <1>1, <2>4 DEF TypeOK
    <3> QED BY <1>1, <2>1, <2>2, <2>4, <3>1, JobTypes
            DEF Shared, Counted, Owned, Numbered, monitoring, checking
  <2>5. CASE /\ cfg' = [cfg EXCEPT ![n] = saved]
             /\ restarts' = [restarts EXCEPT ![n] = @ + 1]
             /\ pc' = [pc EXCEPT ![n][restarts'[n]] = "stopMonitor"]
    <3> DEFINE g == restarts[n] + 1
    <3>1. cfg'[n] = saved /\ restarts'[n] = g
      BY <1>1, <2>5 DEF TypeOK
    <3>2. restarts[n] + pending[n] <= saves
      BY <1>1 DEF Shared, Counted
    <3>3. g \in StartIds /\ g \in Ids /\ g # 0
      <4>1. g \in Nat /\ g # 0 /\ g <= MaxSaves
        BY <1>1, <2>1, <3>2, JobTypes, MaxSavesAssumption
      <4> QED BY <4>1, MaxSavesAssumption DEF StartIds
    <3>4. pc'[n] = [pc[n] EXCEPT ![g] = "stopMonitor"]
      BY <1>1, <2>5, <3>1 DEF TypeOK
    <3>5. /\ pc[n][g] = "none" /\ pc'[n][g] = "stopMonitor"
          /\ \A h \in Ids \ {g} : pc'[n][h] = pc[n][h]
      BY <1>1, <3>3, <3>4, JobTypes DEF Shared, Numbered
    <3>6. Counted(n)'
      BY <1>1, <2>1, <2>2, <3>1, <3>2, JobTypes DEF Counted
    <3>7. Owned(n)'
      BY <1>1, <2>1, <3>1, <3>3, <3>5, JobTypes DEF Shared, Owned, monitoring, checking
    <3>8. Numbered(n)'
      BY <1>1, <2>1, <3>1, <3>3, <3>5, JobTypes DEF Shared, Numbered, monitoring
    <3> QED BY <3>6, <3>7, <3>8 DEF Shared
  <2> QED BY <1>5, <2>3, <2>4, <2>5 DEF OnConfigurationChange
<1>6. CASE OnDeactivate(n)
  <2>1. /\ pc'[n][StopId] = "stopMonitor" /\ \A h \in Ids \ {StopId} : pc'[n][h] = pc[n][h]
    BY <1>1, <1>6 DEF OnDeactivate, TypeOK
  <2> QED BY <1>1, <1>6, <2>1, JobTypes
          DEF OnDeactivate, Shared, Counted, Owned, Numbered, monitoring, checking
<1>7. CASE Exit(n)
  <2>1. /\ phase'[n] = "off" /\ pending'[n] = 0 /\ restarts'[n] = 0 /\ saves' = saves
        /\ \A g \in Ids : pc'[n][g] = "none"
        /\ jobs'[n] = {} /\ checks'[n] = {}
    BY <1>1, <1>7 DEF Exit, TypeOK
  <2> QED BY <1>1, <2>1, JobTypes DEF Shared, Counted, Owned, Numbered
<1> QED BY <1>2, <1>3, <1>4, <1>5, <1>6, <1>7

(* Every step.                                                             *)
LEMMA SharedStep == SharedInv /\ [Next]_vars => SharedInv'
<1> SUFFICES ASSUME SharedInv, [Next]_vars PROVE SharedInv'
  OBVIOUS
<1>1. TypeOK'
  BY TypingStep DEF SharedInv, Shared
<1> SUFFICES ASSUME NEW m \in Nodes PROVE Shared(m)'
  BY <1>1 DEF SharedInv
<1>2. Shared(m) /\ TypeOK
  BY DEF SharedInv
<1>3. CASE Edit
  <2>1. PICK c \in Configuration : Save(c)
    BY <1>2, <1>3 DEF Edit, Configuration, TypeOK
  <2> QED BY <1>3, <2>1, SharedSave DEF Edit
<1>4. ASSUME NEW n \in Nodes, GeneratePluginSecrets(n) PROVE Shared(m)'
  <2>1. phase[n] = "loaded" /\ phase' = [phase EXCEPT ![n] = "secrets"]
    BY <1>4 DEF GeneratePluginSecrets
  <2>2. phase'[m] = phase[m] \/ (phase[m] = "loaded" /\ phase'[m] = "secrets")
    BY <1>2, <2>1 DEF TypeOK
  <2>3. CASE UNCHANGED <<saved, saves, pending, cfg>>
    BY <1>2, <1>4, <2>2, <2>3
       DEF GeneratePluginSecrets, Shared, Counted, Owned, Numbered, goroutines,
           monitoring, checking
  <2>4. ASSUME NEW s \in Secrets, NEW c, c = [Configured(n) EXCEPT !.secret = s], Save(c)
        PROVE  Shared(m)'
    <3>1. Configured(n) \in Configuration
      BY <1>2 DEF Configured, Configuration, TypeOK
    <3>2. c \in Configuration
      BY <2>4, <3>1 DEF Configuration
    <3> QED BY <1>4, <2>2, <2>4, <3>2, SharedSave DEF GeneratePluginSecrets
  <2> QED BY <1>4, <2>3, <2>4 DEF GeneratePluginSecrets
<1>5. ASSUME NEW n \in Nodes,
             \/ FirstConfigurationChange(n) \/ InitStore(n) \/ Activated(n)
             \/ OnConfigurationChange(n) \/ OnDeactivate(n) \/ Exit(n)
      PROVE  Shared(m)'
  BY <1>2, <1>5, SharedHook, Apart, SharedSame
<1>6. ASSUME NEW n \in Nodes, NEW g \in Ids, Stop(n, g) PROVE Shared(m)'
  BY <1>2, <1>6, SharedStop, Apart, SharedSame
<1>7. ASSUME NEW n \in Nodes, StopWorkers(n) \/ StopMetrics(n) \/ Begin(n) PROVE Shared(m)'
  BY <1>2, <1>7, SharedStop, StopIdFacts, Apart, SharedSame
<1>8. ASSUME NEW n \in Nodes, NEW g \in StartIds, Start(n, g) PROVE Shared(m)'
  BY <1>2, <1>8, SharedStart, Apart, SharedSame
<1>9. CASE UNCHANGED vars
  BY <1>2, <1>9, SharedSame DEF Same, vars, node, goroutines, monitoring, checking
<1> QED BY <1>3, <1>4, <1>5, <1>6, <1>7, <1>8, <1>9 DEF Next, Crash, CloseStore

-----------------------------------------------------------------------------
(* The inductive invariant holds throughout.                               *)
THEOREM Invariance ==
  ASSUME ~Overlap
  PROVE  Spec => []IInv
<1>1. IInv /\ [Next]_vars => IInv'
  BY Inductive
<1> QED BY <1>1, InitIInv, PTL DEF Spec

-----------------------------------------------------------------------------
(* If each change is applied before the next, no job is left behind on any *)
(* node, however often it is restarted, and nothing is open before it      *)
(* runs.                                                                   *)
THEOREM OneJobHolds ==
  ASSUME ~Overlap
  PROVE  Spec => []OneJob
<1>1. IInv => OneJob
  BY DEF IInv, NodeInv, Known, OneJob
<1> QED BY <1>1, Invariance, PTL

(* If each change is applied before the next, a node that has caught up    *)
(* has what is saved, its monitoring job the saved secret.                 *)
THEOREM CurrentHolds ==
  ASSUME ~Overlap
  PROVE  Spec => []Current
<1>1. IInv => Current
  <2> SUFFICES ASSUME IInv, NEW n \in Nodes, phase[n] = "running", ~Busy(n), pending[n] = 0,
                      Valid(saved)
               PROVE  /\ cfg[n] = saved
                      /\ \A j \in jobs[n] : monitors[n][j[1]].secret = saved.secret
    BY DEF Current
  <2>1. cfg[n] = saved
    BY DEF IInv, NodeInv, Loaded
  <2>2. Configured(n).secret = saved.secret
    BY <2>1, NoneAssumption DEF Configured, IInv, TypeOK
  <2>3. \A g \in StartIds : pc[n][g] # "stopMonitor"
    BY StopIdFacts DEF Busy
  <2> QED BY <2>1, <2>2, <2>3 DEF IInv, NodeInv, Loaded
<1> QED BY <1>1, Invariance, PTL

(* If each change is applied before the next, the store is closed when     *)
(* nothing of the plugin is at work any more.                              *)
THEOREM ClosedLastHolds ==
  ASSUME ~Overlap
  PROVE  Spec => []ClosedLast
<1>1. IInv => ClosedLast
  BY StopIdFacts DEF IInv, NodeInv, Open, Down, Unscheduled, Unchecked, ClosedLast
<1> QED BY <1>1, Invariance, PTL

-----------------------------------------------------------------------------
(* However changes overlap, these parts hold throughout.                   *)
THEOREM SharedInvariance == Spec => []SharedInv
BY SharedInit, SharedStep, PTL DEF Spec

(* However changes overlap, a restart opens one job of the monitor at most *)
(* and one check, and no two restarts share a monitor: what may be left    *)
(* behind is at most one job for each restart.                             *)
THEOREM OneJobEach ==
  Spec => [](\A n \in Nodes :
                 /\ \A j \in jobs[n] :
                       \E g \in 0..restarts[n] :
                           /\ j = <<g, g>> /\ monitors[n][g].job = g
                           /\ pc[n][g] \in {"check", "done"}
                 /\ checks[n] \subseteq 0..restarts[n])
<1>1. SharedInv => \A n \in Nodes :
                       /\ \A j \in jobs[n] :
                             \E g \in 0..restarts[n] :
                                 /\ j = <<g, g>> /\ monitors[n][g].job = g
                                 /\ pc[n][g] \in {"check", "done"}
                       /\ checks[n] \subseteq 0..restarts[n]
  <2> SUFFICES ASSUME SharedInv, NEW n \in Nodes
               PROVE  /\ \A j \in jobs[n] :
                            \E g \in 0..restarts[n] :
                                /\ j = <<g, g>> /\ monitors[n][g].job = g
                                /\ pc[n][g] \in {"check", "done"}
                      /\ checks[n] \subseteq 0..restarts[n]
    OBVIOUS
  <2>1. TypeOK /\ Owned(n)
    BY DEF SharedInv, Shared
  <2>2. ASSUME NEW j \in jobs[n]
        PROVE  \E g \in 0..restarts[n] :
                   /\ j = <<g, g>> /\ monitors[n][g].job = g
                   /\ pc[n][g] \in {"check", "done"}
    <3>1. j \in StartIds \X StartIds /\ j[1] = j[2] /\ j[1] <= restarts[n]
      BY <2>1, JobTypes DEF Owned
    <3>2. j = <<j[1], j[1]>> /\ j[1] \in 0..restarts[n]
      BY <2>1, <3>1, JobTypes
    <3> QED BY <2>1, <3>2 DEF Owned
  <2>3. checks[n] \subseteq 0..restarts[n]
    BY <2>1, JobTypes DEF Owned
  <2> QED BY <2>2, <2>3
<1> QED BY <1>1, SharedInvariance, PTL

(* A job that was left behind stays for as long as the process lives: no   *)
(* later restart closes it, only the monitor, or the check, that p has.    *)
THEOREM LeftBehind ==
  Spec => [][\A n \in Nodes :
                 /\ \A j \in jobs[n] : j[1] # monitor[n] => j \in jobs'[n] \/ phase'[n] = "off"
                 /\ \A g \in checks[n] : g # creds[n] => g \in checks'[n] \/ phase'[n] = "off"]_vars
<1>1. SharedInv /\ [Next]_vars =>
        [\A n \in Nodes :
            /\ \A j \in jobs[n] : j[1] # monitor[n] => j \in jobs'[n] \/ phase'[n] = "off"
            /\ \A g \in checks[n] : g # creds[n] => g \in checks'[n] \/ phase'[n] = "off"]_vars
  <2> SUFFICES ASSUME SharedInv, Next, NEW m \in Nodes
               PROVE  /\ \A j \in jobs[m] :
                            j[1] # monitor[m] => j \in jobs'[m] \/ phase'[m] = "off"
                      /\ \A g \in checks[m] :
                            g # creds[m] => g \in checks'[m] \/ phase'[m] = "off"
    OBVIOUS
  <2>1. TypeOK /\ Shared(m) /\ jobs[m] \subseteq StartIds \X StartIds
    BY JobTypes DEF SharedInv
  <2>2. CASE jobs'[m] = jobs[m] /\ checks'[m] = checks[m]
    BY <2>2
  <2>3. CASE phase'[m] = "off"
    BY <2>3
  <2>4. ASSUME NEW n \in Nodes, Exit(n) PROVE phase'[m] = "off" \/ m # n
    BY <2>1, <2>4 DEF Exit, TypeOK
  <2>5. CASE Edit \/ \E n \in Nodes : GeneratePluginSecrets(n)
    BY <2>2, <2>5 DEF Edit, GeneratePluginSecrets, monitoring, checking
  <2>6. CASE \E n \in Nodes :
                \/ FirstConfigurationChange(n) \/ InitStore(n) \/ Activated(n)
                \/ OnConfigurationChange(n) \/ OnDeactivate(n)
                \/ StopWorkers(n) \/ StopMetrics(n) \/ Begin(n)
    BY <2>2, <2>6 DEF FirstConfigurationChange, InitStore, Activated, OnConfigurationChange,
                      OnDeactivate, StopWorkers, StopMetrics, Begin, monitoring, checking
  <2>7. ASSUME NEW n \in Nodes, Exit(n)
        PROVE  (jobs'[m] = jobs[m] /\ checks'[m] = checks[m]) \/ phase'[m] = "off"
    BY <2>1, <2>4, <2>7, Apart DEF Same
  <2>8. ASSUME NEW n \in Nodes, n # m,
               (\E g \in Ids : Stop(n, g)) \/ (\E g \in StartIds : Start(n, g))
        PROVE  jobs'[m] = jobs[m] /\ checks'[m] = checks[m]
    BY <2>1, <2>8, Apart DEF Same
  <2>9. ASSUME NEW g \in Ids, Stop(m, g)
        PROVE  /\ \A j \in jobs[m] : j[1] # monitor[m] => j \in jobs'[m]
               /\ \A h \in checks[m] : h # creds[m] => h \in checks'[m]
    <3>1. CASE StopMonitor(m, g)
      BY <2>1, <3>1 DEF StopMonitor, CloseJob, TypeOK, checking
    <3>2. CASE StopSubscriptions(m, g)
      BY <3>2 DEF StopSubscriptions, monitoring, checking
    <3>3. CASE StopChecks(m, g)
      BY <2>1, <3>3 DEF StopChecks, TypeOK, monitoring
    <3> QED BY <2>9, <3>1, <3>2, <3>3 DEF Stop
  <2>10. ASSUME NEW g \in StartIds, Start(m, g)
         PROVE  jobs[m] \subseteq jobs'[m] /\ checks[m] \subseteq checks'[m]
    <3>1. CASE ConnectTeamsAppClient(m, g) \/ NewMonitor(m, g)
      BY <3>1 DEF ConnectTeamsAppClient, NewMonitor, monitoring, checking
    <3>2. CASE ClosePrevious(m, g)
      <4>1. target[m][g] = g /\ monitors[m][g].job = None
        BY <2>1, <3>2 DEF ClosePrevious, Step, Shared, Numbered
      <4>2. jobs'[m] = jobs[m] \ {<<g, None>>} /\ checks' = checks
        BY <2>1, <3>2, <4>1 DEF ClosePrevious, CloseJob, TypeOK, checking
      <4> QED BY <2>1, <4>2, JobTypes
    <3>3. CASE Schedule(m, g)
      BY <2>1, <3>3 DEF Schedule, TypeOK, checking
    <3>4. CASE ScheduleCheck(m, g)
      BY <2>1, <3>4 DEF ScheduleCheck, TypeOK, monitoring
    <3> QED BY <2>10, <3>1, <3>2, <3>3, <3>4 DEF Start
  <2> QED BY <2>2, <2>3, <2>5, <2>6, <2>7, <2>8, <2>9, <2>10 DEF Next, Crash, CloseStore
<1> QED BY <1>1, SharedInvariance, PTL DEF Spec
=============================================================================
