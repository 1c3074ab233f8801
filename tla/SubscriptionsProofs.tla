------------------------ MODULE SubscriptionsProofs -------------------------
(***************************************************************************)
(* Theorems about Subscriptions for any lifetime, limit and number of      *)
(* faults. A second subscription is kept from being opened only when a     *)
(* creation that timed out is never carried out later (~DelayedLanding);   *)
(* what is on record is kept alive with late creations or with a lagging   *)
(* replica, not with both.                                                 *)
(*                                                                         *)
(* That at most one subscription is open is not inductive: a run decides   *)
(* on what it listed some calls ago. The invariant says what each program  *)
(* point knows of Graph: nothing is open besides the subscription listed,  *)
(* and nothing at all once it was deleted.                                 *)
(***************************************************************************)
EXTENDS Subscriptions, TLAPS

Listed == pc \in {"drop", "refresh", "update", "save"} => rsub \in Ids

(* At most one row.                                                        *)
OneRow == \A i, j \in local : i = j

Known ==
    /\ OneRow
    /\ pc \in {"local", "drop", "refresh", "update", "save"} => Live \subseteq {rsub}
    /\ pc \in {"forget", "create"} => Live = {}
    /\ inflight = {}
    /\ replica \cap Live \subseteq local

IInv == TypeOK /\ Listed /\ SingleRemote /\ Known

(* The minutes a recorded subscription has left, plus the faults so far,   *)
(* never fall below the limit by more than the minute being waited for: a  *)
(* run that meets no fault brings them back above it, one that does has    *)
(* counted it.                                                             *)
Slack(i) == remote[i] + faults

Ample == \A i \in local \cap Live : Slack(i) >= RefreshLimit

Budget ==
    /\ OneRow
    /\ pc = "save" /\ rsub \in Live => remote[rsub] = Lifetime
    /\ pc = "local" /\ rsub \in Live => remote[rsub] >= left
    /\ DelayedLanding /\ pc = "refresh" => rsub \in local
    /\ \A i \in local \cap Live : Slack(i) >= RefreshLimit - 1
    /\ pc = "update" \/ (pc = "idle" /\ run = "done") => Ample
    /\ pc \in {"local", "drop"} /\ rsub # None /\ rsub \notin Live => Ample

(* What a run knows that has met no fault yet.                             *)
OnTrack ==
    /\ pc \in {"local", "drop", "refresh", "update", "save"} => Live = {rsub} \ {None}
    /\ pc \in {"refresh", "update"} => local = {rsub}
    /\ pc \in {"forget", "create"} => Live = {}

(* Healthy, and no run at work on what was true earlier.                   *)
Settled ==
    /\ Healthy /\ inflight = {} /\ View = local
    /\ pc \in {"idle", "list", "local", "refresh", "update"}
    /\ pc \in {"local", "refresh", "update"} => rsub \in local

-----------------------------------------------------------------------------
(* Every step keeps the types.                                             *)
LEMMA TypingStep == TypeOK /\ Listed /\ [Next]_vars => TypeOK' /\ Listed'
<1> SUFFICES ASSUME TypeOK, Listed, [Next]_vars PROVE TypeOK' /\ Listed'
  OBVIOUS
<1> USE TimesAssumption, IdsAssumption
    DEF TypeOK, Listed, Fault, NoFault, Goto, Return, Put, Live, View, graphVars, monitorVars
<1>1. CASE Start
  BY <1>1 DEF Start
<1>2. CASE ListRemote
  BY <1>2 DEF ListRemote
<1>3. CASE ReadLocal
  BY <1>3 DEF ReadLocal, NextStep, WithoutRemote
<1>4. CASE DropRemote
  BY <1>4 DEF DropRemote, WithoutRemote
<1>5. CASE RefreshRemote
  BY <1>5 DEF RefreshRemote
<1>6. CASE UpdateLocal
  BY <1>6 DEF UpdateLocal
<1>7. CASE ForgetLocal
  BY <1>7 DEF ForgetLocal
<1>8. CASE CreateRemote
  BY <1>8 DEF CreateRemote
<1>9. CASE SaveLocal
  BY <1>9 DEF SaveLocal
<1>10. ASSUME NEW i \in Ids, LookupLifecycle(i) PROVE TypeOK' /\ Listed'
  BY <1>10 DEF LookupLifecycle
<1>11. ASSUME NEW i \in Ids, Land(i) PROVE TypeOK' /\ Listed'
  BY <1>11 DEF Land
<1>12. ASSUME NEW i \in Ids, RemoteLost(i) PROVE TypeOK' /\ Listed'
  BY <1>12 DEF RemoteLost
<1>13. CASE RefreshLifecycle
  BY <1>13 DEF RefreshLifecycle
<1>14. CASE Crash
  BY <1>14 DEF Crash
<1>15. CASE MissRun
  BY <1>15 DEF MissRun
<1>16. CASE ChangeSecret
  BY <1>16 DEF ChangeSecret
<1>17. CASE Replicate
  BY <1>17 DEF Replicate
<1>18. CASE Tick
  BY <1>18 DEF Tick
<1>19. CASE UNCHANGED vars
  BY <1>19 DEF vars
<1> QED
  BY <1>1, <1>2, <1>3, <1>4, <1>5, <1>6, <1>7, <1>8, <1>9, <1>10, <1>11, <1>12, <1>13,
     <1>14, <1>15, <1>16, <1>17, <1>18, <1>19 DEF Next, Monitor

(* Every variable keeps its type (monitor.go, subscriptions.go).           *)
THEOREM Typing == Spec => []TypeOK
<1>1. Init => TypeOK /\ Listed
  BY TimesAssumption DEF Init, TypeOK, Listed
<1>2. TypeOK /\ Listed /\ [Next]_vars => (TypeOK /\ Listed)'
  BY TypingStep
<1> QED
  BY <1>1, <1>2, PTL DEF Spec

-----------------------------------------------------------------------------
(* What each program point knows of Graph stays true.                      *)
LEMMA KnownStep == ~DelayedLanding /\ IInv /\ [Next]_vars => (SingleRemote /\ Known)'
<1> SUFFICES ASSUME ~DelayedLanding, IInv, [Next]_vars PROVE (SingleRemote /\ Known)'
  OBVIOUS
<1> USE TimesAssumption, IdsAssumption
    DEF IInv, TypeOK, Listed, SingleRemote, Known, OneRow, Fault, NoFault, Goto, Return, Put, Live, View,
        graphVars, monitorVars
<1>1. CASE Start
  BY <1>1 DEF Start
<1>2. CASE ListRemote
  BY <1>2 DEF ListRemote
<1>3. CASE ReadLocal
  BY <1>3 DEF ReadLocal, NextStep, WithoutRemote
<1>4. CASE DropRemote
  BY <1>4 DEF DropRemote, WithoutRemote
<1>5. CASE RefreshRemote
  BY <1>5 DEF RefreshRemote
<1>6. CASE UpdateLocal
  BY <1>6 DEF UpdateLocal
<1>7. CASE ForgetLocal
  BY <1>7 DEF ForgetLocal
<1>8. CASE CreateRemote
  BY <1>8 DEF CreateRemote, Fresh
<1>9. CASE SaveLocal
  BY <1>9 DEF SaveLocal
<1>10. ASSUME NEW i \in Ids, LookupLifecycle(i) PROVE (SingleRemote /\ Known)'
  BY <1>10 DEF LookupLifecycle
<1>11. ASSUME NEW i \in Ids, Land(i) PROVE (SingleRemote /\ Known)'
  BY <1>11 DEF Land
<1>12. ASSUME NEW i \in Ids, RemoteLost(i) PROVE (SingleRemote /\ Known)'
  BY <1>12 DEF RemoteLost
<1>13. CASE RefreshLifecycle
  BY <1>13 DEF RefreshLifecycle
<1>14. CASE Crash
  BY <1>14 DEF Crash
<1>15. CASE MissRun
  BY <1>15 DEF MissRun
<1>16. CASE ChangeSecret
  BY <1>16 DEF ChangeSecret
<1>17. CASE Replicate
  BY <1>17 DEF Replicate
<1>18. CASE Tick
  BY <1>18 DEF Tick
<1>19. CASE UNCHANGED vars
  BY <1>19 DEF vars
<1> QED
  BY <1>1, <1>2, <1>3, <1>4, <1>5, <1>6, <1>7, <1>8, <1>9, <1>10, <1>11, <1>12, <1>13,
     <1>14, <1>15, <1>16, <1>17, <1>18, <1>19 DEF Next, Monitor

(* What the program points know of Graph, if creations land in time.       *)
LEMMA Invariant ==
    ASSUME ~DelayedLanding
    PROVE  Spec => []IInv
<1>1. Init => IInv
  BY TimesAssumption DEF Init, IInv, TypeOK, Listed, SingleRemote, Known, OneRow, Live
<1>2. IInv /\ [Next]_vars => IInv'
  BY TypingStep, KnownStep DEF IInv
<1> QED
  BY <1>1, <1>2, PTL DEF Spec

(* Whatever fails and wherever the job stops, two subscriptions are never  *)
(* open at once (subscriptions.go, checkGlobalChatsSubscription).          *)
THEOREM SingleRemoteTheorem ==
    ASSUME ~DelayedLanding
    PROVE  Spec => []SingleRemote
<1>1. IInv => SingleRemote
  BY DEF IInv
<1> QED
  BY Invariant, <1>1, PTL

(* A row leaves the table only when its subscription is closed             *)
(* (subscriptions.go, where the local subscription is deleted or replaced).*)
THEOREM ForgetTheorem ==
    ASSUME ~DelayedLanding
    PROVE  Spec => ForgetOnlyDead
<1>1. IInv /\ [Next]_vars => [\A i \in local \ local' : i \notin Live]_vars
  <2> SUFFICES ASSUME IInv, [Next]_vars, NEW i \in local, i \notin local'
               PROVE  i \notin Live
    OBVIOUS
  <2>1. ForgetLocal \/ SaveLocal
    BY DEF Next, vars, Monitor, Start, ListRemote, ReadLocal, DropRemote, RefreshRemote,
       UpdateLocal, CreateRemote, LookupLifecycle, Land, RemoteLost, RefreshLifecycle, Crash,
       MissRun, ChangeSecret, Replicate, Tick
  <2>2. CASE ForgetLocal
    BY <2>2 DEF ForgetLocal, IInv, Known
  <2>3. CASE SaveLocal
    BY <2>3 DEF SaveLocal, IInv, Known
  <2> QED
    BY <2>1, <2>2, <2>3
<1> QED
  BY Invariant, <1>1, PTL DEF Spec, ForgetOnlyDead

-----------------------------------------------------------------------------
(* Minutes and faults add up.                                              *)
LEMMA BudgetStep ==
    ASSUME ~(Lag /\ DelayedLanding), RefreshLimit <= Lifetime,
           TypeOK, Listed, ~DelayedLanding => Known, Budget, [Next]_vars
    PROVE  Budget'
<1> USE TimesAssumption, IdsAssumption
    DEF TypeOK, Listed, Known, OneRow, Budget, Ample, Slack, Fault, NoFault, Goto, Return,
        Put, Live, View, graphVars, monitorVars
<1>1. CASE Start
  BY <1>1 DEF Start
<1>2. CASE ListRemote
  BY <1>2 DEF ListRemote
<1>3. CASE ReadLocal
  BY <1>3 DEF ReadLocal, NextStep, WithoutRemote
<1>4. CASE DropRemote
  BY <1>4 DEF DropRemote, WithoutRemote
<1>5. CASE RefreshRemote
  BY <1>5 DEF RefreshRemote
<1>6. CASE UpdateLocal
  BY <1>6 DEF UpdateLocal
<1>7. CASE ForgetLocal
  BY <1>7 DEF ForgetLocal
<1>8. CASE CreateRemote
  BY <1>8 DEF CreateRemote, Fresh
<1>9. CASE SaveLocal
  BY <1>9 DEF SaveLocal
<1>10. ASSUME NEW i \in Ids, LookupLifecycle(i) PROVE Budget'
  BY <1>10 DEF LookupLifecycle
<1>11. ASSUME NEW i \in Ids, Land(i) PROVE Budget'
  BY <1>11 DEF Land
<1>12. ASSUME NEW i \in Ids, RemoteLost(i) PROVE Budget'
  BY <1>12 DEF RemoteLost
<1>13. CASE RefreshLifecycle
  BY <1>13 DEF RefreshLifecycle
<1>14. CASE Crash
  BY <1>14 DEF Crash
<1>15. CASE MissRun
  BY <1>15 DEF MissRun
<1>16. CASE ChangeSecret
  BY <1>16 DEF ChangeSecret
<1>17. CASE Replicate
  BY <1>17 DEF Replicate
<1>18. CASE Tick
  BY <1>18 DEF Tick
<1>19. CASE UNCHANGED vars
  BY <1>19 DEF vars
<1> QED
  BY <1>1, <1>2, <1>3, <1>4, <1>5, <1>6, <1>7, <1>8, <1>9, <1>10, <1>11, <1>12, <1>13,
     <1>14, <1>15, <1>16, <1>17, <1>18, <1>19 DEF Next, Monitor

(* The minute that passes is never the last of a recorded subscription.    *)
LEMMA NoneExpires ==
    ASSUME MaxFaults + 2 <= RefreshLimit, TypeOK, Budget, Tick, NEW i \in local
    PROVE  remote[i] # 1
<1>1. i \in Live => remote[i] + faults >= RefreshLimit
  BY DEF Budget, Ample, Tick, Slack
<1> QED
  BY <1>1, TimesAssumption DEF TypeOK, Live

(* The invariant the budget is part of: what the program points know of    *)
(* Graph is in it only if no creation lands late.                          *)
Kept == TypeOK /\ Listed /\ (~DelayedLanding => Known /\ SingleRemote) /\ Budget

(* The budget is kept throughout.                                          *)
LEMMA KeptInvariant ==
    ASSUME ~(Lag /\ DelayedLanding), RefreshLimit <= Lifetime
    PROVE  Spec => []Kept
<1>1. Init => Kept
  BY TimesAssumption
     DEF Init, Kept, Budget, OneRow, Ample, TypeOK, Listed, SingleRemote, Known, Live
<1>2. Kept /\ [Next]_vars => Kept'
  <2> SUFFICES ASSUME Kept, [Next]_vars PROVE Kept'
    OBVIOUS
  <2>1. TypeOK' /\ Listed' /\ Budget'
    BY TypingStep, BudgetStep DEF Kept
  <2>2. ~DelayedLanding => (Known /\ SingleRemote)'
    BY KnownStep DEF Kept, IInv
  <2> QED
    BY <2>1, <2>2 DEF Kept
<1> QED
  BY <1>1, <1>2, PTL DEF Spec

(* A recorded subscription never runs out of time while the refresh limit  *)
(* exceeds the number of faults by two minutes or more: with the code's    *)
(* five minutes, three failed or missed runs are made up for               *)
(* (subscriptions.go, shouldRefresh; monitor.go, runMonitoringSystemJob).  *)
(* Late creations do no harm here, nor does a replica behind the master;   *)
(* both together may (TLC finds the run).                                  *)
THEOREM NoExpiryTheorem ==
    ASSUME ~(Lag /\ DelayedLanding), RefreshLimit <= Lifetime, MaxFaults + 2 <= RefreshLimit
    PROVE  Spec => NoExpiry
<1>1. Kept /\ [Next]_vars => [Tick => \A i \in local : remote[i] # 1]_vars
  BY NoneExpires DEF Kept
<1> QED
  BY KeptInvariant, <1>1, PTL DEF Spec, NoExpiry

-----------------------------------------------------------------------------
(* A run that meets no fault stays on track, and what it leaves behind is  *)
(* one subscription, open and on record.                                   *)
LEMMA OnTrackStep ==
    ASSUME ~DelayedLanding, IInv, [Next]_vars, OnTrack, faults' = faults
    PROVE  OnTrack' /\ (pc # "idle" /\ pc' = "idle" => Healthy')
<1> USE TimesAssumption, IdsAssumption
    DEF IInv, TypeOK, Listed, SingleRemote, Known, OneRow, OnTrack, Healthy, Fault, NoFault, Goto,
        Return, Put, Live, View, graphVars, monitorVars
<1> DEFINE Goal == OnTrack' /\ (pc # "idle" /\ pc' = "idle" => Healthy')
<1>1. CASE Start
  BY <1>1 DEF Start
<1>2. CASE ListRemote
  BY <1>2 DEF ListRemote
<1>3. CASE ReadLocal
  BY <1>3 DEF ReadLocal, NextStep, WithoutRemote
<1>4. CASE DropRemote
  BY <1>4 DEF DropRemote, WithoutRemote
<1>5. CASE RefreshRemote
  BY <1>5 DEF RefreshRemote
<1>6. CASE UpdateLocal
  BY <1>6 DEF UpdateLocal
<1>7. CASE ForgetLocal
  BY <1>7 DEF ForgetLocal
<1>8. CASE CreateRemote
  BY <1>8 DEF CreateRemote, Fresh
<1>9. CASE SaveLocal
  BY <1>9 DEF SaveLocal
<1>10. ASSUME NEW i \in Ids, LookupLifecycle(i) PROVE Goal
  BY <1>10 DEF LookupLifecycle
<1>11. ASSUME NEW i \in Ids, Land(i) PROVE Goal
  BY <1>11 DEF Land
<1>12. ASSUME NEW i \in Ids, RemoteLost(i) PROVE Goal
  BY <1>12 DEF RemoteLost
<1>13. CASE RefreshLifecycle
  BY <1>13 DEF RefreshLifecycle
<1>14. CASE Crash
  BY <1>14 DEF Crash
<1>15. CASE MissRun
  BY <1>15 DEF MissRun
<1>16. CASE ChangeSecret
  BY <1>16 DEF ChangeSecret
<1>17. CASE Replicate
  BY <1>17 DEF Replicate
<1>18. CASE Tick
  BY <1>18 DEF Tick
<1>19. CASE UNCHANGED vars
  BY <1>19 DEF vars
<1> QED
  BY <1>1, <1>2, <1>3, <1>4, <1>5, <1>6, <1>7, <1>8, <1>9, <1>10, <1>11, <1>12, <1>13,
     <1>14, <1>15, <1>16, <1>17, <1>18, <1>19 DEF Next, Monitor

(* Whatever state earlier faults have left, a run of the job during which  *)
(* nothing fails ends with one subscription open and on record (monitor.go,*)
(* runMonitoringSystemJob): the reason why Converges holds.                *)
THEOREM FaultFreeRun ==
    ASSUME ~DelayedLanding
    PROVE  Spec => [][OnTrack /\ faults' = faults =>
                         OnTrack' /\ (pc # "idle" /\ pc' = "idle" => Healthy')]_vars
<1>1. IInv /\ [Next]_vars =>
         [OnTrack /\ faults' = faults => OnTrack' /\ (pc # "idle" /\ pc' = "idle" => Healthy')]_vars
  BY OnTrackStep
<1> QED
  BY Invariant, <1>1, PTL DEF Spec

(* A run starts on track.                                                  *)
LEMMA StartsOnTrack == Start => OnTrack'
BY DEF Start, OnTrack, Goto

(* The calls a run still has ahead at most, the one it is at included.     *)
Calls == [idle |-> 0, save |-> 1, create |-> 2, forget |-> 3, drop |-> 4,
          update |-> 5, refresh |-> 6, local |-> 7, list |-> 8]

(* A run is at most eight calls, each brings it nearer its end, and nothing*)
(* else delays it (monitor.go, runMonitoringSystemJob): that is why a run  *)
(* may be taken to fit between two minutes (Tick).                         *)
THEOREM RunEnds ==
    Spec => [][/\ Calls[pc] \in 0..8
               /\ pc # "idle" => Calls[pc'] < Calls[pc] \/ UNCHANGED monitorVars
               /\ Monitor /\ ~Start => Calls[pc'] < Calls[pc]]_vars
<1> DEFINE Nearer == /\ Calls[pc] \in 0..8
                     /\ pc # "idle" => Calls[pc'] < Calls[pc] \/ UNCHANGED monitorVars
                     /\ Monitor /\ ~Start => Calls[pc'] < Calls[pc]
<1>1. TypeOK /\ [Next]_vars => [Nearer]_vars
  <2> SUFFICES ASSUME TypeOK, [Next]_vars PROVE Nearer
    OBVIOUS
  <2>1. Calls[pc] \in 0..8
    BY DEF TypeOK, Calls
  <2>2. ASSUME Monitor /\ ~Start PROVE Calls[pc'] < Calls[pc]
    BY <2>2 DEF Monitor, ListRemote, ReadLocal, NextStep, WithoutRemote, DropRemote,
       RefreshRemote, UpdateLocal, ForgetLocal, CreateRemote, SaveLocal, Goto, Return, Calls
  <2>3. pc # "idle" => ~Start /\ (Crash => Calls[pc'] < Calls[pc])
    BY DEF Start, Crash, Return, Calls, TypeOK
  <2>4. pc # "idle" /\ ~Monitor /\ ~Crash => UNCHANGED monitorVars
    BY DEF Next, vars, LookupLifecycle, Land, RemoteLost, RefreshLifecycle, MissRun,
       ChangeSecret, Replicate, Tick
  <2> QED
    BY <2>1, <2>2, <2>3, <2>4
<1> QED
  BY Typing, <1>1, PTL DEF Spec

-----------------------------------------------------------------------------
(* No step without a fault takes the settled state away.                   *)
LEMMA SettledStep ==
    ASSUME RefreshLimit >= MaxFaults + 2, TypeOK, Listed, Budget, [Next]_vars, Settled,
           faults' = faults
    PROVE  Settled'
<1> USE TimesAssumption, IdsAssumption
    DEF TypeOK, Listed, Settled, Healthy, Fault, NoFault, Goto, Return, Put, Live, View,
        graphVars, monitorVars
<1>1. CASE Start
  BY <1>1 DEF Start
<1>2. CASE ListRemote
  BY <1>2 DEF ListRemote
<1>3. CASE ReadLocal
  BY <1>3 DEF ReadLocal, NextStep, WithoutRemote
<1>4. CASE DropRemote
  BY <1>4 DEF DropRemote, WithoutRemote
<1>5. CASE RefreshRemote
  BY <1>5 DEF RefreshRemote
<1>6. CASE UpdateLocal
  BY <1>6 DEF UpdateLocal
<1>7. CASE ForgetLocal
  BY <1>7 DEF ForgetLocal
<1>8. CASE CreateRemote
  BY <1>8 DEF CreateRemote, Fresh
<1>9. CASE SaveLocal
  BY <1>9 DEF SaveLocal
<1>10. ASSUME NEW i \in Ids, LookupLifecycle(i) PROVE Settled'
  BY <1>10 DEF LookupLifecycle
<1>11. ASSUME NEW i \in Ids, Land(i) PROVE Settled'
  BY <1>11 DEF Land
<1>12. ASSUME NEW i \in Ids, RemoteLost(i) PROVE Settled'
  BY <1>12 DEF RemoteLost
<1>13. CASE RefreshLifecycle
  BY <1>13 DEF RefreshLifecycle
<1>14. CASE Crash
  BY <1>14 DEF Crash
<1>15. CASE MissRun
  BY <1>15 DEF MissRun
<1>16. CASE ChangeSecret
  BY <1>16 DEF ChangeSecret
<1>17. CASE Replicate
  BY <1>17 DEF Replicate
<1>18. CASE Tick
  <2>1. \A i \in local : remote[i] # 1
    BY <1>18, NoneExpires
  <2> QED
    BY <1>18, <2>1 DEF Tick
<1>19. CASE UNCHANGED vars
  BY <1>19 DEF vars
<1> QED
  BY <1>1, <1>2, <1>3, <1>4, <1>5, <1>6, <1>7, <1>8, <1>9, <1>10, <1>11, <1>12, <1>13,
     <1>14, <1>15, <1>16, <1>17, <1>18, <1>19 DEF Next, Monitor

(* Once one subscription is open and on record only a fault can change     *)
(* that: time does not, nor do runs of the job or lifecycle events (the    *)
(* "for good" of Converges).                                               *)
THEOREM SettledStays ==
    ASSUME ~(Lag /\ DelayedLanding), RefreshLimit <= Lifetime, MaxFaults + 2 <= RefreshLimit
    PROVE  Spec => [][Settled /\ faults' = faults => Settled']_vars
<1>1. Kept /\ [Next]_vars => [Settled /\ faults' = faults => Settled']_vars
  BY SettledStep, TimesAssumption DEF Kept
<1> QED
  BY KeptInvariant, <1>1, PTL DEF Spec
=============================================================================
