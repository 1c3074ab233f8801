--------------------------- MODULE Subscriptions ----------------------------
(***************************************************************************)
(* The monitor job (monitor.go, subscriptions.go) that keeps exactly one   *)
(* change-notification subscription open at Microsoft Graph and on record  *)
(* in the database, and the lifecycle handler (handlers.go) that refreshes *)
(* a subscription when Graph asks for it.                                  *)
(*                                                                         *)
(* The job runs once a minute on one node of the cluster at a time; time   *)
(* passes in minutes (Tick). Calls to Graph and to the database may fail   *)
(* before or after taking effect, a node may stop in the middle of a run,  *)
(* a run may be missed (restart, failover, the delay after startup) and    *)
(* Graph may drop a subscription: together at most MaxFaults times. With   *)
(* DelayedLanding a creation that timed out may still be carried out later.*)
(***************************************************************************)
EXTENDS Naturals, FiniteSets

CONSTANTS
    Ids,            \* subscription identifiers, reused once nothing holds them
    Secrets,        \* webhook secrets
    Lifetime,       \* minutes a subscription lives after a refresh (120 in the code)
    RefreshLimit,   \* refresh with fewer minutes left than this (5 in the code)
    MaxFaults,      \* bound on the number of faults
    Lag,            \* database reads may be behind the master
    DelayedLanding, \* a timed-out creation may land later
    None

ASSUME IdsAssumption   == None \notin Ids
ASSUME TimesAssumption == Lifetime \in Nat \ {0} /\ RefreshLimit \in Nat /\ MaxFaults \in Nat
ASSUME ModesAssumption == Lag \in BOOLEAN /\ DelayedLanding \in BOOLEAN

VARIABLES
    remote,      \* Graph: minutes each subscription has left, 0 if there is none
    clientState, \* Graph: the secret each subscription was created with
    inflight,    \* creations that timed out and are still under way
    local,       \* rows of type allChats in the subscriptions table
    replica,     \* those rows as the replica has them
    secret,      \* setting WebhookSecret, as the monitor was started with
    pc,          \* the monitor's next call
    rsub, lsub,  \* the monitor's remoteSubscription and localSubscription
    left,        \* minutes rsub had left when it was listed
    handling,    \* the subscription a lifecycle handler is about to refresh
    run,         \* this minute's run is "due", or "done" once started or missed
    faults       \* faults so far

monitorVars == <<pc, rsub, lsub, left>>
graphVars == <<remote, clientState, inflight>>
vars == <<graphVars, local, replica, secret, monitorVars, handling, run, faults>>

Live == {i \in Ids : remote[i] > 0}
View == IF Lag THEN replica ELSE local

TypeOK ==
    /\ remote \in [Ids -> 0..Lifetime]
    /\ clientState \in [Ids -> Secrets]
    /\ inflight \in SUBSET Ids
    /\ local \in SUBSET Ids /\ replica \in SUBSET Ids
    /\ secret \in Secrets
    /\ pc \in {"idle", "list", "local", "drop", "refresh", "update", "forget", "create", "save"}
    /\ rsub \in Ids \cup {None} /\ lsub \in Ids \cup {None}
    /\ left \in 0..Lifetime
    /\ handling \in Ids \cup {None}
    /\ run \in {"due", "done"}
    /\ faults \in 0..MaxFaults

Init ==
    /\ remote = [i \in Ids |-> 0]
    /\ inflight = {} /\ local = {} /\ replica = {}
    /\ secret \in Secrets
    /\ clientState = [i \in Ids |-> secret]
    /\ pc = "idle" /\ rsub = None /\ lsub = None /\ left = 0
    /\ handling = None /\ run = "due" /\ faults = 0

-----------------------------------------------------------------------------
Fault == faults < MaxFaults /\ faults' = faults + 1
NoFault == faults' = faults

Goto(l) == pc' = l /\ UNCHANGED <<rsub, lsub, left>>
Return == pc' = "idle" /\ rsub' = None /\ lsub' = None /\ left' = 0

(* Mutant: with no local row either, goes on to save what was not created. *)
SaveNothing(l) == IF l # None THEN "forget" ELSE "save"

(* Once rsub is gone: forget the local row, if any, then start from scratch. *)
WithoutRemote(l) == IF l # None THEN "forget" ELSE "create"

Put(i, minutes) == remote' = [remote EXCEPT ![i] = minutes]

(* The minute's run of the job.                                            *)
Start ==
    /\ pc = "idle" /\ run = "due"
    /\ run' = "done"
    /\ Goto("list")
    /\ UNCHANGED <<graphVars, local, replica, secret, handling, faults>>

(* Mutant: the expiry is not read, every listed subscription passes for new. *)
ListAsFresh ==
    /\ pc = "list"
    /\ \/ /\ NoFault
          /\ rsub' \in (IF Live = {} THEN {None} ELSE Live)
          /\ left' = Lifetime /\ pc' = "local" /\ UNCHANGED lsub
       \/ Fault /\ Return
    /\ UNCHANGED <<graphVars, local, replica, secret, handling, run>>

(* getMSTeamsSubscriptionsMap: of several all-chats subscriptions the one  *)
(* listed last is taken, in an order Graph does not promise.               *)
ListRemote ==
    /\ pc = "list"
    /\ \/ /\ NoFault
          /\ IF Live = {} THEN rsub' = None /\ left' = 0
             ELSE \E i \in Live : rsub' = i /\ left' = remote[i]
          /\ pc' = "local" /\ UNCHANGED lsub
       \/ Fault /\ Return
    /\ UNCHANGED <<graphVars, local, replica, secret, handling, run>>

(* Mutant: a row whose subscription is gone is left alone.                 *)
KeepDeadRow(l) ==
    IF rsub = None THEN (IF l = None THEN "create" ELSE "idle")
    ELSE IF rsub # l THEN "drop"
    ELSE IF left < RefreshLimit THEN "refresh" ELSE "idle"

(* What is to be done about rsub and a local row l.                        *)
NextStep(l) ==
    IF rsub = None THEN WithoutRemote(l)
    ELSE IF rsub # l THEN "drop"
    ELSE IF left < RefreshLimit THEN "refresh" ELSE "idle"

(* store.ListGlobalSubscriptions: any first row will do.                   *)
ReadLocal ==
    /\ pc = "local"
    /\ \/ /\ NoFault
          /\ \E l \in IF View = {} THEN {None} ELSE View :
                IF NextStep(l) = "idle" THEN Return
                ELSE lsub' = l /\ pc' = NextStep(l) /\ UNCHANGED <<rsub, left>>
       \/ Fault /\ Return
    /\ UNCHANGED <<graphVars, local, replica, secret, handling, run>>

(* Mutant: an error of the deletion is logged and the run goes on.         *)
DropRegardless ==
    /\ pc = "drop"
    /\ \/ NoFault /\ rsub \in Live /\ Put(rsub, 0)
       \/ NoFault /\ rsub \notin Live /\ UNCHANGED remote
       \/ Fault /\ (Put(rsub, 0) \/ UNCHANGED remote)
    /\ rsub' = None /\ pc' = WithoutRemote(lsub) /\ UNCHANGED <<lsub, left>>
    /\ UNCHANGED <<clientState, inflight, local, replica, secret, handling, run>>

(* client.DeleteSubscription, of a subscription that has no local row or   *)
(* could not be refreshed. Deleting one that is already gone is an error.  *)
DropRemote ==
    /\ pc = "drop"
    /\ \/ /\ NoFault /\ rsub \in Live
          /\ Put(rsub, 0)
          /\ rsub' = None /\ pc' = WithoutRemote(lsub) /\ UNCHANGED <<lsub, left>>
       \/ NoFault /\ rsub \notin Live /\ Return /\ UNCHANGED remote
       \/ Fault /\ Return /\ (Put(rsub, 0) \/ UNCHANGED remote)
    /\ UNCHANGED <<clientState, inflight, local, replica, secret, handling, run>>

(* Mutant: what could not be refreshed is taken for gone.                  *)
RefreshOrForget ==
    /\ pc = "refresh"
    /\ \/ NoFault /\ rsub \in Live /\ Put(rsub, Lifetime) /\ Goto("update")
       \/ /\ (NoFault /\ rsub \notin Live) \/ Fault
          /\ rsub' = None /\ pc' = "forget" /\ UNCHANGED <<lsub, left, remote>>
    /\ UNCHANGED <<clientState, inflight, local, replica, secret, handling, run>>

(* client.RefreshSubscription.                                             *)
RefreshRemote ==
    /\ pc = "refresh"
    /\ \/ NoFault /\ rsub \in Live /\ Put(rsub, Lifetime) /\ Goto("update")
       \/ NoFault /\ rsub \notin Live /\ Goto("drop") /\ UNCHANGED remote
       \/ /\ Fault /\ Goto("drop")
          /\ UNCHANGED remote \/ (rsub \in Live /\ Put(rsub, Lifetime))
    /\ UNCHANGED <<clientState, inflight, local, replica, secret, handling, run>>

(* store.UpdateSubscriptionExpiresOn. The column is never read back for a  *)
(* decision and is left out; a failed update counts as a failed refresh.   *)
UpdateLocal ==
    /\ pc = "update"
    /\ \/ NoFault /\ Return
       \/ Fault /\ Goto("drop")
    /\ UNCHANGED <<graphVars, local, replica, secret, handling, run>>

(* store.DeleteSubscription.                                               *)
ForgetLocal ==
    /\ pc = "forget"
    /\ \/ /\ NoFault
          /\ local' = local \ {lsub}
          /\ lsub' = None /\ pc' = "create" /\ UNCHANGED <<rsub, left>>
       \/ Fault /\ Return /\ local' \in {local, local \ {lsub}}
    /\ UNCHANGED <<graphVars, replica, secret, handling, run>>

Fresh(i) == /\ i \notin Live \cup inflight \cup local \cup replica
            /\ i \notin {rsub, lsub, handling}

(* client.SubscribeToChats with the monitor's secret as client state.      *)
CreateRemote ==
    /\ pc = "create"
    /\ \E i \in Ids :
          /\ Fresh(i)
          /\ clientState' = [clientState EXCEPT ![i] = secret]
          /\ \/ /\ NoFault /\ Put(i, Lifetime) /\ UNCHANGED inflight
                /\ rsub' = i /\ pc' = "save" /\ UNCHANGED <<lsub, left>>
             \/ Fault /\ Return /\ (Put(i, Lifetime) \/ UNCHANGED remote) /\ UNCHANGED inflight
             \/ /\ DelayedLanding /\ Fault /\ Return
                /\ inflight' = inflight \cup {i} /\ UNCHANGED remote
    /\ UNCHANGED <<local, replica, secret, handling, run>>

(* store.SaveGlobalSubscription: in one transaction every row of the type  *)
(* goes and the new one comes.                                             *)
SaveLocal ==
    /\ pc = "save"
    /\ \/ NoFault /\ local' = {rsub}
       \/ Fault /\ local' \in {local, {rsub}}
    /\ Return
    /\ UNCHANGED <<graphVars, replica, secret, handling, run>>

-----------------------------------------------------------------------------
(* HandleLifecycleEvent: a reauthorizationRequired event for i comes in.   *)
(* An unknown i is ignored, unless the lookup itself failed.               *)
LookupLifecycle(i) ==
    /\ handling = None
    /\ (i \in View /\ NoFault) \/ Fault
    /\ handling' = i
    /\ UNCHANGED <<graphVars, local, replica, secret, monitorVars, run>>

RefreshLifecycle ==
    /\ handling # None
    /\ \/ NoFault /\ handling \in Live /\ Put(handling, Lifetime)
       \/ NoFault /\ handling \notin Live /\ UNCHANGED remote
       \/ Fault /\ UNCHANGED remote
    /\ handling' = None
    /\ UNCHANGED <<clientState, inflight, local, replica, secret, monitorVars, run>>

-----------------------------------------------------------------------------
(* A creation given up by the monitor is carried out.                      *)
Land(i) ==
    /\ i \in inflight
    /\ inflight' = inflight \ {i}
    /\ Put(i, Lifetime)
    /\ UNCHANGED <<clientState, local, replica, secret, monitorVars, handling, run, faults>>

(* Graph drops a subscription.                                             *)
RemoteLost(i) ==
    /\ i \in Live /\ Fault /\ Put(i, 0)
    /\ UNCHANGED <<clientState, inflight, local, replica, secret, monitorVars, handling, run>>

(* The node running the job stops.                                         *)
Crash ==
    /\ pc # "idle" /\ Fault /\ Return
    /\ UNCHANGED <<graphVars, local, replica, secret, handling, run>>

(* No run this minute: the job is changing nodes or within one minute of   *)
(* the start of the plugin.                                                *)
MissRun ==
    /\ pc = "idle" /\ run = "due" /\ Fault
    /\ run' = "done"
    /\ UNCHANGED <<graphVars, local, replica, secret, monitorVars, handling>>

(* An administrator regenerates the webhook secret; the monitor is stopped *)
(* between two runs and a new one started, which misses its first run.     *)
ChangeSecret ==
    /\ pc = "idle" /\ Fault
    /\ secret' \in Secrets \ {secret}
    /\ run' = "done"
    /\ UNCHANGED <<graphVars, local, replica, monitorVars, handling>>

Replicate ==
    /\ Lag /\ replica # local
    /\ replica' = local
    /\ UNCHANGED <<graphVars, local, secret, monitorVars, handling, run, faults>>

(* A minute passes. A run takes less than that.                            *)
Tick ==
    /\ pc = "idle" /\ run = "done"
    /\ remote' = [i \in Ids |-> IF remote[i] = 0 THEN 0 ELSE remote[i] - 1]
    /\ run' = "due"
    /\ UNCHANGED <<clientState, inflight, local, replica, secret, monitorVars, handling, faults>>

Monitor ==
    \/ Start \/ ListRemote \/ ReadLocal \/ DropRemote \/ RefreshRemote \/ UpdateLocal
    \/ ForgetLocal \/ CreateRemote \/ SaveLocal

Next ==
    \/ Monitor
    \/ \E i \in Ids : LookupLifecycle(i) \/ Land(i) \/ RemoteLost(i)
    \/ RefreshLifecycle \/ Crash \/ MissRun \/ ChangeSecret \/ Replicate \/ Tick

Spec == Init /\ [][Next]_vars

(* The job is scheduled every minute, its calls return, time passes and    *)
(* the replica catches up. Faults are bounded, so they stop.               *)
FairSpec ==
    /\ Spec
    /\ WF_vars(Monitor) /\ WF_vars(Tick) /\ WF_vars(Replicate) /\ WF_vars(RefreshLifecycle)

-----------------------------------------------------------------------------
(* Never are two subscriptions open, which would notify every message      *)
(* twice: whatever fails, the monitor closes what it finds before it opens *)
(* another.                                                                *)
SingleRemote == \A i, j \in Live : i = j

(* A row leaves the table only once its subscription is closed             *)
(* (subscriptions.go: "We either deleted it above or it was deleted        *)
(* remotely"): an open subscription is never forgotten.                    *)
ForgetOnlyDead == [][\A i \in local \ local' : i \notin Live]_vars

(* A recorded subscription never runs out of time: the monitor's attempts  *)
(* to refresh it outnumber the faults.                                     *)
NoExpiry == [][Tick => \A i \in local : remote[i] # 1]_vars

(* When faults stop, one subscription is open and on record, for good -    *)
(* unless a creation that landed late ever left two open.                  *)
Healthy == \E i \in Ids : local = {i} /\ Live = {i}
Converges == []SingleRemote => <>[]Healthy
=============================================================================
