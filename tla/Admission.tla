----------------------------- MODULE Admission ------------------------------
(***************************************************************************)
(* Who may connect an account: the invitation flow (connect.go) and the    *)
(* second half of the OAuth callback (api.go), run by request goroutines   *)
(* of any node of the cluster under one cluster-wide mutex, over three     *)
(* tables: users that have ever connected, pending invitations, whitelist. *)
(*                                                                         *)
(* Writes go to the master database. The reads of both flows are annotated *)
(* "db:withReplica": with Lag they see a snapshot of the master taken some *)
(* time ago, without it the master itself. With Faults any call of a       *)
(* handler may fail and any node may stop between two calls; the mutex is  *)
(* then released (by the deferred Unlock, or when its lease runs out).     *)
(***************************************************************************)
EXTENDS Naturals, FiniteSets

CONSTANTS
    Users,       \* Mattermost users
    Procs,       \* request goroutines, over all nodes
    Allowed,     \* setting ConnectedUsersAllowed
    MaxPending,  \* setting ConnectedUsersMaxPendingInvites
    Restricted,  \* setting ConnectedUsersRestricted
    Lag,         \* the replica may be behind the master
    Faults,      \* calls may fail and nodes may stop
    None         \* no process, no user

ASSUME UsersAssumption  == IsFiniteSet(Users) /\ None \notin Users
ASSUME ProcsAssumption  == None \notin Procs
ASSUME LimitsAssumption == Allowed \in Nat /\ MaxPending \in Nat
ASSUME FlagsAssumption  == Restricted \in BOOLEAN /\ Lag \in BOOLEAN /\ Faults \in BOOLEAN

VARIABLES
    connected,   \* rows of the users table with lastConnectAt # 0
    invited,     \* rows of the invited-users table
    whitelist,   \* rows of the whitelist table
    replica,     \* the snapshot of the three tables reads see under Lag
    lock,        \* holder of connectClusterMutex
    pc,          \* the next call of each process
    kind,        \* what each process runs: an "invite" check or a "callback"
    user,        \* the user of each process's request
    count,       \* nConnected, as each process has read it
    sent,        \* history: users with an invite message that no fault kept off the record
    eligible,    \* history: users whitelisted, or so the replica has it, since lock was taken
    kept         \* history: users who have connected and whose invitation a fault left in place

tables == <<connected, invited, whitelist>>
vars == <<connected, invited, whitelist, replica, lock, pc, kind, user, count, sent, eligible,
          kept>>

Labels == {"idle", "lock", "hasConnected", "getInvited", "whitelisted", "countConnected",
           "countInvited", "deny", "send", "storeInvited", "dropWhitelist",
           "setUserInfo", "setPreference", "deleteInvite", "deleteWhitelist"}

Snapshot == [connected |-> connected, invited |-> invited, whitelist |-> whitelist]
View == IF Lag THEN replica ELSE Snapshot

TypeOK ==
    /\ connected \in SUBSET Users
    /\ invited \in SUBSET Users
    /\ whitelist \in SUBSET Users
    /\ replica \in [connected : SUBSET Users, invited : SUBSET Users, whitelist : SUBSET Users]
    /\ lock \in Procs \cup {None}
    /\ pc \in [Procs -> Labels]
    /\ kind \in [Procs -> {"invite", "callback"}]
    /\ user \in [Procs -> Users \cup {None}]
    /\ count \in [Procs -> Nat]
    /\ sent \in SUBSET Users
    /\ eligible \in SUBSET Users
    /\ kept \in SUBSET Users

Init ==
    /\ connected = {} /\ invited = {} /\ whitelist = {}
    /\ replica = Snapshot
    /\ lock = None
    /\ pc = [p \in Procs |-> "idle"]
    /\ kind = [p \in Procs |-> "invite"]
    /\ user = [p \in Procs |-> None]
    /\ count = [p \in Procs |-> 0]
    /\ sent = {} /\ eligible = {} /\ kept = {}

-----------------------------------------------------------------------------
(* Control. A process keeps its request and what it has read until it      *)
(* returns; every return releases the mutex (defer Unlock).                *)

At(p, l) == pc[p] = l
Goto(p, l) ==
    /\ pc' = [pc EXCEPT ![p] = l]
    /\ UNCHANGED <<lock, user, kind>>

(* Mutant: a return path that leaves the mutex locked.                     *)
UnlockForgotten(p) == lock' = lock

Unlock(p) == lock' = None

Return(p) ==
    /\ pc' = [pc EXCEPT ![p] = "idle"]
    /\ user' = [user EXCEPT ![p] = None]
    /\ kind' = [kind EXCEPT ![p] = "invite"]
    /\ count' = [count EXCEPT ![p] = 0]
    /\ Unlock(p)

Reading == UNCHANGED <<connected, invited, whitelist, replica, sent, eligible, kept>>

(* A request comes in. An invite check is over before the mutex when       *)
(* invitations are turned off; a callback has got its token and passed the *)
(* checks made before the mutex.                                           *)
Begin(p) ==
    /\ At(p, "idle")
    /\ \E u \in Users, k \in {"invite", "callback"} :
          /\ k = "invite" => MaxPending # 0
          /\ user' = [user EXCEPT ![p] = u]
          /\ kind' = [kind EXCEPT ![p] = k]
    /\ pc' = [pc EXCEPT ![p] = "lock"]
    /\ UNCHANGED <<lock, count>> /\ Reading

(* Mutant: the mutex is per node, so two nodes may both take it.           *)
AcquireLocally(p) ==
    /\ At(p, "lock")
    /\ lock' = p
    /\ pc' = [pc EXCEPT ![p] = "hasConnected"]
    /\ eligible' = whitelist \cup View.whitelist
    /\ UNCHANGED <<connected, invited, whitelist, replica, kind, user, count, sent, kept>>

Acquire(p) ==
    /\ At(p, "lock") /\ lock = None
    /\ lock' = p
    /\ pc' = [pc EXCEPT ![p] = "hasConnected"]
    /\ eligible' = whitelist \cup View.whitelist
    /\ UNCHANGED <<connected, invited, whitelist, replica, kind, user, count, sent, kept>>

(* store.UserHasConnected: such a user needs no invitation and has the     *)
(* right to connect again.                                                 *)
UserHasConnected(p) ==
    /\ At(p, "hasConnected")
    /\ \/ /\ user[p] \in View.connected
          /\ \/ kind[p] = "invite" /\ Return(p)
             \/ kind[p] = "callback" /\ Goto(p, "setUserInfo") /\ UNCHANGED count
       \/ user[p] \notin View.connected /\ Goto(p, "getInvited") /\ UNCHANGED count
    /\ Reading

(* Mutant: a pending invitation gives no right to connect.                 *)
InviteGivesNoRight(p) ==
    /\ At(p, "getInvited")
    /\ \/ user[p] \in View.invited /\ kind[p] = "invite" /\ Return(p)
       \/ /\ user[p] \notin View.invited \/ kind[p] = "callback"
          /\ Goto(p, IF kind[p] = "invite" /\ Restricted THEN "whitelisted" ELSE "countConnected")
          /\ UNCHANGED count
    /\ Reading

(* store.GetInvitedUser: an invitation is sent only once, and it gives the *)
(* right to connect.                                                       *)
GetInvitedUser(p) ==
    /\ At(p, "getInvited")
    /\ \/ /\ user[p] \in View.invited
          /\ \/ kind[p] = "invite" /\ Return(p)
             \/ kind[p] = "callback" /\ Goto(p, "setUserInfo") /\ UNCHANGED count
       \/ /\ user[p] \notin View.invited
          /\ Goto(p, IF kind[p] = "invite" /\ Restricted THEN "whitelisted" ELSE "countConnected")
          /\ UNCHANGED count
    /\ Reading

(* store.IsUserWhitelisted: before the counts when inviting, after them in *)
(* a callback.                                                             *)
IsUserWhitelisted(p) ==
    /\ At(p, "whitelisted")
    /\ \/ /\ user[p] \in View.whitelist
          /\ Goto(p, IF kind[p] = "invite" THEN "countConnected" ELSE "setUserInfo")
          /\ UNCHANGED count
       \/ /\ user[p] \notin View.whitelist
          /\ \/ kind[p] = "invite" /\ Return(p)
             \/ kind[p] = "callback" /\ Goto(p, "deny") /\ UNCHANGED count
    /\ Reading

GetHasConnectedCount(p) ==
    /\ At(p, "countConnected")
    /\ count' = [count EXCEPT ![p] = Cardinality(View.connected)]
    /\ Goto(p, "countInvited")
    /\ Reading

(* Mutants: an off-by-one in each limit; pending invitations not counted.  *)
HasRoomOffByOne(p) == count[p] + Cardinality(View.invited) <= Allowed
HasRoomUncounted(p) == count[p] < Allowed
BelowPendingOffByOne == Cardinality(View.invited) <= MaxPending

(* Seats left, from the two counts (the second one being read now).        *)
HasRoom(p) == count[p] + Cardinality(View.invited) < Allowed
BelowPending == Cardinality(View.invited) < MaxPending

(* Mutant: a callback is not held to the whitelist.                        *)
CallbackUnrestricted(p) ==
    /\ At(p, "countInvited")
    /\ \/ kind[p] = "invite" /\ HasRoom(p) /\ BelowPending /\ Goto(p, "send") /\ UNCHANGED count
       \/ kind[p] = "invite" /\ Return(p)
       \/ /\ kind[p] = "callback"
          /\ Goto(p, IF HasRoom(p) THEN "setUserInfo" ELSE "deny")
          /\ UNCHANGED count
    /\ Reading

(* store.GetInvitedCount and the decision. No invitation goes out on a     *)
(* weekend (shouldSendInviteMessage): a choice here. In a callback that    *)
(* finds no room the whitelist is still read, to no effect.                *)
GetInvitedCount(p) ==
    /\ At(p, "countInvited")
    /\ \/ /\ kind[p] = "invite"
          /\ \/ HasRoom(p) /\ BelowPending /\ Goto(p, "send") /\ UNCHANGED count
             \/ Return(p)
       \/ /\ kind[p] = "callback"
          /\ Goto(p, IF ~HasRoom(p) THEN "deny"
                     ELSE IF Restricted THEN "whitelisted" ELSE "setUserInfo")
          /\ UNCHANGED count
    /\ Reading

-----------------------------------------------------------------------------
(* The rest of MaybeSendInviteMessage.                                     *)

SendInviteMessage(p) ==
    /\ At(p, "send")
    /\ sent' = sent \cup {user[p]}
    /\ Goto(p, "storeInvited")
    /\ UNCHANGED <<connected, invited, whitelist, replica, count, eligible, kept>>

(* Mutant: the row is written from the request after it was cleared.       *)
StoreCleared(p) ==
    /\ At(p, "storeInvited")
    /\ Return(p)
    /\ invited' = invited \cup {user'[p]}
    /\ UNCHANGED <<connected, whitelist, replica, sent, eligible, kept>>

(* store.StoreInvitedUser is two statements, not one transaction: the row  *)
(* is upserted, then the user leaves the whitelist.                        *)
StoreInvitedUser(p) ==
    /\ At(p, "storeInvited")
    /\ invited' = invited \cup {user[p]}
    /\ Goto(p, "dropWhitelist")
    /\ UNCHANGED <<connected, whitelist, replica, count, sent, eligible, kept>>

DropFromWhitelist(p) ==
    /\ At(p, "dropWhitelist")
    /\ whitelist' = whitelist \ {user[p]}
    /\ Return(p)
    /\ UNCHANGED <<connected, invited, replica, sent, eligible, kept>>

-----------------------------------------------------------------------------
(* The rest of oauthRedirectHandler.                                       *)

(* SetUserInfo(user, nil): the row, if any, loses its token and keeps its  *)
(* lastConnectAt, so the user's seat is untouched.                         *)
Deny(p) ==
    /\ At(p, "deny")
    /\ Return(p)
    /\ Reading

SetUserInfo(p) ==
    /\ At(p, "setUserInfo")
    /\ connected' = connected \cup {user[p]}
    /\ Goto(p, "setPreference")
    /\ UNCHANGED <<invited, whitelist, replica, count, sent, eligible, kept>>

(* setNotificationPreference: its failure ends the handler (Fail).         *)
SetPreference(p) ==
    /\ At(p, "setPreference")
    /\ Goto(p, "deleteInvite")
    /\ UNCHANGED count /\ Reading

(* Mutant: connecting leaves the invitation pending.                       *)
KeepInvite(p) ==
    /\ At(p, "deleteInvite")
    /\ Goto(p, "deleteWhitelist")
    /\ UNCHANGED <<connected, invited, whitelist, replica, count, sent, eligible, kept>>

(* The invitation of p's user, if any. NoDoubleCount is not stated under   *)
(* Lag, so no account is kept of it there.                                 *)
LeftInPlace(p) == {u \in invited : u = user[p] /\ ~Lag}

(* store.DeleteUserInvite: a failure is only logged.                       *)
DeleteUserInvite(p) ==
    /\ At(p, "deleteInvite")
    /\ \/ invited' = invited \ {user[p]} /\ kept' = kept \ {user[p]}
       \/ Faults /\ UNCHANGED invited /\ kept' = kept \cup LeftInPlace(p)
    /\ Goto(p, "deleteWhitelist")
    /\ UNCHANGED <<connected, whitelist, replica, count, sent, eligible>>

DeleteUserFromWhitelist(p) ==
    /\ At(p, "deleteWhitelist")
    /\ whitelist' \in {whitelist \ {user[p]}} \cup (IF Faults THEN {whitelist} ELSE {})
    /\ Return(p)
    /\ UNCHANGED <<connected, invited, replica, sent, eligible, kept>>

-----------------------------------------------------------------------------
(* A call of p fails without effect, or p's node stops: p does no more. It *)
(* leaves a message off the record, or an invitation in place.             *)
Fail(p) ==
    /\ Faults /\ ~At(p, "idle") /\ ~At(p, "lock")
    /\ sent' = IF At(p, "storeInvited") THEN sent \ {user[p]} ELSE sent
    /\ kept' = IF At(p, "setPreference") \/ At(p, "deleteInvite")
               THEN kept \cup LeftInPlace(p) ELSE kept
    /\ Return(p)
    /\ UNCHANGED <<connected, invited, whitelist, replica, eligible>>

(* An administrator uploads a whitelist; the mutex is not taken.           *)
SetWhitelist ==
    /\ \E W \in SUBSET Users :
          /\ whitelist' = W
          /\ eligible' = eligible \cup W
    /\ UNCHANGED <<connected, invited, replica, lock, pc, kind, user, count, sent, kept>>

(* The replica catches up.                                                 *)
Replicate ==
    /\ Lag
    /\ replica' = Snapshot
    /\ UNCHANGED <<connected, invited, whitelist, lock, pc, kind, user, count, sent,
                   eligible, kept>>

Step(p) ==
    \/ UserHasConnected(p) \/ GetInvitedUser(p) \/ IsUserWhitelisted(p)
    \/ GetHasConnectedCount(p) \/ GetInvitedCount(p)
    \/ SendInviteMessage(p) \/ StoreInvitedUser(p) \/ DropFromWhitelist(p)
    \/ Deny(p) \/ SetUserInfo(p) \/ SetPreference(p)
    \/ DeleteUserInvite(p) \/ DeleteUserFromWhitelist(p)

Next ==
    \/ \E p \in Procs : Begin(p) \/ Acquire(p) \/ Step(p) \/ Fail(p)
    \/ SetWhitelist
    \/ Replicate

Spec == Init /\ [][Next]_vars

(* A goroutine that holds the mutex is scheduled and its calls return. The *)
(* mutex itself is not fair: contenders poll, so none is sure to get it.   *)
FairSpec == Spec /\ \A p \in Procs : WF_vars(Step(p))

-----------------------------------------------------------------------------
Seats == connected \cup invited

(* No more users hold a seat, taken or reserved, than the setting allows.  *)
(* The decision is made some calls before the row is written.              *)
CapRespected == Cardinality(Seats) <= Allowed

(* No more invitations are pending than the setting allows.                *)
PendingCapRespected == Cardinality(invited) <= MaxPending

(* Whoever counts while the mutex is free counts every seat once: a user   *)
(* who connected no longer has the invitation pending, unless its deletion *)
(* failed.                                                                 *)
NoDoubleCount == lock = None => connected \cap invited \subseteq kept

(* No user gets a second invite message (connect.go: "only send once"),    *)
(* unless the first one could not be recorded.                             *)
InviteOnce == [][\A p \in Procs : SendInviteMessage(p) => user[p] \notin sent]_vars

(* In restricted mode a new seat goes to a user who was on the whitelist,  *)
(* or on the replica's copy of it, at some time while the process that     *)
(* gives it held the mutex, whatever is uploaded meanwhile.                *)
WhitelistGate == [][Restricted => Seats' \ Seats \subseteq eligible]_vars

(* A callback is turned away only if its user holds no seat, and, when the *)
(* plugin is open to all, only if no seat is free.                         *)
DenialJustified ==
    [][\A p \in Procs : Deny(p) =>
          /\ user[p] \notin Seats
          /\ ~Restricted => Cardinality(connected) + Cardinality(invited) >= Allowed]_vars

(* The mutex always comes free again.                                      *)
LockReleased == \A p \in Procs : lock = p ~> lock # p

-----------------------------------------------------------------------------
(* The decisions the tables amount to.                                     *)
SeatOf == [u \in Users |-> IF u \in connected THEN "connected"
                           ELSE IF u \in invited THEN "invited" ELSE "none"]

Ledger == INSTANCE SeatLedger WITH seat <- SeatOf
LedgerSpec == Ledger!Spec
=============================================================================
