------------------------------ MODULE Accounts ------------------------------
(***************************************************************************)
(* The connection of one Mattermost user: its row of the users table, its  *)
(* notification preference, and the handlers that race for them on all     *)
(* nodes - whoever needs the user's Graph client and refreshes an expired  *)
(* token, the handler of a refused token, the OAuth callback, the commands *)
(* disconnect and notifications, and the delivery of notifications.        *)
(*                                                                         *)
(* SetUserInfo is a transaction at READ COMMITTED: it reads the row it is  *)
(* going to replace (ReadStatus) and later replaces it as a whole (Write). *)
(* With Lag the reads outside that transaction see the replica, a snapshot *)
(* of the row taken some time ago. The decision to admit the user is left  *)
(* open here (see Admission); the callback holds the cluster-wide mutex.   *)
(***************************************************************************)
EXTENDS Naturals

CONSTANTS
    Procs,       \* handlers, over all nodes
    MaxTokens,   \* bound on the tokens Graph issues
    MaxTime,     \* bound on the clock
    MaxMessages, \* creation times of chat messages
    Lag,         \* the replica may be behind the master
    None

ASSUME ProcsAssumption  == None \notin Procs
ASSUME BoundsAssumption == MaxTokens \in Nat /\ MaxTime \in Nat /\ MaxMessages \in Nat
ASSUME LagAssumption    == Lag \in BOOLEAN

VARIABLES
    row,     \* the user's row in the master
    replica, \* the row as the replica has it
    pref,    \* the notification preference
    issued,  \* tokens 1..issued have been issued
    expired, \* tokens past their expiry
    revoked, \* tokens Graph refuses, to refresh them too
    clock,   \* time, as far as rows record it
    lock,    \* holder of connectClusterMutex
    pc,      \* the next call of each process
    then,    \* where a process goes on after SetUserInfo
    token,   \* the token a process works with or is to store, 0 for none
    next,    \* the row a process is going to write
    msg      \* the message a process delivers

graph == <<issued, expired, revoked>>
locals == <<then, token, next, msg>>
vars == <<row, replica, pref, graph, clock, lock, pc, locals>>

Tokens == 0..MaxTokens

(* mapped: whether there is a row, which names the Teams user; it is never *)
(* removed. lc and ld are lastConnectAt and lastDisconnectAt, received is  *)
(* LastChatReceivedAt.                                                     *)
Row == [mapped : {"yes", "no"}, token : Tokens, lc : 0..MaxTime, ld : 0..MaxTime,
        received : 0..MaxMessages]
NoRow == [mapped |-> "no", token |-> 0, lc |-> 0, ld |-> 0, received |-> 0]

View == IF Lag THEN replica ELSE row

Labels == {"idle", "refresh", "call", "status", "write", "tell", "disable", "enable",
           "exchange", "lock", "right", "preference", "post", "received"}

TypeOK ==
    /\ row \in Row /\ replica \in Row
    /\ pref \in {"on", "off"}
    /\ issued \in Tokens /\ expired \in SUBSET Tokens /\ revoked \in SUBSET Tokens
    /\ clock \in 0..MaxTime
    /\ lock \in Procs \cup {None}
    /\ pc \in [Procs -> Labels] /\ then \in [Procs -> Labels]
    /\ token \in [Procs -> Tokens]
    /\ next \in [Procs -> Row]
    /\ msg \in [Procs -> 0..MaxMessages]

Init ==
    /\ row = NoRow /\ replica = NoRow /\ pref = "off"
    /\ issued = 0 /\ expired = {} /\ revoked = {}
    /\ clock = 0 /\ lock = None
    /\ pc = [p \in Procs |-> "idle"] /\ then = [p \in Procs |-> "idle"]
    /\ token = [p \in Procs |-> 0] /\ next = [p \in Procs |-> NoRow]
    /\ msg = [p \in Procs |-> 0]

-----------------------------------------------------------------------------
At(p, l) == pc[p] = l
Goto(p, l) == pc' = [pc EXCEPT ![p] = l] /\ UNCHANGED <<lock, then, next, msg>>

(* Every return releases the mutex if p holds it (defer Unlock).           *)
Return(p) ==
    /\ pc' = [pc EXCEPT ![p] = "idle"] /\ then' = [then EXCEPT ![p] = "idle"]
    /\ token' = [token EXCEPT ![p] = 0] /\ next' = [next EXCEPT ![p] = NoRow]
    /\ msg' = [msg EXCEPT ![p] = 0]
    /\ lock' = IF lock = p THEN None ELSE lock

(* Calls SetUserInfo with token t, to go on at l.                          *)
Store(p, t, l) ==
    /\ pc' = [pc EXCEPT ![p] = "status"] /\ then' = [then EXCEPT ![p] = l]
    /\ token' = [token EXCEPT ![p] = t] /\ UNCHANGED <<lock, next, msg>>

Issue == issued < MaxTokens /\ issued' = issued + 1 /\ UNCHANGED <<expired, revoked>>

Reading == UNCHANGED <<row, replica, pref, graph, clock>>

(* Mutant: a disconnection leaves lastDisconnectAt alone.                  *)
StatusTimesNoBump(cur, connect) ==
    IF connect THEN [lc |-> clock', ld |-> cur.ld] ELSE [lc |-> cur.lc, ld |-> cur.ld]

(* Mutant: a disconnection starts from a fresh row.                        *)
StatusTimesForgotten(cur, connect) ==
    IF connect THEN [lc |-> clock', ld |-> cur.ld] ELSE [lc |-> 0, ld |-> clock']

(* computeStatusTimes: lc and ld after a call with or without a token, for *)
(* a row that was cur.                                                     *)
StatusTimes(cur, connect) ==
    IF connect THEN [lc |-> clock', ld |-> cur.ld]
    ELSE [lc |-> cur.lc, ld |-> IF cur.token # 0 THEN clock' ELSE cur.ld]

(* setUserInfo reads the row and computes the new one. The columns it does *)
(* not list, LastChatReceivedAt among them, get their default.             *)
ReadStatus(p) ==
    /\ At(p, "status") /\ clock < MaxTime
    /\ clock' = clock + 1
    /\ LET times == StatusTimes(row, token[p] # 0)
       IN  next' = [next EXCEPT ![p] = [mapped |-> "yes", token |-> token[p],
                                        lc |-> times.lc, ld |-> times.ld, received |-> 0]]
    /\ pc' = [pc EXCEPT ![p] = "write"]
    /\ UNCHANGED <<row, replica, pref, graph, lock, then, token, msg>>

(* setUserInfo replaces the row and commits.                               *)
Write(p) ==
    /\ At(p, "write")
    /\ row' = next[p]
    /\ \/ then[p] = "idle" /\ Return(p)
       \/ then[p] # "idle" /\ Goto(p, then[p]) /\ UNCHANGED token
    /\ UNCHANGED <<replica, pref, graph, clock>>

-----------------------------------------------------------------------------
(* GetClientForUser, then a call with the client.                          *)

GetClientForUser(p) ==
    /\ At(p, "idle") /\ View.token # 0
    /\ token' = [token EXCEPT ![p] = View.token]
    /\ Goto(p, IF View.token \in expired THEN "refresh" ELSE "call")
    /\ Reading

(* OnDisconnectedTokenHandler: the token is dropped, the user told.        *)
Lose(p) == Store(p, 0, "tell")

(* client.RefreshToken: the new token is stored.                           *)
RefreshToken(p) ==
    /\ At(p, "refresh")
    /\ \/ token[p] \in revoked /\ Lose(p) /\ UNCHANGED graph
       \/ token[p] \notin revoked /\ Issue /\ Store(p, issued', "call")
    /\ UNCHANGED <<row, replica, pref, clock>>

(* A call to Graph: one that is refused (401) ends in the handler.         *)
Call(p) ==
    /\ At(p, "call")
    /\ \/ token[p] \in revoked /\ Lose(p)
       \/ token[p] \notin revoked /\ Return(p)
    /\ Reading

(* SendConnectMessage.                                                     *)
Tell(p) == At(p, "tell") /\ Return(p) /\ Reading

-----------------------------------------------------------------------------
(* Commands. The command notifications, and the settings section the       *)
(* webapp shows to connected users, switch the preference either way.      *)

ExecuteDisconnectCommand(p) ==
    /\ At(p, "idle") /\ View.mapped = "yes" /\ View.token # 0
    /\ Store(p, 0, "disable")
    /\ Reading

(* Mutant: the connection is not checked.                                  *)
NotifyAnyone(p) ==
    /\ At(p, "idle")
    /\ Goto(p, "enable") \/ Goto(p, "disable")
    /\ UNCHANGED token /\ Reading

ExecuteNotificationsCommand(p) ==
    /\ At(p, "idle") /\ View.token # 0
    /\ Goto(p, "enable") \/ Goto(p, "disable")
    /\ UNCHANGED token /\ Reading

SetNotificationPreference(p) ==
    /\ \/ At(p, "enable") /\ pref' = "on"
       \/ At(p, "disable") /\ pref' = "off"
    /\ Return(p)
    /\ UNCHANGED <<row, replica, graph, clock>>

-----------------------------------------------------------------------------
(* oauthRedirectHandler: the code is exchanged for a token before the      *)
(* mutex is taken, the right to connect checked under it.                  *)

Callback(p) ==
    /\ At(p, "idle")
    /\ Goto(p, "exchange")
    /\ UNCHANGED token /\ Reading

(* conf.Exchange, then GetTokenForMSTeamsUser: the Teams user must not be  *)
(* connected yet.                                                          *)
Exchange(p) ==
    /\ At(p, "exchange") /\ View.token = 0
    /\ Issue
    /\ token' = [token EXCEPT ![p] = issued']
    /\ Goto(p, "lock")
    /\ UNCHANGED <<row, replica, pref, clock>>

Acquire(p) ==
    /\ At(p, "lock") /\ lock = None
    /\ pc' = [pc EXCEPT ![p] = "right"]
    /\ lock' = p
    /\ UNCHANGED locals /\ Reading

(* A user that has connected before always may; the others are admitted or *)
(* denied, and a denial stores the user without a token.                   *)
UserHasRightToConnect(p) ==
    /\ At(p, "right")
    /\ \/ Store(p, token[p], "enable")
       \/ View.lc = 0 /\ Store(p, 0, "idle")
    /\ Reading

-----------------------------------------------------------------------------
(* handleCreatedActivityNotification, for this user as a chat member. That *)
(* a connected member was found to fetch the message with, the absence of  *)
(* the user from Teams and a non-empty message are taken for granted.      *)

TeamsToMattermostUserID(p) ==
    /\ At(p, "idle") /\ View.mapped = "yes"
    /\ \E m \in 1..MaxMessages : msg' = [msg EXCEPT ![p] = m]
    /\ pc' = [pc EXCEPT ![p] = "preference"]
    /\ UNCHANGED <<lock, then, token, next>> /\ Reading

GetNotificationPreference(p) ==
    /\ At(p, "preference")
    /\ \/ pref = "on" /\ Goto(p, "post") /\ UNCHANGED token
       \/ pref = "off" /\ Return(p)
    /\ Reading

(* notifyChat.                                                             *)
Post(p) ==
    /\ At(p, "post")
    /\ Goto(p, "received") /\ UNCHANGED token
    /\ Reading

(* Mutant: the time is added to the one recorded.                          *)
ReceivedAdded(p) ==
    /\ At(p, "received")
    /\ row' = [row EXCEPT !.received = @ + msg[p]]
    /\ Return(p)
    /\ UNCHANGED <<replica, pref, graph, clock>>

(* Later times only; messages are handled in any order.                    *)
SetUserLastChatReceivedAt(p) ==
    /\ At(p, "received")
    /\ row' = IF row.received < msg[p] THEN [row EXCEPT !.received = msg[p]] ELSE row
    /\ Return(p)
    /\ UNCHANGED <<replica, pref, graph, clock>>

-----------------------------------------------------------------------------
(* A call of p fails, or p's node stops: p does no more.                   *)
Fail(p) == ~At(p, "idle") /\ Return(p) /\ Reading

Expire ==
    /\ \E t \in 1..issued \ expired : expired' = expired \cup {t}
    /\ UNCHANGED <<row, replica, pref, issued, revoked, clock, lock, pc, locals>>

(* The user, or an administrator of the tenant, withdraws the consent.     *)
Revoke ==
    /\ ~(1..issued \subseteq revoked)
    /\ revoked' = 1..issued
    /\ UNCHANGED <<row, replica, pref, issued, expired, clock, lock, pc, locals>>

Replicate ==
    /\ Lag /\ replica # row
    /\ replica' = row
    /\ UNCHANGED <<row, pref, graph, clock, lock, pc, locals>>

Step(p) ==
    \/ ReadStatus(p) \/ Write(p)
    \/ GetClientForUser(p) \/ RefreshToken(p) \/ Call(p) \/ Tell(p)
    \/ ExecuteDisconnectCommand(p) \/ ExecuteNotificationsCommand(p)
    \/ SetNotificationPreference(p)
    \/ Callback(p) \/ Exchange(p) \/ Acquire(p) \/ UserHasRightToConnect(p)
    \/ TeamsToMattermostUserID(p) \/ GetNotificationPreference(p) \/ Post(p)
    \/ SetUserLastChatReceivedAt(p)
    \/ Fail(p)

Next == (\E p \in Procs : Step(p)) \/ Expire \/ Revoke \/ Replicate

Spec == Init /\ [][Next]_vars

-----------------------------------------------------------------------------
(* The times of a row tell whether the user is connected, whichever of the *)
(* concurrent calls of SetUserInfo wrote it.                               *)
TimesAgree ==
    /\ row.token # 0 => row.lc > row.ld
    /\ row.token = 0 /\ row.lc # 0 => row.ld >= row.lc

(* A user that has ever connected keeps the right to connect again: no     *)
(* write based on an older read takes lastConnectAt back to zero.          *)
SeatKept == [][row.lc # 0 => row'.lc # 0]_vars

(* Notifications are never enabled for a user that has not connected yet.  *)
NotifiedOnceConnected == pref = "on" => row.lc # 0

(* Only an OAuth callback connects an account that is not connected: after *)
(* "Your account has been disconnected." (command.go) it stays so.         *)
OnlyCallbackConnects ==
    [][row.token = 0 /\ row'.token # 0 => \E p \in Procs : lock = p /\ Write(p)]_vars
=============================================================================
