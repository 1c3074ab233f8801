-------------------------- MODULE AdmissionProofs ---------------------------
(***************************************************************************)
(* Theorems about Admission for any number of users and processes and any  *)
(* limits. SafeInv, and what follows from it, holds however far the        *)
(* replica is behind and whatever fails: the mutex, the whitelist, seats   *)
(* that are never taken back. IInv needs reads as fresh as the master      *)
(* (~Lag): the limits, the denials, the ledger.                            *)
(*                                                                         *)
(* The limits are not inductive: a row is written several calls after the  *)
(* counts were read. What carries the argument is that a process inside    *)
(* the mutex keeps what it has read true until it returns (Facts), because *)
(* no other process writes the users or the invitations meanwhile.         *)
(***************************************************************************)
EXTENDS Admission, FiniteSetTheorems, TLAPS

Critical(p) == pc[p] \notin {"idle", "lock"}

Mutex == \A p \in Procs : Critical(p) => lock = p

ActiveUser == \A p \in Procs : pc[p] # "idle" => user[p] \in Users

Free == Cardinality(connected) + Cardinality(invited) < Allowed

Deciding == {"whitelisted", "countConnected", "countInvited", "deny"}
Inviting == {"send", "storeInvited"}

(* The calls still ahead of a process inside the mutex, counting the one   *)
(* it is at.                                                               *)
Path == [invite   |-> [hasConnected |-> 8, getInvited |-> 7, whitelisted |-> 6,
                       countConnected |-> 5, countInvited |-> 4, send |-> 3,
                       storeInvited |-> 2, dropWhitelist |-> 1],
         callback |-> [hasConnected |-> 9, getInvited |-> 8, countConnected |-> 7,
                       countInvited |-> 6, whitelisted |-> 5, setUserInfo |-> 4,
                       setPreference |-> 3, deleteInvite |-> 2, deleteWhitelist |-> 1,
                       deny |-> 1]]

CallsLeft(p) == IF Critical(p) THEN Path[kind[p]][pc[p]] ELSE 0

(* What p has earned, fresh reads or not: a seat it is about to give goes  *)
(* to a user who has one already or passed the whitelist.                  *)
Grounds(p) ==
    /\ Critical(p) => pc[p] \in DOMAIN Path[kind[p]]
    /\ kind[p] = "invite" /\ Restricted
          /\ pc[p] \in {"countConnected", "countInvited"} \cup Inviting => user[p] \in eligible
    /\ pc[p] = "setUserInfo" => user[p] \in Seats \/ (Restricted => user[p] \in eligible)
    /\ pc[p] \in {"setPreference", "deleteInvite"} => user[p] \in connected
    /\ Critical(p) => whitelist \cup View.whitelist \subseteq eligible

(* The mutex is held by the process inside, and by nobody else.            *)
Holder == \A p \in Procs : lock = p => Critical(p)

(* Whoever a read shows with a seat has one: seats are never taken back.   *)
ViewBehind == View.connected \subseteq connected /\ View.invited \subseteq Seats

SafeInv ==
    /\ TypeOK
    /\ ActiveUser
    /\ Mutex
    /\ Holder
    /\ ViewBehind
    /\ \A p \in Procs : Grounds(p)

(* What p has read, with fresh reads, and still relies on.                 *)
Facts(p) ==
    /\ pc[p] \in {"getInvited"} \cup Deciding \cup Inviting => user[p] \notin connected
    /\ pc[p] \in Deciding \cup Inviting => user[p] \notin invited
    /\ pc[p] = "countInvited" => count[p] = Cardinality(connected)
    /\ pc[p] = "whitelisted" => Restricted
    /\ pc[p] = "whitelisted" /\ kind[p] = "callback" => Free
    /\ pc[p] = "deny" /\ ~Restricted => ~Free
    /\ pc[p] \in Inviting => Free /\ Cardinality(invited) < MaxPending
    /\ pc[p] = "setUserInfo" => user[p] \in Seats \/ Free

IInv ==
    /\ SafeInv
    /\ \A p \in Procs : Facts(p)
    /\ CapRespected
    /\ PendingCapRespected

(* An invitation once sent is on record or about to be, and a user who is  *)
(* both connected and invited is being tidied up, but for what faults left.*)
Recorded ==
    /\ \A u \in sent : u \in Seats \/ \E p \in Procs : pc[p] = "storeInvited" /\ user[p] = u
    /\ \A u \in (connected \cap invited) \ kept :
          \E p \in Procs : pc[p] \in {"setPreference", "deleteInvite"} /\ user[p] = u

-----------------------------------------------------------------------------
(* Sizes of sets of users.                                                 *)
LEMMA Counts ==
    ASSUME NEW C \in SUBSET Users, NEW I \in SUBSET Users
    PROVE  /\ Cardinality(C) \in Nat /\ Cardinality(I) \in Nat
           /\ Cardinality(C \cup I) \in Nat
           /\ Cardinality(C \cup I) <= Cardinality(C) + Cardinality(I)
<1>1. IsFiniteSet(C) /\ IsFiniteSet(I) /\ IsFiniteSet(C \cap I)
  BY UsersAssumption, FS_Subset, C \cap I \in SUBSET Users
<1>2. /\ Cardinality(C) \in Nat /\ Cardinality(I) \in Nat
      /\ Cardinality(C \cap I) \in Nat
  BY <1>1, FS_CardinalityType
<1>3. IsFiniteSet(C \cup I)
      /\ Cardinality(C \cup I) = Cardinality(C) + Cardinality(I) - Cardinality(C \cap I)
  BY <1>1, FS_Union
<1>4. Cardinality(C \cup I) \in Nat
  BY <1>3, FS_CardinalityType
<1> QED
  BY <1>2, <1>3, <1>4

(* A user more makes one more at most, a user less no more.                *)
LEMMA OneMore ==
    ASSUME NEW S \in SUBSET Users, NEW u
    PROVE  /\ Cardinality(S \cup {u}) <= Cardinality(S) + 1
           /\ Cardinality(S \ {u}) <= Cardinality(S)
<1>1. IsFiniteSet(S)
  BY UsersAssumption, FS_Subset
<1>2. Cardinality(S) \in Nat
  BY <1>1, FS_CardinalityType
<1>3. Cardinality(S \cup {u}) = IF u \in S THEN Cardinality(S) ELSE Cardinality(S) + 1
  BY <1>1, FS_AddElement
<1>4. Cardinality(S \ {u}) = IF u \in S THEN Cardinality(S) - 1 ELSE Cardinality(S)
  BY <1>1, FS_RemoveElement
<1> QED
  BY <1>2, <1>3, <1>4

(* What the replica shows is sets of users.                                *)
LEMMA ViewTyped ==
    TypeOK => /\ View.connected \in SUBSET Users
              /\ View.invited \in SUBSET Users
              /\ View.whitelist \in SUBSET Users
BY DEF TypeOK, View, Snapshot

(* Without a lag it shows the tables.                                      *)
LEMMA ViewIsFresh ==
    ~Lag => /\ View.connected = connected
            /\ View.invited = invited
            /\ View.whitelist = whitelist
BY DEF View, Snapshot

-----------------------------------------------------------------------------
(* Every variable keeps its type.                                          *)
LEMMA TypingStep == TypeOK /\ ActiveUser /\ [Next]_vars => TypeOK'
<1> SUFFICES ASSUME TypeOK, ActiveUser, [Next]_vars PROVE TypeOK'
  OBVIOUS
<1> USE DEF TypeOK, Labels
<1>1. ASSUME NEW p \in Procs, Begin(p) PROVE TypeOK'
  BY <1>1 DEF Begin, Reading
<1>2. ASSUME NEW p \in Procs, Acquire(p) PROVE TypeOK'
  BY <1>2, ViewTyped DEF Acquire
<1>3. ASSUME NEW p \in Procs, Step(p) PROVE TypeOK'
  <2> USE DEF Goto, Return, Unlock, Reading
  <2>1. CASE UserHasConnected(p)
    BY <2>1 DEF UserHasConnected
  <2>2. CASE GetInvitedUser(p)
    BY <2>2 DEF GetInvitedUser
  <2>3. CASE IsUserWhitelisted(p)
    BY <2>3 DEF IsUserWhitelisted
  <2>4. CASE GetHasConnectedCount(p)
    <3>1. Cardinality(View.connected) \in Nat
      BY ViewTyped, Counts
    <3> QED
      BY <2>4, <3>1 DEF GetHasConnectedCount
  <2>5. CASE GetInvitedCount(p)
    BY <2>5 DEF GetInvitedCount
  <2>6. CASE SendInviteMessage(p)
    BY <2>6 DEF SendInviteMessage, At, ActiveUser
  <2>7. CASE StoreInvitedUser(p)
    BY <2>7 DEF StoreInvitedUser, At, ActiveUser
  <2>8. CASE DropFromWhitelist(p)
    BY <2>8 DEF DropFromWhitelist
  <2>9. CASE Deny(p)
    BY <2>9 DEF Deny
  <2>10. CASE SetUserInfo(p)
    BY <2>10 DEF SetUserInfo, At, ActiveUser
  <2>11. CASE SetPreference(p)
    BY <2>11 DEF SetPreference
  <2>12. CASE DeleteUserInvite(p)
    BY <2>12 DEF DeleteUserInvite, LeftInPlace
  <2>13. CASE DeleteUserFromWhitelist(p)
    BY <2>13 DEF DeleteUserFromWhitelist
  <2> QED
    BY <1>3, <2>1, <2>2, <2>3, <2>4, <2>5, <2>6, <2>7, <2>8, <2>9, <2>10, <2>11, <2>12, <2>13
       DEF Step
<1>4. ASSUME NEW p \in Procs, Fail(p) PROVE TypeOK'
  BY <1>4 DEF Fail, Return, Unlock, LeftInPlace
<1>5. CASE SetWhitelist
  BY <1>5 DEF SetWhitelist
<1>6. CASE Replicate
  BY <1>6 DEF Replicate, Snapshot
<1>7. CASE UNCHANGED vars
  BY <1>7 DEF vars
<1> QED
  BY <1>1, <1>2, <1>3, <1>4, <1>5, <1>6, <1>7 DEF Next

(* A process that is not idle works for a user.                            *)
LEMMA ActiveUserStep == TypeOK /\ ActiveUser /\ [Next]_vars => ActiveUser'
<1> SUFFICES ASSUME TypeOK, ActiveUser, [Next]_vars PROVE ActiveUser'
  OBVIOUS
<1> USE DEF TypeOK, ActiveUser
<1>1. ASSUME NEW p \in Procs, Begin(p) PROVE ActiveUser'
  BY <1>1 DEF Begin
<1>2. ASSUME NEW p \in Procs, Acquire(p) PROVE ActiveUser'
  BY <1>2 DEF Acquire, At
<1>3. ASSUME NEW p \in Procs, Step(p) \/ Fail(p) PROVE ActiveUser'
  <2>1. pc[p] # "idle"
    BY <1>3 DEF Step, Fail, At, UserHasConnected, GetInvitedUser, IsUserWhitelisted,
       GetHasConnectedCount, GetInvitedCount, SendInviteMessage, StoreInvitedUser,
       DropFromWhitelist, Deny, SetUserInfo, SetPreference, DeleteUserInvite,
       DeleteUserFromWhitelist
  <2>2. Return(p) \/ \E l \in Labels : Goto(p, l)
    BY <1>3, <2>1 DEF Step, Fail, Labels, UserHasConnected, GetInvitedUser, IsUserWhitelisted,
       GetHasConnectedCount, GetInvitedCount, SendInviteMessage, StoreInvitedUser,
       DropFromWhitelist, Deny, SetUserInfo, SetPreference, DeleteUserInvite,
       DeleteUserFromWhitelist
  <2> QED
    BY <2>1, <2>2 DEF Return, Goto
<1>4. CASE SetWhitelist \/ Replicate \/ UNCHANGED vars
  BY <1>4 DEF SetWhitelist, Replicate, vars
<1> QED
  BY <1>1, <1>2, <1>3, <1>4 DEF Next

(* Every variable keeps its type, whatever the reads see.                  *)
THEOREM Typing == Spec => []TypeOK
<1>1. Init => TypeOK /\ ActiveUser
  BY DEF Init, TypeOK, ActiveUser, Labels, Snapshot
<1>2. TypeOK /\ ActiveUser /\ [Next]_vars => (TypeOK /\ ActiveUser)'
  BY TypingStep, ActiveUserStep
<1> QED
  BY <1>1, <1>2, PTL DEF Spec

-----------------------------------------------------------------------------
(* A process that has neither entered nor left the mutex relies on nothing.*)
LEMMA NothingRelied ==
    ASSUME NEW p \in Procs, pc'[p] \in {"idle", "lock"}
    PROVE  Facts(p)'
BY DEF Facts, Critical, Deciding, Inviting

(* Steps that write no table and do not touch pc keep every fact.          *)
LEMMA StepIsCritical ==
    ASSUME NEW p \in Procs, Step(p) \/ Fail(p)
    PROVE  /\ Critical(p)
           /\ Return(p) \/ \E l \in Labels : Goto(p, l)
<1>1. CASE Fail(p)
  BY <1>1 DEF Fail, At, Critical
<1>2. CASE Step(p)
  BY <1>2 DEF Step, At, Critical, Labels, UserHasConnected, GetInvitedUser,
     IsUserWhitelisted, GetHasConnectedCount, GetInvitedCount, SendInviteMessage,
     StoreInvitedUser, DropFromWhitelist, Deny, SetUserInfo, SetPreference,
     DeleteUserInvite, DeleteUserFromWhitelist
<1> QED
  BY <1>1, <1>2

(* A process leaves the mutex when it returns, and not before.             *)
LEMMA StepLeaves ==
    ASSUME TypeOK, NEW p \in Procs, Step(p) \/ Fail(p), lock = p
    PROVE  \/ lock' = None /\ pc'[p] = "idle"
           \/ lock' = p /\ pc'[p] \notin {"idle", "lock"}
<1> USE DEF Goto, Return, Unlock, TypeOK, At
<1>1. CASE Fail(p)
  BY <1>1 DEF Fail
<1>2. CASE Step(p)
  BY <1>2 DEF Step, UserHasConnected, GetInvitedUser, IsUserWhitelisted,
     GetHasConnectedCount, GetInvitedCount, SendInviteMessage, StoreInvitedUser,
     DropFromWhitelist, Deny, SetUserInfo, SetPreference, DeleteUserInvite,
     DeleteUserFromWhitelist
<1> QED
  BY <1>1, <1>2

(* The mutex does its work: while p is inside, every other process is      *)
(* outside, before and after p's step.                                     *)
LEMMA Alone ==
    ASSUME TypeOK, Mutex, NEW p \in Procs, Step(p) \/ Fail(p)
    PROVE  /\ Mutex'
           /\ \A q \in Procs \ {p} : pc'[q] = pc[q] /\ pc'[q] \in {"idle", "lock"}
<1>1. Critical(p) /\ lock = p
  BY StepIsCritical DEF Mutex
<1>2. \A q \in Procs \ {p} : pc[q] \in {"idle", "lock"}
  BY <1>1 DEF Mutex, Critical
<1>3. \A q \in Procs \ {p} : pc'[q] = pc[q]
  BY StepIsCritical DEF Return, Goto, TypeOK
<1>4. pc'[p] = "idle" \/ lock' = p
  BY <1>1, StepIsCritical DEF Return, Goto, TypeOK
<1> QED
  BY <1>2, <1>3, <1>4 DEF Mutex, Critical

(* Steps that touch neither table of seats.                                *)
LEMMA SeatsKept ==
    ASSUME [Next]_vars,
           \A p \in Procs : ~StoreInvitedUser(p) /\ ~SetUserInfo(p) /\ ~DeleteUserInvite(p)
    PROVE  UNCHANGED <<connected, invited>>
BY DEF Next, vars, Begin, Acquire, Step, Fail, SetWhitelist, Replicate, Reading,
   UserHasConnected, GetInvitedUser, IsUserWhitelisted, GetHasConnectedCount,
   GetInvitedCount, SendInviteMessage, DropFromWhitelist, Deny, SetPreference,
   DeleteUserFromWhitelist

(* Nobody loses a seat: an invitation is deleted only for a user who has   *)
(* connected.                                                              *)
LEMMA SeatsGrow ==
    ASSUME SafeInv, [Next]_vars
    PROVE  connected \subseteq connected' /\ Seats \subseteq Seats'
<1>1. ASSUME NEW p \in Procs, StoreInvitedUser(p) \/ SetUserInfo(p)
      PROVE  connected \subseteq connected' /\ Seats \subseteq Seats'
  BY <1>1 DEF StoreInvitedUser, SetUserInfo, Seats
<1>2. ASSUME NEW p \in Procs, DeleteUserInvite(p)
      PROVE  connected \subseteq connected' /\ Seats \subseteq Seats'
  <2>1. user[p] \in connected
    BY <1>2 DEF SafeInv, DeleteUserInvite, At, Grounds
  <2> QED
    BY <1>2, <2>1 DEF DeleteUserInvite, Seats
<1>3. CASE UNCHANGED <<connected, invited>>
  BY <1>3 DEF Seats
<1> QED
  BY <1>1, <1>2, <1>3, SeatsKept

(* What a read shows was true once, and still is of seats.                 *)
LEMMA ViewBehindStep ==
    ASSUME SafeInv, [Next]_vars
    PROVE  ViewBehind'
<1>1. connected \subseteq connected' /\ Seats \subseteq Seats'
  BY SeatsGrow
<1>2. CASE replica' = replica \/ ~Lag
  BY <1>1, <1>2 DEF SafeInv, ViewBehind, View, Snapshot, Seats
<1>3. CASE replica' = Snapshot
  BY <1>1, <1>3 DEF ViewBehind, View, Snapshot, Seats
<1> QED
  BY <1>2, <1>3 DEF Next, vars, Begin, Acquire, Step, Fail, SetWhitelist, Replicate,
     Reading, UserHasConnected, GetInvitedUser, IsUserWhitelisted, GetHasConnectedCount,
     GetInvitedCount, SendInviteMessage, StoreInvitedUser, DropFromWhitelist, Deny,
     SetUserInfo, SetPreference, DeleteUserInvite, DeleteUserFromWhitelist

(* A process outside the mutex has earned nothing.                         *)
LEMMA NothingEarned ==
    ASSUME NEW p \in Procs, pc'[p] \in {"idle", "lock"}
    PROVE  Grounds(p)'
BY DEF Grounds, Critical, Inviting

(* What p has earned survives p's own step.                                *)
LEMMA OwnGrounds ==
    ASSUME SafeInv, NEW p \in Procs, Step(p)
    PROVE  Grounds(p)' /\ (Critical(p)' => CallsLeft(p)' < CallsLeft(p))
<1>0. /\ TypeOK /\ ViewBehind /\ Grounds(p) /\ user[p] \in Users /\ Critical(p)
      /\ whitelist \cup View.whitelist \subseteq eligible
  BY StepIsCritical DEF SafeInv, ActiveUser, Critical, Grounds
<1>k. kind[p] \in {"invite", "callback"}
  BY <1>0 DEF TypeOK
<1>p. /\ Path["invite"] = [hasConnected |-> 8, getInvited |-> 7, whitelisted |-> 6,
                       countConnected |-> 5, countInvited |-> 4, send |-> 3,
                       storeInvited |-> 2, dropWhitelist |-> 1]
      /\ Path["callback"] = [hasConnected |-> 9, getInvited |-> 8, countConnected |-> 7,
                       countInvited |-> 6, whitelisted |-> 5, setUserInfo |-> 4,
                       setPreference |-> 3, deleteInvite |-> 2, deleteWhitelist |-> 1,
                       deny |-> 1]
  BY DEF Path
<1> USE DEF TypeOK, At, Goto, Return, Critical, Reading, Grounds, CallsLeft, Inviting
<1>1. CASE UserHasConnected(p)
  BY <1>0, <1>k, <1>p, <1>1 DEF UserHasConnected, Seats, View, ViewBehind, Snapshot
<1>2. CASE GetInvitedUser(p)
  BY <1>0, <1>k, <1>p, <1>2 DEF GetInvitedUser, Seats, View, ViewBehind, Snapshot
<1>3. CASE IsUserWhitelisted(p)
  BY <1>0, <1>k, <1>p, <1>3 DEF IsUserWhitelisted, Seats, View, Snapshot
<1>4. CASE GetHasConnectedCount(p)
  BY <1>0, <1>k, <1>p, <1>4 DEF GetHasConnectedCount, View, Snapshot
<1>5. CASE GetInvitedCount(p)
  BY <1>0, <1>k, <1>p, <1>5 DEF GetInvitedCount, View, Snapshot
<1>6. CASE SendInviteMessage(p)
  BY <1>0, <1>k, <1>p, <1>6 DEF SendInviteMessage, View, Snapshot
<1>7. CASE StoreInvitedUser(p)
  BY <1>0, <1>k, <1>p, <1>7 DEF StoreInvitedUser, View, Snapshot
<1>8. CASE DropFromWhitelist(p)
  BY <1>0, <1>k, <1>p, <1>8 DEF DropFromWhitelist, View, Snapshot
<1>9. CASE Deny(p)
  BY <1>0, <1>k, <1>p, <1>9 DEF Deny, View, Snapshot
<1>10. CASE SetUserInfo(p)
  BY <1>0, <1>k, <1>p, <1>10 DEF SetUserInfo, View, Snapshot
<1>11. CASE SetPreference(p)
  BY <1>0, <1>k, <1>p, <1>11 DEF SetPreference, View, Snapshot
<1>12. CASE DeleteUserInvite(p)
  BY <1>0, <1>k, <1>p, <1>12 DEF DeleteUserInvite, View, Snapshot
<1>13. CASE DeleteUserFromWhitelist(p)
  BY <1>0, <1>k, <1>p, <1>13 DEF DeleteUserFromWhitelist, View, Snapshot
<1> QED
  BY <1>1, <1>2, <1>3, <1>4, <1>5, <1>6, <1>7, <1>8, <1>9, <1>10, <1>11, <1>12, <1>13 DEF Step

(* No step of anybody breaks what holds whatever is read and fails.        *)
LEMMA SafeStep == SafeInv /\ [Next]_vars => SafeInv'
<1> SUFFICES ASSUME SafeInv, [Next]_vars PROVE SafeInv'
  OBVIOUS
<1>0. /\ TypeOK /\ ActiveUser /\ Mutex /\ Holder
      /\ TypeOK' /\ ActiveUser' /\ ViewBehind'
  BY TypingStep, ActiveUserStep, ViewBehindStep DEF SafeInv
<1>1. ASSUME NEW p \in Procs, Begin(p) PROVE SafeInv'
  <2>1. \A q \in Procs : \/ pc'[q] \in {"idle", "lock"} /\ pc[q] \in {"idle", "lock"}
                         \/ pc'[q] = pc[q] /\ user'[q] = user[q] /\ kind'[q] = kind[q]
    BY <1>0, <1>1 DEF Begin, At, TypeOK
  <2>2. \A q \in Procs : Grounds(q)'
    BY <1>0, <1>1, <2>1
       DEF SafeInv, Begin, Reading, Grounds, Critical, Inviting, Seats, View, Snapshot
  <2>3. Mutex' /\ Holder'
    BY <1>0, <1>1, <2>1 DEF Begin, Mutex, Holder, Critical
  <2> QED
    BY <1>0, <2>2, <2>3 DEF SafeInv
<1>2. ASSUME NEW p \in Procs, Acquire(p) PROVE SafeInv'
  <2>1. \A q \in Procs \ {p} : pc'[q] \in {"idle", "lock"}
    BY <1>0, <1>2, ProcsAssumption DEF Acquire, Mutex, Critical, TypeOK
  <2>2. /\ pc'[p] = "hasConnected" /\ lock' = p /\ kind'[p] \in {"invite", "callback"}
        /\ (whitelist \cup View.whitelist)' \subseteq eligible'
    BY <1>0, <1>2 DEF Acquire, TypeOK, View, Snapshot
  <2>3. \A q \in Procs : Grounds(q)'
    BY <2>1, <2>2, NothingEarned DEF Grounds, Critical, Inviting, Path
  <2>4. Mutex' /\ Holder'
    BY <2>1, <2>2 DEF Mutex, Holder, Critical
  <2> QED
    BY <1>0, <2>3, <2>4 DEF SafeInv
<1>3. ASSUME NEW p \in Procs, Step(p) \/ Fail(p) PROVE SafeInv'
  <2>1. Mutex' /\ \A q \in Procs \ {p} : Grounds(q)'
    BY <1>0, <1>3, Alone, NothingEarned
  <2>2. Grounds(p)'
    BY <1>0, <1>3, OwnGrounds, NothingEarned DEF Fail, Return, TypeOK
  <2>3. Critical(p) /\ lock = p
    BY <1>0, <1>3, StepIsCritical DEF Mutex
  <2>4. lock' = None \/ (lock' = p /\ pc'[p] \notin {"idle", "lock"})
    BY <1>0, <1>3, <2>3, StepLeaves
  <2>5. Holder'
    BY <2>4, ProcsAssumption DEF Holder, Critical
  <2> QED
    BY <1>0, <2>1, <2>2, <2>5 DEF SafeInv
<1>4. CASE SetWhitelist
  <2>1. \A q \in Procs : Grounds(q)'
    BY <1>4 DEF SafeInv, SetWhitelist, Grounds, Critical, Inviting, Seats, View, Snapshot
  <2> QED
    BY <1>0, <1>4, <2>1 DEF SafeInv, SetWhitelist, Mutex, Holder, Critical
<1>5. CASE Replicate
  <2>1. \A q \in Procs : Grounds(q)'
    BY <1>5 DEF SafeInv, Replicate, Grounds, Critical, Inviting, Seats, View, Snapshot
  <2> QED
    BY <1>0, <1>5, <2>1 DEF SafeInv, Replicate, Mutex, Holder, Critical
<1>6. CASE UNCHANGED vars
  <2>1. \A q \in Procs : Grounds(q)'
    BY <1>6 DEF SafeInv, vars, Grounds, Critical, Inviting, Seats, View, Snapshot
  <2> QED
    BY <1>0, <1>6, <2>1 DEF SafeInv, vars, Mutex, Holder, Critical
<1> QED
  BY <1>1, <1>2, <1>3, <1>4, <1>5, <1>6 DEF Next

(* Nobody is inside, no seat is taken.                                     *)
LEMMA SafeInit == Init => SafeInv
BY ProcsAssumption DEF Init, SafeInv, TypeOK, ActiveUser, Mutex, Holder, ViewBehind,
   Grounds, Critical, Inviting, View, Snapshot, Seats, Labels

(* The invariant of the mutex, the seats and the whitelist.                *)
LEMMA Safe == Spec => []SafeInv
<1>1. Init => SafeInv
  BY SafeInit
<1>2. SafeInv /\ [Next]_vars => SafeInv'
  BY SafeStep
<1> QED
  BY <1>1, <1>2, PTL DEF Spec

(* Two requests are never inside connectClusterMutex at once, and it is    *)
(* held by one only while that one is inside: no return, failed call or    *)
(* stopped node leaves it locked (connect.go, api.go: defer Unlock).       *)
THEOREM MutexTheorem == Spec => [](\A p \in Procs : Critical(p) <=> lock = p)
<1>1. SafeInv => \A p \in Procs : Critical(p) <=> lock = p
  BY DEF SafeInv, Mutex, Holder
<1> QED
  BY Safe, <1>1, PTL

(* Whoever holds the mutex is at most nine calls from its return; each of  *)
(* its calls brings it nearer and nothing others do sets it back. With     *)
(* Step weakly fair this is why the mutex comes free (LockReleased).       *)
THEOREM HeldBriefly ==
    Spec => [][\A p \in Procs : lock = p =>
                  /\ CallsLeft(p) \in 1..9
                  /\ CallsLeft(p)' < CallsLeft(p) \/ UNCHANGED <<lock, pc[p], CallsLeft(p)>>
                  /\ Step(p) => CallsLeft(p)' < CallsLeft(p)]_vars
<1> DEFINE Nearer(p) == /\ CallsLeft(p) \in 1..9
                        /\ CallsLeft(p)' < CallsLeft(p) \/ UNCHANGED <<lock, pc[p], CallsLeft(p)>>
                        /\ Step(p) => CallsLeft(p)' < CallsLeft(p)
<1>1. SafeInv /\ [Next]_vars => [\A p \in Procs : lock = p => Nearer(p)]_vars
  <2> SUFFICES ASSUME SafeInv, [Next]_vars, NEW p \in Procs, lock = p PROVE Nearer(p)
    OBVIOUS
  <2>0. TypeOK /\ Mutex /\ Critical(p) /\ Grounds(p)
    BY DEF SafeInv, Holder
  <2>1. CallsLeft(p) \in 1..9
    BY <2>0 DEF TypeOK, Grounds, CallsLeft, Path
  <2>2. ASSUME Step(p) \/ Fail(p) PROVE CallsLeft(p)' < CallsLeft(p)
    <3>1. CASE Step(p) /\ Critical(p)'
      BY <3>1, OwnGrounds
    <3>2. CASE ~Critical(p)'
      BY <2>1, <3>2 DEF CallsLeft
    <3>3. CASE Fail(p)
      BY <2>0, <2>1, <3>3 DEF Fail, Return, TypeOK, CallsLeft, Critical
    <3> QED
      BY <2>2, <3>1, <3>2, <3>3
  <2>3. ASSUME NEW q \in Procs \ {p}, Begin(q) \/ Acquire(q) \/ Step(q) \/ Fail(q)
        PROVE  UNCHANGED <<lock, pc[p], CallsLeft(p)>>
    <3>1. ~Critical(q)
      BY <2>0 DEF Mutex
    <3>2. Begin(q)
      BY <2>3, <3>1, StepIsCritical, ProcsAssumption DEF Acquire
    <3> QED
      BY <2>0, <3>2 DEF Begin, TypeOK, CallsLeft, Critical
  <2>4. ~Begin(p) /\ ~Acquire(p)
    BY <2>0 DEF Begin, Acquire, At, Critical
  <2>5. ASSUME SetWhitelist \/ Replicate \/ UNCHANGED vars
        PROVE  UNCHANGED <<lock, pc[p], CallsLeft(p)>> /\ ~Step(p)
    <3>1. UNCHANGED <<lock, pc, kind>>
      BY <2>5 DEF SetWhitelist, Replicate, vars
    <3>2. ~Step(p)
      BY <2>0, <2>1, <2>2, <3>1 DEF CallsLeft, Critical
    <3> QED
      BY <3>1, <3>2 DEF CallsLeft, Critical
  <2> QED
    BY <2>1, <2>2, <2>3, <2>4, <2>5 DEF Next
<1> QED
  BY Safe, <1>1, PTL DEF Spec

(* A seat once given or reserved is never taken back, however stale the    *)
(* reads and whatever fails: an invitation is only deleted once its user   *)
(* has connected (api.go, DeleteUserInvite after SetUserInfo).             *)
THEOREM SeatsStay == Spec => [][Seats \subseteq Seats' /\ connected \subseteq connected']_vars
<1>1. SafeInv /\ [Next]_vars => [Seats \subseteq Seats' /\ connected \subseteq connected']_vars
  BY SeatsGrow
<1> QED
  BY Safe, <1>1, PTL DEF Spec

(* A seat given in restricted mode passed the whitelist (connect.go,       *)
(* IsUserWhitelisted), though administrators replace the list unlocked,    *)
(* replicas are behind, and calls fail.                                    *)
THEOREM WhitelistTheorem == Spec => WhitelistGate
<1>1. SafeInv /\ [Next]_vars => [Restricted => Seats' \ Seats \subseteq eligible]_vars
  <2> SUFFICES ASSUME SafeInv, [Next]_vars, Restricted
               PROVE  Seats' \ Seats \subseteq eligible
    OBVIOUS
  <2>1. ASSUME NEW p \in Procs, StoreInvitedUser(p) PROVE Seats' \ Seats \subseteq eligible
    <3>1. pc[p] = "storeInvited" /\ Grounds(p) /\ TypeOK
      BY <2>1 DEF SafeInv, StoreInvitedUser, At
    <3>2. kind[p] = "invite"
      BY <3>1 DEF Grounds, Critical, Path, TypeOK
    <3>3. user[p] \in eligible
      BY <3>1, <3>2 DEF Grounds, Inviting
    <3> QED
      BY <2>1, <3>3 DEF StoreInvitedUser, Seats
  <2>2. ASSUME NEW p \in Procs, SetUserInfo(p) PROVE Seats' \ Seats \subseteq eligible
    <3>1. user[p] \in Seats \cup eligible
      BY <2>2 DEF SafeInv, SetUserInfo, At, Grounds
    <3> QED
      BY <2>2, <3>1 DEF SetUserInfo, Seats
  <2>3. ASSUME NEW p \in Procs, DeleteUserInvite(p) PROVE Seats' \ Seats \subseteq eligible
    BY <2>3 DEF DeleteUserInvite, Seats
  <2>4. CASE UNCHANGED <<connected, invited>>
    BY <2>4 DEF Seats
  <2> QED
    BY <2>1, <2>2, <2>3, <2>4, SeatsKept
<1> QED
  BY Safe, <1>1, PTL DEF Spec, WhitelistGate

-----------------------------------------------------------------------------
(* What p relies on still holds after p's own step, and the limits do.     *)
LEMMA OwnStep ==
    ASSUME ~Lag, IInv, NEW p \in Procs, Step(p)
    PROVE  Facts(p)' /\ CapRespected' /\ PendingCapRespected'
<1> USE ViewIsFresh
<1>0. /\ TypeOK /\ Facts(p) /\ Grounds(p) /\ user[p] \in Users /\ Critical(p)
      /\ CapRespected /\ PendingCapRespected
  BY StepIsCritical DEF IInv, SafeInv, ActiveUser, Critical
<1>t. /\ Cardinality(connected) \in Nat /\ Cardinality(invited) \in Nat
      /\ Cardinality(Seats) \in Nat
      /\ Cardinality(Seats) <= Cardinality(connected) + Cardinality(invited)
  BY <1>0, Counts DEF TypeOK, Seats
<1>r. ASSUME UNCHANGED <<connected, invited>>
      PROVE  CapRespected' /\ PendingCapRespected'
  BY <1>0, <1>r DEF CapRespected, PendingCapRespected, Seats
<1> USE DEF TypeOK, At, Goto, Return, Critical, Reading
<1>1. CASE UserHasConnected(p)
  BY <1>0, <1>1, <1>r DEF UserHasConnected, Facts, Deciding, Inviting, Seats
<1>2. CASE GetInvitedUser(p)
  BY <1>0, <1>2, <1>r DEF GetInvitedUser, Facts, Deciding, Inviting, Seats
<1>3. CASE IsUserWhitelisted(p)
  BY <1>0, <1>3, <1>r DEF IsUserWhitelisted, Facts, Deciding, Inviting, Free
<1>4. CASE GetHasConnectedCount(p)
  BY <1>0, <1>4, <1>r DEF GetHasConnectedCount, Facts, Deciding, Inviting
<1>5. CASE GetInvitedCount(p)
  BY <1>0, <1>5, <1>r, LimitsAssumption
     DEF GetInvitedCount, Facts, Deciding, Inviting, Free, HasRoom, BelowPending
<1>6. CASE SendInviteMessage(p)
  BY <1>0, <1>6, <1>r DEF SendInviteMessage, Facts, Deciding, Inviting, Free
<1>7. CASE StoreInvitedUser(p)
  <2>1. Facts(p)'
    BY <1>0, <1>7 DEF StoreInvitedUser, Facts, Deciding, Inviting
  <2>2. Free /\ Cardinality(invited) < MaxPending
    BY <1>0, <1>7 DEF StoreInvitedUser, Facts, Inviting
  <2>3. Cardinality(invited') <= Cardinality(invited) + 1
    BY <1>0, <1>7, OneMore DEF StoreInvitedUser
  <2>4. Cardinality(invited') \in Nat /\ Cardinality(Seats') \in Nat
    BY <1>0, <1>7, Counts, invited \cup {user[p]} \in SUBSET Users
       DEF StoreInvitedUser, Seats
  <2>5. Seats' = Seats \cup {user[p]} /\ Seats \in SUBSET Users
    BY <1>0, <1>7 DEF StoreInvitedUser, Seats
  <2>6. Cardinality(Seats') <= Cardinality(Seats) + 1
    BY <2>5, OneMore
  <2> QED
    BY <1>t, <2>1, <2>2, <2>3, <2>4, <2>6, LimitsAssumption
       DEF Free, CapRespected, PendingCapRespected
<1>8. CASE DropFromWhitelist(p)
  BY <1>0, <1>8, <1>r DEF DropFromWhitelist, Facts, Deciding, Inviting
<1>9. CASE Deny(p)
  BY <1>0, <1>9, <1>r DEF Deny, Facts, Deciding, Inviting
<1>10. CASE SetUserInfo(p)
  <2>1. Facts(p)'
    BY <1>0, <1>10 DEF SetUserInfo, Facts, Deciding, Inviting
  <2>2. user[p] \in Seats \/ Free
    BY <1>0, <1>10 DEF SetUserInfo, Facts
  <2>3. Seats' = Seats \cup {user[p]} /\ Seats \in SUBSET Users
    BY <1>0, <1>10 DEF SetUserInfo, Seats
  <2>4. Cardinality(Seats') <= Cardinality(Seats) + 1
    BY <2>3, OneMore
  <2>5. Cardinality(Seats') \in Nat
    BY <1>0, <1>10, Counts, connected \cup {user[p]} \in SUBSET Users DEF SetUserInfo, Seats
  <2>6. CapRespected'
    <3>1. CASE user[p] \in Seats
      <4>1. Seats' = Seats
        BY <2>3, <3>1
      <4> QED
        BY <1>0, <4>1 DEF CapRespected
    <3>2. CASE Free
      BY <1>t, <2>4, <2>5, <3>2, LimitsAssumption DEF Free, CapRespected
    <3> QED
      BY <2>2, <3>1, <3>2
  <2> QED
    BY <1>0, <1>10, <2>1, <2>6 DEF SetUserInfo, PendingCapRespected
<1>11. CASE SetPreference(p)
  BY <1>0, <1>11, <1>r DEF SetPreference, Facts, Deciding, Inviting
<1>12. CASE DeleteUserInvite(p)
  <2>1. Facts(p)'
    BY <1>0, <1>12 DEF DeleteUserInvite, Facts, Deciding, Inviting
  <2>2. CASE invited' = invited
    BY <1>12, <1>r, <2>1, <2>2 DEF DeleteUserInvite
  <2>3. CASE invited' = invited \ {user[p]}
    <3>1. user[p] \in connected
      BY <1>0, <1>12 DEF DeleteUserInvite, Grounds
    <3>2. Seats' = Seats
      BY <1>12, <2>3, <3>1 DEF DeleteUserInvite, Seats
    <3>3. Cardinality(invited') <= Cardinality(invited) /\ Cardinality(invited') \in Nat
      BY <1>0, <2>3, OneMore, Counts, invited \ {user[p]} \in SUBSET Users
    <3> QED
      BY <1>0, <1>t, <2>1, <3>2, <3>3, LimitsAssumption DEF CapRespected, PendingCapRespected
  <2> QED
    BY <1>12, <2>2, <2>3 DEF DeleteUserInvite
<1>13. CASE DeleteUserFromWhitelist(p)
  BY <1>0, <1>13, <1>r DEF DeleteUserFromWhitelist, Facts, Deciding, Inviting
<1> QED
  BY <1>1, <1>2, <1>3, <1>4, <1>5, <1>6, <1>7, <1>8, <1>9, <1>10, <1>11, <1>12, <1>13 DEF Step

(* Every step, with a replica that is up to date.                          *)
LEMMA InvariantStep == ~Lag /\ IInv /\ [Next]_vars => IInv'
<1> SUFFICES ASSUME ~Lag, IInv, [Next]_vars PROVE IInv'
  OBVIOUS
<1>0. TypeOK /\ Mutex /\ SafeInv'
  BY SafeStep DEF IInv, SafeInv
<1>r. ASSUME UNCHANGED <<connected, invited>>
      PROVE  CapRespected' /\ PendingCapRespected'
  BY <1>r DEF IInv, SafeInv, CapRespected, PendingCapRespected, Seats
<1>1. ASSUME NEW p \in Procs, Begin(p) PROVE IInv'
  <2>1. \A q \in Procs : \/ pc'[q] \in {"idle", "lock"}
                         \/ pc'[q] = pc[q] /\ user'[q] = user[q] /\ kind'[q] = kind[q]
    BY <1>0, <1>1 DEF Begin, TypeOK
  <2>2. \A q \in Procs : Facts(q)'
    BY <1>0, <1>1, <2>1 DEF IInv, SafeInv, Begin, Reading, Facts, Critical, Deciding, Inviting, Free, Seats
  <2> QED
    BY <1>0, <1>1, <1>r, <2>2 DEF IInv, Begin, Reading
<1>2. ASSUME NEW p \in Procs, Acquire(p) PROVE IInv'
  <2>1. \A q \in Procs : pc[q] \in {"idle", "lock"}
    BY <1>0, <1>2, ProcsAssumption DEF Acquire, Mutex, Critical, TypeOK
  <2>2. \A q \in Procs \ {p} : pc'[q] \in {"idle", "lock"}
    BY <1>0, <1>2, <2>1 DEF Acquire, TypeOK
  <2>3. pc'[p] = "hasConnected" /\ lock' = p /\ whitelist' \subseteq eligible'
    BY <1>0, <1>2 DEF Acquire, TypeOK
  <2>4. \A q \in Procs : Facts(q)'
    BY <2>2, <2>3 DEF Facts, Critical, Deciding, Inviting
  <2> QED
    BY <1>0, <1>2, <1>r, <2>4 DEF IInv, Acquire
<1>3. ASSUME NEW p \in Procs, Step(p) PROVE IInv'
  <2>1. \A q \in Procs \ {p} : Facts(q)'
    BY <1>0, <1>3, Alone, NothingRelied
  <2> QED
    BY <1>0, <1>3, <2>1, OwnStep DEF IInv
<1>4. ASSUME NEW p \in Procs, Fail(p) PROVE IInv'
  <2>1. \A q \in Procs \ {p} : Facts(q)'
    BY <1>0, <1>4, Alone, NothingRelied
  <2>2. Facts(p)'
    BY <1>0, <1>4, NothingRelied DEF Fail, Return, TypeOK
  <2> QED
    BY <1>0, <1>4, <1>r, <2>1, <2>2 DEF IInv, Fail
<1>5. CASE SetWhitelist
  <2>1. \A q \in Procs : Facts(q)'
    BY <1>5 DEF IInv, SafeInv, SetWhitelist, Facts, Critical, Deciding, Inviting, Free, Seats
  <2> QED
    BY <1>0, <1>5, <1>r, <2>1 DEF IInv, SetWhitelist
<1>6. CASE Replicate
  BY <1>6 DEF Replicate
<1>7. CASE UNCHANGED vars
  <2>1. \A q \in Procs : Facts(q)'
    BY <1>7 DEF IInv, SafeInv, vars, Facts, Critical, Deciding, Inviting, Free, Seats
  <2> QED
    BY <1>0, <1>7, <1>r, <2>1 DEF IInv, vars
<1> QED
  BY <1>1, <1>2, <1>3, <1>4, <1>5, <1>6, <1>7 DEF Next

(* The first state.                                                        *)
LEMMA InvariantInit == Init => IInv
<1> SUFFICES ASSUME Init PROVE IInv
  OBVIOUS
<1>1. SafeInv
  BY SafeInit
<1>2. \A p \in Procs : Facts(p)
  BY DEF Init, Facts, Critical, Deciding, Inviting
<1>3. Cardinality(Seats) = 0 /\ Cardinality(invited) = 0
  BY FS_EmptySet DEF Init, Seats
<1> QED
  BY <1>1, <1>2, <1>3, LimitsAssumption DEF IInv, SafeInv, CapRespected, PendingCapRespected

(* The caps, and what they rest on, hold throughout.                       *)
LEMMA Invariant ==
    ASSUME ~Lag
    PROVE  Spec => []IInv
<1>1. IInv /\ [Next]_vars => IInv'
  BY InvariantStep
<1> QED
  BY InvariantInit, <1>1, PTL DEF Spec

(* With fresh reads, however requests interleave and whatever fails, no    *)
(* more than Allowed users ever hold a seat (connect.go, api.go).          *)
THEOREM CapTheorem ==
    ASSUME ~Lag
    PROVE  Spec => []CapRespected
<1>1. IInv => CapRespected
  BY DEF IInv, SafeInv
<1> QED
  BY Invariant, <1>1, PTL

(* Nor are more than MaxPending invitations ever pending (connect.go).     *)
THEOREM PendingCapTheorem ==
    ASSUME ~Lag
    PROVE  Spec => []PendingCapRespected
<1>1. IInv => PendingCapRespected
  BY DEF IInv, SafeInv
<1> QED
  BY Invariant, <1>1, PTL

-----------------------------------------------------------------------------
(* Only a user without a seat is turned away, and in an open plugin only   *)
(* when there is no seat left (api.go, oauthRedirectHandler).              *)
THEOREM DenialTheorem ==
    ASSUME ~Lag
    PROVE  Spec => DenialJustified
<1> DEFINE Justified == \A p \in Procs : Deny(p) =>
              /\ user[p] \notin Seats
              /\ ~Restricted => Cardinality(connected) + Cardinality(invited) >= Allowed
<1>1. IInv /\ [Next]_vars => [Justified]_vars
  <2> SUFFICES ASSUME IInv, NEW p \in Procs, Deny(p)
               PROVE  /\ user[p] \notin Seats
                      /\ ~Restricted => Cardinality(connected) + Cardinality(invited) >= Allowed
    OBVIOUS
  <2>1. pc[p] = "deny" /\ Facts(p) /\ TypeOK
    BY DEF IInv, SafeInv, Deny, At
  <2>2. user[p] \notin Seats
    BY <2>1 DEF Facts, Deciding, Seats
  <2>3. ~Restricted => ~Free
    BY <2>1 DEF Facts
  <2>4. Cardinality(connected) \in Nat /\ Cardinality(invited) \in Nat
    BY <2>1, Counts DEF TypeOK
  <2> QED
    BY <2>2, <2>3, <2>4, LimitsAssumption DEF Free
<1> QED
  BY Invariant, <1>1, PTL DEF Spec, DenialJustified

-----------------------------------------------------------------------------
(* Recorded is an invariant too, whatever fails.                           *)
LEMMA RecordedStep ==
    ASSUME ~Lag, IInv, Recorded, [Next]_vars
    PROVE  Recorded'
<1> DEFINE Tidying == {"setPreference", "deleteInvite"}
<1> USE DEF Recorded, Seats
<1>0. TypeOK /\ Mutex /\ \A p \in Procs : Facts(p)
  BY DEF IInv, SafeInv
<1>1. ASSUME NEW p \in Procs, Begin(p) \/ Acquire(p) PROVE Recorded'
  <2>1. UNCHANGED <<connected, invited, sent, kept>>
    BY <1>1 DEF Begin, Acquire, Reading
  <2>2. \A q \in Procs : pc[q] \in Tidying \cup {"storeInvited"} =>
           pc'[q] = pc[q] /\ user'[q] = user[q]
    BY <1>0, <1>1 DEF Begin, Acquire, At, TypeOK
  <2> QED
    BY <2>1, <2>2
<1>2. ASSUME NEW p \in Procs, Step(p) PROVE Recorded'
  <2>0. \A q \in Procs : pc[q] \notin {"idle", "lock"} => q = p
    BY <1>0, <1>2, StepIsCritical DEF Mutex, Critical
  <2> USE <1>0, <2>0 DEF At, Goto, Return, TypeOK, Reading
  <2>1. CASE UserHasConnected(p)
    BY <2>1 DEF UserHasConnected
  <2>2. CASE GetInvitedUser(p)
    BY <2>2 DEF GetInvitedUser
  <2>3. CASE IsUserWhitelisted(p)
    BY <2>3 DEF IsUserWhitelisted
  <2>4. CASE GetHasConnectedCount(p)
    BY <2>4 DEF GetHasConnectedCount
  <2>5. CASE GetInvitedCount(p)
    BY <2>5 DEF GetInvitedCount
  <2>6. CASE SendInviteMessage(p)
    BY <2>6 DEF SendInviteMessage
  <2>7. CASE StoreInvitedUser(p)
    <3>1. user[p] \notin connected
      BY <2>7 DEF StoreInvitedUser, Facts, Inviting
    <3> QED
      BY <2>7, <3>1 DEF StoreInvitedUser
  <2>8. CASE DropFromWhitelist(p)
    BY <2>8 DEF DropFromWhitelist
  <2>9. CASE Deny(p)
    BY <2>9 DEF Deny
  <2>10. CASE SetUserInfo(p)
    BY <2>10 DEF SetUserInfo
  <2>11. CASE SetPreference(p)
    BY <2>11 DEF SetPreference
  <2>12. CASE DeleteUserInvite(p)
    <3>1. user[p] \in connected
      BY <2>12 DEF IInv, SafeInv, DeleteUserInvite, Grounds
    <3> QED
      BY <2>12, <3>1 DEF DeleteUserInvite, LeftInPlace
  <2>13. CASE DeleteUserFromWhitelist(p)
    BY <2>13 DEF DeleteUserFromWhitelist
  <2> QED
    BY <1>2, <2>1, <2>2, <2>3, <2>4, <2>5, <2>6, <2>7, <2>8, <2>9, <2>10, <2>11, <2>12, <2>13
       DEF Step
<1>3. ASSUME NEW p \in Procs, Fail(p) PROVE Recorded'
  <2>1. /\ \A q \in Procs : pc[q] \notin {"idle", "lock"} => q = p
        /\ \A q \in Procs \ {p} : pc'[q] = pc[q] /\ user'[q] = user[q]
    <3>1. \A q \in Procs : pc[q] \notin {"idle", "lock"} => q = p
      BY <1>0, <1>3, StepIsCritical DEF Mutex, Critical
    <3>2. \A q \in Procs \ {p} : pc'[q] = pc[q] /\ user'[q] = user[q]
      BY <1>0, <1>3 DEF Fail, Return, TypeOK
    <3> QED
      BY <3>1, <3>2
  <2> QED
    BY <1>3, <2>1 DEF Fail, At, LeftInPlace
<1>4. CASE SetWhitelist \/ Replicate \/ UNCHANGED vars
  BY <1>4 DEF SetWhitelist, Replicate, vars
<1> QED
  BY <1>1, <1>2, <1>3, <1>4 DEF Next

(* So does what a decision left in the tables.                             *)
LEMMA RecordedInvariant ==
    ASSUME ~Lag
    PROVE  Spec => [](IInv /\ Recorded)
<1>1. Init => IInv /\ Recorded
  BY InvariantInit DEF Init, Recorded
<1>2. IInv /\ Recorded /\ [Next]_vars => (IInv /\ Recorded)'
  BY InvariantStep, RecordedStep
<1> QED
  BY <1>1, <1>2, PTL DEF Spec

(* With fresh reads nobody is invited twice (connect.go: "only send once"),*)
(* unless the first invitation could not be recorded.                      *)
THEOREM InviteOnceTheorem ==
    ASSUME ~Lag
    PROVE  Spec => InviteOnce
<1>1. IInv /\ Recorded /\ [Next]_vars =>
         [\A p \in Procs : SendInviteMessage(p) => user[p] \notin sent]_vars
  <2> SUFFICES ASSUME IInv, Recorded, NEW p \in Procs, SendInviteMessage(p)
               PROVE  user[p] \notin sent
    OBVIOUS
  <2>1. pc[p] = "send" /\ Mutex /\ user[p] \notin Seats
    BY DEF IInv, SafeInv, SendInviteMessage, At, Facts, Inviting, Seats
  <2>2. \A q \in Procs : pc[q] # "storeInvited"
    BY <2>1 DEF Mutex, Critical
  <2> QED
    BY <2>1, <2>2 DEF Recorded
<1> QED
  BY RecordedInvariant, <1>1, PTL DEF Spec, InviteOnce

(* With fresh reads the two counts the limit is held to never count a user *)
(* twice, unless the deletion of the user's invitation failed (api.go).    *)
THEOREM NoDoubleCountTheorem ==
    ASSUME ~Lag
    PROVE  Spec => []NoDoubleCount
<1>1. IInv /\ Recorded => NoDoubleCount
  BY ProcsAssumption DEF IInv, SafeInv, Recorded, NoDoubleCount, Mutex, Critical
<1> QED
  BY RecordedInvariant, <1>1, PTL

-----------------------------------------------------------------------------
(* The seats of the ledger are the rows of the two tables.                 *)
LEMMA LedgerReading ==
    /\ Ledger!Taken = Seats \cap Users
    /\ Ledger!With("invited") = (invited \ connected) \cap Users
BY DEF Ledger!Taken, Ledger!With, SeatOf, Seats

(* The ledger counts as the tables are counted.                            *)
LEMMA LedgerCounts == \A S : Ledger!Cardinality(S) = Cardinality(S)
BY DEF Cardinality, Ledger!Cardinality

(* Every step hands out a seat the way SeatLedger allows, or none.         *)
LEMMA LedgerStep ==
    ASSUME ~Lag, IInv, [Next]_vars
    PROVE  [Ledger!Next]_SeatOf
<1>0. TypeOK
  BY DEF IInv, SafeInv
<1>t. /\ Cardinality(connected) \in Nat /\ Cardinality(invited) \in Nat
      /\ Cardinality(Seats) \in Nat
      /\ Cardinality(Seats) <= Cardinality(connected) + Cardinality(invited)
      /\ Ledger!Taken = Seats
  BY <1>0, Counts, LedgerReading DEF TypeOK, Seats
<1>1. ASSUME NEW p \in Procs, StoreInvitedUser(p) PROVE [Ledger!Next]_SeatOf
  <2>1. /\ user[p] \in Users /\ user[p] \notin Seats
        /\ Free /\ Cardinality(invited) < MaxPending
    BY <1>0, <1>1 DEF IInv, SafeInv, StoreInvitedUser, At, Facts, Inviting, Seats, ActiveUser
  <2>2. SeatOf[user[p]] = "none" /\ SeatOf' = [SeatOf EXCEPT ![user[p]] = "invited"]
    BY <1>1, <2>1 DEF StoreInvitedUser, SeatOf, Seats
  <2>3. Cardinality(Ledger!Taken) < Allowed
    BY <1>t, <2>1, LimitsAssumption DEF Free
  <2>4. Cardinality(Ledger!With("invited")) < MaxPending
    <3>1. Ledger!With("invited") = invited \ connected
      BY <1>0, LedgerReading DEF TypeOK
    <3>2. invited \ connected \in SUBSET invited /\ IsFiniteSet(invited)
      BY <1>0, UsersAssumption, FS_Subset DEF TypeOK
    <3>3. /\ Cardinality(invited \ connected) <= Cardinality(invited)
          /\ Cardinality(invited \ connected) \in Nat
      BY <3>2, FS_Subset, FS_CardinalityType
    <3>4. Cardinality(invited \ connected) < MaxPending
      BY <1>t, <2>1, <3>3, LimitsAssumption
    <3> QED
      BY <3>1, <3>4
  <2> QED
    BY <2>1, <2>2, <2>3, <2>4, LedgerCounts DEF Ledger!Next, Ledger!Invite
<1>2. ASSUME NEW p \in Procs, SetUserInfo(p) PROVE [Ledger!Next]_SeatOf
  <2>1. user[p] \in Users /\ (user[p] \in Seats \/ Free)
    BY <1>0, <1>2 DEF IInv, SafeInv, SetUserInfo, At, Facts, ActiveUser
  <2>2. SeatOf' = [SeatOf EXCEPT ![user[p]] = "connected"]
    BY <1>2, <2>1 DEF SetUserInfo, SeatOf
  <2>3. CASE user[p] \in connected
    BY <1>2, <2>1, <2>3 DEF SetUserInfo, SeatOf
  <2>4. CASE user[p] \in invited \ connected
    <3>1. SeatOf[user[p]] = "invited"
      BY <2>1, <2>4 DEF SeatOf
    <3> QED
      BY <2>1, <2>2, <3>1 DEF Ledger!Next, Ledger!AcceptInvite
  <2>5. CASE user[p] \notin Seats
    <3>1. SeatOf[user[p]] = "none" /\ Free
      BY <2>1, <2>5 DEF SeatOf, Seats
    <3>2. Cardinality(Ledger!Taken) < Allowed
      BY <1>t, <3>1, LimitsAssumption DEF Free
    <3> QED
      BY <2>1, <2>2, <3>1, <3>2, LedgerCounts DEF Ledger!Next, Ledger!ConnectOpenly
  <2> QED
    BY <2>3, <2>4, <2>5 DEF Seats
<1>3. ASSUME NEW p \in Procs, DeleteUserInvite(p) PROVE [Ledger!Next]_SeatOf
  <2>1. user[p] \in connected
    BY <1>3 DEF IInv, SafeInv, DeleteUserInvite, At, Grounds
  <2> QED
    BY <1>3, <2>1 DEF DeleteUserInvite, SeatOf
<1>4. CASE UNCHANGED <<connected, invited>>
  BY <1>4 DEF SeatOf
<1> QED
  BY <1>1, <1>2, <1>3, <1>4, SeatsKept

(* With fresh reads the admission code implements SeatLedger: seats are    *)
(* handed out one at a time, within both limits, and never taken back.     *)
THEOREM Refinement ==
    ASSUME ~Lag
    PROVE  Spec => LedgerSpec
<1>1. Init => Ledger!Init
  BY DEF Init, Ledger!Init, SeatOf
<1>2. IInv /\ [Next]_vars => [Ledger!Next]_SeatOf
  BY LedgerStep
<1> QED
  BY Invariant, <1>1, <1>2, PTL DEF Spec, LedgerSpec, Ledger!Spec
=============================================================================
