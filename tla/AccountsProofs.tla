--------------------------- MODULE AccountsProofs ---------------------------
(***************************************************************************)
(* Theorems about Accounts for any set of handlers, any bounds, with a     *)
(* replica that lags or not.                                               *)
(*                                                                         *)
(* A handler carries a row between the two statements of setUserInfo, so   *)
(* what holds of the row in the table must hold of the rows in hand too,   *)
(* and a row in hand that says "never connected" must belong to the holder *)
(* of the mutex while the table still says so: nobody else gets as far as  *)
(* writing before the user's first connection.                             *)
(***************************************************************************)
EXTENDS Accounts, TLAPS

(* The times of row r tell whether it has a token, and lie in the past.    *)
Agree(r) ==
    /\ r.token # 0 => r.lc > r.ld
    /\ r.token = 0 /\ r.lc # 0 => r.ld >= r.lc
    /\ r.lc <= clock /\ r.ld <= clock

Times == Agree(row) /\ Agree(replica) /\ \A p \in Procs : Agree(next[p])

(* Where a handler may be without the mutex before the first connection.   *)
Early == {"idle", "exchange", "lock", "preference", "post", "received"}

NoSeat ==
    /\ replica.lc # 0 => row.lc # 0
    /\ \A p \in Procs : row.lc = 0 /\ lock # p => pc[p] \in Early
    /\ \A p \in Procs : pc[p] = "write" /\ next[p].lc = 0 => lock = p /\ row.lc = 0

(* A callback that is to switch notifications on stores a token first.     *)
Enabling ==
    /\ \A p \in Procs : then[p] \in {"idle", "call", "tell", "disable", "enable"}
    /\ \A p \in Procs : pc[p] \in {"lock", "right"} => token[p] # 0
    /\ \A p \in Procs : then[p] = "enable" =>
          /\ pc[p] = "status" => token[p] # 0
          /\ pc[p] = "write" => next[p].lc # 0
    /\ \A p \in Procs : pc[p] = "enable" => row.lc # 0

(* Whoever is about to store a token is a callback that holds the mutex,   *)
(* or goes on to call Graph with it after a refresh.                       *)
Holding ==
    \A p \in Procs :
        /\ pc[p] = "right" => lock = p
        /\ pc[p] \in {"status", "write"} /\ then[p] = "enable" => lock = p
        /\ pc[p] = "status" /\ token[p] # 0 => then[p] \in {"call", "enable"}
        /\ pc[p] = "write" /\ next[p].token # 0 => then[p] \in {"call", "enable"}

IInv == TypeOK /\ Times /\ NoSeat /\ Enabling /\ Holding /\ NotifiedOnceConnected

-----------------------------------------------------------------------------
(* What a read of the row returns, from the master or from the replica.    *)
LEMMA ViewIs == View = row \/ View = replica
BY DEF View

(* Every step keeps the types.                                             *)
LEMMA TypingStep == TypeOK /\ [Next]_vars => TypeOK'
<1> SUFFICES ASSUME TypeOK, [Next]_vars PROVE TypeOK'
  OBVIOUS
<1> USE ProcsAssumption, BoundsAssumption, ViewIs
    DEF TypeOK, Row, NoRow, Tokens, Labels, At, Goto, Return, Store, Reading, vars, graph, locals
<1>1. ASSUME NEW p \in Procs, Step(p) PROVE TypeOK'
  <2>1. CASE ReadStatus(p)
    BY <2>1 DEF ReadStatus, StatusTimes
  <2>2. CASE Write(p)
    BY <2>2 DEF Write
  <2>3. CASE GetClientForUser(p)
    BY <2>3 DEF GetClientForUser
  <2>4. CASE RefreshToken(p)
    <3>1. CASE Lose(p) /\ UNCHANGED graph
      BY <2>4, <3>1 DEF RefreshToken, Lose, Issue
    <3>2. CASE Issue /\ Store(p, issued', "call")
      BY <2>4, <3>2 DEF RefreshToken, Lose, Issue
    <3> QED BY <2>4, <3>1, <3>2 DEF RefreshToken
  <2>5. CASE Call(p)
    <3>1. CASE Lose(p)
      BY <2>5, <3>1 DEF Call, Lose
    <3>2. CASE Return(p)
      BY <2>5, <3>2 DEF Call, Lose
    <3> QED BY <2>5, <3>1, <3>2 DEF Call
  <2>6. CASE Tell(p)
    BY <2>6 DEF Tell
  <2>7. CASE ExecuteDisconnectCommand(p)
    BY <2>7 DEF ExecuteDisconnectCommand
  <2>8. CASE ExecuteNotificationsCommand(p)
    BY <2>8 DEF ExecuteNotificationsCommand
  <2>9. CASE SetNotificationPreference(p)
    BY <2>9 DEF SetNotificationPreference
  <2>10. CASE Callback(p)
    BY <2>10 DEF Callback
  <2>11. CASE Exchange(p)
    BY <2>11 DEF Exchange, Issue
  <2>12. CASE Acquire(p)
    BY <2>12 DEF Acquire
  <2>13. CASE UserHasRightToConnect(p)
    <3>1. CASE Store(p, token[p], "enable")
      BY <2>13, <3>1 DEF UserHasRightToConnect
    <3>2. CASE Store(p, 0, "idle")
      BY <2>13, <3>2 DEF UserHasRightToConnect
    <3> QED BY <2>13, <3>1, <3>2 DEF UserHasRightToConnect
  <2>14. CASE TeamsToMattermostUserID(p)
    BY <2>14 DEF TeamsToMattermostUserID
  <2>15. CASE GetNotificationPreference(p)
    <3>1. CASE pref = "on" /\ Goto(p, "post") /\ UNCHANGED token
      BY <2>15, <3>1 DEF GetNotificationPreference
    <3>2. CASE pref = "off" /\ Return(p)
      BY <2>15, <3>2 DEF GetNotificationPreference
    <3> QED BY <2>15, <3>1, <3>2 DEF GetNotificationPreference
  <2>16. CASE Post(p)
    BY <2>16 DEF Post
  <2>17. CASE SetUserLastChatReceivedAt(p)
    BY <2>17 DEF SetUserLastChatReceivedAt
  <2>18. CASE Fail(p)
    BY <2>18 DEF Fail
  <2> QED BY <1>1, <2>1, <2>2, <2>3, <2>4, <2>5, <2>6, <2>7, <2>8, <2>9, <2>10, <2>11, <2>12, <2>13, <2>14, <2>15, <2>16, <2>17, <2>18 DEF Step
<1>2. CASE Expire
  BY <1>2 DEF Expire
<1>3. CASE Revoke
  <2>1. 1..issued \subseteq 0..MaxTokens
    OBVIOUS
  <2> QED BY <1>3, <2>1 DEF Revoke
<1>4. CASE Replicate
  BY <1>4 DEF Replicate
<1>5. CASE UNCHANGED vars
  BY <1>5
<1> QED BY <1>1, <1>2, <1>3, <1>4, <1>5 DEF Next

(* Every row, in the tables and in hand, has times that agree with it.     *)
LEMMA TimesStep == TypeOK /\ TypeOK' /\ Times /\ [Next]_vars => Times'
<1> SUFFICES ASSUME TypeOK, TypeOK', Times, [Next]_vars PROVE Times'
  OBVIOUS
<1> USE ProcsAssumption, BoundsAssumption
    DEF TypeOK, Row, NoRow, Tokens, At, Goto, Return, Store, Reading, vars, graph, locals, Times, Agree
<1>1. ASSUME NEW p \in Procs, Step(p) PROVE Times'
  <2>1. CASE ReadStatus(p)
    BY <2>1 DEF ReadStatus, StatusTimes
  <2>2. CASE Write(p)
    <3>1. CASE then[p] = "idle" /\ Return(p)
      BY <2>2, <3>1 DEF Write
    <3>2. CASE then[p] # "idle" /\ Goto(p, then[p]) /\ UNCHANGED token
      BY <2>2, <3>2 DEF Write
    <3> QED BY <2>2, <3>1, <3>2 DEF Write
  <2>3. CASE GetClientForUser(p)
    BY <2>3 DEF GetClientForUser
  <2>4. CASE RefreshToken(p)
    BY <2>4 DEF RefreshToken, Lose, Issue
  <2>5. CASE Call(p)
    BY <2>5 DEF Call, Lose
  <2>6. CASE Tell(p)
    BY <2>6 DEF Tell
  <2>7. CASE ExecuteDisconnectCommand(p)
    BY <2>7 DEF ExecuteDisconnectCommand
  <2>8. CASE ExecuteNotificationsCommand(p)
    BY <2>8 DEF ExecuteNotificationsCommand
  <2>9. CASE SetNotificationPreference(p)
    BY <2>9 DEF SetNotificationPreference
  <2>10. CASE Callback(p)
    BY <2>10 DEF Callback
  <2>11. CASE Exchange(p)
    BY <2>11 DEF Exchange, Issue
  <2>12. CASE Acquire(p)
    BY <2>12 DEF Acquire
  <2>13. CASE UserHasRightToConnect(p)
    BY <2>13, ViewIs DEF UserHasRightToConnect
  <2>14. CASE TeamsToMattermostUserID(p)
    BY <2>14 DEF TeamsToMattermostUserID
  <2>15. CASE GetNotificationPreference(p)
    BY <2>15 DEF GetNotificationPreference
  <2>16. CASE Post(p)
    BY <2>16 DEF Post
  <2>17. CASE SetUserLastChatReceivedAt(p)
    BY <2>17 DEF SetUserLastChatReceivedAt
  <2>18. CASE Fail(p)
    BY <2>18 DEF Fail
  <2> QED BY <1>1, <2>1, <2>2, <2>3, <2>4, <2>5, <2>6, <2>7, <2>8, <2>9, <2>10, <2>11, <2>12, <2>13, <2>14, <2>15, <2>16, <2>17, <2>18 DEF Step
<1>2. CASE Expire
  BY <1>2 DEF Expire
<1>3. CASE Revoke
  BY <1>3 DEF Revoke
<1>4. CASE Replicate
  BY <1>4 DEF Replicate
<1>5. CASE UNCHANGED vars
  BY <1>5
<1> QED BY <1>1, <1>2, <1>3, <1>4, <1>5 DEF Next

(* Nobody but the holder of the mutex gets to write before the first one.  *)
LEMMA NoSeatStep == TypeOK /\ TypeOK' /\ Times /\ NoSeat /\ [Next]_vars => NoSeat'
<1> SUFFICES ASSUME TypeOK, TypeOK', Times, NoSeat, [Next]_vars PROVE NoSeat'
  OBVIOUS
<1> DEFINE Seen == View.token # 0 => row.lc # 0
<1>0. Seen
  BY ViewIs DEF TypeOK, Row, Tokens, NoSeat, Times, Agree
<1> USE ProcsAssumption, BoundsAssumption, <1>0
    DEF TypeOK, Row, NoRow, Tokens, At, Goto, Return, Store, Reading, vars, graph, locals, NoSeat, Early
<1>1. ASSUME NEW p \in Procs, Step(p) PROVE NoSeat'
  <2>1. CASE ReadStatus(p)
    BY <2>1 DEF ReadStatus, StatusTimes
  <2>2. CASE Write(p)
    <3>1. CASE then[p] = "idle" /\ Return(p)
      BY <2>2, <3>1 DEF Write
    <3>2. CASE then[p] # "idle" /\ Goto(p, then[p]) /\ UNCHANGED token
      BY <2>2, <3>2 DEF Write
    <3> QED BY <2>2, <3>1, <3>2 DEF Write
  <2>3. CASE GetClientForUser(p)
    BY <2>3 DEF GetClientForUser
  <2>4. CASE RefreshToken(p)
    BY <2>4 DEF RefreshToken, Lose, Issue
  <2>5. CASE Call(p)
    BY <2>5 DEF Call, Lose
  <2>6. CASE Tell(p)
    BY <2>6 DEF Tell
  <2>7. CASE ExecuteDisconnectCommand(p)
    BY <2>7 DEF ExecuteDisconnectCommand
  <2>8. CASE ExecuteNotificationsCommand(p)
    BY <2>8 DEF ExecuteNotificationsCommand
  <2>9. CASE SetNotificationPreference(p)
    BY <2>9 DEF SetNotificationPreference
  <2>10. CASE Callback(p)
    BY <2>10 DEF Callback
  <2>11. CASE Exchange(p)
    BY <2>11 DEF Exchange, Issue
  <2>12. CASE Acquire(p)
    BY <2>12 DEF Acquire
  <2>13. CASE UserHasRightToConnect(p)
    BY <2>13, ViewIs DEF UserHasRightToConnect
  <2>14. CASE TeamsToMattermostUserID(p)
    BY <2>14 DEF TeamsToMattermostUserID
  <2>15. CASE GetNotificationPreference(p)
    <3>1. CASE pref = "on" /\ Goto(p, "post") /\ UNCHANGED token
      BY <2>15, <3>1 DEF GetNotificationPreference
    <3>2. CASE pref = "off" /\ Return(p)
      BY <2>15, <3>2 DEF GetNotificationPreference
    <3> QED BY <2>15, <3>1, <3>2 DEF GetNotificationPreference
  <2>16. CASE Post(p)
    BY <2>16 DEF Post
  <2>17. CASE SetUserLastChatReceivedAt(p)
    BY <2>17 DEF SetUserLastChatReceivedAt
  <2>18. CASE Fail(p)
    BY <2>18 DEF Fail
  <2> QED BY <1>1, <2>1, <2>2, <2>3, <2>4, <2>5, <2>6, <2>7, <2>8, <2>9, <2>10, <2>11, <2>12, <2>13, <2>14, <2>15, <2>16, <2>17, <2>18 DEF Step
<1>2. CASE Expire
  BY <1>2 DEF Expire
<1>3. CASE Revoke
  BY <1>3 DEF Revoke
<1>4. CASE Replicate
  BY <1>4 DEF Replicate
<1>5. CASE UNCHANGED vars
  BY <1>5
<1> QED BY <1>1, <1>2, <1>3, <1>4, <1>5 DEF Next

(* Notifications are switched on after a token was stored.                 *)
LEMMA EnablingStep ==
    TypeOK /\ TypeOK' /\ Times /\ NoSeat /\ Enabling /\ [Next]_vars => Enabling'
<1> SUFFICES ASSUME TypeOK, TypeOK', Times, NoSeat, Enabling, [Next]_vars PROVE Enabling'
  OBVIOUS
<1> DEFINE Seen == View.token # 0 => row.lc # 0
<1>0. Seen
  BY ViewIs DEF TypeOK, Row, Tokens, NoSeat, Times, Agree
<1> USE ProcsAssumption, BoundsAssumption, <1>0
    DEF TypeOK, Row, NoRow, Tokens, At, Goto, Return, Store, Reading, vars, graph, locals, NoSeat, Early, Enabling
<1>1. ASSUME NEW p \in Procs, Step(p) PROVE Enabling'
  <2>1. CASE ReadStatus(p)
    BY <2>1 DEF ReadStatus, StatusTimes
  <2>2. CASE Write(p)
    <3>1. CASE then[p] = "idle" /\ Return(p)
      BY <2>2, <3>1 DEF Write
    <3>2. CASE then[p] # "idle" /\ Goto(p, then[p]) /\ UNCHANGED token
      BY <2>2, <3>2 DEF Write
    <3> QED BY <2>2, <3>1, <3>2 DEF Write
  <2>3. CASE GetClientForUser(p)
    BY <2>3 DEF GetClientForUser
  <2>4. CASE RefreshToken(p)
    <3>1. CASE Lose(p) /\ UNCHANGED graph
      BY <2>4, <3>1 DEF RefreshToken, Lose, Issue
    <3>2. CASE Issue /\ Store(p, issued', "call")
      BY <2>4, <3>2 DEF RefreshToken, Lose, Issue
    <3> QED BY <2>4, <3>1, <3>2 DEF RefreshToken
  <2>5. CASE Call(p)
    <3>1. CASE Lose(p)
      BY <2>5, <3>1 DEF Call, Lose
    <3>2. CASE Return(p)
      BY <2>5, <3>2 DEF Call, Lose
    <3> QED BY <2>5, <3>1, <3>2 DEF Call
  <2>6. CASE Tell(p)
    BY <2>6 DEF Tell
  <2>7. CASE ExecuteDisconnectCommand(p)
    BY <2>7 DEF ExecuteDisconnectCommand
  <2>8. CASE ExecuteNotificationsCommand(p)
    BY <2>8 DEF ExecuteNotificationsCommand
  <2>9. CASE SetNotificationPreference(p)
    BY <2>9 DEF SetNotificationPreference
  <2>10. CASE Callback(p)
    BY <2>10 DEF Callback
  <2>11. CASE Exchange(p)
    BY <2>11 DEF Exchange, Issue
  <2>12. CASE Acquire(p)
    BY <2>12 DEF Acquire
  <2>13. CASE UserHasRightToConnect(p)
    <3>1. CASE Store(p, token[p], "enable")
      BY <2>13, <3>1 DEF UserHasRightToConnect
    <3>2. CASE Store(p, 0, "idle")
      BY <2>13, <3>2 DEF UserHasRightToConnect
    <3> QED BY <2>13, <3>1, <3>2 DEF UserHasRightToConnect
  <2>14. CASE TeamsToMattermostUserID(p)
    BY <2>14 DEF TeamsToMattermostUserID
  <2>15. CASE GetNotificationPreference(p)
    <3>1. CASE pref = "on" /\ Goto(p, "post") /\ UNCHANGED token
      BY <2>15, <3>1 DEF GetNotificationPreference
    <3>2. CASE pref = "off" /\ Return(p)
      BY <2>15, <3>2 DEF GetNotificationPreference
    <3> QED BY <2>15, <3>1, <3>2 DEF GetNotificationPreference
  <2>16. CASE Post(p)
    BY <2>16 DEF Post
  <2>17. CASE SetUserLastChatReceivedAt(p)
    BY <2>17 DEF SetUserLastChatReceivedAt
  <2>18. CASE Fail(p)
    BY <2>18 DEF Fail
  <2> QED BY <1>1, <2>1, <2>2, <2>3, <2>4, <2>5, <2>6, <2>7, <2>8, <2>9, <2>10, <2>11, <2>12, <2>13, <2>14, <2>15, <2>16, <2>17, <2>18 DEF Step
<1>2. CASE Expire
  BY <1>2 DEF Expire
<1>3. CASE Revoke
  BY <1>3 DEF Revoke
<1>4. CASE Replicate
  BY <1>4 DEF Replicate
<1>5. CASE UNCHANGED vars
  BY <1>5
<1> QED BY <1>1, <1>2, <1>3, <1>4, <1>5 DEF Next

(* A token is in the hands of a callback with the mutex, or of a refresh.  *)
LEMMA HoldingStep == TypeOK /\ Enabling /\ Holding /\ [Next]_vars => Holding'
<1> SUFFICES ASSUME TypeOK, Enabling, Holding, [Next]_vars PROVE Holding'
  OBVIOUS
<1> USE ProcsAssumption, BoundsAssumption
    DEF TypeOK, Row, NoRow, Tokens, At, Goto, Return, Store, Reading, vars, graph, locals, Enabling, Holding
<1>1. ASSUME NEW p \in Procs, Step(p) PROVE Holding'
  <2>1. CASE ReadStatus(p)
    BY <2>1 DEF ReadStatus, StatusTimes
  <2>2. CASE Write(p)
    <3>1. CASE then[p] = "idle" /\ Return(p)
      BY <2>2, <3>1 DEF Write
    <3>2. CASE then[p] # "idle" /\ Goto(p, then[p]) /\ UNCHANGED token
      BY <2>2, <3>2 DEF Write
    <3> QED BY <2>2, <3>1, <3>2 DEF Write
  <2>3. CASE GetClientForUser(p)
    BY <2>3 DEF GetClientForUser
  <2>4. CASE RefreshToken(p)
    <3>1. CASE Lose(p) /\ UNCHANGED graph
      BY <2>4, <3>1 DEF RefreshToken, Lose, Issue
    <3>2. CASE Issue /\ Store(p, issued', "call")
      BY <2>4, <3>2 DEF RefreshToken, Lose, Issue
    <3> QED BY <2>4, <3>1, <3>2 DEF RefreshToken
  <2>5. CASE Call(p)
    <3>1. CASE Lose(p)
      BY <2>5, <3>1 DEF Call, Lose
    <3>2. CASE Return(p)
      BY <2>5, <3>2 DEF Call, Lose
    <3> QED BY <2>5, <3>1, <3>2 DEF Call
  <2>6. CASE Tell(p)
    BY <2>6 DEF Tell
  <2>7. CASE ExecuteDisconnectCommand(p)
    BY <2>7 DEF ExecuteDisconnectCommand
  <2>8. CASE ExecuteNotificationsCommand(p)
    BY <2>8 DEF ExecuteNotificationsCommand
  <2>9. CASE SetNotificationPreference(p)
    BY <2>9 DEF SetNotificationPreference
  <2>10. CASE Callback(p)
    BY <2>10 DEF Callback
  <2>11. CASE Exchange(p)
    BY <2>11 DEF Exchange, Issue
  <2>12. CASE Acquire(p)
    BY <2>12 DEF Acquire
  <2>13. CASE UserHasRightToConnect(p)
    <3>1. CASE Store(p, token[p], "enable")
      BY <2>13, <3>1 DEF UserHasRightToConnect
    <3>2. CASE Store(p, 0, "idle")
      BY <2>13, <3>2 DEF UserHasRightToConnect
    <3> QED BY <2>13, <3>1, <3>2 DEF UserHasRightToConnect
  <2>14. CASE TeamsToMattermostUserID(p)
    BY <2>14 DEF TeamsToMattermostUserID
  <2>15. CASE GetNotificationPreference(p)
    <3>1. CASE pref = "on" /\ Goto(p, "post") /\ UNCHANGED token
      BY <2>15, <3>1 DEF GetNotificationPreference
    <3>2. CASE pref = "off" /\ Return(p)
      BY <2>15, <3>2 DEF GetNotificationPreference
    <3> QED BY <2>15, <3>1, <3>2 DEF GetNotificationPreference
  <2>16. CASE Post(p)
    BY <2>16 DEF Post
  <2>17. CASE SetUserLastChatReceivedAt(p)
    BY <2>17 DEF SetUserLastChatReceivedAt
  <2>18. CASE Fail(p)
    BY <2>18 DEF Fail
  <2> QED BY <1>1, <2>1, <2>2, <2>3, <2>4, <2>5, <2>6, <2>7, <2>8, <2>9, <2>10, <2>11, <2>12, <2>13, <2>14, <2>15, <2>16, <2>17, <2>18 DEF Step
<1>2. CASE Expire
  BY <1>2 DEF Expire
<1>3. CASE Revoke
  BY <1>3 DEF Revoke
<1>4. CASE Replicate
  BY <1>4 DEF Replicate
<1>5. CASE UNCHANGED vars
  BY <1>5
<1> QED BY <1>1, <1>2, <1>3, <1>4, <1>5 DEF Next

(* Two statements write the row.                                           *)
LEMMA Writers ==
  [Next]_vars => row' = row \/ \E p \in Procs : Write(p) \/ SetUserLastChatReceivedAt(p)
BY DEF Next, Step, vars, Reading, ReadStatus, GetClientForUser, RefreshToken, Call, Tell,
   ExecuteDisconnectCommand, ExecuteNotificationsCommand, SetNotificationPreference,
   Callback, Exchange, Acquire, UserHasRightToConnect, TeamsToMattermostUserID,
   GetNotificationPreference, Post, Fail, Expire, Revoke, Replicate

(* Notifications are switched on with a connection in the row.             *)
LEMMA NotifiedStep ==
    TypeOK /\ Times /\ NoSeat /\ Enabling /\ NotifiedOnceConnected /\ [Next]_vars
        => NotifiedOnceConnected' /\ (row.lc # 0 => row'.lc # 0)
<1> SUFFICES ASSUME TypeOK, Times, NoSeat, Enabling, NotifiedOnceConnected, [Next]_vars
             PROVE NotifiedOnceConnected' /\ (row.lc # 0 => row'.lc # 0)
  OBVIOUS
<1>1. row.lc # 0 => row'.lc # 0
  <2>1. row' = row \/ \E p \in Procs : Write(p) \/ SetUserLastChatReceivedAt(p)
    BY Writers
  <2>2. ASSUME NEW p \in Procs, Write(p) PROVE row.lc # 0 => row'.lc # 0
    BY <2>2 DEF Write, At, NoSeat
  <2>3. ASSUME NEW p \in Procs, SetUserLastChatReceivedAt(p) PROVE row.lc # 0 => row'.lc # 0
    BY <2>3 DEF SetUserLastChatReceivedAt, TypeOK, Row
  <2> QED BY <2>1, <2>2, <2>3
<1>2. pref' = pref \/ \E p \in Procs : SetNotificationPreference(p)
  BY DEF Next, Step, vars, Reading, ReadStatus, Write, GetClientForUser, RefreshToken, Call, Tell,
     ExecuteDisconnectCommand, ExecuteNotificationsCommand,
     Callback, Exchange, Acquire, UserHasRightToConnect, TeamsToMattermostUserID,
     GetNotificationPreference, Post, SetUserLastChatReceivedAt, Fail, Expire, Revoke, Replicate
<1>3. ASSUME NEW p \in Procs, SetNotificationPreference(p) PROVE NotifiedOnceConnected'
  BY <1>3 DEF SetNotificationPreference, At, Enabling, NotifiedOnceConnected
<1> QED BY <1>1, <1>2, <1>3 DEF NotifiedOnceConnected

(* The first state.                                                        *)
LEMMA InitIInv == Init => IInv
<1> SUFFICES ASSUME Init PROVE IInv
  OBVIOUS
<1>1. NoRow \in Row
  BY BoundsAssumption DEF NoRow, Row, Tokens
<1>2. TypeOK
  BY <1>1, BoundsAssumption, ProcsAssumption DEF Init, TypeOK, Tokens, Labels
<1> QED BY <1>2 DEF Init, IInv, Times, Agree, NoRow, NoSeat, Early, Enabling, Holding,
            NotifiedOnceConnected

(* The parts together hold throughout.                                     *)
LEMMA Invariance == Spec => []IInv
<1>1. IInv /\ [Next]_vars => IInv'
  BY TypingStep, TimesStep, NoSeatStep, EnablingStep, HoldingStep, NotifiedStep DEF IInv
<1> QED BY InitIInv, <1>1, PTL DEF Spec

-----------------------------------------------------------------------------
(* Every variable keeps its type: rows, tokens and times within bounds.    *)
THEOREM TypeCorrect == Spec => []TypeOK
<1>1. IInv => TypeOK
  BY DEF IInv
<1> QED BY <1>1, Invariance, PTL

(* The times of the user's row tell whether the user is connected, however *)
(* the calls of SetUserInfo of all handlers interleave.                    *)
THEOREM TimesAgreeHolds == Spec => []TimesAgree
<1>1. IInv => TimesAgree
  BY DEF IInv, Times, Agree, TimesAgree
<1> QED BY <1>1, Invariance, PTL

(* Notifications are never on for a user that has not connected yet.       *)
THEOREM NotifiedOnceConnectedHolds == Spec => []NotifiedOnceConnected
<1>1. IInv => NotifiedOnceConnected
  BY DEF IInv
<1> QED BY <1>1, Invariance, PTL

(* No write takes the time of a user's last connection back to zero, and   *)
(* with it the right to connect again.                                     *)
THEOREM SeatKeptHolds == Spec => SeatKept
<1>1. IInv /\ [Next]_vars => [row.lc # 0 => row'.lc # 0]_vars
  BY NotifiedStep DEF IInv
<1> QED BY <1>1, Invariance, PTL DEF Spec, SeatKept

(* A user is connected for the first time by a callback under the mutex,   *)
(* and so by the decision to admit it: no refresh, and no write of an old  *)
(* row, gets there first.                                                  *)
THEOREM FirstConnection ==
  Spec => [][row.lc = 0 /\ row'.lc # 0 => \E p \in Procs : lock = p /\ Write(p)]_vars
<1>1. IInv /\ [Next]_vars =>
        [row.lc = 0 /\ row'.lc # 0 => \E p \in Procs : lock = p /\ Write(p)]_vars
  <2> SUFFICES ASSUME IInv, [Next]_vars, row.lc = 0, row'.lc # 0
               PROVE  \E p \in Procs : lock = p /\ Write(p)
    OBVIOUS
  <2>1. ASSUME NEW p \in Procs, Write(p) PROVE lock = p
    BY <2>1 DEF Write, At, IInv, NoSeat, Early
  <2>2. ASSUME NEW p \in Procs, SetUserLastChatReceivedAt(p) PROVE row'.lc = row.lc
    BY <2>2 DEF SetUserLastChatReceivedAt, IInv, TypeOK, Row
  <2> QED BY <2>1, <2>2, Writers
<1> QED BY <1>1, Invariance, PTL DEF Spec

(* OnlyCallbackConnects does not hold; this much does. What connects an    *)
(* account that is not connected is a callback under the mutex, or else a  *)
(* refresh of the token the account had before: never the handler of a     *)
(* refused token, a command, a denial or a delivery.                       *)
THEOREM OnlyRefreshReconnects ==
  Spec => [][row.token = 0 /\ row'.token # 0 =>
                 \E p \in Procs : Write(p) /\ (lock = p \/ then[p] = "call")]_vars
<1>1. IInv /\ [Next]_vars =>
        [row.token = 0 /\ row'.token # 0 =>
            \E p \in Procs : Write(p) /\ (lock = p \/ then[p] = "call")]_vars
  <2> SUFFICES ASSUME IInv, [Next]_vars, row.token = 0, row'.token # 0
               PROVE  \E p \in Procs : Write(p) /\ (lock = p \/ then[p] = "call")
    OBVIOUS
  <2>1. ASSUME NEW p \in Procs, Write(p) PROVE lock = p \/ then[p] = "call"
    BY <2>1 DEF Write, At, IInv, Holding
  <2>2. ASSUME NEW p \in Procs, SetUserLastChatReceivedAt(p) PROVE row'.token = row.token
    BY <2>2 DEF SetUserLastChatReceivedAt, IInv, TypeOK, Row
  <2> QED BY <2>1, <2>2, Writers
<1> QED BY <1>1, Invariance, PTL DEF Spec
=============================================================================
