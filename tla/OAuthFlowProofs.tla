-------------------------- MODULE OAuthFlowProofs --------------------------
(***************************************************************************)
(* Proofs about OAuthFlow: for any number of users, accounts, tabs and     *)
(* callbacks, each user's last tab finds its verifier, no account gets two *)
(* users, no login is used twice, and nobody gets somebody else's account. *)
(*                                                                         *)
(* A callback deletes the verifier of the user its state names, which must *)
(* be the user who began the flow: otherwise it takes that of a flow of    *)
(* another user, who would never be told of in interfered.                 *)
(***************************************************************************)
EXTENDS OAuthFlow, TLAPS

(* A flow's state is that of the user who began it. The verifier stored is *)
(* the one of the user's flow that no other has interfered with.           *)
VerifierOfLast ==
    \A f \in Flows : flows[f] # None =>
        /\ flows[f].state[2] = flows[f].user
        /\ f \notin interfered => verifier[flows[f].user] = f

(* Microsoft sends a flow back when the user has chosen an account.        *)
CallbacksOfFlows ==
    \A c \in Callbacks : callbacks[c] # None =>
        /\ flows[callbacks[c].flow] # None
        /\ flows[callbacks[c].flow].account # None

(* Even without a token, a row keeps its account from other users.         *)
AccountsApart ==
    \A u, v \in Users :
        rows[u] # None /\ rows[v] # None /\ rows[u].account = rows[v].account => u = v

IInv == TypeOK /\ VerifierOfLast /\ CallbacksOfFlows /\ LastTabConnects /\ AccountsApart

-----------------------------------------------------------------------------
(* The first state, and then every step.                                   *)
LEMMA InitIInv == Init => IInv
BY DEF Init, IInv, TypeOK, VerifierOfLast, CallbacksOfFlows, LastTabConnects, AccountsApart

(* What a callback that is under way refers to.                            *)
LEMMA CallbackFacts ==
  ASSUME TypeOK, CallbacksOfFlows, VerifierOfLast, NEW c \in Callbacks, callbacks[c] # None
  PROVE  /\ callbacks[c] \in Callback
         /\ FlowOf(c) \in Flow
         /\ UserOf(c) \in Users /\ UserOf(c) = FlowOf(c).user
<1>1. callbacks[c] \in Callback /\ callbacks[c].flow \in Flows
  BY DEF TypeOK, Callback
<1>2. FlowOf(c) \in Flow /\ FlowOf(c) # None
  BY <1>1 DEF TypeOK, CallbacksOfFlows, FlowOf
<1>3. FlowOf(c).state[2] = FlowOf(c).user
  BY <1>1, <1>2 DEF VerifierOfLast, FlowOf
<1> QED BY <1>1, <1>2, <1>3 DEF Flow, UserOf

(* Begin replaces the user's verifier and marks the user's other flows.    *)
LEMMA BeginStep ==
  ASSUME IInv, NEW u \in Users, NEW s \in State, s[2] = u, Begin(u, s),
         states' \subseteq State, used' \subseteq Links
  PROVE  IInv'
<1>1. PICK f \in Flows :
        /\ flows[f] = None
        /\ flows' = [flows EXCEPT ![f] = [user |-> u, state |-> s, account |-> None]]
        /\ verifier' = [verifier EXCEPT ![u] = f]
        /\ interfered' = interfered \cup FlowsOf(u)
        /\ UNCHANGED <<codes, mail, rows, callbacks>>
  BY DEF Begin, Fresh, IInv, TypeOK
<1> DEFINE new == [user |-> u, state |-> s, account |-> None]
<1>2. new \in Flow /\ new # None /\ new.user = u /\ new.state = s
  BY NoneAssumption DEF Flow
<1>3. TypeOK'
  BY <1>1, <1>2 DEF IInv, TypeOK, FlowsOf
<1>4. VerifierOfLast'
  <2> SUFFICES ASSUME NEW g \in Flows, flows'[g] # None
               PROVE  /\ flows'[g].state[2] = flows'[g].user
                      /\ g \notin interfered' => verifier'[flows'[g].user] = g
    BY DEF VerifierOfLast
  <2>1. CASE g = f
    BY <1>1, <1>2, <2>1 DEF IInv, TypeOK
  <2>2. CASE g # f
    <3>1. flows'[g] = flows[g] /\ flows[g] \in Flow
      BY <1>1, <2>2 DEF IInv, TypeOK
    <3>2. g \notin interfered' => g \notin interfered /\ flows[g].user # u
      BY <1>1, <3>1 DEF FlowsOf
    <3> QED BY <1>1, <3>1, <3>2 DEF IInv, TypeOK, VerifierOfLast, Flow
  <2> QED BY <2>1, <2>2
<1>5. CallbacksOfFlows'
  BY <1>1, <1>2 DEF IInv, TypeOK, CallbacksOfFlows
<1>6. LastTabConnects' /\ AccountsApart'
  BY <1>1 DEF IInv, LastTabConnects, AccountsApart
<1> QED BY <1>3, <1>4, <1>5, <1>6 DEF IInv

(* A step that leaves flows, verifiers and rows alone, and moves one       *)
(* callback on without touching what it found.                             *)
LEMMA GotoStep ==
  ASSUME IInv, NEW c \in Callbacks, callbacks[c] # None, NEW l \in Steps, Goto(c, l),
         UNCHANGED <<verifier, flows, interfered>>,
         states' \subseteq State, UNCHANGED used, codes' \subseteq Flows, UNCHANGED mail
  PROVE  /\ callbacks' \in [Callbacks -> Callback \cup {None}]
         /\ VerifierOfLast' /\ CallbacksOfFlows' /\ LastTabConnects'
<1>1. callbacks[c] \in Callback
  BY DEF IInv, TypeOK
<1> DEFINE moved == [callbacks[c] EXCEPT !.pc = l]
<1>2. /\ moved \in Callback /\ moved # None
      /\ moved.flow = callbacks[c].flow /\ moved.got = callbacks[c].got
      /\ moved.clean = callbacks[c].clean
  BY <1>1, NoneAssumption DEF Callback, Steps
<1>3. callbacks' = [callbacks EXCEPT ![c] = moved]
  BY DEF Goto
<1>4. callbacks' \in [Callbacks -> Callback \cup {None}]
  BY <1>2, <1>3 DEF IInv, TypeOK
<1>5. VerifierOfLast' /\ CallbacksOfFlows'
  BY <1>2, <1>3 DEF IInv, TypeOK, VerifierOfLast, CallbacksOfFlows
<1>6. LastTabConnects'
  BY <1>2, <1>3 DEF IInv, TypeOK, LastTabConnects
<1> QED BY <1>4, <1>5, <1>6

-----------------------------------------------------------------------------
(* One step per action; those of the callback that only move it on go      *)
(* together.                                                               *)
LEMMA Inductive == IInv /\ [Next]_vars => IInv'
<1> SUFFICES ASSUME IInv, [Next]_vars PROVE IInv'
  OBVIOUS
<1>1. CASE StoreOAuth2State
  BY <1>1 DEF StoreOAuth2State, IInv, TypeOK, State, VerifierOfLast, CallbacksOfFlows,
              LastTabConnects, AccountsApart
<1>2. CASE Expire
  BY <1>2 DEF Expire, IInv, TypeOK, VerifierOfLast, CallbacksOfFlows,
              LastTabConnects, AccountsApart
<1>3. CASE ChangeMail
  BY <1>3 DEF ChangeMail, kv, IInv, TypeOK, VerifierOfLast, CallbacksOfFlows,
              LastTabConnects, AccountsApart
<1>4. ASSUME NEW u \in Users, ConnectFromPreferences(u) PROVE IInv'
  <2>1. PICK id \in Links :
          /\ used' = used \cup {id} /\ states' = states \cup {<<id, u>>}
          /\ \/ Begin(u, <<id, u>>)
             \/ UNCHANGED <<verifier, flows, codes, mail, rows, callbacks, interfered>>
    BY <1>4 DEF ConnectFromPreferences
  <2>2. <<id, u>> \in State /\ <<id, u>>[2] = u
    BY DEF State
  <2>3. states' \subseteq State /\ used' \subseteq Links
    BY <2>1, <2>2 DEF IInv, TypeOK
  <2>4. CASE Begin(u, <<id, u>>)
    BY <2>2, <2>3, <2>4, BeginStep
  <2>5. CASE UNCHANGED <<verifier, flows, codes, mail, rows, callbacks, interfered>>
    BY <2>3, <2>5 DEF IInv, TypeOK, VerifierOfLast, CallbacksOfFlows, LastTabConnects,
                      AccountsApart
  <2> QED BY <2>1, <2>4, <2>5
<1>5. ASSUME NEW u \in Users, ConnectFromBotMessage(u) PROVE IInv'
  <2>1. PICK id \in used : Begin(u, <<id, u>>)
    BY <1>5 DEF ConnectFromBotMessage
  <2>2. <<id, u>> \in State /\ <<id, u>>[2] = u
    BY DEF State, IInv, TypeOK
  <2>3. states' \subseteq State /\ used' \subseteq Links
    BY <1>5 DEF ConnectFromBotMessage, IInv, TypeOK
  <2> QED BY <2>1, <2>2, <2>3, BeginStep
<1>6. ASSUME NEW u \in Users, Disconnect(u) PROVE IInv'
  <2>1. rows[u] \in Row
    BY <1>6 DEF Disconnect, Connected, IInv, TypeOK
  <2>2. AccountsApart'
    BY <1>6, <2>1 DEF Disconnect, Connected, IInv, TypeOK, AccountsApart, Row
  <2>3. rows' \in [Users -> Row \cup {None}]
    BY <1>6, <2>1 DEF Disconnect, IInv, TypeOK, Row
  <2> QED BY <1>6, <2>2, <2>3 DEF Disconnect, kv, IInv, TypeOK, VerifierOfLast,
                                  CallbacksOfFlows, LastTabConnects
<1>7. ASSUME NEW f \in Flows, Authorize(f) PROVE IInv'
  <2>1. PICK a \in Accounts : flows' = [flows EXCEPT ![f].account = a]
    BY <1>7 DEF Authorize
  <2> DEFINE new == [flows[f] EXCEPT !.account = a]
  <2>2. flows[f] \in Flow
    BY <1>7 DEF Authorize, IInv, TypeOK
  <2>3. new \in Flow /\ new # None /\ new.user = flows[f].user /\ new.state = flows[f].state
    BY <2>2, NoneAssumption DEF Flow
  <2>4. flows' = [flows EXCEPT ![f] = new]
    BY <2>1
  <2>5. TypeOK'
    BY <1>7, <2>3, <2>4 DEF Authorize, kv, IInv, TypeOK
  <2>6. VerifierOfLast' /\ CallbacksOfFlows'
    BY <1>7, <2>3, <2>4 DEF Authorize, kv, IInv, TypeOK, VerifierOfLast, CallbacksOfFlows
  <2>7. LastTabConnects' /\ AccountsApart'
    BY <1>7 DEF Authorize, kv, IInv, LastTabConnects, AccountsApart
  <2> QED BY <2>5, <2>6, <2>7 DEF IInv
<1>8. ASSUME NEW f \in Flows, Redirect(f) PROVE IInv'
  <2> DEFINE new == [pc |-> "verify", flow |-> f, got |-> None, clean |-> FALSE]
  <2>1. PICK c \in Callbacks : callbacks' = [callbacks EXCEPT ![c] = new]
    BY <1>8 DEF Redirect, Fresh, IInv, TypeOK
  <2>2. new \in Callback /\ new.flow = f /\ ~new.clean
    BY DEF Callback, Steps
  <2>3. TypeOK'
    BY <1>8, <2>1, <2>2 DEF Redirect, kv, IInv, TypeOK
  <2>4. VerifierOfLast' /\ AccountsApart'
    BY <1>8 DEF Redirect, kv, IInv, VerifierOfLast, AccountsApart
  <2>5. CallbacksOfFlows' /\ LastTabConnects'
    BY <1>8, <2>1, <2>2 DEF Redirect, kv, IInv, TypeOK, CallbacksOfFlows, LastTabConnects
  <2> QED BY <2>3, <2>4, <2>5 DEF IInv
<1>9. ASSUME NEW c \in Callbacks,
             \/ Fail(c) \/ VerifyOAuth2State(c) \/ Exchange(c)
             \/ CheckUser(c) \/ CheckAccount(c)
      PROVE  IInv'
  <2>1. /\ callbacks[c] # None /\ UNCHANGED <<kv, flows, mail, rows, interfered>>
        /\ codes' \in SUBSET Flows
        /\ \E l \in Steps : Goto(c, l)
    BY <1>9 DEF Fail, VerifyOAuth2State, Exchange, CheckUser, CheckAccount, At, Steps,
                IInv, TypeOK
  <2>2. AccountsApart'
    BY <2>1 DEF IInv, AccountsApart
  <2>3. states' \subseteq State
    BY <2>1 DEF kv, IInv, TypeOK
  <2> QED BY <2>1, <2>2, <2>3, GotoStep DEF kv, IInv, TypeOK
<1>10. ASSUME NEW c \in Callbacks, GetVerifier(c) PROVE IInv'
  <2> DEFINE fresh == callbacks[c].flow \notin interfered
             new == [callbacks[c] EXCEPT !.pc = "delete", !.got = verifier[UserOf(c)],
                                         !.clean = fresh]
  <2>1. callbacks[c] # None
    BY <1>10 DEF GetVerifier, At
  <2>2. /\ callbacks[c] \in Callback /\ FlowOf(c) \in Flow
        /\ UserOf(c) \in Users /\ UserOf(c) = FlowOf(c).user
    BY <2>1, CallbackFacts DEF IInv
  <2>3. callbacks' = [callbacks EXCEPT ![c] = new]
    BY <1>10, <2>1, <2>2 DEF GetVerifier, IInv, TypeOK
  <2>4. /\ new \in Callback /\ new.flow = callbacks[c].flow
        /\ new.got = verifier[UserOf(c)] /\ new.clean = fresh
    BY <2>2 DEF Callback, Steps, IInv, TypeOK
  <2>5. new.clean => new.got = new.flow
    BY <2>1, <2>2, <2>4 DEF IInv, TypeOK, VerifierOfLast, CallbacksOfFlows, FlowOf, Callback
  <2>6. TypeOK'
    BY <1>10, <2>3, <2>4 DEF GetVerifier, kv, IInv, TypeOK
  <2>7. VerifierOfLast' /\ AccountsApart'
    BY <1>10 DEF GetVerifier, kv, IInv, VerifierOfLast, AccountsApart
  <2>8. CallbacksOfFlows'
    BY <1>10, <2>1, <2>3, <2>4 DEF GetVerifier, kv, IInv, TypeOK, CallbacksOfFlows
  <2>9. LastTabConnects'
    BY <2>3, <2>5 DEF IInv, TypeOK, LastTabConnects
  <2> QED BY <2>6, <2>7, <2>8, <2>9 DEF IInv
<1>11. ASSUME NEW c \in Callbacks, DeleteVerifier(c) PROVE IInv'
  <2>1. callbacks[c] # None
    BY <1>11 DEF DeleteVerifier, At
  <2>2. UserOf(c) \in Users
    BY <2>1, CallbackFacts DEF IInv
  <2> DEFINE new == [callbacks[c] EXCEPT !.pc = "exchange"]
  <2>3. callbacks[c] \in Callback
    BY <2>1 DEF IInv, TypeOK
  <2>4. /\ new \in Callback /\ new.flow = callbacks[c].flow
        /\ new.got = callbacks[c].got /\ new.clean = callbacks[c].clean
    BY <2>3 DEF Callback, Steps
  <2>5. callbacks' = [callbacks EXCEPT ![c] = new]
    BY <1>11 DEF DeleteVerifier, Goto
  <2>6. TypeOK'
    BY <1>11, <2>2, <2>4, <2>5 DEF DeleteVerifier, FlowsOf, IInv, TypeOK
  <2>7. VerifierOfLast'
    <3> SUFFICES ASSUME NEW g \in Flows, flows[g] # None
                 PROVE  /\ flows[g].state[2] = flows[g].user
                        /\ g \notin interfered' => verifier'[flows[g].user] = g
      BY <1>11 DEF DeleteVerifier, VerifierOfLast
    <3>1. g \notin interfered' => g \notin interfered /\ flows[g].user # UserOf(c)
      BY <1>11 DEF DeleteVerifier, FlowsOf
    <3>2. flows[g].user \in Users
      BY DEF IInv, TypeOK, Flow
    <3> QED BY <1>11, <2>2, <3>1, <3>2 DEF DeleteVerifier, IInv, TypeOK, VerifierOfLast
  <2>8. CallbacksOfFlows' /\ LastTabConnects'
    BY <1>11, <2>1, <2>4, <2>5
       DEF DeleteVerifier, IInv, TypeOK, CallbacksOfFlows, LastTabConnects
  <2>9. AccountsApart'
    BY <1>11 DEF DeleteVerifier, IInv, AccountsApart
  <2> QED BY <2>6, <2>7, <2>8, <2>9 DEF IInv
<1>12. ASSUME NEW c \in Callbacks, SetUserInfo(c) PROVE IInv'
  <2>1. callbacks[c] # None /\ Goto(c, "ended") /\ UNCHANGED <<kv, flows, codes, mail, interfered>>
    BY <1>12 DEF SetUserInfo, At
  <2>2. UserOf(c) \in Users /\ FlowOf(c) \in Flow
    BY <2>1, CallbackFacts DEF IInv
  <2>3. PICK token \in BOOLEAN :
          rows' = [rows EXCEPT ![UserOf(c)] =
                      [account |-> FlowOf(c).account, token |-> token]]
    BY <1>12 DEF SetUserInfo
  <2>4. FlowOf(c).account \in Accounts
    BY <2>1, <2>2 DEF IInv, CallbacksOfFlows, FlowOf, Flow
  <2>5. rows' \in [Users -> Row \cup {None}]
    BY <2>2, <2>3, <2>4 DEF IInv, TypeOK, Row
  <2>6. AccountsApart'
    BY <1>12, <2>2, <2>3 DEF SetUserInfo, IInv, TypeOK, AccountsApart, Row
  <2>7. "ended" \in Steps /\ states' \subseteq State
    BY <2>1 DEF Steps, kv, IInv, TypeOK
  <2> QED BY <2>1, <2>5, <2>6, <2>7, GotoStep DEF kv, IInv, TypeOK
<1>13. CASE UNCHANGED vars
  BY <1>13 DEF vars, kv, IInv, TypeOK, VerifierOfLast, CallbacksOfFlows, LastTabConnects,
               AccountsApart
<1> QED
  BY <1>1, <1>2, <1>3, <1>4, <1>5, <1>6, <1>7, <1>8, <1>9, <1>10, <1>11, <1>12, <1>13
     DEF Next

(* The inductive invariant holds throughout.                               *)
THEOREM Invariance == Spec => []IInv
<1> QED BY InitIInv, Inductive, PTL DEF Spec

-----------------------------------------------------------------------------
(* Every state is well typed: what the handlers carry from one call to the *)
(* next names flows, users and accounts.                                   *)
THEOREM Typing == Spec => []TypeOK
<1> QED BY Invariance, PTL DEF IInv

(* The tab opened last finds its own code verifier, for any number of tabs,*)
(* users and callbacks.                                                    *)
THEOREM LastTab == Spec => []LastTabConnects
<1> QED BY Invariance, PTL DEF IInv

(* An account has one connected user, for any number of users who move     *)
(* addresses and tabs about: its row is kept from others by the index.     *)
THEOREM OneUser == Spec => []OneUserPerAccount
<1>1. IInv => OneUserPerAccount
  BY DEF IInv, AccountsApart, OneUserPerAccount, Connected
<1> QED BY <1>1, Invariance, PTL

-----------------------------------------------------------------------------
(* A callback that has exchanged the code of its flow and not yet ended.   *)
Past(c) == callbacks[c] # None /\ callbacks[c].pc \in {"user", "account", "store"}

(* It had the verifier the code was asked for with, and it is the only one *)
(* of its flow.                                                            *)
Exchanged ==
    /\ \A c \in Callbacks : Past(c) =>
          callbacks[c].got = callbacks[c].flow /\ callbacks[c].flow \notin codes
    /\ \A c, d \in Callbacks :
          Past(c) /\ Past(d) /\ callbacks[c].flow = callbacks[d].flow => c = d

(* The account in a user's row was chosen by that user, in a flow.         *)
Chosen ==
    \A u \in Users : rows[u] # None =>
        \E f \in Flows : /\ flows[f] # None /\ flows[f].account # None
                         /\ flows[f].user = u /\ flows[f].account = rows[u].account

(* Begin and Authorize leave the flows with an account as they are.        *)
LEMMA FlowsKept ==
  ASSUME TypeOK, [Next]_vars, NEW f \in Flows, flows[f] # None
  PROVE  /\ flows'[f] # None /\ flows'[f].user = flows[f].user
         /\ flows[f].account # None => flows'[f] = flows[f] /\ (f \in codes' => f \in codes)
<1>1. ASSUME NEW u \in Users, NEW s, Begin(u, s) PROVE flows'[f] = flows[f] /\ codes' = codes
  BY <1>1 DEF Begin, Fresh, TypeOK
<1>2. ASSUME NEW u \in Users, ConnectFromPreferences(u) \/ ConnectFromBotMessage(u)
      PROVE  flows'[f] = flows[f] /\ codes' = codes
  BY <1>1, <1>2 DEF ConnectFromPreferences, ConnectFromBotMessage
<1>3. ASSUME NEW g \in Flows, Authorize(g)
      PROVE  /\ flows'[f] # None /\ flows'[f].user = flows[f].user
             /\ flows[f].account # None =>
                   flows'[f] = flows[f] /\ (f \in codes' => f \in codes)
  <2>1. PICK a \in Accounts : flows' = [flows EXCEPT ![g].account = a]
    BY <1>3 DEF Authorize
  <2>2. flows[g] \in Flow
    BY <1>3 DEF Authorize, TypeOK
  <2>3. CASE f = g
    <3>1. flows'[f] = [flows[f] EXCEPT !.account = a] /\ flows[f].account = None
      BY <1>3, <2>1, <2>3 DEF Authorize, TypeOK
    <3>2. flows'[f] \in Flow /\ flows'[f].user = flows[f].user
      BY <2>2, <2>3, <3>1 DEF Flow
    <3> QED BY <3>1, <3>2, NoneAssumption
  <2>4. CASE f # g
    BY <1>3, <2>1, <2>4 DEF Authorize, TypeOK
  <2> QED BY <2>3, <2>4
<1>4. ASSUME NEW c \in Callbacks, Exchange(c) PROVE flows' = flows /\ codes' \subseteq codes
  BY <1>4 DEF Exchange
<1>5. CASE \/ StoreOAuth2State \/ Expire \/ ChangeMail \/ UNCHANGED vars
           \/ \E u \in Users : Disconnect(u)
           \/ \E g \in Flows : Redirect(g)
           \/ \E c \in Callbacks :
                 \/ Fail(c) \/ VerifyOAuth2State(c) \/ GetVerifier(c) \/ DeleteVerifier(c)
                 \/ CheckUser(c) \/ CheckAccount(c) \/ SetUserInfo(c)
  BY <1>5 DEF StoreOAuth2State, Expire, ChangeMail, vars, Disconnect, Redirect, Fail,
              VerifyOAuth2State, GetVerifier, DeleteVerifier, CheckUser, CheckAccount,
              SetUserInfo
<1> QED BY <1>2, <1>3, <1>4, <1>5 DEF Next

(* Which steps may bring a callback past the exchange.                     *)
LEMMA PastStep ==
  ASSUME IInv, [Next]_vars, NEW c \in Callbacks, Past(c)'
  PROVE  /\ callbacks[c] # None
         /\ callbacks'[c].flow = callbacks[c].flow /\ callbacks'[c].got = callbacks[c].got
         /\ \/ Past(c)
            \/ /\ Exchange(c) /\ callbacks[c].flow \in codes /\ callbacks[c].got = callbacks[c].flow
               /\ codes' = codes \ {callbacks[c].flow}
<1> DEFINE Done == /\ callbacks[c] # None
                   /\ callbacks'[c].flow = callbacks[c].flow
                   /\ callbacks'[c].got = callbacks[c].got
                   /\ \/ Past(c)
                      \/ /\ Exchange(c) /\ callbacks[c].flow \in codes
                         /\ callbacks[c].got = callbacks[c].flow
                         /\ codes' = codes \ {callbacks[c].flow}
<1>1. CASE callbacks'[c] = callbacks[c]
  BY <1>1 DEF Past
<1>2. ASSUME NEW f \in Flows, Redirect(f) PROVE callbacks'[c] = callbacks[c]
  <2> DEFINE new == [pc |-> "verify", flow |-> f, got |-> None, clean |-> FALSE]
  <2>1. PICK d \in Callbacks : callbacks' = [callbacks EXCEPT ![d] = new]
    BY <1>2 DEF Redirect, Fresh, IInv, TypeOK
  <2>2. c # d
    BY <2>1 DEF Past, IInv, TypeOK
  <2> QED BY <2>1, <2>2 DEF IInv, TypeOK
<1>3. ASSUME NEW d \in Callbacks, NEW l \in Steps, callbacks[d] # None, Goto(d, l)
      PROVE  /\ callbacks'[c] # callbacks[c] => c = d
             /\ c = d => /\ callbacks'[c].flow = callbacks[c].flow
                         /\ callbacks'[c].got = callbacks[c].got /\ callbacks'[c].pc = l
  BY <1>3 DEF Goto, IInv, TypeOK, Callback
<1>4. ASSUME NEW d \in Callbacks, \/ Fail(d) \/ VerifyOAuth2State(d) \/ DeleteVerifier(d)
                                  \/ CheckUser(d) \/ CheckAccount(d) \/ SetUserInfo(d)
      PROVE  Done
  <2>1. callbacks[d] # None /\ \E l \in {"ended", "get", "exchange"} :
              Goto(d, l) \/ (Goto(d, "account") /\ callbacks[d].pc = "user")
                        \/ (Goto(d, "store") /\ callbacks[d].pc = "account")
    BY <1>4 DEF Fail, VerifyOAuth2State, DeleteVerifier, CheckUser, CheckAccount,
                SetUserInfo, At
  <2> QED BY <1>1, <1>3, <2>1 DEF Past, Steps
<1>5. ASSUME NEW d \in Callbacks, Exchange(d) PROVE Done
  <2>1. /\ callbacks[d] # None
        /\ \/ Goto(d, "ended")
           \/ /\ Goto(d, "user") /\ callbacks[d].flow \in codes
              /\ callbacks[d].got = callbacks[d].flow /\ codes' = codes \ {callbacks[d].flow}
    BY <1>5 DEF Exchange, At
  <2> QED BY <1>1, <1>3, <1>5, <2>1 DEF Past, Steps
<1>6. ASSUME NEW d \in Callbacks, GetVerifier(d) PROVE callbacks'[c] = callbacks[c]
  <2>1. callbacks[d] \in Callback
    BY <1>6 DEF GetVerifier, At, IInv, TypeOK
  <2>2. callbacks'[d].pc = "delete" /\ (c # d => callbacks'[c] = callbacks[c])
    BY <1>6, <2>1 DEF GetVerifier, Callback, IInv, TypeOK
  <2> QED BY <2>2 DEF Past
<1>7. CASE \/ StoreOAuth2State \/ Expire \/ ChangeMail \/ UNCHANGED vars
           \/ \E u \in Users :
                 ConnectFromPreferences(u) \/ ConnectFromBotMessage(u) \/ Disconnect(u)
           \/ \E f \in Flows : Authorize(f)
  <2>1. callbacks' = callbacks
    BY <1>7 DEF StoreOAuth2State, Expire, ChangeMail, vars, ConnectFromPreferences,
                ConnectFromBotMessage, Begin, Disconnect, Authorize
  <2> QED BY <1>1, <2>1
<1> QED BY <1>1, <1>2, <1>4, <1>5, <1>6, <1>7 DEF Next

(* Every step keeps the exchange single.                                   *)
LEMMA ExchangedStep == IInv /\ Exchanged /\ [Next]_vars => Exchanged'
<1> SUFFICES ASSUME IInv, Exchanged, [Next]_vars PROVE Exchanged'
  OBVIOUS
<1>1. ASSUME NEW c \in Callbacks, Past(c)'
      PROVE  callbacks'[c].got = callbacks'[c].flow /\ callbacks'[c].flow \notin codes'
  <2>1. /\ callbacks[c] # None
        /\ callbacks'[c].flow = callbacks[c].flow /\ callbacks'[c].got = callbacks[c].got
    BY <1>1, PastStep
  <2>2. CASE Past(c)
    <3>1. callbacks[c].flow \in Flows
      BY <2>1 DEF IInv, TypeOK, Callback
    <3>2. callbacks[c].flow \in codes' => callbacks[c].flow \in codes
      BY <2>1, <3>1, FlowsKept DEF IInv, CallbacksOfFlows
    <3> QED BY <2>1, <2>2, <3>2 DEF Exchanged
  <2>3. CASE ~Past(c)
    BY <1>1, <2>1, <2>3, PastStep
  <2> QED BY <2>2, <2>3
<1>2. ASSUME NEW c \in Callbacks, NEW d \in Callbacks, Past(c)', Past(d)',
             callbacks'[c].flow = callbacks'[d].flow
      PROVE  c = d
  <2>1. callbacks[c].flow = callbacks[d].flow
    BY <1>2, PastStep
  <2>2. CASE Past(c) /\ Past(d)
    BY <2>1, <2>2 DEF Exchanged
  <2>3. CASE Past(c) /\ ~Past(d)
    BY <1>2, <2>1, <2>3, PastStep DEF Exchanged
  <2>4. CASE ~Past(c) /\ Past(d)
    BY <1>2, <2>1, <2>4, PastStep DEF Exchanged
  <2>5. CASE ~Past(c) /\ ~Past(d)
    <3>1. Exchange(c) /\ Exchange(d)
      BY <1>2, <2>5, PastStep
    <3>2. callbacks[c] # None /\ callbacks[d] # None /\ callbacks[c].pc = "exchange"
      BY <3>1 DEF Exchange, At
    <3>3. \E l \in Steps \ {"exchange"} : callbacks' = [callbacks EXCEPT ![d].pc = l]
      BY <3>1 DEF Exchange, Goto, Steps
    <3>4. c # d => callbacks'[c].pc = "exchange"
      BY <3>2, <3>3 DEF IInv, TypeOK
    <3> QED BY <1>2, <3>4 DEF Past
  <2> QED BY <2>2, <2>3, <2>4, <2>5
<1> QED BY <1>1, <1>2 DEF Exchanged

(* Every row written has an account its user chose.                        *)
LEMMA ChosenStep == IInv /\ Chosen /\ [Next]_vars => Chosen'
<1> DEFINE Choice(f, u) == /\ flows[f] # None /\ flows[f].account # None
                           /\ flows[f].user = u /\ flows[f].account = rows[u].account
<1> SUFFICES ASSUME IInv, Chosen, [Next]_vars, NEW u \in Users, rows'[u] # None
             PROVE  \E f \in Flows : Choice(f, u)'
  BY DEF Chosen
<1>1. ASSUME rows[u] # None, rows'[u].account = rows[u].account
      PROVE  \E f \in Flows : Choice(f, u)'
  <2>1. PICK f \in Flows : Choice(f, u)
    BY <1>1 DEF Chosen
  <2> QED BY <1>1, <2>1, FlowsKept DEF IInv
<1>2. ASSUME NEW c \in Callbacks, SetUserInfo(c) PROVE \E f \in Flows : Choice(f, u)'
  <2>1. callbacks[c] # None /\ flows' = flows
    BY <1>2 DEF SetUserInfo, At
  <2>2. UserOf(c) = FlowOf(c).user /\ UserOf(c) \in Users
    BY <2>1, CallbackFacts DEF IInv
  <2>3. callbacks[c].flow \in Flows /\ FlowOf(c) # None /\ FlowOf(c).account # None
    BY <2>1 DEF IInv, TypeOK, Callback, CallbacksOfFlows, FlowOf
  <2>4. CASE u = UserOf(c)
    <3>1. rows'[u].account = FlowOf(c).account
      BY <1>2, <2>4 DEF SetUserInfo, IInv, TypeOK
    <3> QED BY <2>1, <2>2, <2>3, <2>4, <3>1 DEF FlowOf
  <2>5. CASE u # UserOf(c)
    <3>1. rows'[u] = rows[u]
      BY <1>2, <2>5 DEF SetUserInfo, IInv, TypeOK
    <3> QED BY <1>1, <3>1
  <2> QED BY <2>4, <2>5
<1>3. ASSUME NEW v \in Users, Disconnect(v) PROVE \E f \in Flows : Choice(f, u)'
  <2>1. rows[v] \in Row
    BY <1>3 DEF Disconnect, Connected, IInv, TypeOK
  <2>2. rows[u] # None /\ rows'[u].account = rows[u].account
    BY <1>3, <2>1, NoneAssumption DEF Disconnect, IInv, TypeOK, Row
  <2> QED BY <1>1, <2>2
<1>4. CASE rows' = rows
  BY <1>1, <1>4
<1>5. CASE \/ StoreOAuth2State \/ Expire \/ ChangeMail \/ UNCHANGED vars
           \/ \E v \in Users : ConnectFromPreferences(v) \/ ConnectFromBotMessage(v)
           \/ \E f \in Flows : Authorize(f) \/ Redirect(f)
           \/ \E c \in Callbacks :
                 \/ Fail(c) \/ VerifyOAuth2State(c) \/ GetVerifier(c) \/ DeleteVerifier(c)
                 \/ Exchange(c) \/ CheckUser(c) \/ CheckAccount(c)
  <2>1. rows' = rows
    BY <1>5 DEF StoreOAuth2State, Expire, ChangeMail, vars, ConnectFromPreferences,
                ConnectFromBotMessage, Begin, Authorize, Redirect, Fail, VerifyOAuth2State,
                GetVerifier, DeleteVerifier, Exchange, CheckUser, CheckAccount
  <2> QED BY <1>4, <2>1
<1> QED BY <1>2, <1>3, <1>5 DEF Next

(* A login is used once: of all the callbacks of a flow, sent again or in  *)
(* parallel, at most one gets past the exchange (api.go,                   *)
(* oauthRedirectHandler), with the flow's own verifier, and the code of a  *)
(* flow that is spent stays so, though its state stays in the store.       *)
THEOREM ExchangedOnce ==
  Spec => /\ [](\A c \in Callbacks : Past(c) =>
                   /\ callbacks[c].got = callbacks[c].flow /\ callbacks[c].flow \notin codes
                   /\ \A d \in Callbacks :
                         Past(d) /\ callbacks[d].flow = callbacks[c].flow => d = c)
          /\ [][\A f \in Flows : flows[f] # None /\ flows[f].account # None /\ f \notin codes =>
                   f \notin codes']_vars
<1>1. Init => Exchanged
  BY DEF Init, Exchanged, Past
<1>2. Exchanged => \A c \in Callbacks : Past(c) =>
                   /\ callbacks[c].got = callbacks[c].flow /\ callbacks[c].flow \notin codes
                   /\ \A d \in Callbacks :
                         Past(d) /\ callbacks[d].flow = callbacks[c].flow => d = c
  BY DEF Exchanged
<1>3. IInv /\ [Next]_vars =>
        [\A f \in Flows : flows[f] # None /\ flows[f].account # None /\ f \notin codes =>
             f \notin codes']_vars
  BY FlowsKept DEF IInv
<1> QED BY <1>1, <1>2, <1>3, ExchangedStep, Invariance, PTL DEF Spec

(* Nobody gets an account somebody else logged in to: that in a user's row *)
(* was chosen in a flow the same user began, whoever followed the link and *)
(* however flows of users mix (api.go, connect; store.go,                  *)
(* VerifyOAuth2State).                                                     *)
THEOREM OwnAccount ==
  Spec => [](\A u \in Users : rows[u] # None =>
                 \E f \in Flows : /\ flows[f] # None /\ flows[f].account # None
                                  /\ flows[f].user = u /\ flows[f].account = rows[u].account)
<1>1. Init => Chosen
  BY DEF Init, Chosen
<1> QED BY <1>1, ChosenStep, Invariance, PTL DEF Spec, Chosen
=============================================================================
