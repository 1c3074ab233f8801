----------------------------- MODULE OAuthFlow -----------------------------
(***************************************************************************)
(* How users of Mattermost connect a Teams account: links with a state in  *)
(* the key-value store, the connect page with one code verifier per user,  *)
(* and the callback of Microsoft's login, up to the row it writes. Whether *)
(* there is a seat for the user is left open here and decided in           *)
(* Admission.                                                              *)
(*                                                                         *)
(* A flow is one passage through the connect page, in a browser tab; its   *)
(* number also stands for its code verifier and its authorization code.    *)
(* The browser may send the callback of a flow more than once.             *)
(***************************************************************************)
EXTENDS Naturals, FiniteSets

CONSTANTS
    Users,
    Accounts,     \* Teams accounts
    Links,        \* bound: ids of states
    MaxFlows,     \* bound on the flows
    MaxCallbacks, \* bound on the callbacks
    None

ASSUME MaxFlowsAssumption     == MaxFlows \in Nat
ASSUME MaxCallbacksAssumption == MaxCallbacks \in Nat

Flows == 1..MaxFlows
Callbacks == 1..MaxCallbacks

VARIABLES
    states,     \* <<id, user>> stored and not expired
    used,       \* ids given out
    verifier,   \* the user's code verifier in the key-value store
    flows,      \* the flows begun
    codes,      \* flows whose code can be exchanged
    mail,       \* the user who has the e-mail address of the account
    rows,       \* the users' rows: their Teams account, with a token or not
    callbacks,  \* the requests oauthRedirectHandler works on
    interfered  \* history: flows whose verifier another one replaced or took

kv == <<states, used, verifier>>
vars == <<kv, flows, codes, mail, rows, callbacks, interfered>>

State == Links \X Users
Flow == [user : Users, state : State, account : Accounts \cup {None}]
Row == [account : Accounts, token : BOOLEAN]
Steps == {"verify", "get", "delete", "exchange", "user", "account", "store", "ended"}
Callback == [pc : Steps, flow : Flows, got : Flows \cup {None}, clean : BOOLEAN]

ASSUME NoneAssumption == None \notin Flows \cup Flow \cup Row \cup Callback

TypeOK ==
    /\ states \subseteq State /\ used \subseteq Links
    /\ verifier \in [Users -> Flows \cup {None}]
    /\ flows \in [Flows -> Flow \cup {None}]
    /\ codes \subseteq Flows
    /\ mail \in [Accounts -> Users]
    /\ rows \in [Users -> Row \cup {None}]
    /\ callbacks \in [Callbacks -> Callback \cup {None}]
    /\ interfered \subseteq Flows

Init ==
    /\ states = {} /\ used = {} /\ verifier = [u \in Users |-> None]
    /\ flows = [f \in Flows |-> None] /\ codes = {}
    /\ mail \in [Accounts -> Users]
    /\ rows = [u \in Users |-> None]
    /\ callbacks = [c \in Callbacks |-> None]
    /\ interfered = {}

-----------------------------------------------------------------------------
Connected(u) == rows[u] # None /\ rows[u].token
FlowsOf(u) == {f \in Flows : flows[f] # None /\ flows[f].user = u}
Fresh(g) == {n \in DOMAIN g : g[n] = None /\ \A m \in DOMAIN g : m < n => g[m] # None}

(* createAndStoreOAuthState. The link goes out even if storing failed.     *)
StoreOAuth2State ==
    /\ \E id \in Links \ used, u \in Users :
          /\ used' = used \cup {id}
          /\ states' \in {states, states \cup {<<id, u>>}}
    /\ UNCHANGED <<verifier, flows, codes, mail, rows, callbacks, interfered>>

(* 300 seconds later.                                                      *)
Expire ==
    /\ \E s \in states : states' = states \ {s}
    /\ UNCHANGED <<used, verifier, flows, codes, mail, rows, callbacks, interfered>>

(* Mutant: a verifier that is there already is left.                       *)
BeginUnlessBegun(u, s) ==
    \E f \in Fresh(flows) :
        /\ flows' = [flows EXCEPT ![f] = [user |-> u, state |-> s, account |-> None]]
        /\ verifier' = [verifier EXCEPT ![u] = IF @ = None THEN f ELSE @]
        /\ interfered' = interfered \cup FlowsOf(u)
        /\ UNCHANGED <<codes, mail, rows, callbacks>>

(* One verifier per user: that of an earlier tab is overwritten.           *)
Begin(u, s) ==
    \E f \in Fresh(flows) :
        /\ flows' = [flows EXCEPT ![f] = [user |-> u, state |-> s, account |-> None]]
        /\ verifier' = [verifier EXCEPT ![u] = f]
        /\ interfered' = interfered \cup FlowsOf(u)
        /\ UNCHANGED <<codes, mail, rows, callbacks>>

(* connect, from the preferences with a state of its own, or by a link,    *)
(* with the state of that link and of whoever opens it.                    *)
ConnectFromPreferences(u) ==
    /\ \E id \in Links \ used :
          /\ used' = used \cup {id} /\ states' = states \cup {<<id, u>>}
          /\ \/ ~Connected(u) /\ Begin(u, <<id, u>>)
             \/ Connected(u) /\ UNCHANGED <<verifier, flows, codes, mail, rows, callbacks,
                                            interfered>>

ConnectFromBotMessage(u) ==
    /\ ~Connected(u)
    /\ \E id \in used : Begin(u, <<id, u>>)
    /\ UNCHANGED <<states, used>>

(* Microsoft's login: the user chooses an account and is sent back.        *)
Authorize(f) ==
    /\ flows[f] # None /\ flows[f].account = None
    /\ \E a \in Accounts : flows' = [flows EXCEPT ![f].account = a]
    /\ codes' = codes \cup {f}
    /\ UNCHANGED <<kv, mail, rows, callbacks, interfered>>

ChangeMail ==
    /\ \E a \in Accounts, u \in Users : mail' = [mail EXCEPT ![a] = u]
    /\ UNCHANGED <<kv, flows, codes, rows, callbacks, interfered>>

(* The disconnect command, or a token that is refused (see Accounts).      *)
Disconnect(u) ==
    /\ Connected(u)
    /\ rows' = [rows EXCEPT ![u].token = FALSE]
    /\ UNCHANGED <<kv, flows, codes, mail, callbacks, interfered>>

-----------------------------------------------------------------------------
(* oauthRedirectHandler. Each call may fail, which ends it.                *)

At(c, l) == callbacks[c] # None /\ callbacks[c].pc = l
Goto(c, l) == callbacks' = [callbacks EXCEPT ![c].pc = l]
FlowOf(c) == flows[callbacks[c].flow]
UserOf(c) == FlowOf(c).state[2]

Redirect(f) ==
    /\ flows[f] # None /\ flows[f].account # None
    /\ \E c \in Fresh(callbacks) :
          callbacks' = [callbacks EXCEPT ![c] =
              [pc |-> "verify", flow |-> f, got |-> None, clean |-> FALSE]]
    /\ UNCHANGED <<kv, flows, codes, mail, rows, interfered>>

Fail(c) ==
    /\ callbacks[c] # None /\ callbacks[c].pc # "ended"
    /\ Goto(c, "ended")
    /\ UNCHANGED <<kv, flows, codes, mail, rows, interfered>>

(* The state is left in the store.                                         *)
VerifyOAuth2State(c) ==
    /\ At(c, "verify") /\ FlowOf(c).state \in states
    /\ Goto(c, "get")
    /\ UNCHANGED <<kv, flows, codes, mail, rows, interfered>>

GetVerifier(c) ==
    /\ At(c, "get")
    /\ callbacks' = [callbacks EXCEPT ![c].pc = "delete",
                                      ![c].got = verifier[UserOf(c)],
                                      ![c].clean = callbacks[c].flow \notin interfered]
    /\ UNCHANGED <<kv, flows, codes, mail, rows, interfered>>

(* A failure is only logged. Whoever is on the way loses its verifier, a   *)
(* second callback of the same flow included.                              *)
DeleteVerifier(c) ==
    /\ At(c, "delete") /\ Goto(c, "exchange")
    /\ \/ verifier' = [verifier EXCEPT ![UserOf(c)] = None]
       \/ UNCHANGED verifier
    /\ interfered' = interfered \cup FlowsOf(UserOf(c))
    /\ UNCHANGED <<states, used, flows, codes, mail, rows>>

(* Microsoft exchanges a code once, for the verifier it was asked for with.*)
Exchange(c) ==
    /\ At(c, "exchange")
    /\ \/ /\ callbacks[c].flow \in codes /\ callbacks[c].got = callbacks[c].flow
          /\ codes' = codes \ {callbacks[c].flow}
          /\ Goto(c, "user") \/ Goto(c, "ended")
       \/ /\ callbacks[c].got # callbacks[c].flow
          /\ codes' \in {codes, codes \ {callbacks[c].flow}}
          /\ Goto(c, "ended")
    /\ UNCHANGED <<kv, flows, mail, rows, interfered>>

(* GetMe, GetUser: the addresses must be the same.                         *)
CheckUser(c) ==
    /\ At(c, "user") /\ mail[FlowOf(c).account] = UserOf(c)
    /\ Goto(c, "account")
    /\ UNCHANGED <<kv, flows, codes, mail, rows, interfered>>

(* GetTokenForMSTeamsUser, before the mutex is taken. If it fails that     *)
(* counts as no token.                                                     *)
CheckAccount(c) ==
    /\ At(c, "account")
    /\ \/ Goto(c, "store")
       \/ (\E u \in Users : Connected(u) /\ rows[u].account = FlowOf(c).account)
          /\ Goto(c, "ended")
    /\ UNCHANGED <<kv, flows, codes, mail, rows, interfered>>

(* Mutant: the table has no unique index on msTeamsUserID.                 *)
SetUserInfoAnyway(c) ==
    /\ At(c, "store")
    /\ \E token \in BOOLEAN :
          rows' = [rows EXCEPT ![UserOf(c)] =
                      [account |-> FlowOf(c).account, token |-> token]]
    /\ Goto(c, "ended")
    /\ UNCHANGED <<kv, flows, codes, mail, interfered>>

(* With a token, or none for a user who is denied a seat; refused by the   *)
(* index if the account is in the row of another user, connected or not.   *)
SetUserInfo(c) ==
    /\ At(c, "store")
    /\ \A u \in Users \ {UserOf(c)} : ~(rows[u] # None /\ rows[u].account = FlowOf(c).account)
    /\ \E token \in BOOLEAN :
          rows' = [rows EXCEPT ![UserOf(c)] =
                      [account |-> FlowOf(c).account, token |-> token]]
    /\ Goto(c, "ended")
    /\ UNCHANGED <<kv, flows, codes, mail, interfered>>

Next ==
    \/ StoreOAuth2State \/ Expire \/ ChangeMail
    \/ \E u \in Users :
          ConnectFromPreferences(u) \/ ConnectFromBotMessage(u) \/ Disconnect(u)
    \/ \E f \in Flows : Authorize(f) \/ Redirect(f)
    \/ \E c \in Callbacks :
          \/ Fail(c) \/ VerifyOAuth2State(c) \/ GetVerifier(c) \/ DeleteVerifier(c)
          \/ Exchange(c) \/ CheckUser(c) \/ CheckAccount(c) \/ SetUserInfo(c)

Spec == Init /\ [][Next]_vars

-----------------------------------------------------------------------------
(* The tab opened last connects: as long as no other tab of the user was   *)
(* opened or came back meanwhile, a callback finds its own code verifier,  *)
(* whatever is left of flows that were given up.                           *)
LastTabConnects ==
    \A c \in Callbacks :
        callbacks[c] # None /\ callbacks[c].clean => callbacks[c].got = callbacks[c].flow

(* A Teams account has one user of Mattermost, although the check for that *)
(* precedes the mutex and addresses move from one user to another.         *)
OneUserPerAccount ==
    \A u, v \in Users :
        Connected(u) /\ Connected(v) /\ rows[u].account = rows[v].account => u = v
=============================================================================
