------------------------- MODULE GraphClientProofs -------------------------
(***************************************************************************)
(* Proofs about GraphClient for any number of calls and pages.             *)
(*                                                                         *)
(* Of the operations they use what WellFormed lists: a list is read first, *)
(* the folder is looked for before it is made, an upload has one file and  *)
(* ends with its answer. Behind a call's step everything is done, with one *)
(* exception: the file, of which only the answer tells (Behind).           *)
(***************************************************************************)
EXTENDS GraphClient, TLAPS

Kinds == {"local", "get", "getId", "drives", "write", "writeId", "create", "page", "search",
          "batch", "folder", "mkdir", "put", "invite", "body"}
Fails == {"normalized", "plain", "twice", "replaced", "logged"}

WellFormed(q) ==
    /\ q \in Seq([kind : Kinds, fails : Fails])
    /\ Len(q) \in 1..MaxSteps
    /\ \A i \in 1..Len(q) :
          /\ q[i].fails = "logged" => q[i].kind = "get"
          /\ q[i].kind \in {"page", "search"} => i = 1
          /\ q[i].kind = "folder" => i + 2 <= Len(q) /\ q[i + 1].kind = "mkdir"
          /\ q[i].kind = "put" => q[Len(q)].kind = "body"
          /\ q[i].kind = "body" => i = Len(q)
          /\ \A j \in 1..Len(q) :
                /\ q[i].kind = "put" /\ q[j].kind = "put" => i = j
                /\ q[i].kind = "drives" => q[j].kind \in {"get", "drives", "getId"}

(* The operations of one request.                                          *)
LEMMA OneRequest ==
  ASSUME NEW op \in Operations \ {"UploadToChannel", "UploadToChat", "CreateChat",
                                  "CreateOrGetChatForUsers", "UpdateMessage",
                                  "UpdateChatMessage", "GetFileSizeAndDownloadURL"}
  PROVE  Requests[op] \in {<<Get>>, <<GetId>>, <<Write>>, <<WriteId>>, <<List>>,
                           <<Req("batch")>>, <<[kind |-> "get", fails |-> "plain"]>>,
                           <<[kind |-> "local", fails |-> "plain"]>>}
BY SMTT(60)
   DEF Operations, Requests, Connect, GetApp, GetMyID, GetMe, GetUser, GetUserAvatar, GetTeam,
       GetTeams, GetChannelInTeam, GetChannelsInTeam, GetChat, GetMessage, GetChatMessage,
       GetReply, GetHostedFileContent, GetCodeSnippet, GetPresencesForUsers, RefreshToken,
       GetFileContent, ListSubscriptions, ListUsers, ListTeams, ListChannels,
       ListChannelMessages, ListChatMessages, Subscribe, RefreshSubscription,
       DeleteSubscription, SendMessageWithAttachments, SendMessage, SendChat, DeleteMessage,
       DeleteChatMessage, SetReaction, SetChatReaction, UnsetReaction, UnsetChatReaction

(* Every operation is a list of well-formed requests.                      *)
LEMMA OperationsWellFormed == ASSUME NEW op \in Operations PROVE WellFormed(Requests[op])
<1> USE DEF WellFormed, Kinds, Fails, MaxSteps, Req, Get, GetId, WriteId
<1>1. CASE op = "UploadToChannel"
  <2>1. Requests[op] = UploadToChannel
    BY <1>1 DEF Requests
  <2> QED BY <2>1 DEF UploadToChannel, UploadSession, UploadRequest, UploadedFile
<1>2. CASE op = "UploadToChat"
  <2>1. Requests[op] = UploadToChat
    BY <1>2 DEF Requests
  <2> QED BY <2>1 DEF UploadToChat, UploadSession, UploadRequest, UploadedFile
<1>3. CASE op = "CreateChat"
  <2>1. Requests[op] = CreateChat
    BY <1>3 DEF Requests
  <2> QED BY <2>1 DEF CreateChat, Details
<1>4. CASE op = "CreateOrGetChatForUsers"
  <2>1. Requests[op] = CreateOrGetChatForUsers
    BY <1>4 DEF Requests
  <2> QED BY <2>1 DEF CreateOrGetChatForUsers, Details
<1>5. CASE op \in {"UpdateMessage", "UpdateChatMessage"}
  <2>1. Requests[op] = <<Original, Req("batch")>>
    BY <1>5 DEF Requests, UpdateMessage, UpdateChatMessage
  <2> QED BY <2>1 DEF Original
<1>6. CASE op = "GetFileSizeAndDownloadURL"
  <2>1. Requests[op] = GetFileSizeAndDownloadURL
    BY <1>6 DEF Requests
  <2> QED BY <2>1 DEF GetFileSizeAndDownloadURL
<1>7. CASE op \notin {"UploadToChannel", "UploadToChat", "CreateChat", "CreateOrGetChatForUsers",
                      "UpdateMessage", "UpdateChatMessage", "GetFileSizeAndDownloadURL"}
  <2>1. Requests[op] \in {<<Get>>, <<GetId>>, <<Write>>, <<WriteId>>, <<List>>,
                          <<Req("batch")>>, <<[kind |-> "get", fails |-> "plain"]>>,
                          <<[kind |-> "local", fails |-> "plain"]>>}
    BY <1>7, OneRequest
  <2> DEFINE Single == [kind : {"local", "get", "getId", "write", "writeId", "page", "batch"},
                        fails : {"plain", "normalized"}]
  <2>2. ASSUME NEW q \in Single PROVE WellFormed(<<q>>)
    OBVIOUS
  <2>3. {Get, GetId, Write, WriteId, List, Req("batch"), [kind |-> "get", fails |-> "plain"],
         [kind |-> "local", fails |-> "plain"]} \subseteq Single
    BY DEF Write, List
  <2>4. \E q \in Single : Requests[op] = <<q>>
    <3> HIDE DEF WellFormed, Kinds, Fails, MaxSteps, Req, Get, GetId, WriteId, Single
    <3> QED BY <2>1, <2>3
  <2> HIDE DEF WellFormed, Kinds, Fails, MaxSteps, Req, Get, GetId, WriteId, Single
  <2> QED BY <2>2, <2>4
<1> QED BY <1>1, <1>2, <1>3, <1>4, <1>5, <1>6, <1>7

(* The chat of a group is looked for first.                                *)
LEMMA SearchFirst ==
  /\ "CreateOrGetChatForUsers" \in Operations
  /\ Requests["CreateOrGetChatForUsers"][1].kind = "search"
<1>1. Requests["CreateOrGetChatForUsers"] = CreateOrGetChatForUsers
  BY DEF Requests
<1> QED BY <1>1 DEF CreateOrGetChatForUsers, Req, Operations, Requests

-----------------------------------------------------------------------------
Changes == {"write", "writeId", "create", "batch", "invite"}
Unauthorized(e) == e # None /\ (IsOAuthError(e) \/ (e.graph /\ e.status = 401))

(* In what follows g, n, f and p are the values of grant, connected, folder*)
(* and groups, now or after a step.                                        *)

(* What a call r has done before its step.                                 *)
Behind(r, f) ==
    LET q == Requests[r.op]
    IN  \A i \in 1..Len(q) : i < r.step =>
          /\ q[i].kind \in Changes => i \in r.wrote
          /\ q[i].kind = "put" => i \in r.wrote \/ r.step <= Len(q)
          /\ q[i].kind = "mkdir" => f
          /\ q[i].kind \in {"page", "search"} => r.pages = Pages

(* Where it is, and that it ends without error at its end only.            *)
Place(r) ==
    LET q == Requests[r.op]
    IN  /\ r.wrote \subseteq 1..Len(q)
        /\ r.pc = "running" => r.step \in 1..Len(q) /\ (r.step = 1 => r.pages < Pages)
        /\ r.pc \in {"timer", "layer", "ended"} /\ r.err = None /\ ~r.found =>
              r.step > Len(q) \/ q[r.step].kind = "drives"

(* The error of a refusal, and no other, says so, but for the two requests *)
(* that lose it.                                                           *)
Refusal(r, g, n) ==
    LET q == Requests[r.op]
    IN  /\ r.refused => /\ ~g /\ r.client = "user" /\ r.pc # "running"
                        /\ r.step \in 1..Len(q)
        /\ r.told => r.refused /\ ~n /\ r.pc = "ended"
        /\ r.pc \in {"timer", "layer"} =>
              /\ Unauthorized(r.err) => r.refused
              /\ r.refused => Unauthorized(r.err) \/ q[r.step].fails \in {"twice", "replaced"}
        /\ r.pc = "ended" /\ r.client = "user" /\ r.refused =>
              r.told \/ q[r.step].fails \in {"twice", "replaced"}

(* A chat there was at the start is still ahead, or has been found.        *)
Search(r, p) ==
    r.op = "CreateOrGetChatForUsers" /\ r.had =>
        /\ r.wrote = {}
        /\ r.pc = "running" => r.step = 1 /\ \E k \in p : k > r.pages

CallInv(r, g, n, f, p) ==
    r \in Call /\ Behind(r, f) /\ Place(r) /\ Refusal(r, g, n) /\ Search(r, p)

IInv ==
    /\ TypeOK
    /\ \A c \in Calls : call[c] # None => CallInv(call[c], grant, connected, folder, groups)

(* The first state.                                                        *)
LEMMA InitIInv == Init => IInv
BY DEF Init, IInv, TypeOK

(* What others do to the state around a call does not disturb it.          *)
LEMMA Around ==
  ASSUME NEW r, CallInv(r, grant, connected, folder, groups),
         grant' => grant, connected' => connected, folder => folder', groups \subseteq groups'
  PROVE  CallInv(r, grant', connected', folder', groups')
<1>1. Behind(r, folder')
  BY DEF CallInv, Behind
<1>2. Refusal(r, grant', connected')
  BY DEF CallInv, Refusal
<1>3. Search(r, groups')
  BY DEF CallInv, Search
<1> QED BY <1>1, <1>2, <1>3 DEF CallInv

(* So a step of c is right if c is afterwards.                             *)
LEMMA StepOf ==
  ASSUME IInv, NEW c \in Calls, NEW r, call' = [call EXCEPT ![c] = r],
         CallInv(r, grant', connected', folder', groups'),
         grant' \in BOOLEAN, connected' \in BOOLEAN, folder' \in BOOLEAN,
         groups' \subseteq 1..Pages,
         grant' => grant, connected' => connected, folder => folder', groups \subseteq groups'
  PROVE  IInv'
<1>1. r \in Call
  BY DEF CallInv
<1>2. TypeOK'
  BY <1>1 DEF IInv, TypeOK
<1>3. ASSUME NEW d \in Calls, call'[d] # None
      PROVE  CallInv(call'[d], grant', connected', folder', groups')
  <2>1. CASE d = c
    BY <2>1 DEF IInv, TypeOK
  <2>2. CASE d # c
    <3>1. call'[d] = call[d]
      BY <2>2 DEF IInv, TypeOK
    <3>2. CallInv(call[d], grant, connected, folder, groups)
      BY <1>3, <3>1 DEF IInv
    <3>3. CallInv(call[d], grant', connected', folder', groups')
      BY <3>2, Around
    <3> QED BY <3>1, <3>3
  <2> QED BY <2>1, <2>2
<1> QED BY <1>2, <1>3 DEF IInv

-----------------------------------------------------------------------------
(* A call goes on to another request or to its end: what it did is done.   *)
LEMMA SkippedStep ==
  ASSUME NEW g, NEW n, NEW f, NEW p, NEW r, CallInv(r, g, n, f, p), r.pc = "running",
         NEW s \in Call, NEW m \in {1, 2},
         s.op = r.op, s.client = r.client, s.step = r.step, s.pc = "running",
         s.told = r.told, s.found = r.found, s.had = r.had,
         s.refused = r.refused, s.wrote \in {r.wrote, r.wrote \cup {r.step}},
         s.pages >= r.pages,
         r.op = "CreateOrGetChatForUsers" /\ r.had => s.wrote = {} /\ r.step # 1,
         m = 2 => Requests[r.op][r.step].kind = "folder" /\ f,
         LET k == Requests[r.op][r.step].kind
         IN  /\ k \in Changes => r.step \in s.wrote
             /\ k = "mkdir" => f
             /\ k \in {"page", "search"} => s.pages = Pages
             /\ k = "body" => \E i \in s.wrote :
                                 i \in 1..Len(Requests[r.op]) /\ Requests[r.op][i].kind = "put"
  PROVE  CallInv(Skipped(s, m), g, n, f, p)
<1> DEFINE q == Requests[r.op]
           t == Skipped(s, m)
<1>1. r \in Call /\ r.op \in Operations /\ WellFormed(q)
  BY OperationsWellFormed DEF CallInv, Call
<1>2. r.step \in 1..Len(q) /\ Len(q) \in 1..8 /\ r.wrote \subseteq 1..Len(q)
  BY <1>1 DEF CallInv, Place, WellFormed, MaxSteps
<1>3. r.step + m <= Len(q) + 1
  BY <1>1, <1>2 DEF WellFormed
<1>4. /\ t \in Call /\ t.step = r.step + m /\ t.op = r.op /\ t.client = r.client
      /\ t.wrote = s.wrote /\ t.pages = s.pages /\ t.told = r.told /\ t.found = r.found
      /\ t.had = r.had /\ t.refused = r.refused
      /\ t.pc = IF r.step + m > Len(q) THEN "timer" ELSE "running"
      /\ r.step + m > Len(q) => t.err = None
  <2> DEFINE u == [s EXCEPT !.step = @ + m]
  <2> DEFINE l == Len(q)
  <2>5. l \in 1..8 /\ r.step \in 1..l /\ r.step + m <= l + 1
    BY <1>2, <1>3
  <2>1. r.step + m \in 1..MaxSteps + 1 /\ s.step = r.step /\ r.step \in Nat
    <3> HIDE DEF l, q
    <3> QED BY <2>5 DEF MaxSteps
  <2>2. /\ u \in Call /\ u.step = r.step + m
        /\ u.op = s.op /\ u.client = s.client /\ u.wrote = s.wrote /\ u.pages = s.pages
        /\ u.told = s.told /\ u.found = s.found /\ u.had = s.had /\ u.refused = s.refused
        /\ u.pc = s.pc
    BY <2>1 DEF Call
  <2> HIDE DEF u
  <2>3. Skipped(s, m) = IF r.step + m > Len(q) THEN Finished(u, None) ELSE u
    BY DEF Skipped, u
  <2>4. LET v == Finished(u, None)
        IN  /\ v \in Call /\ v.step = u.step /\ v.pc = "timer" /\ v.err = None
            /\ v.op = u.op /\ v.client = u.client /\ v.wrote = u.wrote /\ v.pages = u.pages
            /\ v.told = u.told /\ v.found = u.found /\ v.had = u.had
            /\ v.refused = u.refused
    BY <2>2 DEF Finished, Call
  <2> QED BY <2>2, <2>3, <2>4
<1>9. t = Skipped(s, m)
  OBVIOUS
<1> HIDE DEF t
<1>5. Behind(t, f)
  <2> SUFFICES ASSUME NEW i \in 1..Len(q), i < t.step
               PROVE  /\ q[i].kind \in Changes => i \in t.wrote
                      /\ q[i].kind = "put" => i \in t.wrote \/ t.step <= Len(q)
                      /\ q[i].kind = "mkdir" => f
                      /\ q[i].kind \in {"page", "search"} => t.pages = Pages
    BY <1>4 DEF Behind
  <2>1. CASE i < r.step
    <3>1. /\ q[i].kind \in Changes => i \in r.wrote
          /\ q[i].kind = "put" => i \in r.wrote \/ r.step <= Len(q)
          /\ q[i].kind = "mkdir" => f
          /\ q[i].kind \in {"page", "search"} => r.pages = Pages
      BY <2>1 DEF CallInv, Behind
    <3>2. q[i].kind \in {"page", "search"} => t.pages = Pages
      BY <1>1, <1>4, <3>1, PagesAssumption DEF Call
    <3>3. q[i].kind = "put" /\ t.step > Len(q) => i \in t.wrote
      BY <1>1, <1>2, <1>3, <1>4, <2>1, <3>1 DEF WellFormed
    <3> QED BY <1>2, <1>4, <3>1, <3>2, <3>3
  <2>2. CASE i = r.step
    BY <1>1, <1>2, <1>4, <2>2 DEF WellFormed, Changes
  <2>3. CASE i > r.step
    BY <1>1, <1>2, <1>4, <2>3 DEF WellFormed, Changes
  <2> QED BY <1>2, <2>1, <2>2, <2>3
<1>6. Place(t)
  BY <1>2, <1>3, <1>4 DEF Place
<1>7. Refusal(t, g, n)
  BY <1>1, <1>2, <1>4 DEF CallInv, Refusal, Unauthorized
<1>8. Search(t, p)
  BY <1>4 DEF CallInv, Search
<1>10. CallInv(t, g, n, f, p)
  BY <1>4, <1>5, <1>6, <1>7, <1>8 DEF CallInv
<1> QED BY <1>9, <1>10

(* A call comes back, with an error e or without.                          *)
LEMMA FinishedStep ==
  ASSUME NEW g, NEW n, NEW f, NEW p, NEW r, CallInv(r, g, n, f, p), r.pc = "running",
         NEW s \in Call, NEW e \in Error \cup {None},
         s.op = r.op, s.client = r.client, s.step = r.step, s.pages = r.pages,
         s.told = r.told, s.had = r.had, s.wrote \in {r.wrote, r.wrote \cup {r.step}},
         r.op = "CreateOrGetChatForUsers" /\ r.had => s.wrote = {},
         LET k == Requests[r.op][r.step]
         IN  /\ e = None /\ ~s.found => k.kind = "drives"
             /\ Unauthorized(e) => s.refused
             /\ s.refused => /\ ~g /\ r.client = "user"
                             /\ Unauthorized(e) \/ k.fails \in {"twice", "replaced"}
  PROVE  CallInv(Finished(s, e), g, n, f, p)
<1> DEFINE q == Requests[r.op]
           t == Finished(s, e)
<1>1. r.step \in 1..Len(q) /\ r.wrote \subseteq 1..Len(q) /\ ~r.told
  BY DEF CallInv, Place, Refusal
<1>2. /\ t \in Call /\ t.pc = "timer" /\ t.err = e /\ t.step = r.step /\ t.op = r.op
      /\ t.client = r.client /\ t.wrote = s.wrote /\ t.pages = r.pages /\ t.told = r.told
      /\ t.found = s.found /\ t.had = r.had /\ t.refused = s.refused
  BY DEF Finished, Call
<1>3. t = Finished(s, e)
  OBVIOUS
<1> HIDE DEF t
<1>4. Behind(t, f)
  BY <1>2 DEF CallInv, Behind
<1>5. Place(t)
  BY <1>1, <1>2 DEF Place
<1>6. Refusal(t, g, n)
  <2>1. t.refused \in BOOLEAN /\ t.told \in BOOLEAN /\ ~t.told
    BY <1>1, <1>2 DEF Call
  <2>2. /\ Unauthorized(t.err) => t.refused
        /\ t.refused => /\ ~g /\ t.client = "user"
                        /\ Unauthorized(t.err) \/ q[t.step].fails \in {"twice", "replaced"}
    BY <1>2
  <2>3. t.pc = "timer" /\ t.step \in 1..Len(q) /\ q = Requests[t.op]
    BY <1>1, <1>2
  <2> HIDE DEF q
  <2>4. /\ t.refused => /\ ~g /\ t.client = "user" /\ t.pc # "running"
                        /\ t.step \in 1..Len(q)
        /\ t.told => t.refused /\ ~n /\ t.pc = "ended"
    BY <2>1, <2>2, <2>3
  <2>5. /\ t.pc \in {"timer", "layer"} =>
              /\ Unauthorized(t.err) => t.refused
              /\ t.refused => Unauthorized(t.err) \/ q[t.step].fails \in {"twice", "replaced"}
        /\ t.pc # "ended"
    BY <2>1, <2>2, <2>3
  <2> QED BY <2>3, <2>4, <2>5 DEF Refusal
<1>7. Search(t, p)
  BY <1>2 DEF Search
<1>8. CallInv(t, g, n, f, p)
  BY <1>2, <1>4, <1>5, <1>6, <1>7 DEF CallInv
<1> QED BY <1>3, <1>8

(* A normalized error has the status of the error it is made of.           *)
LEMMA Normalized ==
  ASSUME NEW e \in Error
  PROVE  LET x == NormalizeGraphAPIError(e)
         IN  /\ x \in Error /\ x # None /\ x.graph /\ ~IsOAuthError(x)
             /\ x.status = IF IsOAuthError(e) THEN 401 ELSE 0
<1> DEFINE x == NormalizeGraphAPIError(e)
<1>1. /\ x \in Error /\ x.graph /\ ~IsOAuthError(x)
      /\ x.status = IF IsOAuthError(e) THEN 401 ELSE 0
  <2>1. IsOAuthError(e) \in BOOLEAN /\ (IF IsOAuthError(e) THEN 401 ELSE 0) \in {0, 401}
    BY DEF Error, IsOAuthError
  <2>2. /\ x \in Error /\ x.graph = TRUE /\ x.oauth = FALSE
        /\ x.status = IF IsOAuthError(e) THEN 401 ELSE 0
    <3> DEFINE m == IF IsOAuthError(e) THEN 401 ELSE 0
    <3>1. x = [e EXCEPT !.graph = TRUE, !.oauth = FALSE, !.status = m]
      BY DEF NormalizeGraphAPIError
    <3> HIDE DEF m, x
    <3>2. m \in {0, 401} /\ m = IF IsOAuthError(e) THEN 401 ELSE 0
      BY <2>1 DEF m
    <3> DEFINE y == [e EXCEPT !.graph = TRUE]
               z == [y EXCEPT !.oauth = FALSE]
    <3>3. y \in Error /\ y.graph = TRUE
      BY DEF Error
    <3>4. x = [z EXCEPT !.status = m]
      BY <3>1
    <3> HIDE DEF y
    <3>5. z \in Error /\ z.graph = TRUE /\ z.oauth = FALSE
      BY <3>3 DEF Error
    <3> HIDE DEF z
    <3> QED BY <3>2, <3>4, <3>5 DEF Error
  <2> QED BY <2>2 DEF IsOAuthError
<1> HIDE DEF x
<1>2. x # None
  BY <1>1, NoneAssumption
<1>3. x = NormalizeGraphAPIError(e)
  BY DEF x
<1> QED BY <1>1, <1>2, <1>3

(* What is left of the error of a failed request in what the call returns. *)
LEMMA PassedOn ==
  ASSUME NEW e \in {Failed, Refused}, NEW how \in Fails \ {"logged"}
  PROVE  /\ Passed(e, how) \in Error
         /\ Unauthorized(Passed(e, how)) => IsOAuthError(e)
         /\ IsOAuthError(e) => Unauthorized(Passed(e, how)) \/ how \in {"twice", "replaced"}
<1>1. /\ Failed \in Error /\ ~IsOAuthError(Failed) /\ ~Failed.graph
      /\ Refused \in Error /\ IsOAuthError(Refused)
  BY DEF Failed, Refused, Error, IsOAuthError
<1>2. Failed # None /\ Refused # None
  BY <1>1, NoneAssumption
<1>3. ~Unauthorized(Failed) /\ Unauthorized(Refused)
  BY <1>1, <1>2 DEF Unauthorized
<1>4. CASE how = "plain"
  BY <1>1, <1>3, <1>4 DEF Passed
<1>5. CASE how = "normalized"
  <2>1. e \in Error
    BY <1>1
  <2>2. Passed(e, how) = NormalizeGraphAPIError(e)
    BY <1>5 DEF Passed
  <2>3. Unauthorized(NormalizeGraphAPIError(e)) <=> IsOAuthError(e)
    BY <2>1, Normalized DEF Unauthorized
  <2> QED BY <2>1, <2>2, <2>3, Normalized
<1>6. CASE how = "twice"
  <2>1. e \in Error /\ NormalizeGraphAPIError(e) \in Error
    BY <1>1, Normalized
  <2>2. Passed(e, how) = NormalizeGraphAPIError(NormalizeGraphAPIError(e))
    BY <1>6 DEF Passed
  <2>3. ~Unauthorized(NormalizeGraphAPIError(NormalizeGraphAPIError(e)))
    BY <2>1, Normalized DEF Unauthorized
  <2> QED BY <1>6, <2>1, <2>2, <2>3, Normalized
<1>7. CASE how = "replaced"
  BY <1>1, <1>3, <1>7 DEF Passed
<1> QED BY <1>4, <1>5, <1>6, <1>7 DEF Fails

(* The record of a request carried out.                                    *)
LEMMA WroteIt ==
  ASSUME NEW r \in Call, r.step \in 1..MaxSteps
  PROVE  /\ Wrote(r) \in Call /\ Wrote(r).wrote = r.wrote \cup {r.step}
         /\ Wrote(r).op = r.op /\ Wrote(r).client = r.client /\ Wrote(r).step = r.step
         /\ Wrote(r).pc = r.pc /\ Wrote(r).pages = r.pages /\ Wrote(r).told = r.told
         /\ Wrote(r).found = r.found /\ Wrote(r).had = r.had /\ Wrote(r).refused = r.refused
BY DEF Wrote, Call

(* Past the search there was no chat at the start.                         *)
LEMMA PastSearch ==
  ASSUME NEW g, NEW n, NEW f, NEW p, NEW r, CallInv(r, g, n, f, p), r.pc = "running",
         Requests[r.op][r.step].kind # "search"
  PROVE  ~(r.op = "CreateOrGetChatForUsers" /\ r.had)
BY SearchFirst DEF CallInv, Search

(* The step of a running call is one of its operation.                     *)
LEMMA Running ==
  ASSUME NEW g, NEW n, NEW f, NEW p, NEW r, CallInv(r, g, n, f, p), r.pc = "running"
  PROVE  /\ r \in Call /\ r.op \in Operations /\ WellFormed(Requests[r.op])
         /\ r.step \in 1..Len(Requests[r.op]) /\ r.step \in 1..MaxSteps /\ r.step \in Nat
         /\ Requests[r.op][r.step].kind \in Kinds /\ Requests[r.op][r.step].fails \in Fails
         /\ ~r.refused /\ ~r.told /\ r.wrote \subseteq 1..Len(Requests[r.op])
<1> DEFINE q == Requests[r.op]
<1>1. r \in Call /\ r.op \in Operations /\ WellFormed(q)
  BY OperationsWellFormed DEF CallInv, Call
<1>2. r.step \in 1..Len(q) /\ ~r.refused /\ ~r.told /\ r.wrote \subseteq 1..Len(q)
  BY DEF CallInv, Place, Refusal
<1> HIDE DEF q
<1> DEFINE R == [kind : Kinds, fails : Fails]
<1>3. q[r.step] \in R /\ Len(q) \in 1..MaxSteps
  <2>1. q \in Seq(R) /\ Len(q) \in 1..MaxSteps
    BY <1>1 DEF WellFormed
  <2> HIDE DEF R
  <2> QED BY <1>2, <2>1
<1>4. r.step \in 1..MaxSteps /\ r.step \in Nat
  BY <1>2, <1>3 DEF MaxSteps
<1> QED BY <1>1, <1>2, <1>3, <1>4 DEF q

(* A request fails, whether or not it was carried out.                     *)
LEMMA FailingStep ==
  ASSUME NEW g, NEW n, NEW f, NEW p, NEW c \in Calls, CallInv(call[c], g, n, f, p),
         call[c].pc = "running", NEW e \in {Failed, Refused},
         e = Refused => ~g /\ call[c].client = "user",
         NEW r, \/ r = call[c]
                \/ r = Wrote(call[c]) /\ Request(c).kind \notin {"search", "get"}
  PROVE  CallInv(Failing(c, r, e), g, n, f, p)
<1> DEFINE o == call[c]
           k == Request(c)
<1>1. /\ o \in Call /\ o.op \in Operations /\ WellFormed(Requests[o.op])
      /\ o.step \in 1..Len(Requests[o.op]) /\ o.step \in 1..MaxSteps
      /\ k.kind \in Kinds /\ k.fails \in Fails /\ ~o.refused /\ ~o.told
      /\ k = Requests[o.op][o.step]
  BY Running DEF Request
<1>2. /\ r \in Call /\ r.op = o.op /\ r.client = o.client /\ r.step = o.step /\ r.pc = o.pc
      /\ r.pages = o.pages /\ r.told = o.told /\ r.found = o.found /\ r.had = o.had
      /\ r.refused = o.refused /\ r.wrote \in {o.wrote, o.wrote \cup {o.step}}
  BY <1>1, WroteIt
<1>3. o.op = "CreateOrGetChatForUsers" /\ o.had => r.wrote = {}
  <2>1. CASE r = call[c]
    BY <2>1 DEF CallInv, Search
  <2>2. CASE k.kind # "search"
    BY <1>1, <2>2, PastSearch
  <2> QED BY <2>1, <2>2
<1>4. CASE k.fails = "logged"
  <2>1. k.kind = "get"
    BY <1>1, <1>4 DEF WellFormed
  <2>2. CallInv(Skipped(r, 1), g, n, f, p)
    <3>1. ~(o.op = "CreateOrGetChatForUsers" /\ o.had)
      BY <1>1, <2>1, PastSearch
    <3>2. r.pages >= o.pages
      BY <1>1, <1>2 DEF Call
    <3> HIDE DEF k, o
    <3> QED BY <1>1, <1>2, <2>1, <3>1, <3>2, SkippedStep DEF Changes, o
  <2> QED BY <1>4, <2>2 DEF Failing
<1>5. CASE k.fails # "logged"
  <2> DEFINE s == [r EXCEPT !.refused = IsOAuthError(e)]
             x == Passed(e, k.fails)
  <2>1. /\ x \in Error
        /\ Unauthorized(x) => IsOAuthError(e)
        /\ IsOAuthError(e) => Unauthorized(x) \/ k.fails \in {"twice", "replaced"}
    BY <1>1, <1>5, PassedOn
  <2>2. IsOAuthError(e) \in BOOLEAN /\ (IsOAuthError(e) => e = Refused)
    <3>1. Failed.oauth = FALSE /\ Refused.oauth = TRUE
      BY DEF Failed, Refused
    <3> QED BY <3>1 DEF IsOAuthError
  <2>3. /\ s \in Call /\ s.op = r.op /\ s.client = r.client /\ s.step = r.step
        /\ s.pages = r.pages /\ s.told = r.told /\ s.had = r.had /\ s.wrote = r.wrote
        /\ s.found = r.found /\ s.refused = IsOAuthError(e)
    BY <1>2, <2>2 DEF Call
  <2>4. x # None
    <3> HIDE DEF x
    <3> QED BY <2>1, NoneAssumption
  <2>5. Failing(c, r, e) = Finished(s, x)
    BY <1>5 DEF Failing
  <2> HIDE DEF s, x
  <2>6. CallInv(Finished(s, x), g, n, f, p)
    BY <1>1, <1>2, <1>3, <2>1, <2>2, <2>3, <2>4, FinishedStep
  <2> QED BY <2>5, <2>6
<1> QED BY <1>4, <1>5

-----------------------------------------------------------------------------
(* The steps.                                                              *)

(* A step of c that changes nothing but c.                                 *)
LEMMA QuietStep ==
  ASSUME IInv, NEW c \in Calls, NEW r, Set(c, r), UNCHANGED <<connected, Remote>>,
         CallInv(r, grant, connected, folder, groups)
  PROVE  IInv'
<1>1. /\ grant' = grant /\ connected' = connected /\ folder' = folder /\ groups' = groups
      /\ call' = [call EXCEPT ![c] = r]
  BY DEF Remote, Set
<1>2. /\ grant \in BOOLEAN /\ connected \in BOOLEAN /\ folder \in BOOLEAN
      /\ groups \subseteq 1..Pages
  BY DEF IInv, TypeOK
<1>3. CallInv(r, grant', connected', folder', groups')
  BY <1>1
<1>4. /\ grant' => grant
      /\ connected' => connected
      /\ folder => folder'
      /\ groups \subseteq groups'
  BY <1>1
<1>5. /\ grant' \in BOOLEAN /\ connected' \in BOOLEAN /\ folder' \in BOOLEAN
      /\ groups' \subseteq 1..Pages
  BY <1>1, <1>2
<1> QED BY <1>1, <1>3, <1>4, <1>5, StepOf

(* What a running call is at.                                              *)
LEMMA AtStep ==
  ASSUME IInv, NEW c \in Calls, NEW K, At(c, K)
  PROVE  LET r == call[c]
         IN  /\ CallInv(r, grant, connected, folder, groups) /\ r.pc = "running"
             /\ Request(c) = Requests[r.op][r.step] /\ Request(c).kind \in K
             /\ r \in Call /\ r.op \in Operations /\ WellFormed(Requests[r.op])
             /\ r.step \in 1..Len(Requests[r.op]) /\ r.step \in 1..MaxSteps /\ r.step \in Nat
             /\ Request(c).kind \in Kinds /\ Request(c).fails \in Fails
             /\ ~r.refused /\ ~r.told /\ r.wrote \subseteq 1..Len(Requests[r.op])
             /\ r.pages \in Nat
             /\ Request(c).kind # "search" => ~(r.op = "CreateOrGetChatForUsers" /\ r.had)
<1> DEFINE r == call[c]
<1>1. CallInv(r, grant, connected, folder, groups) /\ r.pc = "running" /\ Request(c).kind \in K
  BY DEF At, IInv
<1>2. Request(c) = Requests[r.op][r.step]
  BY DEF Request
<1>3. r \in Call => r.pages \in Nat
  BY PagesAssumption DEF Call
<1> HIDE DEF r
<1>4. Request(c).kind # "search" => ~(r.op = "CreateOrGetChatForUsers" /\ r.had)
  BY <1>1, <1>2, PastSearch
<1> QED BY <1>1, <1>2, <1>3, <1>4, Running DEF r

(* A running call goes on, having done what its request is for.            *)
LEMMA Onward ==
  ASSUME NEW g, NEW n, NEW f, NEW p, NEW c \in Calls, CallInv(call[c], g, n, f, p),
         call[c].pc = "running", NEW r \in {call[c], Wrote(call[c])},
         LET k == Request(c).kind
         IN  /\ k \notin {"page", "search"}
             /\ k \in Changes => r = Wrote(call[c])
             /\ k = "mkdir" => f
             /\ k = "body" => Uploaded(c)
  PROVE  CallInv(Skipped(r, 1), g, n, f, p)
<1> DEFINE o == call[c]
           k == Request(c)
<1>1. /\ o \in Call /\ o.op \in Operations /\ WellFormed(Requests[o.op])
      /\ o.step \in 1..Len(Requests[o.op]) /\ o.step \in 1..MaxSteps
      /\ o.wrote \subseteq 1..Len(Requests[o.op]) /\ k = Requests[o.op][o.step]
  BY Running DEF Request
<1>2. /\ r \in Call /\ r.op = o.op /\ r.client = o.client /\ r.step = o.step /\ r.pc = o.pc
      /\ r.pages = o.pages /\ r.told = o.told /\ r.found = o.found /\ r.had = o.had
      /\ r.refused = o.refused /\ r.wrote \in {o.wrote, o.wrote \cup {o.step}}
  BY <1>1, WroteIt
<1>3. ~(o.op = "CreateOrGetChatForUsers" /\ o.had)
  BY <1>1, PastSearch
<1>4. k.kind \in Changes => o.step \in r.wrote
  BY <1>1, WroteIt
<1>5. k.kind = "body" => \E i \in r.wrote :
                            i \in 1..Len(Requests[o.op]) /\ Requests[o.op][i].kind = "put"
  BY <1>1, <1>2 DEF Uploaded
<1>6. r.pages >= o.pages
  BY <1>1, <1>2, PagesAssumption DEF Call
<1>7. /\ k.kind \notin {"page", "search"}
      /\ k.kind = "mkdir" => f
  OBVIOUS
<1>8. o = call[c]
  OBVIOUS
<1> HIDE DEF o, k
<1> QED BY <1>1, <1>2, <1>3, <1>4, <1>5, <1>6, <1>7, <1>8, SkippedStep

(* A running call comes back, with Failed or nothing.                      *)
LEMMA Back ==
  ASSUME NEW g, NEW n, NEW f, NEW p, NEW c \in Calls, CallInv(call[c], g, n, f, p),
         call[c].pc = "running", NEW r \in {call[c], Wrote(call[c])}, NEW e \in {Failed, None},
         Request(c).kind # "search", e = None => Request(c).kind = "drives"
  PROVE  CallInv(Finished(r, e), g, n, f, p)
<1> DEFINE o == call[c]
           k == Request(c)
<1>1. /\ o \in Call /\ o.step \in 1..MaxSteps /\ k = Requests[o.op][o.step] /\ ~o.refused
  BY Running DEF Request
<1>2. /\ r \in Call /\ r.op = o.op /\ r.client = o.client /\ r.step = o.step
      /\ r.pages = o.pages /\ r.told = o.told /\ r.found = o.found /\ r.had = o.had
      /\ ~r.refused /\ r.wrote \in {o.wrote, o.wrote \cup {o.step}}
  BY <1>1, WroteIt
<1>3. ~(o.op = "CreateOrGetChatForUsers" /\ o.had)
  BY <1>1, PastSearch
<1>4. ~Unauthorized(e) /\ e \in Error \cup {None}
  <2>1. Failed \in Error /\ ~Failed.oauth /\ ~Failed.graph
    BY DEF Failed, Error
  <2> QED BY <2>1 DEF Unauthorized, IsOAuthError
<1>5. e = None => k.kind = "drives"
  OBVIOUS
<1>6. o = call[c]
  OBVIOUS
<1> HIDE DEF o, k
<1> QED BY <1>1, <1>2, <1>3, <1>4, <1>5, <1>6, FinishedStep

(* Failed is an error, not that of a refusal.                              *)
LEMMA FailedOnly == Failed # Refused /\ Failed # None
<1>1. Failed.oauth = FALSE /\ Refused.oauth = TRUE /\ Failed \in Error
  BY DEF Failed, Refused, Error
<1> QED BY <1>1, NoneAssumption

(* A request fails.                                                        *)
LEMMA RequestFailsStep == ASSUME IInv, NEW c \in Calls, RequestFails(c) PROVE IInv'
<1> DEFINE K == {"local", "get", "getId", "drives", "write", "writeId", "create", "page",
                 "search", "batch", "folder", "mkdir", "put", "invite"}
<1>1. At(c, K)
  BY DEF RequestFails
<1>2. PICK e \in {Failed, Refused} :
         /\ e = Refused => ~grant /\ call[c].client = "user"
         /\ Set(c, Failing(c, call[c], e))
  BY DEF RequestFails
<1>3. CallInv(call[c], grant, connected, folder, groups) /\ call[c].pc = "running"
  BY <1>1, AtStep
<1>4. CallInv(Failing(c, call[c], e), grant, connected, folder, groups)
  BY <1>2, <1>3, FailingStep
<1>5. UNCHANGED <<connected, Remote>>
  BY DEF RequestFails
<1> QED BY <1>2, <1>4, <1>5, QuietStep

(* A request is answered.                                                  *)
LEMMA AnsweredStep == ASSUME IInv, NEW c \in Calls, Answered(c) PROVE IInv'
<1> DEFINE K == {"local", "get", "getId", "drives"}
<1>1. At(c, K) /\ UNCHANGED <<connected, Remote>>
  BY DEF Answered
<1>2. /\ CallInv(call[c], grant, connected, folder, groups) /\ call[c].pc = "running"
      /\ Request(c).kind \in K
  BY <1>1, AtStep
<1>3. CallInv(Skipped(call[c], 1), grant, connected, folder, groups)
  BY <1>2, Onward DEF Changes
<1>4. CallInv(Finished(call[c], Failed), grant, connected, folder, groups)
  BY <1>2, FailedOnly, Back
<1>5. Request(c).kind = "drives" =>
         CallInv(Finished(call[c], None), grant, connected, folder, groups)
  BY <1>2, Back
<1> QED BY <1>1, <1>3, <1>4, <1>5, QuietStep DEF Answered

(* A change is made.                                                       *)
LEMMA WrittenStep == ASSUME IInv, NEW c \in Calls, Written(c) PROVE IInv'
<1> DEFINE K == {"write", "writeId", "create", "invite"}
           w == Wrote(call[c])
<1>1. /\ At(c, K) /\ connected' = connected /\ grant' = grant /\ folder' = folder
      /\ groups \subseteq groups' /\ groups' \subseteq 1..Pages
  BY DEF Written, IInv, TypeOK
<1>2. /\ CallInv(call[c], grant, connected, folder, groups) /\ call[c].pc = "running"
      /\ Request(c).kind \in K
  BY <1>1, AtStep
<1>3. CallInv(call[c], grant', connected', folder', groups')
  BY <1>1, <1>2, Around
<1>4. CallInv(Skipped(w, 1), grant', connected', folder', groups')
  BY <1>2, <1>3, Onward
<1>5. CallInv(Finished(w, Failed), grant', connected', folder', groups')
  BY <1>2, <1>3, FailedOnly, Back
<1>6. CallInv(Failing(c, w, Failed), grant', connected', folder', groups')
  BY <1>2, <1>3, FailedOnly, FailingStep
<1>7. PICK r : Set(c, r) /\ CallInv(r, grant', connected', folder', groups')
  BY <1>4, <1>5, <1>6 DEF Written
<1>8. grant \in BOOLEAN /\ connected \in BOOLEAN /\ folder \in BOOLEAN
  BY DEF IInv, TypeOK
<1> QED BY <1>1, <1>7, <1>8, StepOf DEF Set

(* A batch is sent.                                                        *)
LEMMA BatchStep ==
  ASSUME IInv, NEW c \in Calls, SendBatchRequestAndGetMessage(c) PROVE IInv'
<1> DEFINE w == Wrote(call[c])
<1>1. At(c, {"batch"}) /\ UNCHANGED <<connected, Remote>>
  BY DEF SendBatchRequestAndGetMessage
<1>2. /\ CallInv(call[c], grant, connected, folder, groups) /\ call[c].pc = "running"
      /\ Request(c).kind = "batch"
  BY <1>1, AtStep
<1>3. CallInv(Skipped(w, 1), grant, connected, folder, groups)
  BY <1>2, Onward
<1>4. CallInv(Failing(c, w, Failed), grant, connected, folder, groups)
  BY <1>2, FailedOnly, FailingStep
<1> QED BY <1>1, <1>3, <1>4, QuietStep DEF SendBatchRequestAndGetMessage

(* A page of a list is read.                                               *)
LEMMA NextPageStep == ASSUME IInv, NEW c \in Calls, NextPage(c) PROVE IInv'
<1> DEFINE o == call[c]
           r == [o EXCEPT !.pages = @ + 1]
           h == [o EXCEPT !.found = TRUE]
           k == Request(c).kind
<1>1. At(c, {"page", "search"}) /\ UNCHANGED <<connected, Remote>>
  BY DEF NextPage
<1>2. /\ CallInv(o, grant, connected, folder, groups) /\ o.pc = "running"
      /\ Request(c) = Requests[o.op][o.step] /\ k \in {"page", "search"}
      /\ o \in Call /\ o.op \in Operations /\ WellFormed(Requests[o.op])
      /\ o.step \in 1..Len(Requests[o.op])
      /\ ~o.refused /\ ~o.told /\ o.wrote \subseteq 1..Len(Requests[o.op])
      /\ (k # "search" => ~(o.op = "CreateOrGetChatForUsers" /\ o.had))
  BY <1>1, AtStep
<1>3. o.step = 1 /\ o.pages < Pages
  <2>1. o.step = 1
    BY <1>2 DEF WellFormed
  <2> QED BY <1>2, <2>1 DEF CallInv, Place
<1>4. /\ r \in Call /\ r.op = o.op /\ r.client = o.client /\ r.step = o.step /\ r.pc = o.pc
      /\ r.pages = o.pages + 1 /\ r.told = o.told /\ r.found = o.found /\ r.had = o.had
      /\ r.refused = o.refused /\ r.wrote = o.wrote /\ r.err = o.err
      /\ o.pages \in Nat /\ Pages \in Nat
  BY <1>2, <1>3, PagesAssumption DEF Call
<1>5. CASE k = "search" /\ o.pages + 1 \in groups /\ Set(c, Finished(h, None))
  <2>1. /\ h \in Call /\ h.op = o.op /\ h.client = o.client /\ h.step = o.step /\ h.pc = o.pc
        /\ h.pages = o.pages /\ h.told = o.told /\ h.found = TRUE /\ h.had = o.had
        /\ h.refused = o.refused /\ h.wrote = o.wrote
    BY <1>2 DEF Call
  <2>2. o.op = "CreateOrGetChatForUsers" /\ o.had => o.wrote = {}
    BY <1>2 DEF CallInv, Search
  <2>3. ~Unauthorized(None)
    BY DEF Unauthorized
  <2>4. CallInv(Finished(h, None), grant, connected, folder, groups)
    <3> HIDE DEF h
    <3> QED BY <1>2, <2>1, <2>2, <2>3, FinishedStep
  <2> QED BY <1>1, <1>5, <2>4, QuietStep
<1>6. CASE k = "search" => o.pages + 1 \notin groups
  <2>1. ASSUME o.op = "CreateOrGetChatForUsers", o.had
        PROVE  o.wrote = {} /\ r.pages < Pages /\ \E j \in groups : j > r.pages
    <3>1. PICK j \in groups : j > o.pages
      BY <1>2, <2>1 DEF CallInv, Search
    <3>2. j \in 1..Pages /\ j # o.pages + 1 /\ o.wrote = {}
      BY <1>2, <1>6, <2>1, <3>1 DEF IInv, TypeOK, CallInv, Search
    <3> QED BY <1>4, <3>1, <3>2
  <2>2. CASE r.pages = Pages
    <3>1. CallInv(Skipped(r, 1), grant, connected, folder, groups)
      <4>1. r.pages >= o.pages
        BY <1>4
      <4> HIDE DEF r
      <4> QED BY <1>2, <1>4, <2>1, <2>2, <4>1, SkippedStep DEF Changes
    <3>2. Set(c, Skipped(r, 1))
      BY <1>6, <2>2 DEF NextPage
    <3> QED BY <1>1, <3>1, <3>2, QuietStep
  <2>3. CASE r.pages # Pages
    <3> HIDE DEF r
    <3>1. Behind(r, folder)
      BY <1>2, <1>3, <1>4 DEF Behind
    <3>2. Place(r)
      BY <1>2, <1>3, <1>4, <2>3 DEF Place
    <3>3. Refusal(r, grant, connected)
      BY <1>2, <1>4 DEF Refusal
    <3>4. Search(r, groups)
      BY <1>3, <1>4, <2>1 DEF Search
    <3>5. CallInv(r, grant, connected, folder, groups)
      BY <1>4, <3>1, <3>2, <3>3, <3>4 DEF CallInv
    <3>6. Set(c, r)
      BY <1>6, <2>3 DEF NextPage, r
    <3> QED BY <1>1, <3>5, <3>6, QuietStep
  <2> QED BY <2>2, <2>3
<1> QED BY <1>5, <1>6 DEF NextPage

(* The folder is there, or is not.                                         *)
LEMMA FindFolderStep == ASSUME IInv, NEW c \in Calls, FindFolder(c) PROVE IInv'
<1> DEFINE o == call[c]
<1>1. At(c, {"folder"}) /\ UNCHANGED <<connected, Remote>>
  BY DEF FindFolder
<1>2. /\ CallInv(o, grant, connected, folder, groups) /\ o.pc = "running"
      /\ Request(c) = Requests[o.op][o.step] /\ Request(c).kind = "folder"
      /\ o \in Call /\ o.pages \in Nat /\ ~(o.op = "CreateOrGetChatForUsers" /\ o.had)
  BY <1>1, AtStep
<1>3. CallInv(Skipped(o, 1), grant, connected, folder, groups)
  BY <1>2, Onward DEF Changes
<1>4. folder => CallInv(Skipped(o, 2), grant, connected, folder, groups)
  <2>1. o.pages >= o.pages
    BY <1>2
  <2> HIDE DEF o
  <2> QED BY <1>2, <2>1, SkippedStep DEF Changes
<1> QED BY <1>1, <1>3, <1>4, QuietStep DEF FindFolder

(* The folder is made.                                                     *)
LEMMA MakeFolderStep == ASSUME IInv, NEW c \in Calls, MakeFolder(c) PROVE IInv'
<1> DEFINE w == Wrote(call[c])
<1>1. /\ At(c, {"mkdir"}) /\ connected' = connected /\ grant' = grant /\ folder' = TRUE
      /\ groups' = groups
  BY DEF MakeFolder
<1>2. /\ CallInv(call[c], grant, connected, folder, groups) /\ call[c].pc = "running"
      /\ Request(c).kind = "mkdir"
  BY <1>1, AtStep
<1>3. CallInv(call[c], grant', connected', folder', groups')
  BY <1>1, <1>2, Around
<1>4. CallInv(Skipped(w, 1), grant', connected', folder', groups')
  BY <1>1, <1>2, <1>3, Onward DEF Changes
<1>5. CallInv(Failing(c, w, Failed), grant', connected', folder', groups')
  BY <1>2, <1>3, FailedOnly, FailingStep
<1>6. PICK r : Set(c, r) /\ CallInv(r, grant', connected', folder', groups')
  BY <1>4, <1>5 DEF MakeFolder
<1>7. /\ grant' \in BOOLEAN /\ connected' \in BOOLEAN /\ folder' \in BOOLEAN
      /\ groups' \subseteq 1..Pages
  BY <1>1 DEF IInv, TypeOK
<1> QED BY <1>1, <1>6, <1>7, StepOf DEF Set

(* The file is sent.                                                       *)
LEMMA PutStep == ASSUME IInv, NEW c \in Calls, Put(c) PROVE IInv'
<1> DEFINE w == Wrote(call[c])
<1>1. At(c, {"put"}) /\ UNCHANGED <<connected, Remote>>
  BY DEF Put
<1>2. /\ CallInv(call[c], grant, connected, folder, groups) /\ call[c].pc = "running"
      /\ Request(c).kind = "put"
  BY <1>1, AtStep
<1>3. /\ CallInv(Skipped(w, 1), grant, connected, folder, groups)
      /\ CallInv(Skipped(call[c], 1), grant, connected, folder, groups)
  BY <1>2, Onward DEF Changes
<1>4. CallInv(Failing(c, w, Failed), grant, connected, folder, groups)
  BY <1>2, FailedOnly, FailingStep
<1> QED BY <1>1, <1>3, <1>4, QuietStep DEF Put

(* The answer of the upload is read.                                       *)
LEMMA ReadBodyStep == ASSUME IInv, NEW c \in Calls, ReadBody(c) PROVE IInv'
<1> DEFINE o == call[c]
           r == [o EXCEPT !.pc = "panicked"]
<1>1. At(c, {"body"}) /\ UNCHANGED <<connected, Remote>>
  BY DEF ReadBody
<1>2. /\ CallInv(o, grant, connected, folder, groups) /\ o.pc = "running" /\ o \in Call
      /\ Request(c).kind = "body" /\ ~o.refused /\ ~o.told
      /\ o.wrote \subseteq 1..Len(Requests[o.op])
  BY <1>1, AtStep
<1>3. Uploaded(c) => CallInv(Skipped(o, 1), grant, connected, folder, groups)
  BY <1>2, Onward DEF Changes
<1>4. CallInv(Failing(c, o, Failed), grant, connected, folder, groups)
  BY <1>2, FailedOnly, FailingStep
<1>5. CallInv(r, grant, connected, folder, groups)
  <2>1. /\ r \in Call /\ r.pc = "panicked" /\ r.op = o.op /\ r.step = o.step
        /\ r.wrote = o.wrote /\ r.pages = o.pages /\ r.told = o.told /\ r.had = o.had
        /\ r.refused = o.refused
    BY <1>2 DEF Call
  <2> HIDE DEF r
  <2> QED BY <1>2, <2>1 DEF CallInv, Behind, Place, Refusal, Search
<1> QED BY <1>1, <1>3, <1>4, <1>5, QuietStep DEF ReadBody

(* The timer layer records the outcome.                                    *)
LEMMA TimerStep == ASSUME IInv, NEW c \in Calls, ClientTimerLayer(c) PROVE IInv'
<1> DEFINE o == call[c]
<1>1. PICK label \in {"none", "2XX", "0", "401"} :
         Set(c, [o EXCEPT !.label = label,
                          !.pc = IF o.client = "user" THEN "layer" ELSE "ended"])
  BY DEF ClientTimerLayer
<1> DEFINE r == [o EXCEPT !.label = label,
                          !.pc = IF o.client = "user" THEN "layer" ELSE "ended"]
<1>2. CallInv(o, grant, connected, folder, groups) /\ o.pc = "timer" /\ o \in Call
  BY DEF ClientTimerLayer, IInv, CallInv
<1>3. /\ r \in Call /\ r.pc = IF o.client = "user" THEN "layer" ELSE "ended"
      /\ r.op = o.op /\ r.client = o.client /\ r.step = o.step /\ r.wrote = o.wrote
      /\ r.pages = o.pages /\ r.told = o.told /\ r.had = o.had /\ r.found = o.found
      /\ r.refused = o.refused /\ r.err = o.err
  BY <1>2 DEF Call
<1>4. Set(c, r) /\ UNCHANGED <<connected, Remote>>
  BY <1>1 DEF ClientTimerLayer
<1> HIDE DEF r
<1>5. Behind(r, folder) /\ Search(r, groups)
  BY <1>2, <1>3 DEF CallInv, Behind, Search
<1>6. Place(r)
  BY <1>2, <1>3 DEF CallInv, Place
<1>7. Refusal(r, grant, connected)
  BY <1>2, <1>3 DEF CallInv, Refusal
<1> QED BY <1>3, <1>4, <1>5, <1>6, <1>7, QuietStep DEF CallInv

(* The disconnection layer disconnects the user, or not.                   *)
LEMMA LayerStep == ASSUME IInv, NEW c \in Calls, ClientDisconnectionLayer(c) PROVE IInv'
<1> DEFINE o == call[c]
           b == Unauthorized(o.err)
           r == [o EXCEPT !.told = b, !.pc = "ended"]
<1>1. /\ CallInv(o, grant, connected, folder, groups) /\ o.pc = "layer" /\ o \in Call
      /\ connected' = (connected /\ ~b) /\ Set(c, r)
      /\ grant' = grant /\ folder' = folder /\ groups' = groups
  BY DEF ClientDisconnectionLayer, IInv, CallInv, Remote, Unauthorized
<1>2. b \in BOOLEAN
  BY DEF Unauthorized
<1>3. /\ r \in Call /\ r.pc = "ended" /\ r.told = b
      /\ r.op = o.op /\ r.client = o.client /\ r.step = o.step /\ r.wrote = o.wrote
      /\ r.pages = o.pages /\ r.had = o.had /\ r.found = o.found
      /\ r.refused = o.refused /\ r.err = o.err
  <2> HIDE DEF b
  <2> QED BY <1>1, <1>2 DEF Call
<1>4. /\ grant' \in BOOLEAN /\ connected' \in BOOLEAN /\ folder' \in BOOLEAN
      /\ groups' \subseteq 1..Pages /\ (connected' => connected)
  BY <1>1 DEF IInv, TypeOK
<1>5. CallInv(o, grant', connected', folder', groups')
  <2>1. grant' => grant /\ (folder => folder') /\ groups \subseteq groups'
    BY <1>1
  <2> QED BY <1>1, <1>4, <2>1, Around
<1> HIDE DEF r
<1>6. Behind(r, folder') /\ Search(r, groups')
  BY <1>3, <1>1, <1>5 DEF CallInv, Behind, Search
<1>7. Place(r)
  BY <1>1, <1>3, <1>5 DEF CallInv, Place
<1>8. Refusal(r, grant', connected')
  <2>1. /\ o.refused => /\ ~grant' /\ o.client = "user"
                        /\ o.step \in 1..Len(Requests[o.op])
        /\ b => o.refused
        /\ o.refused => b \/ Requests[o.op][o.step].fails \in {"twice", "replaced"}
    BY <1>1, <1>5 DEF CallInv, Refusal
  <2>2. b => ~connected'
    BY <1>1
  <2> HIDE DEF b
  <2> QED BY <1>3, <2>1, <2>2 DEF Refusal
<1>9. CallInv(r, grant', connected', folder', groups')
  BY <1>3, <1>6, <1>7, <1>8 DEF CallInv
<1>10. call' = [call EXCEPT ![c] = r] /\ grant' => grant
  BY <1>1 DEF Set
<1> QED BY <1>1, <1>4, <1>9, <1>10, StepOf DEF Set

(* A call begins.                                                          *)
LEMMA BeginStep == ASSUME IInv, NEW c \in Calls, Begin(c) PROVE IInv'
<1>1. PICK op \in OpsOf[c], client \in {"user", "app"} :
         Set(c, [op |-> op, client |-> client, step |-> 1, pc |-> "running", pages |-> 0,
                 err |-> None, label |-> "none", told |-> FALSE, wrote |-> {},
                 found |-> FALSE, had |-> groups # {}, refused |-> FALSE])
  BY DEF Begin
<1> DEFINE r == [op |-> op, client |-> client, step |-> 1, pc |-> "running", pages |-> 0,
                 err |-> None, label |-> "none", told |-> FALSE, wrote |-> {},
                 found |-> FALSE, had |-> groups # {}, refused |-> FALSE]
<1>2. op \in Operations
  BY OpsOfAssumption
<1>3. Len(Requests[op]) \in 1..MaxSteps
  BY <1>2, OperationsWellFormed DEF WellFormed
<1>4. /\ r.op = op /\ r.step = 1 /\ r.pc = "running" /\ r.pages = 0 /\ r.told = FALSE
      /\ r.wrote = {} /\ r.had = (groups # {}) /\ r.refused = FALSE /\ r \in Call
  BY <1>2, PagesAssumption DEF Call, MaxSteps
<1>5. Set(c, r) /\ UNCHANGED <<connected, Remote>>
  BY <1>1 DEF Begin
<1> HIDE DEF r
<1>6. Behind(r, folder)
  BY <1>3, <1>4 DEF Behind
<1>7. Place(r)
  <2>1. /\ r.wrote \subseteq 1..Len(Requests[r.op]) /\ r.step \in 1..Len(Requests[r.op])
        /\ r.pages < Pages
    <3>1. 1 \in 1..Len(Requests[op])
      <4> DEFINE l == Len(Requests[op])
      <4>1. l \in 1..8
        BY <1>3 DEF MaxSteps
      <4> HIDE DEF l
      <4>2. 1 \in 1..l
        BY <4>1
      <4> QED BY <4>2 DEF l
    <3>2. 0 < Pages
      BY PagesAssumption
    <3> QED BY <1>4, <3>1, <3>2
  <2> QED BY <1>4, <2>1 DEF Place
<1>8. Refusal(r, grant, connected)
  BY <1>4 DEF Refusal
<1>9. Search(r, groups)
  <2>1. groups # {} => \E k \in groups : k > 0
    <3>1. groups \subseteq 1..Pages
      BY DEF IInv, TypeOK
    <3>2. ASSUME NEW k \in groups PROVE k > 0
      BY <3>1, PagesAssumption
    <3> QED BY <3>2
  <2> QED BY <1>4, <2>1 DEF Search
<1> QED BY <1>4, <1>5, <1>6, <1>7, <1>8, <1>9, QuietStep DEF CallInv

(* Withdrawing the consent, or a step of others, leaves the calls alone.   *)
LEMMA RevokeStep == ASSUME IInv, Revoke \/ UNCHANGED vars PROVE IInv'
<1>1. /\ (grant' => grant) /\ (connected' => connected) /\ (folder => folder')
      /\ groups \subseteq groups' /\ call' = call
  BY DEF Revoke, vars
<1>2. TypeOK'
  BY DEF Revoke, vars, IInv, TypeOK
<1>3. ASSUME NEW c \in Calls, call[c] # None
      PROVE  CallInv(call[c], grant', connected', folder', groups')
  BY <1>1, <1>3, Around DEF IInv
<1> QED BY <1>1, <1>2, <1>3 DEF IInv

(* The invariant is inductive.                                             *)
LEMMA Inductive == IInv /\ [Next]_vars => IInv'
<1> SUFFICES ASSUME IInv, [Next]_vars PROVE IInv'
  OBVIOUS
<1>1. CASE Revoke \/ UNCHANGED vars
  BY <1>1, RevokeStep
<1>2. ASSUME NEW c \in Calls,
             \/ Begin(c) \/ RequestFails(c) \/ Answered(c) \/ Written(c)
             \/ SendBatchRequestAndGetMessage(c) \/ NextPage(c)
             \/ FindFolder(c) \/ MakeFolder(c) \/ Put(c) \/ ReadBody(c)
             \/ ClientTimerLayer(c) \/ ClientDisconnectionLayer(c)
      PROVE  IInv'
  BY <1>2, BeginStep, RequestFailsStep, AnsweredStep, WrittenStep, BatchStep, NextPageStep,
     FindFolderStep, MakeFolderStep, PutStep, ReadBodyStep, TimerStep, LayerStep
<1> QED BY <1>1, <1>2 DEF Next

(* Whatever the calls do, each is as IInv says.                            *)
THEOREM Invariance == Spec => []IInv
BY InitIInv, Inductive, PTL DEF Spec

-----------------------------------------------------------------------------
(* What an ended call's invariant says.                                    *)
LEMMA AtEnd ==
  ASSUME IInv, NEW c \in Calls, Ended(c)
  PROVE  LET r == call[c]
         IN  /\ CallInv(r, grant, connected, folder, groups) /\ r.pc = "ended"
             /\ WellFormed(Requests[r.op]) /\ r \in Call
<1>1. CallInv(call[c], grant, connected, folder, groups) /\ call[c].pc = "ended"
  BY DEF Ended, IInv
<1>2. call[c] \in Call /\ call[c].op \in Operations
  BY <1>1 DEF CallInv, Call
<1> QED BY <1>1, <1>2, OperationsWellFormed

(* A user whose consent is gone is disconnected by every call of theirs    *)
(* that meets it, and by none that does not (the two layers and            *)
(* NormalizeGraphAPIError).                                                *)
THEOREM Noticed == Spec => []RefusalNoticed
<1>1. IInv => RefusalNoticed
  <2> SUFFICES ASSUME IInv, NEW c \in Calls, Ended(c)
               PROVE  /\ call[c].told => ~grant /\ ~connected
                      /\ call[c].client = "user" /\ call[c].refused =>
                            call[c].told \/ Request(c).fails \in {"twice", "replaced"}
                      /\ call[c].told => call[c].refused
    BY DEF RefusalNoticed
  <2>1. Refusal(call[c], grant, connected) /\ call[c].pc = "ended"
    BY AtEnd DEF CallInv
  <2> QED BY <2>1 DEF Refusal, Request
<1> QED BY <1>1, Invariance, PTL

(* Lists are read to their last page, so a chat there is found.            *)
THEOREM AllPages == Spec => []PagesAllRead
<1>1. IInv => PagesAllRead
  <2> SUFFICES ASSUME IInv, NEW c \in Calls, Ended(c)
               PROVE  /\ call[c].err = None /\ ~call[c].found =>
                            \A i \in DOMAIN Requests[call[c].op] :
                               Kind(c, i) \in {"page", "search"} => call[c].pages = Pages
                      /\ call[c].had => ~\E i \in call[c].wrote :
                            Kind(c, i) = "create" /\ call[c].op = "CreateOrGetChatForUsers"
    BY DEF PagesAllRead
  <2> DEFINE r == call[c]
             q == Requests[r.op]
  <2>1. /\ Behind(r, folder) /\ Place(r) /\ Search(r, groups) /\ r.pc = "ended"
        /\ WellFormed(q) /\ r \in Call
    BY AtEnd DEF CallInv
  <2>2. DOMAIN q = 1..Len(q) /\ Len(q) \in Nat
    BY <2>1 DEF WellFormed, MaxSteps
  <2>3. r.step \in Nat
    BY <2>1 DEF Call, MaxSteps
  <2>4. ASSUME r.err = None, ~r.found, NEW i \in 1..Len(q), q[i].kind \in {"page", "search"}
        PROVE  r.pages = Pages
    <3>1. CASE r.step > Len(q)
      BY <2>1, <2>2, <2>3, <2>4, <3>1 DEF Behind
    <3>2. CASE r.step <= Len(q)
      <4>1. q[r.step].kind = "drives" /\ r.step \in 1..Len(q)
        BY <2>1, <2>2, <2>3, <2>4, <3>2 DEF Place, Call, MaxSteps
      <4> QED BY <2>1, <2>4, <4>1 DEF WellFormed
    <3> QED BY <2>2, <2>3, <3>1, <3>2
  <2>5. r.had => ~\E i \in r.wrote : Kind(c, i) = "create" /\ r.op = "CreateOrGetChatForUsers"
    BY <2>1 DEF Search
  <2> QED BY <2>2, <2>4, <2>5 DEF Kind
<1> QED BY <1>1, Invariance, PTL

(* A call that returns no error made all the changes it is for.            *)
THEOREM Done == Spec => []OkMeansDone
<1>1. IInv => OkMeansDone
  <2> SUFFICES ASSUME IInv, NEW c \in Calls, Ended(c), call[c].err = None, ~call[c].found,
                      NEW i \in DOMAIN Requests[call[c].op]
               PROVE  /\ Kind(c, i) \in {"write", "writeId", "create", "batch", "put", "invite"} =>
                            i \in call[c].wrote
                      /\ Kind(c, i) = "mkdir" => folder
    BY DEF OkMeansDone
  <2> DEFINE r == call[c]
             q == Requests[r.op]
  <2>1. /\ Behind(r, folder) /\ Place(r) /\ r.pc = "ended" /\ WellFormed(q) /\ r \in Call
    BY AtEnd DEF CallInv
  <2>2. DOMAIN q = 1..Len(q) /\ Len(q) \in Nat /\ i \in 1..Len(q)
    BY <2>1 DEF WellFormed, MaxSteps
  <2>3. r.step \in Nat /\ r.step > 0
    BY <2>1 DEF Call, MaxSteps
  <2>4. CASE r.step > Len(q)
    BY <2>1, <2>2, <2>3, <2>4 DEF Behind, Kind, Changes
  <2>5. CASE r.step <= Len(q)
    <3>1. q[r.step].kind = "drives" /\ r.step \in 1..Len(q)
      BY <2>1, <2>2, <2>3, <2>5 DEF Place
    <3>2. q[i].kind \in {"get", "drives", "getId"}
      BY <2>1, <2>2, <3>1 DEF WellFormed
    <3> QED BY <3>2 DEF Kind
  <2> QED BY <2>2, <2>3, <2>4, <2>5
<1> QED BY <1>1, Invariance, PTL
=============================================================================
