---------------------------- MODULE GraphClient ----------------------------
(***************************************************************************)
(* Calls of the Microsoft Graph client and the two layers around it, which *)
(* record a call's outcome (the timer layer) and disconnect a user whose   *)
(* consent is gone (the disconnection layer, of the users' clients only).  *)
(*                                                                         *)
(* An operation is the sequence of the requests it makes. A request says   *)
(* what kind it is and what becomes of its error: it is returned           *)
(* "normalized" or "plain", normalized "twice", "replaced" by another, or  *)
(* only "logged". Requests that cannot be built count as failed. The       *)
(* streamed download, which returns no error, is in FileTransfer.          *)
(***************************************************************************)
EXTENDS Naturals, Sequences

CONSTANTS
    Calls,
    OpsOf,   \* the operations each call may be of
    Pages,   \* pages of every list
    None

ASSUME PagesAssumption == Pages \in Nat \ {0}

-----------------------------------------------------------------------------
(* Errors: whether it is a GraphAPIError, whether its text begins with     *)
(* "oauth2: " or has "itemNotFound" in it, and its StatusCode.             *)

Error == [graph : BOOLEAN, oauth : BOOLEAN, missing : BOOLEAN, status : {0, 401}]

Failed   == [graph |-> FALSE, oauth |-> FALSE, missing |-> FALSE, status |-> 0]
Refused  == [Failed EXCEPT !.oauth = TRUE]  \* no access token was given out
NotFound == [Failed EXCEPT !.missing = TRUE]

IsOAuthError(e) == e.oauth

(* Mutant: the status is lost.                                             *)
NormalizeWithoutStatus(e) == [e EXCEPT !.graph = TRUE, !.oauth = FALSE, !.status = 0]

(* The text becomes part of a longer one, and the status of an error that  *)
(* was normalized before is not kept.                                      *)
NormalizeGraphAPIError(e) ==
    [e EXCEPT !.graph = TRUE, !.oauth = FALSE, !.status = IF IsOAuthError(e) THEN 401 ELSE 0]

Passed(e, fails) ==
    CASE fails = "plain" -> e
      [] fails = "normalized" -> NormalizeGraphAPIError(e)
      [] fails = "twice" -> NormalizeGraphAPIError(NormalizeGraphAPIError(e))
      [] fails = "replaced" -> Failed

-----------------------------------------------------------------------------
(* Requests. "getId" and "writeId" take an answer without an id for an     *)
(* error.                                                                  *)

Req(kind) == [kind |-> kind, fails |-> "normalized"]

Get == Req("get")
GetId == Req("getId")
Write == Req("write")
WriteId == Req("writeId")
List == Req("page")

(* The operations. Lists of one request return its first page only.        *)
Connect == <<[kind |-> "local", fails |-> "plain"]>>
GetApp == <<[kind |-> "get", fails |-> "plain"]>>
RefreshToken == <<[kind |-> "get", fails |-> "plain"]>>
GetMyID == <<GetId>>
GetMe == <<GetId>>
GetUser == <<GetId>>
GetUserAvatar == <<Get>>
GetTeam == <<Get>>
GetTeams == <<Get>>
GetChannelInTeam == <<Get>>
GetChannelsInTeam == <<Get>>
GetChat == <<Get>>
GetMessage == <<Get>>
GetChatMessage == <<Get>>
GetReply == <<Get>>
GetHostedFileContent == <<Get>>
GetCodeSnippet == <<Get>>
GetFileContent == <<Get>>
GetPresencesForUsers == <<Get>>

(* The site is looked for under several paths; the reason why none was     *)
(* found is lost.                                                          *)
GetFileSizeAndDownloadURL == <<[kind |-> "get", fails |-> "replaced"], Req("drives"), GetId>>

ListSubscriptions == <<List>>
ListUsers == <<List>>
ListTeams == <<List>>
ListChannels == <<List>>
ListChannelMessages == <<List>>
ListChatMessages == <<List>>

Subscribe == <<WriteId>>
RefreshSubscription == <<Write>>
DeleteSubscription == <<Write>>
SendMessageWithAttachments == <<Write>>
SendMessage == SendMessageWithAttachments
SendChat == <<Write>>
DeleteMessage == <<Write>>
DeleteChatMessage == <<Write>>

(* Without the original message the attachments are left out of the change.*)
Original == [kind |-> "get", fails |-> "logged"]
UpdateMessage == <<Original, Req("batch")>>
UpdateChatMessage == <<Original, Req("batch")>>
SetReaction == <<Req("batch")>>
SetChatReaction == <<Req("batch")>>
UnsetReaction == <<Req("batch")>>
UnsetChatReaction == <<Req("batch")>>

Details == [kind |-> "get", fails |-> "twice"]
CreateChat == <<Req("create"), Details>>
CreateOrGetChatForUsers == <<Req("search"), Req("create"), Details>>

UploadSession == WriteId
UploadRequest == [kind |-> "put", fails |-> "plain"]
UploadedFile == [kind |-> "body", fails |-> "plain"]
UploadToChannel == <<Get, UploadSession, UploadRequest, UploadedFile>>
UploadToChat == <<Get, Get, Req("folder"), Req("mkdir"), UploadSession, UploadRequest,
                  Req("invite"), UploadedFile>>

Requests == [
    Connect |-> Connect, GetApp |-> GetApp, GetMyID |-> GetMyID, GetMe |-> GetMe,
    GetUser |-> GetUser, GetUserAvatar |-> GetUserAvatar, GetTeam |-> GetTeam,
    GetTeams |-> GetTeams, GetChannelInTeam |-> GetChannelInTeam,
    GetChannelsInTeam |-> GetChannelsInTeam, GetChat |-> GetChat, GetMessage |-> GetMessage,
    GetChatMessage |-> GetChatMessage, GetReply |-> GetReply,
    GetHostedFileContent |-> GetHostedFileContent, GetCodeSnippet |-> GetCodeSnippet,
    GetPresencesForUsers |-> GetPresencesForUsers, RefreshToken |-> RefreshToken,
    GetFileContent |-> GetFileContent, GetFileSizeAndDownloadURL |-> GetFileSizeAndDownloadURL,
    ListSubscriptions |-> ListSubscriptions, ListUsers |-> ListUsers, ListTeams |-> ListTeams,
    ListChannels |-> ListChannels, ListChannelMessages |-> ListChannelMessages,
    ListChatMessages |-> ListChatMessages,
    Subscribe |-> Subscribe, RefreshSubscription |-> RefreshSubscription,
    DeleteSubscription |-> DeleteSubscription,
    SendMessageWithAttachments |-> SendMessageWithAttachments,
    SendMessage |-> SendMessage, SendChat |-> SendChat,
    DeleteMessage |-> DeleteMessage, DeleteChatMessage |-> DeleteChatMessage,
    UpdateMessage |-> UpdateMessage, UpdateChatMessage |-> UpdateChatMessage,
    SetReaction |-> SetReaction, SetChatReaction |-> SetChatReaction,
    UnsetReaction |-> UnsetReaction, UnsetChatReaction |-> UnsetChatReaction,
    CreateChat |-> CreateChat, CreateOrGetChatForUsers |-> CreateOrGetChatForUsers,
    UploadToChannel |-> UploadToChannel, UploadToChat |-> UploadToChat]

Operations == DOMAIN Requests
ASSUME OpsOfAssumption == OpsOf \in [Calls -> SUBSET Operations]

MaxSteps == 8

VARIABLES
    grant,     \* the user's consent stands, so that tokens are given out
    connected, \* the user is connected to Teams in Mattermost
    folder,    \* the user's drive has the folder for the files of chats
    groups,    \* pages of the user's chats with a chat of the members asked for
    call       \* what each call does and has done

vars == <<grant, connected, folder, groups, call>>

Call == [op : Operations, client : {"user", "app"}, step : 1..MaxSteps + 1,
         pc : {"running", "timer", "layer", "ended", "panicked"},
         pages : 0..Pages,             \* read of a list
         err : Error \cup {None},      \* as the client, then the layers return it
         label : {"none", "2XX", "0", "401"}, \* of the metric
         told : BOOLEAN,               \* onDisconnect was called
         wrote : SUBSET (1..MaxSteps), \* history: requests carried out
         found : BOOLEAN,              \* history: a chat was found
         had : BOOLEAN,                \* history: there was one at the start
         refused : BOOLEAN]            \* history: it ended for the want of a token

ASSUME NoneAssumption == None \notin Error \cup Call

TypeOK ==
    /\ grant \in BOOLEAN /\ connected \in BOOLEAN /\ folder \in BOOLEAN
    /\ groups \subseteq 1..Pages
    /\ call \in [Calls -> Call \cup {None}]

Init ==
    /\ grant = TRUE /\ connected = TRUE
    /\ folder \in BOOLEAN /\ groups \in SUBSET (1..Pages)
    /\ call = [c \in Calls |-> None]

-----------------------------------------------------------------------------
Remote == <<grant, folder, groups>>
Request(c) == Requests[call[c].op][call[c].step]
At(c, kinds) == call[c] # None /\ call[c].pc = "running" /\ Request(c).kind \in kinds

(* The file has been received.                                             *)
Uploaded(c) == \E i \in call[c].wrote : Requests[call[c].op][i].kind = "put"

(* c returns to the timer layer.                                           *)
Finished(r, e) == [r EXCEPT !.pc = "timer", !.err = e]

Skipped(r, n) ==
    IF r.step + n > Len(Requests[r.op])
    THEN Finished([r EXCEPT !.step = @ + n], None) ELSE [r EXCEPT !.step = @ + n]

Wrote(r) == [r EXCEPT !.wrote = @ \cup {r.step}]

(* What c becomes when the request fails.                                  *)
Failing(c, r, e) ==
    IF Request(c).fails = "logged" THEN Skipped(r, 1)
    ELSE Finished([r EXCEPT !.refused = IsOAuthError(e)], Passed(e, Request(c).fails))

Set(c, r) == call' = [call EXCEPT ![c] = r]

(* The consent is withdrawn. Access tokens given out before still work.    *)
Revoke ==
    /\ grant /\ grant' = FALSE
    /\ UNCHANGED <<connected, folder, groups, call>>

(* The user's client is made of the token in the table (see Accounts).     *)
Begin(c) ==
    /\ call[c] = None
    /\ \E op \in OpsOf[c], client \in {"user", "app"} :
          /\ client = "user" => connected
          /\ Set(c, [op |-> op, client |-> client, step |-> 1, pc |-> "running", pages |-> 0,
                     err |-> None, label |-> "none", told |-> FALSE, wrote |-> {},
                     found |-> FALSE, had |-> groups # {}, refused |-> FALSE])
    /\ UNCHANGED <<connected, Remote>>

(* Nothing is done: no token, a refusal by Graph or no network. Only       *)
(* errors of the token endpoint have their own text: Graph's 401 has no    *)
(* status.                                                                 *)
RequestFails(c) ==
    /\ At(c, {"local", "get", "getId", "drives", "write", "writeId", "create", "page", "search", "batch",
              "folder", "mkdir", "put", "invite"})
    /\ \E e \in {Failed, Refused} :
          /\ e = Refused => ~grant /\ call[c].client = "user"
                            /\ Request(c).kind \notin {"local", "put"}
          /\ Set(c, Failing(c, call[c], e))
    /\ UNCHANGED <<connected, Remote>>

(* An answer, that may lack the id, or the drive the file is in.           *)
Answered(c) ==
    /\ At(c, {"local", "get", "getId", "drives"})
    /\ \/ Set(c, Skipped(call[c], 1))
       \/ Request(c).kind = "drives" /\ Set(c, Finished(call[c], None))
       \/ Request(c).kind = "getId" /\ Set(c, Finished(call[c], Failed))
    /\ UNCHANGED <<connected, Remote>>

(* A change is made; its answer may be lost, or lack the id.               *)
Written(c) ==
    /\ At(c, {"write", "writeId", "create", "invite"})
    /\ Request(c).kind = "invite" => Uploaded(c)
    /\ \/ Set(c, Skipped(Wrote(call[c]), 1))
       \/ Set(c, Failing(c, Wrote(call[c]), Failed))
       \/ Request(c).kind \in {"writeId", "create"} /\ Set(c, Finished(Wrote(call[c]), Failed))
    /\ \/ Request(c).kind # "create" /\ UNCHANGED groups
       \/ Request(c).kind = "create" /\ \E p \in 1..Pages : groups' = groups \cup {p}
    /\ UNCHANGED <<connected, grant, folder>>

(* Mutant: the message may be read although the change was refused.        *)
SendBatchIndependently(c) ==
    /\ At(c, {"batch"})
    /\ \/ Set(c, Skipped(Wrote(call[c]), 1))
       \/ Set(c, Skipped(call[c], 1))
       \/ Set(c, Failing(c, Wrote(call[c]), Failed))
    /\ UNCHANGED <<connected, Remote>>

(* The change and, if it was made, the message as it then is, with the     *)
(* time of the change; either may be missing from the answer.              *)
SendBatchRequestAndGetMessage(c) ==
    /\ At(c, {"batch"})
    /\ \/ Set(c, Skipped(Wrote(call[c]), 1))
       \/ Set(c, Failing(c, Wrote(call[c]), Failed))
    /\ UNCHANGED <<connected, Remote>>

(* Mutant: the iteration ends with the first page.                         *)
FirstPage(c) ==
    /\ At(c, {"page", "search"})
    /\ \/ /\ Request(c).kind = "search" /\ call[c].pages + 1 \in groups
          /\ Set(c, Finished([call[c] EXCEPT !.found = TRUE], None))
       \/ /\ Request(c).kind = "search" => call[c].pages + 1 \notin groups
          /\ Set(c, Skipped([call[c] EXCEPT !.pages = @ + 1], 1))
    /\ UNCHANGED <<connected, Remote>>

(* The next page of a list; checkGroupChat looks for the members' chat.    *)
NextPage(c) ==
    /\ At(c, {"page", "search"})
    /\ \/ /\ Request(c).kind = "search" /\ call[c].pages + 1 \in groups
          /\ Set(c, Finished([call[c] EXCEPT !.found = TRUE], None))
       \/ /\ Request(c).kind = "search" => call[c].pages + 1 \notin groups
          /\ LET r == [call[c] EXCEPT !.pages = @ + 1]
             IN  Set(c, IF r.pages = Pages THEN Skipped(r, 1) ELSE r)
    /\ UNCHANGED <<connected, Remote>>

(* UploadFile: the folder is created if the error says it is missing.      *)
FindFolder(c) ==
    /\ At(c, {"folder"})
    /\ \/ folder /\ Set(c, Skipped(call[c], 2))
       \/ /\ ~folder /\ NormalizeGraphAPIError(NotFound).missing
          /\ Set(c, Skipped(call[c], 1))
    /\ UNCHANGED <<connected, Remote>>

MakeFolder(c) ==
    /\ At(c, {"mkdir"}) /\ ~folder
    /\ folder' = TRUE
    /\ Set(c, Skipped(Wrote(call[c]), 1)) \/ Set(c, Failing(c, Wrote(call[c]), Failed))
    /\ UNCHANGED <<connected, grant, groups>>

(* The status of the answer is not looked at.                              *)
Put(c) ==
    /\ At(c, {"put"})
    /\ \/ Set(c, Skipped(Wrote(call[c]), 1))
       \/ Set(c, Skipped(call[c], 1))
       \/ Set(c, Failing(c, Wrote(call[c]), Failed))
    /\ UNCHANGED <<connected, Remote>>

(* The answer of the upload: an error has no eTag to cut the id from.      *)
ReadBody(c) ==
    /\ At(c, {"body"})
    /\ \/ Set(c, Failing(c, call[c], Failed))
       \/ Uploaded(c) /\ Set(c, Skipped(call[c], 1))
       \/ ~Uploaded(c) /\ Set(c, [call[c] EXCEPT !.pc = "panicked"])
    /\ UNCHANGED <<connected, Remote>>

-----------------------------------------------------------------------------
(* The layers.                                                             *)

ClientTimerLayer(c) ==
    /\ call[c] # None /\ call[c].pc = "timer"
    /\ LET e == call[c].err
           label == IF e = None THEN "2XX" ELSE IF e.graph /\ e.status = 401 THEN "401" ELSE "0"
       IN  Set(c, [call[c] EXCEPT !.label = label,
                                  !.pc = IF call[c].client = "user" THEN "layer" ELSE "ended"])
    /\ UNCHANGED <<connected, Remote>>

ClientDisconnectionLayer(c) ==
    /\ call[c] # None /\ call[c].pc = "layer"
    /\ LET e == call[c].err
           unauthorized == e # None /\ (IsOAuthError(e) \/ (e.graph /\ e.status = 401))
       IN  /\ connected' = (connected /\ ~unauthorized)
           /\ Set(c, [call[c] EXCEPT !.told = unauthorized, !.pc = "ended"])
    /\ UNCHANGED Remote

Next ==
    \/ Revoke
    \/ \E c \in Calls :
          \/ Begin(c) \/ RequestFails(c) \/ Answered(c) \/ Written(c)
          \/ SendBatchRequestAndGetMessage(c) \/ NextPage(c)
          \/ FindFolder(c) \/ MakeFolder(c) \/ Put(c) \/ ReadBody(c)
          \/ ClientTimerLayer(c) \/ ClientDisconnectionLayer(c)

Spec == Init /\ [][Next]_vars

-----------------------------------------------------------------------------
Ended(c) == call[c] # None /\ call[c].pc = "ended"
Kind(c, i) == Requests[call[c].op][i].kind

(* A call of a user's client that ended because no access token was given  *)
(* out any more disconnects the user, whichever request met it and however *)
(* its error was passed on, and no other call does; the clients made before*)
(* included. Two requests are left out: the details of a chat just created,*)
(* whose error is normalized twice and loses its status, and the search    *)
(* for a site, whose errors are replaced.                                  *)
RefusalNoticed ==
    \A c \in Calls : Ended(c) =>
        /\ call[c].told => ~grant /\ ~connected
        /\ call[c].client = "user" /\ call[c].refused =>
              call[c].told \/ Request(c).fails \in {"twice", "replaced"}
        /\ call[c].told => call[c].refused

(* What a call saw of a list that goes over several pages is the whole of  *)
(* it, or an error; so the chat of a group that exists is found, on        *)
(* whichever page, and no second one is created.                           *)
PagesAllRead ==
    \A c \in Calls : Ended(c) =>
        /\ call[c].err = None /\ ~call[c].found =>
              \A i \in DOMAIN Requests[call[c].op] :
                  Kind(c, i) \in {"page", "search"} => call[c].pages = Pages
        /\ call[c].had => ~\E i \in call[c].wrote :
                  Kind(c, i) = "create" /\ call[c].op = "CreateOrGetChatForUsers"

(* No error means that all the changes the operation is for were made: the *)
(* change in a batch whose answer is read from its other request, the file *)
(* in an upload whose status nobody looks at, the folder it goes to.       *)
OkMeansDone ==
    \A c \in Calls : Ended(c) /\ call[c].err = None /\ ~call[c].found =>
        \A i \in DOMAIN Requests[call[c].op] :
            /\ Kind(c, i) \in {"write", "writeId", "create", "batch", "put", "invite"} =>
                  i \in call[c].wrote
            /\ Kind(c, i) = "mkdir" => folder
=============================================================================
