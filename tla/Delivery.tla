------------------------------ MODULE Delivery ------------------------------
(***************************************************************************)
(* What a worker does with one activity of Microsoft Graph: it finds the   *)
(* chat, a connected member whose client reads the message, and who of the *)
(* members is absent from Teams, and for each member to be notified        *)
(* converts the message, with its attachments, and posts it.               *)
(*                                                                         *)
(* What a call finds in the tables and in Teams may change from one call   *)
(* to the next (rows and tokens are the subject of Accounts), so each      *)
(* answer is a choice. Streamed files are transferred as in FileTransfer.  *)
(***************************************************************************)
EXTENDS FileTransfer

CONSTANTS
    Users,    \* Teams users
    Chats,    \* chats: sequences of their members
    Messages, \* messages, see Message
    MaxFiles, \* maxFileAttachmentsSupported
    None

(* An attachment is of one of the content types the code knows, or a file, *)
(* to be had as hosted content or from a drive.                            *)
Files == {"hosted", "drive"}
Kinds == Files \cup {"snippet", "reference", "card", "unknown"}

(* text and subject: there is any. images: images in the text.             *)
Message == [author : Users, text : BOOLEAN, subject : BOOLEAN, images : Nat,
            attachments : Seq(Kinds)]

ASSUME NoneAssumption     == None \notin Message
ASSUME ChatsAssumption    ==
    \A s \in Chats : s \in Seq(Users) /\ \A n, m \in 1..Len(s) : s[n] = s[m] => n = m
ASSUME MessagesAssumption == Messages \subseteq Message
ASSUME MaxFilesAssumption == MaxFiles \in Nat \ {0}

VARIABLES
    pc,          \* the worker's next call
    chat,        \* members of the chat, as GetChat returns them
    msg,         \* the message, None before it is read
    attachments, \* msg.Attachments, which grows with each conversion
    known,       \* members known to be active in Teams
    i,           \* the member of the loop
    k,           \* the attachment of the loop
    text,        \* the converted message has text
    root,        \* ReplyToID names a post
    parent,      \* the last message reference names a post
    files,       \* positions of the attachments uploaded
    count,       \* countFileAttachments
    nonFile,     \* countNonFileAttachments
    skipped,     \* skippedFileAttachments
    found,       \* history: handleAttachments found a client
    posts,       \* history: what each member, by position, was sent
    outcome      \* history: what ObserveNotification was told of it

conversion == <<k, text, root, parent, files, count, nonFile, skipped, found>>
subject == <<chat, msg, known>>
history == <<posts, outcome>>
vars == <<pc, subject, attachments, i, conversion, history, transferVars>>

Outcomes == {"none", "internal", "disabled", "active", "empty", "delivered"}

TypeOK ==
    /\ TransferTypeOK
    /\ pc \in {"idle", "chat", "client", "message", "presences", "member", "preference",
               "direct", "convert", "client2", "attachment", "content", "upload", "session",
               "stream", "post", "received", "ended", "panicked"}
    /\ chat \in Seq(Users) /\ msg \in Messages \cup {None}
    /\ attachments \in Seq(Kinds)
    /\ known \subseteq Users
    /\ i \in Nat /\ k \in Nat
    /\ text \in BOOLEAN /\ root \in BOOLEAN /\ parent \in BOOLEAN /\ found \in BOOLEAN
    /\ files \subseteq Nat
    /\ count \in Nat /\ nonFile \in Nat /\ skipped \in Nat
    /\ posts \in Seq(Seq([text : BOOLEAN, files : SUBSET Nat, note : BOOLEAN, client : BOOLEAN]))
    /\ outcome \in Seq(Outcomes)
    /\ Len(posts) = Len(chat) /\ Len(outcome) = Len(chat)

Init ==
    /\ TransferInit
    /\ pc = "idle"
    /\ chat = <<>> /\ msg = None /\ attachments = <<>> /\ known = {}
    /\ i = 0 /\ k = 0
    /\ text = FALSE /\ root = FALSE /\ parent = FALSE /\ files = {} /\ found = FALSE
    /\ count = 0 /\ nonFile = 0 /\ skipped = 0
    /\ posts = <<>> /\ outcome = <<>>

-----------------------------------------------------------------------------
At(l) == pc = l
Goto(l) == pc' = l
End == Goto("ended") \* the reason observed is left out

(* handleActivity: only messages created, in chats.                        *)
HandleActivity ==
    /\ At("idle")
    /\ Goto("chat") \/ End
    /\ UNCHANGED <<subject, attachments, i, conversion, history, transferVars>>

(* client.GetChat: the only member of a chat is listed twice.              *)
GetChat ==
    /\ At("chat")
    /\ \/ End /\ UNCHANGED <<chat, history>>
       \/ /\ \E members \in Chats :
                chat' = IF Len(members) = 1 THEN members \o members ELSE members
          /\ posts' = [n \in 1..Len(chat') |-> <<>>]
          /\ outcome' = [n \in 1..Len(chat') |-> "none"]
          /\ Goto("client")
    /\ UNCHANGED <<msg, known, attachments, i, conversion, transferVars>>

(* The first member that GetClientForTeamsUser has a client for.           *)
FindClient ==
    /\ At("client")
    /\ End \/ (chat # <<>> /\ Goto("message"))
    /\ UNCHANGED <<subject, attachments, i, conversion, history, transferVars>>

(* A message without a user is not handled.                                *)
GetChatMessage ==
    /\ At("message")
    /\ \/ End /\ UNCHANGED <<msg, attachments>>
       \/ \E m \in Messages : msg' = m /\ attachments' = m.attachments /\ Goto("presences")
    /\ UNCHANGED <<chat, known, i, conversion, history, transferVars>>

(* What the answers say of the members asked for: those without one, or    *)
(* with an activity that means absence, are not active.                    *)
ActiveMembers == SUBSET ({chat[n] : n \in 1..Len(chat)} \ {msg.author})

(* If the request fails, all count as absent.                              *)
GetPresences ==
    /\ At("presences")
    /\ known' \in ActiveMembers
    /\ i' = 1 /\ Goto("member")
    /\ UNCHANGED <<chat, msg, attachments, conversion, history, transferVars>>

-----------------------------------------------------------------------------
(* The loop over the members.                                              *)

Continue == i' = i + 1 /\ Goto("member")
Observe(reason) == outcome' = [outcome EXCEPT ![i] = reason]

LastMember ==
    /\ At("member") /\ i > Len(chat)
    /\ End
    /\ UNCHANGED <<subject, attachments, i, conversion, history, transferVars>>

(* Mutant: authors are notified of their own messages.                     *)
MapAnyMember ==
    /\ At("member") /\ i <= Len(chat)
    /\ \/ Continue /\ UNCHANGED outcome
       \/ Continue /\ Observe("internal")
       \/ Goto("preference") /\ UNCHANGED <<i, outcome>>
    /\ UNCHANGED <<subject, attachments, conversion, posts, transferVars>>

(* Not the author, and a user of Mattermost.                               *)
MapMember ==
    /\ At("member") /\ i <= Len(chat)
    /\ \/ Continue /\ UNCHANGED outcome
       \/ chat[i] # msg.author /\ Continue /\ Observe("internal")
       \/ chat[i] # msg.author /\ Goto("preference") /\ UNCHANGED <<i, outcome>>
    /\ UNCHANGED <<subject, attachments, conversion, posts, transferVars>>

CheckMember ==
    /\ At("preference")
    /\ \/ Continue /\ Observe("disabled")
       \/ chat[i] \in known /\ Continue /\ Observe("active")
       \/ chat[i] \notin known /\ Goto("direct") /\ UNCHANGED <<i, outcome>>
    /\ UNCHANGED <<subject, attachments, conversion, posts, transferVars>>

GetDirect ==
    /\ At("direct")
    /\ \/ Continue /\ Observe("internal")
       \/ Goto("convert") /\ UNCHANGED <<i, outcome>>
    /\ UNCHANGED <<subject, attachments, conversion, posts, transferVars>>

-----------------------------------------------------------------------------
(* msgToPost.                                                              *)

(* handleImages. Attachments without a content type.                       *)
EmbeddedImages == [n \in 1..msg.images |-> "unknown"]

(* The images of the text are appended to the message's own attachments,   *)
(* each time it is converted. The message may reply to a post.             *)
Convert ==
    /\ At("convert")
    /\ attachments' = attachments \o EmbeddedImages
    /\ text' = msg.text
    /\ root' \in BOOLEAN
    /\ Goto("client2")
    /\ UNCHANGED <<subject, i, k, parent, files, count, nonFile, skipped, found, history,
                   transferVars>>

(* handleAttachments looks for a client anew and without one gives up the  *)
(* text as well.                                                           *)
FindClientAgain ==
    /\ At("client2")
    /\ parent' = FALSE /\ files' = {} /\ count' = 0 /\ nonFile' = 0 /\ skipped' = 0
    /\ \/ found' = TRUE /\ k' = 1 /\ Goto("attachment") /\ UNCHANGED text
       \/ found' = FALSE /\ k' = 0 /\ text' = FALSE /\ Goto("post")
    /\ UNCHANGED <<subject, attachments, i, root, history, transferVars>>

LastAttachment ==
    /\ At("attachment") /\ k > Len(attachments)
    /\ Goto("post")
    /\ UNCHANGED <<subject, attachments, i, conversion, history, transferVars>>

ThisOne(kinds) == At("attachment") /\ k <= Len(attachments) /\ attachments[k] \in kinds

NonFile ==
    /\ nonFile' = nonFile + 1
    /\ k' = k + 1
    /\ UNCHANGED <<pc, subject, attachments, i, root, files, count, skipped, found, history,
                   transferVars>>

(* The snippet's address may be one the code does not know, and the        *)
(* request for it may fail.                                                *)
CodeSnippet ==
    /\ ThisOne({"snippet"}) /\ NonFile
    /\ text' \in {text, TRUE}
    /\ UNCHANGED parent

(* The message referred to is a post here, or the parent is none again.    *)
MessageReference ==
    /\ ThisOne({"reference"}) /\ NonFile
    /\ parent' \in BOOLEAN
    /\ UNCHANGED text

Card ==
    /\ ThisOne({"card"}) /\ NonFile
    /\ text' \in {text, TRUE}
    /\ UNCHANGED parent

OtherType ==
    /\ ThisOne({"unknown"}) /\ NonFile
    /\ UNCHANGED <<text, parent>>

(* Mutant: an attachment is tried until it works.                          *)
RetrySkip == Goto("attachment") /\ UNCHANGED conversion

Skip ==
    /\ skipped' = skipped + 1
    /\ k' = k + 1
    /\ Goto("attachment")
    /\ UNCHANGED <<text, root, parent, files, count, nonFile, found>>

(* Mutant: what the limit discards is not counted as skipped.              *)
UploadedSilently ==
    /\ files' = files \cup {k}
    /\ count' = count + 1
    /\ k' = k + 1
    /\ Goto(IF count' = MaxFiles THEN "post" ELSE "attachment")
    /\ UNCHANGED <<text, root, parent, nonFile, found, skipped>>

(* The attachment has a file id. The last one that is allowed counts       *)
(* whatever is not a file or an uploaded one as skipped, those that were   *)
(* already counted included.                                               *)
Uploaded ==
    /\ files' = files \cup {k}
    /\ count' = count + 1
    /\ k' = k + 1
    /\ \/ /\ count' = MaxFiles
          /\ skipped' = skipped + (Len(attachments) - nonFile - count')
          /\ Goto("post")
       \/ count' # MaxFiles /\ Goto("attachment") /\ UNCHANGED skipped
    /\ UNCHANGED <<text, root, parent, nonFile, found>>

Fetching == UNCHANGED <<subject, attachments, i, history>>
Fetched(l) == Goto(l) /\ UNCHANGED conversion

GetHostedFileContent ==
    /\ ThisOne({"hosted"})
    /\ Skip \/ Fetched("upload")
    /\ Fetching /\ UNCHANGED transferVars

(* A file larger than Mattermost allows is not even tried, one above the   *)
(* configured size is streamed.                                            *)
BySize == Skip \/ Fetched("content") \/ Fetched("session")

(* The site, the drive and the item may not be found; without a drive the  *)
(* size is 0 and the address empty.                                        *)
GetFileSizeAndDownloadURL ==
    /\ ThisOne({"drive"})
    /\ Skip \/ BySize
    /\ Fetching /\ UNCHANGED transferVars

GetFileContent ==
    /\ At("content")
    /\ Skip \/ Fetched("upload")
    /\ Fetching /\ UNCHANGED transferVars

(* An image may be too large, the upload may fail.                         *)
ProcessAndUploadFileToMM ==
    /\ At("upload")
    /\ Skip \/ Uploaded
    /\ Fetching /\ UNCHANGED transferVars

GetFileFromTeamsAndUploadToMM ==
    /\ At("session")
    /\ \/ Skip /\ UNCHANGED transferVars
       \/ (\E s \in 1..MaxSize : TransferStart(s)) /\ Fetched("stream")
    /\ Fetching

Streaming ==
    /\ At("stream")
    /\ RangeRequest \/ RangeError \/ Copy \/ NextRange \/ UploadData \/ UploadError
    /\ UNCHANGED <<pc, subject, attachments, i, conversion, history>>

(* An incomplete upload has no file, whose id is read all the same.        *)
Streamed ==
    /\ At("stream") /\ upload # "reading"
    /\ TransferForget
    /\ \/ upload = "ok" /\ Uploaded
       \/ upload = "failed" /\ Skip
       \/ upload = "incomplete" /\ Goto("panicked") /\ UNCHANGED conversion
    /\ Fetching

-----------------------------------------------------------------------------
(* The subject becomes text, in a message that replies to none.            *)
HasText == text \/ (msg.subject /\ ~root /\ ~parent)

Post == [text |-> HasText, files |-> files, note |-> skipped > 0, client |-> found]

(* Mutant: skipped attachments alone make no notification.                 *)
NotifyChatFilesOnly ==
    /\ At("post")
    /\ \/ /\ ~HasText /\ count = 0
          /\ Continue /\ Observe("empty") /\ UNCHANGED posts
       \/ /\ HasText \/ count > 0
          /\ \/ Continue /\ Observe("internal") /\ UNCHANGED posts
             \/ /\ posts' = [posts EXCEPT ![i] = Append(@, Post)]
                /\ Observe("delivered") /\ Goto("received") /\ UNCHANGED i
    /\ UNCHANGED <<subject, attachments, conversion, transferVars>>

(* notifyChat, of everything but an empty message. A chat has two members  *)
(* at least (GetChat), so there always is a preamble.                      *)
NotifyChat ==
    /\ At("post")
    /\ \/ /\ ~HasText /\ count = 0 /\ skipped = 0
          /\ Continue /\ Observe("empty") /\ UNCHANGED posts
       \/ /\ HasText \/ count > 0 \/ skipped > 0
          /\ \/ Continue /\ Observe("internal") /\ UNCHANGED posts
             \/ /\ posts' = [posts EXCEPT ![i] = Append(@, Post)]
                /\ Observe("delivered") /\ Goto("received") /\ UNCHANGED i
    /\ UNCHANGED <<subject, attachments, conversion, transferVars>>

(* SetUserLastChatReceivedAt (see Accounts), or its failure.               *)
SetLastChatReceivedAt ==
    /\ At("received")
    /\ Continue
    /\ UNCHANGED <<subject, attachments, conversion, history, transferVars>>

Next ==
    \/ HandleActivity \/ GetChat \/ FindClient \/ GetChatMessage \/ GetPresences
    \/ LastMember \/ MapMember \/ CheckMember \/ GetDirect
    \/ Convert \/ FindClientAgain \/ LastAttachment
    \/ CodeSnippet \/ MessageReference \/ Card \/ OtherType
    \/ GetHostedFileContent \/ GetFileSizeAndDownloadURL \/ GetFileContent
    \/ ProcessAndUploadFileToMM \/ GetFileFromTeamsAndUploadToMM
    \/ Streaming \/ Streamed
    \/ NotifyChat \/ SetLastChatReceivedAt

Spec == Init /\ [][Next]_vars

(* The worker is scheduled, and so is the goroutine of a transfer; its     *)
(* calls return.                                                           *)
FairSpec == Spec /\ WF_vars(Next)

-----------------------------------------------------------------------------
FilesOf(m) == {n \in 1..Len(m.attachments) : m.attachments[n] \in Files}

(* Whoever gets a message without one of its files is told so: the count   *)
(* of skipped attachments may be too high, but is never zero then. If no   *)
(* member was connected any more at the conversion, nothing is counted and *)
(* a subject alone is posted as the message.                               *)
SkippedTold ==
    \A n \in 1..Len(posts) : \A j \in 1..Len(posts[n]) :
        LET post == posts[n][j]
        IN  post.client => post.note \/ FilesOf(msg) \subseteq post.files

(* Nobody is notified twice of one activity, and its author not at all, as *)
(* long as the author has not left the chat: the only member of a chat is  *)
(* listed twice (client.GetChat), for it must be the author.               *)
NotifiedOnce ==
    \A u \in Users :
        LET places == {n \in 1..Len(posts) : chat[n] = u /\ posts[n] # <<>>}
        IN  msg # None /\ (\E n \in 1..Len(chat) : chat[n] = msg.author) =>
              \A n, m \in places : n = m /\ Len(posts[n]) = 1 /\ u # msg.author

(* A notification is dropped as empty only if the message has nothing to   *)
(* show, or no member was connected any more when it was converted.        *)
EmptyMeansEmpty ==
    [][\A n \in 1..Len(outcome) :
        outcome'[n] = "empty" /\ outcome[n] # "empty" /\ found =>
            ~msg.text /\ FilesOf(msg) = {} /\ (msg.subject => root \/ parent)]_vars

(* The one way for a worker never to come back from an activity is a       *)
(* streamed download that breaks off.                                      *)
OnlyBrokenStreamsBlock ==
    pc = "chat" ~> (pc \in {"ended", "panicked"} \/ Stuck)
=============================================================================
