--------------------------- MODULE DeliveryProofs ---------------------------
(***************************************************************************)
(* Proofs about Delivery for any chats, messages, sizes and limits.        *)
(*                                                                         *)
(* The invariant IInv has three parts: what a transfer has read is the     *)
(* beginning of the file (TransferInv), every attachment behind k is       *)
(* counted as one thing or another (CountInv), and only members the loop   *)
(* is done with were sent anything (Posted). Nearer is the order in which  *)
(* a worker comes to the end of an activity.                               *)
(***************************************************************************)
EXTENDS Delivery, SequenceTheorems, TLAPS

-----------------------------------------------------------------------------
(* The transfer of a file.                                                 *)

(* The end of a range is at most that of the file.                         *)
Capped(n) == IF n < size THEN n ELSE size

(* As long as Teams answered with what it was asked for, what was read is  *)
(* the beginning of the file, and what is on its way follows it.           *)
Contiguous ==
    /\ Len(data) <= size
    /\ \A j \in 1..Len(data) : data[j] = j - 1
    /\ writer = "request" => Len(data) = Capped(start)
    /\ writer = "copy" /\ start >= size => Len(data) = size
    /\ writer = "copy" /\ start < size =>
          /\ \A j \in 1..Len(body) : body[j] = Len(data) + j - 1
          /\ Len(data) + Len(body) = IF whole THEN size ELSE Capped(start + Increment)

TransferInv ==
    /\ TransferTypeOK
    /\ ~mangled => Contiguous
    /\ upload = "ok" => Len(data) = size

(* The bytes of a file from f on, n of them or as many as there are.       *)
LEMMA SliceIs ==
  ASSUME TransferTypeOK, NEW f \in Nat, NEW n \in Nat, f <= size
  PROVE  /\ Slice(f, n) \in Seq(Bytes)
         /\ Len(Slice(f, n)) = IF f + n <= size THEN n ELSE size - f
         /\ \A j \in 1..Len(Slice(f, n)) : Slice(f, n)[j] = f + j - 1
<1> DEFINE l == IF f + n <= size THEN n ELSE size - f
<1>1. size \in Nat /\ size <= MaxSize /\ MaxSize \in Nat /\ l \in Nat /\ f + l <= size
  BY MaxSizeAssumption DEF TransferTypeOK
<1>2. Slice(f, n) = [j \in 1..l |-> f + j - 1]
  BY DEF Slice
<1> HIDE DEF l
<1>3. \A j \in 1..l : f + j - 1 \in Bytes
  BY <1>1 DEF Bytes
<1> QED BY <1>1, <1>2, <1>3 DEF l

(* Nothing is a sequence of bytes.                                         *)
LEMMA NoBytes == <<>> \in Seq(Bytes) /\ Len(<<>>) = 0
OBVIOUS

(* Without data and an answer everything is in place.                      *)
LEMMA TransferInitInv == TransferInit => TransferInv
<1> SUFFICES ASSUME TransferInit PROVE TransferInv
  OBVIOUS
<1>1. /\ size = 0 /\ start = 0 /\ whole = FALSE /\ short = FALSE /\ mangled = FALSE
      /\ body \in Seq(Bytes) /\ data \in Seq(Bytes) /\ Len(data) = 0
      /\ writer = "none" /\ upload = "none"
  BY NoBytes DEF TransferInit
<1>2. TransferTypeOK
  <2>1. 0 \in 0..MaxSize
    BY MaxSizeAssumption
  <2> QED BY <1>1, <2>1 DEF TransferTypeOK
<1>3. Contiguous
  BY <1>1 DEF Contiguous
<1> QED BY <1>1, <1>2, <1>3 DEF TransferInv

(* A transfer begins or is forgotten.                                      *)
LEMMA TransferBegins ==
  ASSUME \/ \E s \in 1..MaxSize : TransferStart(s)
         \/ TransferForget
  PROVE  TransferInv'
<1>1. /\ size' \in 0..MaxSize /\ start' = 0 /\ whole' = FALSE /\ short' = FALSE
      /\ mangled' = FALSE /\ body' = <<>> /\ data' = <<>>
      /\ \/ writer' = "none" /\ upload' = "none"
         \/ writer' = "request" /\ upload' = "reading"
  BY MaxSizeAssumption DEF TransferStart, TransferForget
<1>2. body' \in Seq(Bytes) /\ data' \in Seq(Bytes) /\ Len(data') = 0 /\ size' \in Nat
  BY <1>1, NoBytes, MaxSizeAssumption
<1>3. TransferTypeOK'
  BY <1>1, <1>2 DEF TransferTypeOK, Bytes
<1>4. Contiguous'
  BY <1>1, <1>2 DEF Contiguous, Capped
<1> QED BY <1>1, <1>3, <1>4 DEF TransferInv

(* An answer to a request for a range, as asked for or not.                *)
LEMMA RangeRequestInv == TransferInv /\ RangeRequest => TransferInv'
<1> SUFFICES ASSUME TransferInv, RangeRequest PROVE TransferInv'
  OBVIOUS
<1>1. /\ TransferTypeOK /\ writer = "request" /\ size \in Nat /\ Increment \in Nat /\ start \in Nat
      /\ data \in Seq(Bytes) /\ Len(data) \in Nat
  BY MaxSizeAssumption, IncrementAssumption DEF TransferInv, TransferTypeOK, RangeRequest
<1>2. CASE start < size /\ Answer(FALSE, Slice(start, Increment)) /\ UNCHANGED mangled
  <2> DEFINE q == Slice(start, Increment)
  <2> HIDE DEF q
  <2>1. /\ q \in Seq(Bytes)
        /\ Len(q) = IF start + Increment <= size THEN Increment ELSE size - start
        /\ \A j \in 1..Len(q) : q[j] = start + j - 1
    <3>1. start <= size
      BY <1>1, <1>2
    <3> QED BY <1>1, <3>1, SliceIs, Zenon DEF q
  <2>2. /\ whole' = FALSE /\ body' = q /\ short' \in BOOLEAN /\ writer' = "copy"
        /\ size' = size /\ start' = start /\ data' = data /\ upload' = upload
        /\ mangled' = mangled
    <3>1. (Len(q) < Increment) \in BOOLEAN
      OBVIOUS
    <3> QED BY <1>2, <3>1 DEF Answer, q
  <2> HIDE DEF q
  <2>3. TransferTypeOK'
    BY <2>1, <2>2 DEF TransferInv, TransferTypeOK, Bytes
  <2>4. ~mangled => Contiguous'
    <3> SUFFICES ASSUME ~mangled PROVE Contiguous'
      OBVIOUS
    <3>1. Len(data) = start /\ \A j \in 1..Len(data) : data[j] = j - 1
      BY <1>1, <1>2 DEF TransferInv, Contiguous, Capped
    <3>2. Len(data) + Len(q) = Capped(start + Increment)
      BY <1>1, <1>2, <2>1, <3>1 DEF Capped
    <3>3. \A j \in 1..Len(body') : body'[j] = Len(data') + j - 1
      BY <2>1, <2>2, <3>1
    <3>4. Len(data') + Len(body') = (IF whole' THEN size' ELSE Capped(start + Increment)')
      BY <2>2, <3>2 DEF Capped
    <3>5. start' \in Nat /\ size' \in Nat /\ Len(data') <= size' /\ start' < size' /\ writer' = "copy"
          /\ \A j \in 1..Len(data') : data'[j] = j - 1
      BY <1>1, <1>2, <2>2, <3>1
    <3> QED BY <3>3, <3>4, <3>5 DEF Contiguous
  <2> QED BY <2>2, <2>3, <2>4 DEF TransferInv
<1>3. CASE start = 0 /\ Answer(TRUE, Slice(0, size)) /\ UNCHANGED mangled
  <2> DEFINE q == Slice(0, size)
  <2>1. q \in Seq(Bytes) /\ Len(q) = size /\ \A j \in 1..Len(q) : q[j] = 0 + j - 1
    BY <1>1, SliceIs
  <2>2. /\ whole' = TRUE /\ body' = q /\ short' \in BOOLEAN /\ writer' = "copy"
        /\ size' = size /\ start' = 0 /\ start = 0 /\ data' = data /\ upload' = upload
        /\ mangled' = mangled
    <3>1. (Len(q) < Increment) \in BOOLEAN
      OBVIOUS
    <3> QED BY <1>3, <3>1 DEF Answer
  <2> HIDE DEF q
  <2>3. TransferTypeOK'
    BY <2>1, <2>2 DEF TransferInv, TransferTypeOK, Bytes
  <2>4. ~mangled => Contiguous'
    BY <1>1, <1>3, <2>1, <2>2 DEF TransferInv, Contiguous, Capped
  <2> QED BY <2>2, <2>3, <2>4 DEF TransferInv
<1>4. ASSUME NEW q \in {<<>>, <<Junk>>}, Answer(TRUE, q), mangled' = (mangled \/ start < size)
      PROVE  TransferInv'
  <2>1. q \in Seq(Bytes)
    <3>1. Junk \in Bytes
      BY DEF Bytes
    <3>2. <<>> \in Seq(Bytes) /\ <<Junk>> \in Seq(Bytes)
      BY <3>1
    <3> QED BY <3>2
  <2>2. /\ whole' = TRUE /\ body' = q /\ short' \in BOOLEAN /\ writer' = "copy"
        /\ size' = size /\ start' = start /\ data' = data /\ upload' = upload
    <3>1. (Len(q) < Increment) \in BOOLEAN
      OBVIOUS
    <3> QED BY <1>4, <3>1 DEF Answer
  <2>3. TransferTypeOK'
    BY <1>4, <2>1, <2>2 DEF TransferInv, TransferTypeOK, Bytes
  <2>4. ~mangled' => Contiguous'
    BY <1>1, <1>4, <2>2 DEF TransferInv, Contiguous, Capped
  <2> QED BY <2>2, <2>3, <2>4 DEF TransferInv
<1> QED BY <1>2, <1>3, <1>4 DEF RangeRequest

(* A byte of the answer goes to the reader.                                *)
LEMMA CopyInv == TransferInv /\ Copy => TransferInv'
<1> SUFFICES ASSUME TransferInv, Copy PROVE TransferInv'
  OBVIOUS
<1> DEFINE h == Head(body)
<1>1. /\ body \in Seq(Bytes) /\ body # <<>> /\ data \in Seq(Bytes) /\ size \in Nat
      /\ start \in Nat /\ Increment \in Nat /\ Len(data) < size
      /\ size' = size /\ start' = start /\ whole' = whole /\ short' = short
      /\ mangled' = mangled /\ writer' = "copy" /\ writer = "copy" /\ upload' = "reading"
      /\ upload = "reading"
  BY MaxSizeAssumption, IncrementAssumption DEF TransferInv, TransferTypeOK, Copy
<1>2. /\ h \in Bytes /\ h = body[1] /\ Tail(body) \in Seq(Bytes)
      /\ Len(Tail(body)) = Len(body) - 1
      /\ \A j \in 1..Len(body) - 1 : Tail(body)[j] = body[j + 1]
  BY <1>1
<1>3. /\ data' \in Seq(Bytes) /\ Len(data') = Len(data) + 1
      /\ \A j \in 1..Len(data) : data'[j] = data[j]
      /\ data'[Len(data) + 1] = h
      /\ body' = Tail(body)
  BY <1>1, <1>2 DEF Copy
<1>4. TransferTypeOK'
  BY <1>1, <1>2, <1>3 DEF TransferInv, TransferTypeOK, Bytes
<1>5. ~mangled => Contiguous'
  <2> SUFFICES ASSUME ~mangled PROVE Contiguous'
    OBVIOUS
  <2>1. /\ start < size
        /\ \A j \in 1..Len(data) : data[j] = j - 1
        /\ \A j \in 1..Len(body) : body[j] = Len(data) + j - 1
        /\ Len(data) + Len(body) = IF whole THEN size ELSE Capped(start + Increment)
    BY <1>1 DEF TransferInv, Contiguous
  <2>2. Len(data) \in Nat /\ Len(body) \in Nat /\ Len(body) >= 1
    BY <1>1
  <2>3. \A j \in 1..Len(data') : data'[j] = j - 1
    BY <1>2, <1>3, <2>1, <2>2
  <2>4. \A j \in 1..Len(body') : body'[j] = Len(data') + j - 1
    BY <1>2, <1>3, <2>1, <2>2
  <2>5. Len(data') + Len(body') = IF whole THEN size ELSE Capped(start + Increment)
    BY <1>2, <1>3, <2>1, <2>2
  <2> QED BY <1>1, <1>3, <2>1, <2>2, <2>3, <2>4, <2>5 DEF Contiguous, Capped
<1> QED BY <1>1, <1>4, <1>5 DEF TransferInv

(* The next range begins where the answer was supposed to end.             *)
LEMMA NextRangeInv == TransferInv /\ NextRange => TransferInv'
<1> SUFFICES ASSUME TransferInv, NextRange PROVE TransferInv'
  OBVIOUS
<1>1. /\ size \in Nat /\ start \in Nat /\ Increment \in Nat /\ body = <<>> /\ writer = "copy"
      /\ Len(body) = 0 /\ Len(data) \in Nat
      /\ size' = size /\ whole' = whole /\ short' = short /\ body' = body /\ data' = data
      /\ mangled' = mangled /\ upload' = upload
  BY MaxSizeAssumption, IncrementAssumption
     DEF TransferInv, TransferTypeOK, NextRange, answer
<1>2. \/ writer' = "closed" /\ start' = start
      \/ writer' = "request" /\ start' = start + Increment /\ ~whole
  BY DEF NextRange, IsLast
<1>3. TransferTypeOK'
  BY <1>1, <1>2 DEF TransferInv, TransferTypeOK, Bytes
<1>4. ~mangled => Contiguous'
  BY <1>1, <1>2 DEF TransferInv, Contiguous, Capped
<1> QED BY <1>1, <1>3, <1>4 DEF TransferInv

(* The upload ends, or the writer does.                                    *)
LEMMA UploadInv ==
  TransferInv /\ (RangeError \/ UploadData \/ UploadError) => TransferInv'
<1> SUFFICES ASSUME TransferInv, RangeError \/ UploadData \/ UploadError PROVE TransferInv'
  OBVIOUS
<1>1. /\ size' = size /\ start' = start /\ whole' = whole /\ short' = short /\ body' = body
      /\ data' = data /\ mangled' = mangled /\ writer' \in {writer, "gone"}
      /\ upload' \in {upload, "failed", "incomplete", "ok"}
      /\ upload' = "ok" => upload = "ok" \/ Len(data) = size
  BY DEF RangeError, UploadData, UploadError, answer
<1>2. TransferTypeOK'
  BY <1>1 DEF TransferInv, TransferTypeOK, Bytes
<1>3. ~mangled => Contiguous'
  BY <1>1 DEF TransferInv, Contiguous, Capped
<1> QED BY <1>1, <1>2, <1>3 DEF TransferInv

(* Steps outside the transfer leave it as it is.                           *)
LEMMA TransferUnchanged == TransferInv /\ UNCHANGED transferVars => TransferInv'
BY DEF TransferInv, TransferTypeOK, Bytes, Contiguous, Capped, transferVars, answer

(* Contiguous from 0 to the size is the file.                              *)
LEMMA IntactFollows == TransferInv => Intact
<1> SUFFICES ASSUME TransferInv, upload = "ok", ~mangled PROVE data = [j \in 1..size |-> j - 1]
  BY DEF Intact
<1>1. data \in Seq(Bytes) /\ Len(data) = size /\ \A j \in 1..Len(data) : data[j] = j - 1
  BY DEF TransferInv, TransferTypeOK, Contiguous
<1> QED BY <1>1

(* Every step of a worker keeps or moves the transfer as above.            *)
LEMMA TransferStep == TransferInv /\ Next => TransferInv'
<1> SUFFICES ASSUME TransferInv, Next PROVE TransferInv'
  OBVIOUS
<1>1. CASE UNCHANGED transferVars
  BY <1>1, TransferUnchanged
<1>2. CASE GetFileFromTeamsAndUploadToMM
  BY <1>1, <1>2, TransferBegins DEF GetFileFromTeamsAndUploadToMM
<1>3. CASE Streaming
  BY <1>3, RangeRequestInv, CopyInv, NextRangeInv, UploadInv DEF Streaming
<1>4. CASE Streamed
  BY <1>4, TransferBegins DEF Streamed
<1> QED
  BY <1>1, <1>2, <1>3, <1>4
     DEF Next, HandleActivity, GetChat, FindClient, GetChatMessage, GetPresences, LastMember,
         MapMember, CheckMember, GetDirect, Convert, FindClientAgain, LastAttachment, NonFile,
         CodeSnippet, MessageReference, Card, OtherType, GetHostedFileContent,
         GetFileSizeAndDownloadURL, GetFileContent, ProcessAndUploadFileToMM, NotifyChat,
         SetLastChatReceivedAt

-----------------------------------------------------------------------------
(* Types.                                                                  *)

PostType == [text : BOOLEAN, files : SUBSET Nat, note : BOOLEAN, client : BOOLEAN]

(* Types that hold of the worker's own variables.                          *)
OwnTypes ==
    /\ pc \in {"idle", "chat", "client", "message", "presences", "member", "preference",
               "direct", "convert", "client2", "attachment", "content", "upload", "session",
               "stream", "post", "received", "ended", "panicked"}
    /\ chat \in Seq(Users) /\ msg \in Messages \cup {None}
    /\ attachments \in Seq(Kinds)
    /\ known \subseteq Users
    /\ i \in Nat /\ k \in Nat
    /\ text \in BOOLEAN /\ root \in BOOLEAN /\ parent \in BOOLEAN /\ found \in BOOLEAN
    /\ files \subseteq Nat
    /\ count \in Nat /\ nonFile \in Nat /\ skipped \in Nat
    /\ posts \in Seq(Seq(PostType))
    /\ outcome \in Seq(Outcomes)
    /\ Len(posts) = Len(chat) /\ Len(outcome) = Len(chat)

(* TypeOK is the types of the transfer and the worker's own.               *)
LEMMA Types == TypeOK <=> TransferTypeOK /\ OwnTypes
BY DEF TypeOK, OwnTypes, PostType

(* Between the message and the end of the loop there is a message.         *)
Handled == {"presences", "member", "preference", "direct", "convert", "client2", "attachment",
            "content", "upload", "session", "stream", "post", "received"}
OneMember == {"preference", "direct", "convert", "client2", "attachment", "content", "upload",
              "session", "stream", "post", "received"}
Converting == {"attachment", "content", "upload", "session", "stream"}
Fetch == {"content", "upload", "session", "stream"}

(* msg is the message when there is one; the attachments begin with those  *)
(* of the message.                                                         *)
Grown ==
    /\ pc \in Handled => msg # None
    /\ msg # None => /\ Len(msg.attachments) <= Len(attachments)
                     /\ \A n \in 1..Len(msg.attachments) : attachments[n] = msg.attachments[n]

(* Every attachment behind k is counted as one thing or another, and if no *)
(* file was skipped they all are among the files.                          *)
TakenBefore ==
    \A n \in 1..Len(attachments) : n < k /\ attachments[n] \in Files => n \in files
AllTaken == \A n \in 1..Len(attachments) : attachments[n] \in Files => n \in files

Counted ==
    /\ pc \in Converting =>
          /\ found /\ k \in 1..Len(attachments) + 1
          /\ nonFile + count + skipped + 1 = k
          /\ skipped = 0 => TakenBefore
    /\ pc \in Fetch => k <= Len(attachments) /\ attachments[k] \in Files
    /\ pc = "post" /\ found => skipped > 0 \/ AllTaken
    /\ pc \in Converting \cup {"post"} => (count = 0 => files = {})
    /\ pc \in {"client2", "post"} \cup Converting =>
          (msg.text /\ (pc = "post" => found) => text)

CountInv == OwnTypes /\ Grown /\ Counted

(* The fields of a message, which is not None.                             *)
LEMMA MessageFacts ==
  ASSUME NEW m \in Messages
  PROVE  /\ m \in Message /\ m # None /\ m.text \in BOOLEAN /\ m.images \in Nat
         /\ m.attachments \in Seq(Kinds) /\ m.author \in Users
BY MessagesAssumption, NoneAssumption DEF Message

(* Initially nothing is counted.                                           *)
LEMMA CountInit == Init => CountInv
<1> SUFFICES ASSUME Init PROVE CountInv
  OBVIOUS
<1>1. /\ <<>> \in Seq(Users) /\ <<>> \in Seq(Kinds) /\ <<>> \in Seq(Seq(PostType))
      /\ <<>> \in Seq(Outcomes) /\ Len(<<>>) = 0
  OBVIOUS
<1>2. OwnTypes
  BY <1>1 DEF Init, OwnTypes
<1>3. Grown /\ Counted
  BY DEF Init, Grown, Counted, Handled, Converting, Fetch
<1> QED BY <1>2, <1>3 DEF CountInv

(* The steps before the loop over the members.                             *)
LEMMA CountBefore ==
  ASSUME CountInv, HandleActivity \/ GetChat \/ FindClient \/ GetChatMessage \/ GetPresences
  PROVE  CountInv'
<1> USE DEF CountInv, At, Goto, End, subject, history, conversion
<1>1. CASE HandleActivity \/ FindClient
  <2>1. OwnTypes'
    BY <1>1 DEF HandleActivity, FindClient, OwnTypes, PostType
  <2>2. Grown'
    BY <1>1 DEF HandleActivity, FindClient, Grown, Handled
  <2>3. Counted'
    BY <1>1 DEF HandleActivity, FindClient, Counted, Converting, Fetch
  <2> QED BY <2>1, <2>2, <2>3
<1>2. CASE GetChat
  <2>1. /\ chat' \in Seq(Users) /\ posts' \in Seq(Seq(PostType)) /\ outcome' \in Seq(Outcomes)
        /\ Len(posts') = Len(chat') /\ Len(outcome') = Len(chat')
    <3>1. CASE UNCHANGED <<chat, history>>
      BY <3>1 DEF OwnTypes
    <3>2. CASE chat' \in Seq(Users) /\ posts' = [n \in 1..Len(chat') |-> <<>>]
               /\ outcome' = [n \in 1..Len(chat') |-> "none"]
      <4>1. \A n \in 1..Len(chat') : <<>> \in Seq(PostType) /\ "none" \in Outcomes
        BY DEF Outcomes
      <4> QED BY <3>2, <4>1
    <3>3. ASSUME NEW c \in Chats
          PROVE  (IF Len(c) = 1 THEN c \o c ELSE c) \in Seq(Users)
      BY ChatsAssumption
    <3> QED BY <1>2, <3>1, <3>2, <3>3 DEF GetChat
  <2>2. OwnTypes'
    BY <1>2, <2>1 DEF GetChat, OwnTypes
  <2>3. Grown'
    BY <1>2 DEF GetChat, Grown, Handled
  <2>4. Counted'
    BY <1>2 DEF GetChat, Counted, Converting, Fetch
  <2> QED BY <2>2, <2>3, <2>4
<1>3. CASE GetChatMessage
  <2>1. CASE \E m \in Messages : msg' = m /\ attachments' = m.attachments /\ Goto("presences")
    <3>1. PICK m \in Messages : msg' = m /\ attachments' = m.attachments /\ pc' = "presences"
      BY <2>1
    <3>2. OwnTypes'
      BY <1>3, <3>1, MessageFacts DEF GetChatMessage, OwnTypes, PostType
    <3>3. Grown'
      BY <3>1, MessageFacts DEF Grown
    <3>4. Counted'
      BY <3>1 DEF Counted, Converting, Fetch
    <3> QED BY <3>2, <3>3, <3>4
  <2>2. CASE End /\ UNCHANGED <<msg, attachments>>
    <3>1. OwnTypes'
      BY <1>3, <2>2 DEF GetChatMessage, OwnTypes, PostType
    <3>2. Grown' /\ Counted'
      BY <1>3, <2>2 DEF GetChatMessage, Grown, Counted, Handled, Converting, Fetch
    <3> QED BY <3>1, <3>2
  <2> QED BY <1>3, <2>1, <2>2 DEF GetChatMessage
<1>4. CASE GetPresences
  <2>1. known' \subseteq Users
    BY <1>4 DEF GetPresences, ActiveMembers, OwnTypes
  <2>2. OwnTypes'
    BY <1>4, <2>1 DEF GetPresences, OwnTypes, PostType
  <2>3. Grown' /\ Counted'
    BY <1>4 DEF GetPresences, Grown, Counted, Handled, Converting, Fetch
  <2> QED BY <2>2, <2>3
<1> QED BY <1>1, <1>2, <1>3, <1>4

(* What is observed of one member leaves the others alone.                 *)
LEMMA Outcome ==
  ASSUME OwnTypes,
         \/ outcome' = outcome
         \/ \E reason \in Outcomes : outcome' = [outcome EXCEPT ![i] = reason]
  PROVE  outcome' \in Seq(Outcomes) /\ Len(outcome') = Len(outcome)
<1>1. outcome \in [1..Len(outcome) -> Outcomes] /\ Len(outcome) \in Nat
  BY DEF OwnTypes
<1>2. outcome' \in [1..Len(outcome) -> Outcomes]
  BY <1>1
<1> QED BY <1>1, <1>2

(* The loop over the members, as long as nothing is converted.             *)
LEMMA CountMembers ==
  ASSUME CountInv, LastMember \/ MapMember \/ CheckMember \/ GetDirect \/ SetLastChatReceivedAt
  PROVE  CountInv'
<1> USE DEF CountInv, At, Goto, End, subject, history, conversion, Continue, Observe
<1>1. /\ UNCHANGED <<subject, attachments, conversion, posts>>
      /\ pc \in {"member", "preference", "direct", "received"} /\ pc' \in {"ended", "member", "preference", "direct", "convert"}
      /\ i' \in {i, i + 1}
      /\ \/ outcome' = outcome
         \/ \E reason \in Outcomes : outcome' = [outcome EXCEPT ![i] = reason]
  BY DEF LastMember, MapMember, CheckMember, GetDirect, SetLastChatReceivedAt, Outcomes
<1>2. outcome' \in Seq(Outcomes) /\ Len(outcome') = Len(outcome)
  BY <1>1, Outcome
<1>3. OwnTypes'
  BY <1>1, <1>2 DEF OwnTypes
<1>4. Grown' /\ Counted'
  BY <1>1 DEF Grown, Counted, Handled, Converting, Fetch
<1> QED BY <1>3, <1>4

(* The conversion begins.                                                  *)
LEMMA CountConvert == ASSUME CountInv, Convert PROVE CountInv'
<1> USE DEF CountInv, At, Goto, End, subject, history, conversion
<1>1. msg \in Messages /\ msg.images \in Nat /\ msg.text \in BOOLEAN
  BY MessageFacts DEF Convert, Grown, Handled, OwnTypes
<1>2. /\ EmbeddedImages \in Seq(Kinds) /\ attachments \in Seq(Kinds)
      /\ msg.attachments \in Seq(Kinds)
  BY <1>1, MessageFacts DEF EmbeddedImages, Kinds, OwnTypes
<1>3. /\ attachments' \in Seq(Kinds) /\ Len(attachments') = Len(attachments) + Len(EmbeddedImages)
      /\ \A n \in 1..Len(attachments) : attachments'[n] = attachments[n]
  BY <1>2 DEF Convert
<1>4. OwnTypes'
  BY <1>1, <1>3 DEF Convert, OwnTypes
<1>5. Grown'
  BY <1>2, <1>3 DEF Convert, Grown, Handled
<1>6. Counted'
  BY DEF Convert, Counted, Converting, Fetch
<1> QED BY <1>4, <1>5, <1>6

(* The second search for a client.                                         *)
LEMMA CountClient == ASSUME CountInv, FindClientAgain PROVE CountInv'
<1> USE DEF CountInv, At, Goto, End, subject, history, conversion
<1>1. OwnTypes'
  <2>1. (text' = text \/ text' = FALSE) /\ found' \in BOOLEAN
    BY DEF FindClientAgain
  <2>2. text \in BOOLEAN
    BY DEF OwnTypes
  <2>3. text' \in BOOLEAN
    BY <2>1, <2>2, Zenon
  <2>4. /\ parent' = FALSE /\ files' = {} /\ count' = 0 /\ nonFile' = 0 /\ skipped' = 0
        /\ k' \in {0, 1} /\ pc' \in {"attachment", "post"}
        /\ UNCHANGED <<chat, msg, known, attachments, i, root, posts, outcome>>
    BY DEF FindClientAgain
  <2>5. /\ files' \subseteq Nat /\ k' \in Nat
        /\ count' \in Nat /\ nonFile' \in Nat /\ skipped' \in Nat
    BY <2>4
  <2>7. root \in BOOLEAN /\ root' = root /\ parent' = FALSE
    BY <2>4 DEF OwnTypes
  <2>8. root' \in BOOLEAN /\ parent' \in BOOLEAN
    BY <2>7, Zenon
  <2>6. /\ pc' \in {"attachment", "post"} /\ i' \in Nat /\ known' \subseteq Users
        /\ chat' \in Seq(Users) /\ msg' \in Messages \cup {None}
        /\ attachments' \in Seq(Kinds)
        /\ posts' \in Seq(Seq(PostType))
        /\ outcome' \in Seq(Outcomes)
        /\ Len(posts') = Len(chat') /\ Len(outcome') = Len(chat')
    BY <2>4 DEF OwnTypes
  <2> QED BY <2>1, <2>3, <2>5, <2>6, <2>8 DEF OwnTypes
<1>2. Grown'
  BY DEF FindClientAgain, Grown, Handled
<1>3. Counted'
  BY DEF FindClientAgain, Counted, Converting, Fetch, AllTaken, TakenBefore, OwnTypes
<1> QED BY <1>1, <1>2, <1>3

(* Attachments that are no files.                                          *)
LEMMA CountNonFile ==
  ASSUME CountInv, CodeSnippet \/ MessageReference \/ Card \/ OtherType PROVE CountInv'
<1> USE DEF CountInv, At, Goto, End, subject, history, conversion
<1>1. /\ pc = "attachment" /\ pc' = pc /\ k <= Len(attachments) /\ attachments[k] \notin Files
      /\ nonFile' = nonFile + 1 /\ k' = k + 1 /\ (text' = text \/ text' = TRUE)
      /\ (parent' = parent \/ parent' \in BOOLEAN)
      /\ UNCHANGED <<subject, attachments, i, root, files, count, skipped, found, history>>
  BY DEF CodeSnippet, MessageReference, Card, OtherType, NonFile, ThisOne, Files, OwnTypes
<1>2. OwnTypes'
  <2>3. text \in BOOLEAN /\ parent \in BOOLEAN /\ nonFile \in Nat /\ k \in Nat
    BY DEF OwnTypes
  <2>2. text' \in BOOLEAN /\ parent' \in BOOLEAN
    BY <1>1, <2>3, Zenon
  <2>1. text' \in BOOLEAN /\ parent' \in BOOLEAN /\ nonFile' \in Nat /\ k' \in Nat
    BY <1>1, <2>2, <2>3
  <2> QED BY <1>1, <2>1 DEF OwnTypes
<1>3. Grown'
  BY <1>1 DEF Grown, Handled
<1>4. Counted'
  <2>1. /\ k \in Nat /\ Len(attachments) \in Nat /\ nonFile \in Nat /\ count \in Nat
        /\ skipped \in Nat
    BY DEF OwnTypes
  <2>2. /\ found /\ k \in 1..Len(attachments) + 1 /\ nonFile + count + skipped + 1 = k
        /\ (skipped = 0 => TakenBefore) /\ (count = 0 => files = {})
        /\ (msg.text => text)
    BY <1>1 DEF Counted, Converting
  <2>3. skipped' = 0 => TakenBefore'
    <3>1. \A n \in 1..Len(attachments) : n < k' => n < k \/ n = k
      BY <1>1, <2>1
    <3> QED BY <1>1, <2>2, <3>1 DEF TakenBefore
  <2>4. nonFile' + count' + skipped' + 1 = k' /\ k' \in 1..Len(attachments) + 1
    BY <1>1, <2>1, <2>2
  <2> QED BY <1>1, <2>2, <2>3, <2>4 DEF Counted, Converting, Fetch
<1> QED BY <1>2, <1>3, <1>4

(* An attachment is skipped.                                               *)
LEMMA CountSkip ==
  ASSUME CountInv, Skip, UNCHANGED <<subject, attachments, i, history>>,
         \/ ThisOne(Files)
         \/ pc \in Fetch
  PROVE  CountInv'
<1> USE DEF CountInv, At, Goto, End, subject, history, conversion
<1>1. k \in 1..Len(attachments) /\ pc \in Converting /\ pc' = "attachment"
  BY DEF ThisOne, Skip, Counted, Converting, Fetch, OwnTypes
<1>2. OwnTypes'
  BY <1>1 DEF Skip, OwnTypes
<1>3. Grown'
  BY <1>1 DEF Grown, Handled, Converting
<1>4. Counted'
  BY <1>1 DEF Skip, Counted, Converting, Fetch, OwnTypes
<1> QED BY <1>2, <1>3, <1>4

(* An attachment is uploaded, the last one that is allowed included.       *)
LEMMA CountUploaded ==
  ASSUME CountInv, Uploaded, UNCHANGED <<subject, attachments, i, history>>, pc \in Fetch
  PROVE  CountInv'
<1> USE DEF CountInv, At, Goto, End, subject, history, conversion
<1>1. /\ k \in 1..Len(attachments) /\ Len(attachments) \in Nat /\ k \in Nat
      /\ pc \in Converting /\ attachments[k] \in Files
      /\ nonFile \in Nat /\ count \in Nat /\ skipped \in Nat /\ nonFile + count + skipped + 1 = k
      /\ found /\ files \subseteq Nat
  BY DEF Counted, Converting, Fetch, OwnTypes
<1>2. /\ files' = files \cup {k} /\ count' = count + 1 /\ k' = k + 1
      /\ UNCHANGED <<text, root, parent, nonFile, found, chat, msg, known, attachments, i,
                     posts, outcome>>
      /\ \/ /\ skipped' = skipped + (Len(attachments) - nonFile - count')
            /\ pc' = "post"
         \/ pc' = "attachment" /\ skipped' = skipped
  BY DEF Uploaded
<1>3. skipped' \in Nat
  BY <1>1, <1>2
<1>4. OwnTypes'
  BY <1>1, <1>2, <1>3 DEF OwnTypes
<1>5. Grown'
  BY <1>1, <1>2 DEF Grown, Handled, Converting
<1>6. skipped = 0 => TakenBefore'
  <2>1. skipped = 0 => TakenBefore
    BY <1>1 DEF Counted
  <2>2. \A n \in 1..Len(attachments) : n < k' => n < k \/ n = k
    BY <1>1, <1>2
  <2> QED BY <1>1, <1>2, <2>1, <2>2 DEF TakenBefore
<1>7. Counted'
  <2>1. CASE pc' = "post"
    <3>1. skipped' = 0 => skipped = 0 /\ k = Len(attachments)
      BY <1>1, <1>2, <2>1
    <3>2. skipped' > 0 \/ AllTaken'
      <4>1. \A n \in 1..Len(attachments) : k = Len(attachments) => n < k'
        BY <1>1, <1>2
      <4> QED BY <1>2, <1>3, <1>6, <3>1, <4>1 DEF AllTaken, TakenBefore
    <3>3. text' = text /\ msg' = msg /\ found' = found /\ count' > 0
      BY <1>1, <1>2
    <3>4. pc' \notin Converting /\ pc' \notin Fetch
      BY <2>1 DEF Converting, Fetch
    <3> QED BY <1>1, <2>1, <3>2, <3>3, <3>4 DEF Counted
  <2>2. CASE pc' = "attachment"
    <3>1. nonFile' + count' + skipped' + 1 = k' /\ k' \in 1..Len(attachments) + 1
      BY <1>1, <1>2, <2>2
    <3>2. skipped' = 0 => TakenBefore'
      BY <1>2, <1>6, <2>2
    <3>3. /\ text' = text /\ msg' = msg /\ found' = found /\ count' > 0
          /\ attachments' = attachments
      BY <1>1, <1>2
    <3> QED BY <1>1, <2>2, <3>1, <3>2, <3>3 DEF Counted, Converting, Fetch
  <2> QED BY <1>2, <2>1, <2>2
<1> QED BY <1>4, <1>5, <1>7

(* A file is on its way, or a panic has ended the conversion.              *)
LEMMA CountFetched ==
  ASSUME CountInv, UNCHANGED <<conversion, subject, attachments, i, history>>,
         ThisOne(Files) \/ pc \in Fetch,
         pc' \in Fetch \cup {"panicked"}
  PROVE  CountInv'
<1> USE DEF CountInv, At, subject, history, conversion
<1>1. OwnTypes'
  BY DEF OwnTypes, Fetch
<1>2. Grown'
  BY DEF Grown, Handled, Fetch, ThisOne
<1>3. k <= Len(attachments) /\ attachments[k] \in Files /\ pc \in Converting
  BY DEF ThisOne, Counted, Fetch, Converting
<1>4. Counted'
  BY <1>3 DEF Counted, Converting, Fetch, TakenBefore
<1> QED BY <1>1, <1>2, <1>4

(* No attachment is left.                                                  *)
LEMMA CountLast == ASSUME CountInv, LastAttachment PROVE CountInv'
<1> USE DEF CountInv, At, Goto, subject, history, conversion
<1>1. OwnTypes'
  BY DEF LastAttachment, OwnTypes
<1>2. Grown'
  BY DEF LastAttachment, Grown, Handled
<1>3. /\ k > Len(attachments) /\ k \in Nat /\ Len(attachments) \in Nat
      /\ (skipped = 0 => TakenBefore) /\ skipped \in Nat /\ (count = 0 => files = {})
      /\ (msg.text => text)
  BY DEF LastAttachment, OwnTypes, Counted, Converting
<1>4. skipped > 0 \/ AllTaken
  <2>1. \A n \in 1..Len(attachments) : n < k
    BY <1>3
  <2> QED BY <1>3, <2>1 DEF TakenBefore, AllTaken
<1>5. Counted'
  <2>1. UNCHANGED <<attachments, files, skipped, count, found, text, msg>> /\ pc' = "post"
    BY DEF LastAttachment
  <2>2. AllTaken' <=> AllTaken
    BY <2>1 DEF AllTaken
  <2> QED BY <1>3, <1>4, <2>1, <2>2 DEF Counted, Converting, Fetch
<1> QED BY <1>1, <1>2, <1>5

(* The files.                                                              *)
LEMMA CountFiles ==
  ASSUME CountInv,
         \/ GetHostedFileContent \/ GetFileSizeAndDownloadURL \/ GetFileContent
         \/ ProcessAndUploadFileToMM \/ GetFileFromTeamsAndUploadToMM \/ Streaming \/ Streamed
  PROVE  CountInv'
<1> USE DEF Fetching, Fetched, Goto, At
<1>1. CASE GetHostedFileContent \/ GetFileSizeAndDownloadURL
  <2>1. ThisOne(Files) /\ UNCHANGED <<subject, attachments, i, history>>
    BY <1>1 DEF GetHostedFileContent, GetFileSizeAndDownloadURL, ThisOne, Files
  <2>2. Skip \/ (UNCHANGED conversion /\ pc' \in Fetch)
    BY <1>1 DEF GetHostedFileContent, GetFileSizeAndDownloadURL, BySize, Fetch
  <2> QED BY <2>1, <2>2, CountSkip, CountFetched
<1>2. CASE GetFileContent \/ ProcessAndUploadFileToMM \/ GetFileFromTeamsAndUploadToMM
           \/ Streaming \/ Streamed
  <2>1. pc \in Fetch /\ UNCHANGED <<subject, attachments, i, history>>
    BY <1>2 DEF GetFileContent, ProcessAndUploadFileToMM, GetFileFromTeamsAndUploadToMM,
                Streaming, Streamed, Fetch
  <2>2. Skip \/ Uploaded \/ (UNCHANGED conversion /\ pc' \in Fetch \cup {"panicked"})
    BY <1>2 DEF GetFileContent, ProcessAndUploadFileToMM, GetFileFromTeamsAndUploadToMM,
                Streaming, Streamed, Fetch
  <2> QED BY <2>1, <2>2, CountSkip, CountUploaded, CountFetched
<1> QED BY <1>1, <1>2

(* The notification is dropped, fails or is posted.                        *)
LEMMA CountNotify == ASSUME CountInv, NotifyChat PROVE CountInv'
<1> USE DEF CountInv, At, Goto, Continue, Observe, subject, history, conversion
<1>1. /\ UNCHANGED <<subject, attachments, conversion>> /\ pc = "post" /\ pc' \in {"member", "received"}
      /\ i' \in {i, i + 1}
      /\ \/ outcome' = outcome
         \/ \E reason \in Outcomes : outcome' = [outcome EXCEPT ![i] = reason]
      /\ posts' = posts \/ posts' = [posts EXCEPT ![i] = Append(@, Post)]
  BY DEF NotifyChat, Outcomes
<1>2. outcome' \in Seq(Outcomes) /\ Len(outcome') = Len(outcome)
  BY <1>1, Outcome
<1>3. msg \in Messages
  BY <1>1 DEF OwnTypes, Grown, Handled
<1>4. Post \in PostType
  <2>1. /\ msg.subject \in BOOLEAN /\ text \in BOOLEAN /\ found \in BOOLEAN /\ files \in SUBSET Nat
        /\ skipped \in Nat
    BY <1>3, MessagesAssumption DEF Message, OwnTypes
  <2>2. HasText \in BOOLEAN
    BY DEF HasText
  <2>3. (skipped > 0) \in BOOLEAN
    BY <2>1
  <2> HIDE DEF HasText
  <2> QED BY <2>1, <2>2, <2>3 DEF Post, PostType
<1>5. posts' \in Seq(Seq(PostType)) /\ Len(posts') = Len(posts)
  <2>1. posts \in [1..Len(posts) -> Seq(PostType)] /\ Len(posts) \in Nat
    BY DEF OwnTypes
  <2>2. \A n \in 1..Len(posts) : Append(posts[n], Post) \in Seq(PostType)
    BY <1>4, <2>1
  <2>3. posts' \in [1..Len(posts) -> Seq(PostType)]
    BY <1>1, <2>1, <2>2
  <2> QED BY <2>1, <2>3
<1>6. OwnTypes'
  BY <1>1, <1>2, <1>5 DEF OwnTypes
<1>7. Grown' /\ Counted'
  BY <1>1 DEF Grown, Counted, Handled, Converting, Fetch
<1> QED BY <1>6, <1>7

(* So the worker's own variables are typed and counted right.              *)
LEMMA CountStep == CountInv /\ [Next]_vars => CountInv'
<1> SUFFICES ASSUME CountInv, [Next]_vars PROVE CountInv'
  OBVIOUS
<1>1. CASE UNCHANGED vars
  BY <1>1 DEF CountInv, vars, subject, history, conversion, OwnTypes, Grown, Counted,
              TakenBefore, AllTaken
<1>2. CASE Next
  BY <1>2, CountBefore, CountMembers, CountConvert, CountClient, CountNonFile, CountLast,
     CountFiles, CountNotify DEF Next
<1> QED BY <1>1, <1>2

-----------------------------------------------------------------------------
(* What was posted.                                                        *)

Looping == OneMember \cup {"member"}
Start == {"idle", "chat", "client", "message", "presences"}

(* The members of a chat are different, but for the only one of a chat.    *)
Members ==
    \/ \A n, m \in 1..Len(chat) : chat[n] = chat[m] => n = m
    \/ Len(chat) = 2 /\ chat[1] = chat[2]

(* The loop is at a member of the chat that is not the author.             *)
Place ==
    /\ pc \in Looping => i >= 1
    /\ pc \in OneMember => i <= Len(chat) /\ chat[i] # msg.author

(* The post says of the files what is true.                                *)
Honest(post) == post.client => post.note \/ FilesOf(msg) \subseteq post.files

(* Only members the loop is done with were sent anything.                  *)
Sent ==
    \A n \in 1..Len(posts) : posts[n] # <<>> =>
        /\ pc \notin Start
        /\ Len(posts[n]) = 1
        /\ chat[n] # msg.author
        /\ pc \in Looping => n < i \/ (n = i /\ pc = "received")
        /\ Honest(posts[n][1])

Posted == (pc \in {"idle", "chat"} => Len(chat) = 0) /\ Members /\ Place /\ Sent

(* Initially nothing is posted.                                            *)
LEMMA PostedInit == Init => Posted
<1> SUFFICES ASSUME Init PROVE Posted
  OBVIOUS
<1>1. pc = "idle" /\ Len(chat) = 0 /\ Len(posts) = 0
  BY DEF Init
<1> QED BY <1>1 DEF Posted, Members, Place, Sent, Looping, OneMember

(* A sequence of one, twice.                                               *)
LEMMA Doubled ==
  ASSUME NEW S, NEW c \in Seq(S), Len(c) = 1
  PROVE  Len(c \o c) = 2 /\ (c \o c)[1] = c[1] /\ (c \o c)[2] = c[1]
<1>1. /\ Len(c \o c) = Len(c) + Len(c)
      /\ \A j \in 1..Len(c) + Len(c) : (c \o c)[j] = IF j <= Len(c) THEN c[j] ELSE c[j - Len(c)]
  BY ConcatProperties, Zenon
<1> QED BY <1>1

(* Nothing is posted before the loop.                                      *)
LEMMA PostedBefore ==
  ASSUME CountInv, Posted,
         HandleActivity \/ GetChat \/ FindClient \/ GetChatMessage \/ GetPresences
  PROVE  Posted'
<1> USE DEF At, Goto, End, subject, history, conversion
<1>1. \A n \in 1..Len(posts) : posts[n] = <<>>
  BY DEF HandleActivity, GetChat, FindClient, GetChatMessage, GetPresences, Posted, Sent, Start
<1>2. pc' \in Start \cup {"ended", "member"} /\ (pc' = "member" => i' = 1)
  BY DEF HandleActivity, GetChat, FindClient, GetChatMessage, GetPresences, Start
<1>3. \A n \in 1..Len(posts') : posts'[n] = <<>>
  <2>1. CASE posts' = posts
    BY <1>1, <2>1
  <2>2. CASE posts' = [n \in 1..Len(chat') |-> <<>>] /\ \E c \in Seq(Users) : chat' = c
    <3>1. Len(chat') \in Nat
      BY <2>2
    <3>2. Len(posts') = Len(chat')
      BY <2>2, <3>1
    <3> QED BY <2>2, <3>2
  <2>3. GetChat => posts' = posts \/ (posts' = [n \in 1..Len(chat') |-> <<>>]
                                      /\ \E c \in Seq(Users) : chat' = c)
    <3>1. \A c \in Chats : c \in Seq(Users) /\ c \o c \in Seq(Users)
      BY ChatsAssumption
    <3> QED BY <3>1 DEF GetChat
  <2> QED BY <2>1, <2>2, <2>3 DEF HandleActivity, FindClient, GetChatMessage, GetPresences
<1>4. Members'
  <2>1. CASE chat' = chat
    BY <2>1 DEF Posted, Members
  <2>2. ASSUME NEW c \in Chats, chat' = IF Len(c) = 1 THEN c \o c ELSE c
        PROVE  Members'
    <3>1. c \in Seq(Users) /\ \A n, m \in 1..Len(c) : c[n] = c[m] => n = m
      BY ChatsAssumption
    <3>2. CASE Len(c) = 1
      <4>1. Len(c \o c) = 2 /\ (c \o c)[1] = c[1] /\ (c \o c)[2] = c[1]
        BY <3>1, <3>2, Doubled
      <4> QED BY <2>2, <3>2, <4>1 DEF Members
    <3>3. CASE Len(c) # 1
      BY <2>2, <3>1, <3>3 DEF Members
    <3> QED BY <3>2, <3>3
  <2>3. GetChat => chat' = chat \/ \E c \in Chats : chat' = IF Len(c) = 1 THEN c \o c ELSE c
    BY DEF GetChat
  <2> QED BY <2>1, <2>2, <2>3 DEF HandleActivity, FindClient, GetChatMessage, GetPresences
<1>5. pc' \in {"idle", "chat"} => Len(chat') = 0
  BY DEF HandleActivity, GetChat, FindClient, GetChatMessage, GetPresences, Posted
<1>6. Place'
  BY <1>2 DEF Place, Looping, OneMember, Start
<1> QED BY <1>3, <1>4, <1>5, <1>6 DEF Posted, Sent

(* Neither the loop nor the conversion posts anything.                     *)
LEMMA PostedKept ==
  ASSUME CountInv, Posted, UNCHANGED <<subject, posts>>,
         \/ pc' \in {"ended", "panicked"} /\ pc \notin Start
         \/ pc = "member" /\ pc' = "preference" /\ i' = i /\ i <= Len(chat) /\ chat[i] # msg.author
         \/ pc \in OneMember \ {"received"} /\ pc' \in OneMember \ {"received"} /\ i' = i
         \/ pc \in Looping /\ pc' = "member" /\ i' = i + 1
  PROVE  Posted'
<1>1. chat' = chat /\ msg' = msg /\ posts' = posts /\ i \in Nat
  BY DEF subject, CountInv, OwnTypes
<1>2. Members' /\ (pc' \in {"idle", "chat"} => Len(chat') = 0)
  BY <1>1 DEF Posted, Members, OneMember
<1>3. Place'
  BY <1>1 DEF Posted, Place, Looping, OneMember
<1>4. Sent'
  <2> SUFFICES ASSUME NEW n \in 1..Len(posts), posts[n] # <<>>
               PROVE  /\ pc' \notin Start
                      /\ Len(posts[n]) = 1
                      /\ chat[n] # msg.author
                      /\ pc' \in Looping => n < i' \/ (n = i' /\ pc' = "received")
                      /\ Honest(posts[n][1])
    BY <1>1 DEF Sent, Honest, FilesOf
  <2>1. /\ pc \notin Start
        /\ Len(posts[n]) = 1
        /\ chat[n] # msg.author
        /\ pc \in Looping => n < i \/ (n = i /\ pc = "received")
        /\ Honest(posts[n][1])
    BY DEF Posted, Sent
  <2>2. pc' \notin Start
    BY DEF Start, OneMember
  <2>3. pc' \in Looping => n < i' \/ (n = i' /\ pc' = "received")
    BY <1>1, <2>1 DEF Looping, OneMember
  <2> QED BY <2>1, <2>2, <2>3
<1> QED BY <1>2, <1>3, <1>4 DEF Posted

(* The member of the loop is sent one honest post.                         *)
LEMMA PostedNotify == ASSUME CountInv, Posted, NotifyChat PROVE Posted'
<1> USE DEF At, Goto, Continue, Observe
<1>1. /\ chat' = chat /\ msg' = msg /\ i \in Nat /\ pc = "post" /\ i >= 1 /\ i <= Len(chat)
      /\ chat[i] # msg.author /\ Len(posts) = Len(chat) /\ posts \in Seq(Seq(PostType))
  BY DEF NotifyChat, subject, CountInv, OwnTypes, Posted, Place, Looping, OneMember
<1>2. CASE posts' = posts /\ pc' = "member" /\ i' = i + 1
  BY <1>1, <1>2, PostedKept DEF Looping, OneMember, NotifyChat
<1>3. CASE posts' = [posts EXCEPT ![i] = Append(@, Post)] /\ pc' = "received" /\ i' = i
  <2>1. i \in 1..Len(posts) /\ posts[i] = <<>>
    BY <1>1 DEF Posted, Sent, Looping, OneMember
  <2>2. /\ Len(posts') = Len(posts) /\ posts'[i] = <<Post>>
        /\ \A n \in 1..Len(posts) : n # i => posts'[n] = posts[n]
    BY <1>1, <1>3, <2>1
  <2>3. Honest(Post)
    <3>1. msg \in Messages
      BY <1>1 DEF CountInv, OwnTypes, Grown, Handled
    <3>2. msg.attachments \in Seq(Kinds) /\ attachments \in Seq(Kinds)
      BY <3>1, MessageFacts DEF CountInv, OwnTypes
    <3>3. /\ Len(msg.attachments) <= Len(attachments)
          /\ \A n \in 1..Len(msg.attachments) : attachments[n] = msg.attachments[n]
      BY <1>1 DEF CountInv, Grown, Handled
    <3>4. AllTaken => FilesOf(msg) \subseteq files
      BY <3>2, <3>3 DEF AllTaken, FilesOf
    <3>5. found => skipped > 0 \/ AllTaken
      BY <1>1 DEF CountInv, Counted
    <3>6. Post.client = found /\ Post.note = (skipped > 0) /\ Post.files = files
      BY DEF Post
    <3> QED BY <3>4, <3>5, <3>6 DEF Honest
  <2>4. Sent'
    <3> SUFFICES ASSUME NEW n \in 1..Len(posts), posts'[n] # <<>>
                 PROVE  /\ Len(posts'[n]) = 1
                        /\ chat[n] # msg.author
                        /\ n < i \/ n = i
                        /\ Honest(posts'[n][1])
      BY <1>1, <1>3, <2>2 DEF Sent, Honest, FilesOf, Start
    <3>1. CASE n = i
      <4>1. posts'[n] = <<Post>> /\ Len(<<Post>>) = 1 /\ <<Post>>[1] = Post
        BY <2>2, <3>1
      <4>2. posts'[n][1] = Post
        BY <4>1
      <4> QED BY <1>1, <2>3, <3>1, <4>1, <4>2 DEF Honest
    <3>2. CASE n # i
      BY <1>1, <2>2, <3>2 DEF Posted, Sent, Looping, OneMember
    <3> QED BY <3>1, <3>2
  <2>5. Members' /\ (pc' \in {"idle", "chat"} => Len(chat') = 0)
    BY <1>1, <1>3 DEF Posted, Members
  <2>6. Place'
    BY <1>1, <1>3 DEF Place
  <2> QED BY <2>4, <2>5, <2>6 DEF Posted
<1> QED BY <1>2, <1>3 DEF NotifyChat

(* So nothing but what is said above is posted.                            *)
LEMMA PostedStep == CountInv /\ Posted /\ [Next]_vars => Posted'
<1> SUFFICES ASSUME CountInv, Posted, [Next]_vars PROVE Posted'
  OBVIOUS
<1> USE DEF At, Goto, End, subject, history, conversion
<1>1. CASE UNCHANGED vars
  BY <1>1 DEF vars, Posted, Members, Place, Sent, Honest, FilesOf, Looping, OneMember
<1>2. CASE HandleActivity \/ GetChat \/ FindClient \/ GetChatMessage \/ GetPresences
  BY <1>2, PostedBefore
<1>3. CASE LastMember \/ MapMember \/ CheckMember \/ GetDirect \/ SetLastChatReceivedAt
  BY <1>3, PostedKept DEF LastMember, MapMember, CheckMember, GetDirect, SetLastChatReceivedAt,
                          Continue, Start, Looping, OneMember
<1>4. CASE \/ Convert \/ FindClientAgain \/ LastAttachment
           \/ CodeSnippet \/ MessageReference \/ Card \/ OtherType
  <2>1. UNCHANGED <<subject, posts, i>>
    BY <1>4 DEF Convert, FindClientAgain, LastAttachment, CodeSnippet, MessageReference, Card,
                OtherType, NonFile
  <2>2. pc \in OneMember \ {"received"} /\ pc' \in OneMember \ {"received"}
    BY <1>4 DEF Convert, FindClientAgain, LastAttachment, CodeSnippet, MessageReference, Card,
                OtherType, NonFile, ThisOne, OneMember
  <2> QED BY <2>1, <2>2, PostedKept
<1>5. CASE \/ GetHostedFileContent \/ GetFileSizeAndDownloadURL \/ GetFileContent
           \/ ProcessAndUploadFileToMM \/ GetFileFromTeamsAndUploadToMM \/ Streaming \/ Streamed
  <2> USE DEF Fetching, Fetched
  <2>1. UNCHANGED <<subject, posts, i>>
    BY <1>5 DEF GetHostedFileContent, GetFileSizeAndDownloadURL, GetFileContent,
                ProcessAndUploadFileToMM, GetFileFromTeamsAndUploadToMM, Streaming, Streamed
  <2>2. /\ pc \in OneMember \ {"received"} /\ pc \notin Start
        /\ pc' \in (OneMember \ {"received"}) \cup {"panicked"}
    BY <1>5 DEF GetHostedFileContent, GetFileSizeAndDownloadURL, GetFileContent,
                ProcessAndUploadFileToMM, GetFileFromTeamsAndUploadToMM, Streaming, Streamed,
                BySize, Skip, Uploaded, ThisOne, OneMember, Start
  <2> QED BY <2>1, <2>2, PostedKept
<1>6. CASE NotifyChat
  BY <1>6, PostedNotify
<1> QED BY <1>1, <1>2, <1>3, <1>4, <1>5, <1>6 DEF Next

-----------------------------------------------------------------------------
(* Every step brings the worker nearer to the end of the activity.         *)

(* Where the worker is in the activity, with one member, and with one      *)
(* attachment: higher is further from the end.                             *)
Stage ==
    CASE pc = "idle" -> 6
      [] pc = "chat" -> 5
      [] pc = "client" -> 4
      [] pc = "message" -> 3
      [] pc = "presences" -> 2
      [] pc \in Looping -> 1
      [] pc \in {"ended", "panicked"} -> 0

MemberStage ==
    CASE pc = "member" -> 7
      [] pc = "preference" -> 6
      [] pc = "direct" -> 5
      [] pc = "convert" -> 4
      [] pc = "client2" -> 3
      [] pc \in Converting -> 2
      [] pc = "post" -> 1
      [] OTHER -> 0

AttachmentStage ==
    CASE pc = "attachment" -> 2
      [] pc \in {"content", "session"} -> 1
      [] OTHER -> 0

(* What is left of the members, of the attachments, of the transfer.       *)
MembersLeft == IF i <= Len(chat) THEN Len(chat) + 1 - i ELSE 0
AttachmentsLeft == IF k <= Len(attachments) THEN Len(attachments) + 1 - k ELSE 0
Reading == IF upload = "reading" THEN 1 ELSE 0
BytesLeft == IF start < size THEN size - start ELSE 0
WriterStage ==
    CASE writer = "request" -> 3
      [] writer = "copy" -> 2
      [] writer = "closed" -> 1
      [] OTHER -> 0

(* Lexicographically less, so that there is an end to it.                  *)
TransferNearer ==
    \/ Reading' < Reading
    \/ /\ Reading' = Reading
       /\ \/ BytesLeft' < BytesLeft
          \/ /\ BytesLeft' = BytesLeft
             /\ \/ WriterStage' < WriterStage
                \/ WriterStage' = WriterStage /\ Len(body') < Len(body)

Nearer ==
    \/ Stage' < Stage
    \/ /\ Stage' = Stage
       /\ \/ MembersLeft' < MembersLeft
          \/ /\ MembersLeft' = MembersLeft
             /\ \/ MemberStage' < MemberStage
                \/ /\ MemberStage' = MemberStage
                   /\ \/ AttachmentsLeft' < AttachmentsLeft
                      \/ /\ AttachmentsLeft' = AttachmentsLeft
                         /\ \/ AttachmentStage' < AttachmentStage
                            \/ AttachmentStage' = AttachmentStage /\ TransferNearer

(* An answer that is not the last is of a range that begins in the file.   *)
Ahead == writer = "copy" /\ ~whole => start < size

(* What comes back from a request for a range.                             *)
LEMMA Requested ==
  ASSUME RangeRequest
  PROVE  /\ writer = "request" /\ writer' = "copy" /\ (whole' = TRUE \/ start' < size')
         /\ UNCHANGED <<size, start, data, upload>>
<1>1. CASE start < size /\ Answer(FALSE, Slice(start, Increment))
  BY <1>1 DEF RangeRequest, Answer
<1>2. CASE \E bytes : Answer(TRUE, bytes)
  BY <1>2 DEF RangeRequest, Answer
<1> QED BY <1>1, <1>2 DEF RangeRequest

(* A transfer runs while the worker waits for it, and has read no more     *)
(* than it is to.                                                          *)
Running == pc = "stream" => upload # "none" /\ writer # "none" /\ Len(data) <= size

(* Only such an answer is copied.                                          *)
LEMMA AheadStep == Ahead /\ [Next]_vars => Ahead'
<1> SUFFICES ASSUME Ahead, [Next]_vars PROVE Ahead'
  OBVIOUS
<1>1. CASE UNCHANGED transferVars
  BY <1>1 DEF Ahead, transferVars, answer
<1>2. CASE GetFileFromTeamsAndUploadToMM
  BY <1>1, <1>2 DEF GetFileFromTeamsAndUploadToMM, TransferStart, Ahead
<1>3. CASE Streaming
  <2>1. CASE RangeRequest
    BY <2>1, Requested DEF Ahead
  <2>2. CASE RangeError \/ Copy \/ UploadData \/ UploadError
    BY <2>2 DEF RangeError, Copy, UploadData, UploadError, answer, Ahead
  <2>3. CASE NextRange
    BY <2>3 DEF NextRange, answer, Ahead
  <2> QED BY <1>3, <2>1, <2>2, <2>3 DEF Streaming
<1>4. CASE Streamed
  BY <1>4 DEF Streamed, TransferForget, Ahead
<1> QED
  BY <1>1, <1>2, <1>3, <1>4
     DEF Next, vars, HandleActivity, GetChat, FindClient, GetChatMessage, GetPresences,
         LastMember, MapMember, CheckMember, GetDirect, Convert, FindClientAgain,
         LastAttachment, NonFile, CodeSnippet, MessageReference, Card, OtherType,
         GetHostedFileContent, GetFileSizeAndDownloadURL, GetFileContent,
         ProcessAndUploadFileToMM, NotifyChat, SetLastChatReceivedAt

(* UploadData takes one byte, if it has not all of them.                   *)
LEMMA RunningStep == TransferTypeOK /\ Running /\ [Next]_vars => Running'
<1> SUFFICES ASSUME TransferTypeOK, Running, [Next]_vars PROVE Running'
  OBVIOUS
<1>1. CASE pc' = pc /\ UNCHANGED transferVars
  BY <1>1 DEF Running, transferVars
<1>2. CASE pc' # "stream"
  BY <1>2 DEF Running
<1>3. CASE GetFileFromTeamsAndUploadToMM
  <2>1. ASSUME NEW s \in 1..MaxSize, TransferStart(s) PROVE Running'
    <3>1. Len(<<>>) = 0 /\ s \in Nat
      BY MaxSizeAssumption
    <3> QED BY <2>1, <3>1 DEF TransferStart, Running
  <2> QED BY <1>1, <1>2, <1>3, <2>1
          DEF GetFileFromTeamsAndUploadToMM, Skip, Goto
<1>4. CASE Streaming
  <2>1. CASE RangeRequest
    BY <1>4, <2>1, Requested DEF Streaming, Running
  <2>2. CASE RangeError \/ NextRange \/ UploadData \/ UploadError
    BY <1>4, <2>2 DEF Streaming, Running, RangeError, NextRange, UploadData, UploadError, answer
  <2>3. CASE Copy
    <3>1. data' = Append(data, Head(body)) /\ Head(body) \in Bytes /\ data \in Seq(Bytes)
      BY <2>3 DEF Copy, TransferTypeOK
    <3>2. Len(data') = Len(data) + 1 /\ Len(data) < size /\ size \in Nat /\ size' = size
      BY <2>3, <3>1, MaxSizeAssumption DEF Copy, TransferTypeOK
    <3> QED BY <1>4, <2>3, <3>1, <3>2 DEF Copy, Running
  <2> QED BY <1>4, <2>1, <2>2, <2>3 DEF Streaming
<1>5. CASE Streamed
  BY <1>2, <1>5 DEF Streamed, Uploaded, Skip, Goto, At
<1> USE DEF At, Goto, End, Fetched, Skip, BySize
<1> QED
  BY <1>1, <1>2, <1>3, <1>4, <1>5
     DEF Next, vars, HandleActivity, GetChat, FindClient, GetChatMessage, GetPresences,
         LastMember, MapMember, CheckMember, GetDirect, Continue, Convert, FindClientAgain,
         LastAttachment, NonFile, ThisOne, CodeSnippet, MessageReference, Card, OtherType,
         GetHostedFileContent, GetFileSizeAndDownloadURL, GetFileContent, Uploaded,
         ProcessAndUploadFileToMM, NotifyChat, SetLastChatReceivedAt

(* The numbers that Nearer compares are natural ones.                      *)
LEMMA Measured ==
  ASSUME TransferTypeOK, OwnTypes
  PROVE  /\ Stage \in Nat /\ MembersLeft \in Nat /\ MemberStage \in Nat
         /\ AttachmentsLeft \in Nat /\ AttachmentStage \in Nat
         /\ Reading \in Nat /\ BytesLeft \in Nat /\ WriterStage \in Nat /\ Len(body) \in Nat
<1>1. Stage \in Nat
  BY DEF OwnTypes, Stage, Looping, OneMember
<1>2. MemberStage \in Nat /\ AttachmentStage \in Nat /\ Reading \in Nat /\ WriterStage \in Nat
  BY DEF MemberStage, AttachmentStage, Reading, WriterStage
<1>3. MembersLeft \in Nat
  BY DEF OwnTypes, MembersLeft
<1>4. AttachmentsLeft \in Nat
  BY DEF OwnTypes, AttachmentsLeft
<1>5. BytesLeft \in Nat /\ Len(body) \in Nat
  BY DEF TransferTypeOK, BytesLeft
<1> QED BY <1>1, <1>2, <1>3, <1>4, <1>5

(* Before the loop, and out of it.                                         *)
LEMMA NearerOutside ==
  ASSUME \/ HandleActivity \/ GetChat \/ FindClient \/ GetChatMessage \/ GetPresences
         \/ LastMember
         \/ pc = "stream" /\ pc' = "panicked"
  PROVE  Nearer
<1>1. Stage' < Stage
  BY DEF HandleActivity, GetChat, FindClient, GetChatMessage, GetPresences, LastMember,
         At, Goto, End, Stage, Looping, OneMember
<1> QED BY <1>1 DEF Nearer

(* The next member, or the next call for the same.                         *)
LEMMA NearerMember ==
  ASSUME OwnTypes, chat' = chat, pc \in Looping, pc' \in Looping,
         \/ i' = i + 1 /\ i <= Len(chat)
         \/ i' = i /\ MemberStage' < MemberStage
  PROVE  Nearer
<1>1. Stage' = Stage
  BY DEF Stage, Looping, OneMember
<1>2. i \in Nat /\ Len(chat) \in Nat
  BY DEF OwnTypes
<1>3. CASE i' = i + 1 /\ i <= Len(chat)
  BY <1>1, <1>2, <1>3 DEF Nearer, MembersLeft
<1>4. CASE i' = i /\ MemberStage' < MemberStage
  BY <1>1, <1>4 DEF Nearer, MembersLeft
<1> QED BY <1>3, <1>4

(* The next attachment, or the next call for the same.                     *)
LEMMA NearerAttachment ==
  ASSUME OwnTypes, chat' = chat, i' = i, attachments' = attachments,
         pc \in Converting, pc' \in Converting,
         \/ k' = k + 1 /\ k <= Len(attachments)
         \/ k' = k /\ AttachmentStage' < AttachmentStage
         \/ k' = k /\ AttachmentStage' = AttachmentStage /\ TransferNearer
  PROVE  Nearer
<1>1. Stage' = Stage /\ MemberStage' = MemberStage /\ MembersLeft' = MembersLeft
  BY DEF Stage, MemberStage, MembersLeft, Looping, OneMember, Converting
<1>2. k \in Nat /\ Len(attachments) \in Nat
  BY DEF OwnTypes
<1>3. CASE k' = k + 1 /\ k <= Len(attachments)
  <2>1. AttachmentsLeft' < AttachmentsLeft
    BY <1>2, <1>3 DEF AttachmentsLeft
  <2> QED BY <1>1, <2>1 DEF Nearer
<1>4. CASE k' = k
  <2>1. AttachmentsLeft' = AttachmentsLeft
    BY <1>4 DEF AttachmentsLeft
  <2> QED BY <1>1, <1>2, <1>4, <2>1 DEF Nearer
<1> QED BY <1>3, <1>4

(* Either end of the pipe.                                                 *)
LEMMA NearerTransfer ==
  ASSUME TransferTypeOK, Ahead,
         RangeRequest \/ RangeError \/ Copy \/ NextRange \/ UploadData \/ UploadError
  PROVE  TransferNearer
<1> USE DEF TransferNearer, Reading, BytesLeft, WriterStage, answer
<1>1. CASE UploadData \/ UploadError
  BY <1>1 DEF UploadData, UploadError
<1>2. CASE RangeRequest
  <2>1. /\ writer = "request" /\ writer' = "copy" /\ size' = size /\ start' = start
        /\ upload' = upload
    BY <1>2, Requested, Zenon
  <2>2. Reading' = Reading /\ BytesLeft' = BytesLeft
    BY <2>1
  <2> QED BY <2>1, <2>2
<1>3. CASE RangeError
  BY <1>3 DEF RangeError
<1>4. CASE Copy
  <2>1. body \in Seq(Bytes) /\ body # <<>> /\ body' = Tail(body)
    BY <1>4 DEF Copy, TransferTypeOK
  <2>2. Len(body') < Len(body)
    BY <2>1
  <2> QED BY <1>4, <2>2 DEF Copy
<1>5. CASE NextRange
  <2>1. CASE IsLast /\ writer' = "closed" /\ UNCHANGED start
    BY <1>5, <2>1 DEF NextRange
  <2>2. CASE ~IsLast /\ writer' = "request" /\ start' = start + Increment
    <3>1. /\ start < size /\ start \in Nat /\ size \in Nat
          /\ Increment \in Nat /\ Increment > 0 /\ size' = size /\ upload' = upload
      BY <1>5, <2>2, IncrementAssumption, MaxSizeAssumption
         DEF NextRange, IsLast, Ahead, TransferTypeOK
    <3>2. BytesLeft' < BytesLeft
      BY <2>2, <3>1
    <3> QED BY <3>1, <3>2
  <2> QED BY <1>5, <2>1, <2>2 DEF NextRange
<1> QED BY <1>1, <1>2, <1>3, <1>4, <1>5

(* So every step is.                                                       *)
LEMMA NearerStep ==
  ASSUME TransferTypeOK, CountInv, Posted, Ahead, Next
  PROVE  Nearer
<1> USE DEF At, Goto, subject, conversion
<1>0. OwnTypes
  BY DEF CountInv
<1>1. CASE \/ HandleActivity \/ GetChat \/ FindClient \/ GetChatMessage \/ GetPresences
           \/ LastMember
  BY <1>1, NearerOutside
<1>2. CASE MapMember \/ CheckMember \/ GetDirect \/ NotifyChat \/ SetLastChatReceivedAt
  <2> USE <1>2 DEF MapMember, CheckMember, GetDirect, NotifyChat, SetLastChatReceivedAt, Continue
  <2>1. chat' = chat
    OBVIOUS
  <2>2. pc \in Looping /\ pc' \in Looping
    BY DEF Looping, OneMember
  <2>3. \/ i' = i + 1 /\ i <= Len(chat)
        \/ i' = i /\ MemberStage' < MemberStage
    <3>1. pc \in OneMember => i <= Len(chat)
      BY DEF Posted, Place
    <3>2. \/ i' = i + 1 /\ (pc = "member" => i <= Len(chat))
          \/ i' = i /\ pc = "member" /\ pc' = "preference"
          \/ i' = i /\ pc = "preference" /\ pc' = "direct"
          \/ i' = i /\ pc = "direct" /\ pc' = "convert"
          \/ i' = i /\ pc = "post" /\ pc' = "received"
      OBVIOUS
    <3> QED BY <2>2, <3>1, <3>2 DEF MemberStage, Looping, Converting
  <2> QED BY <1>0, <2>1, <2>2, <2>3, NearerMember
<1>3. CASE Convert \/ FindClientAgain \/ LastAttachment
  <2>1. chat' = chat /\ i' = i /\ pc \in Looping /\ pc' \in Looping
    BY <1>3 DEF Convert, FindClientAgain, LastAttachment, Looping, OneMember
  <2>2. MemberStage' < MemberStage
    BY <1>3 DEF Convert, FindClientAgain, LastAttachment, MemberStage, Converting
  <2> QED BY <1>0, <2>1, <2>2, NearerMember
<1>4. CASE CodeSnippet \/ MessageReference \/ Card \/ OtherType
  <2>1. /\ chat' = chat /\ i' = i /\ attachments' = attachments /\ pc = "attachment" /\ pc' = pc
        /\ k' = k + 1 /\ k <= Len(attachments)
    BY <1>4 DEF CodeSnippet, MessageReference, Card, OtherType, NonFile, ThisOne
  <2> QED BY <1>0, <2>1, NearerAttachment DEF Converting
<1>5. CASE \/ GetHostedFileContent \/ GetFileSizeAndDownloadURL \/ GetFileContent
           \/ ProcessAndUploadFileToMM \/ GetFileFromTeamsAndUploadToMM \/ Streamed
  <2> USE <1>5 DEF GetHostedFileContent, GetFileSizeAndDownloadURL, GetFileContent,
                   ProcessAndUploadFileToMM, GetFileFromTeamsAndUploadToMM, Streamed,
                   Fetching, Fetched, BySize, ThisOne
  <2>1. /\ chat' = chat /\ i' = i /\ attachments' = attachments /\ pc \in Converting
        /\ k <= Len(attachments)
    BY DEF CountInv, Counted, Converting, Fetch
  <2>2. \/ k' = k + 1 /\ pc' \in {"attachment", "post"}
        \/ k' = k /\ pc = "attachment" /\ pc' \in {"content", "session", "upload"}
        \/ k' = k /\ pc = "content" /\ pc' = "upload"
        \/ k' = k /\ pc = "session" /\ pc' = "stream"
        \/ pc = "stream" /\ pc' = "panicked"
    BY DEF Skip, Uploaded
  <2>3. CASE k' = k + 1 /\ pc' = "attachment"
    BY <1>0, <2>1, <2>3, NearerAttachment DEF Converting
  <2>4. CASE pc' = "post"
    <3>1. MemberStage' < MemberStage /\ pc \in Looping /\ pc' \in Looping
      BY <2>1, <2>4 DEF MemberStage, Converting, Looping, OneMember
    <3> QED BY <1>0, <2>1, <3>1, NearerMember
  <2>5. CASE k' = k /\ pc' \in {"content", "session", "upload", "stream"}
    <3>1. AttachmentStage' < AttachmentStage
      BY <2>2, <2>5 DEF AttachmentStage
    <3> QED BY <1>0, <2>1, <2>5, <3>1, NearerAttachment DEF Converting
  <2>6. CASE pc = "stream" /\ pc' = "panicked"
    BY <2>6, NearerOutside
  <2> QED BY <2>2, <2>3, <2>4, <2>5, <2>6
<1>6. CASE Streaming
  <2>1. /\ chat' = chat /\ i' = i /\ attachments' = attachments /\ k' = k
        /\ pc = "stream" /\ pc' = pc /\ TransferNearer
    BY <1>6, NearerTransfer DEF Streaming
  <2>2. AttachmentStage' = AttachmentStage
    BY <2>1 DEF AttachmentStage
  <2> QED BY <1>0, <2>1, <2>2, NearerAttachment DEF Converting
<1> QED BY <1>1, <1>2, <1>3, <1>4, <1>5, <1>6 DEF Next

-----------------------------------------------------------------------------
IInv == TransferInv /\ CountInv /\ Posted

(* The parts together hold of every behaviour.                             *)
THEOREM Invariance == Spec => []IInv
<1>1. Init => IInv
  BY TransferInitInv, CountInit, PostedInit DEF IInv, Init
<1>2. IInv /\ [Next]_vars => IInv'
  <2> SUFFICES ASSUME IInv, [Next]_vars PROVE IInv'
    OBVIOUS
  <2>1. CASE UNCHANGED vars
    BY <2>1, TransferUnchanged, CountStep, PostedStep DEF IInv, vars
  <2>2. CASE Next
    BY <2>2, TransferStep, CountStep, PostedStep DEF IInv
  <2> QED BY <2>1, <2>2
<1> QED BY <1>1, <1>2, PTL DEF Spec

(* The worker's variables, and those of a transfer, keep their types.      *)
THEOREM Typing == Spec => []TypeOK
<1>1. IInv => TypeOK
  BY Types DEF IInv, TransferInv, CountInv
<1> QED BY <1>1, Invariance, PTL

(* A file that was streamed and accepted is the file, if every answer was  *)
(* as asked for.                                                           *)
THEOREM StreamedIntact == Spec => []Intact
<1>1. IInv => Intact
  BY IntactFollows DEF IInv
<1> QED BY <1>1, Invariance, PTL

(* Whoever gets a message without one of its files is told so.             *)
THEOREM Told == Spec => []SkippedTold
<1>1. IInv => SkippedTold
  <2> SUFFICES ASSUME IInv, NEW n \in 1..Len(posts), NEW j \in 1..Len(posts[n])
               PROVE  Honest(posts[n][j])
    BY DEF SkippedTold, Honest
  <2>1. posts \in Seq(Seq(PostType))
    BY DEF IInv, CountInv, OwnTypes
  <2>2. posts[n] # <<>>
    BY <2>1
  <2>3. Len(posts[n]) = 1 /\ Honest(posts[n][1])
    BY <2>2 DEF IInv, Posted, Sent
  <2> QED BY <2>3
<1> QED BY <1>1, Invariance, PTL

(* Nobody is notified twice of one activity, and its author not at all, as *)
(* long as the author is a member of the chat.                             *)
THEOREM Once == Spec => []NotifiedOnce
<1>1. IInv => NotifiedOnce
  <2> SUFFICES ASSUME IInv, NEW u \in Users, NEW a \in 1..Len(chat), chat[a] = msg.author,
                      NEW n \in 1..Len(posts), NEW m \in 1..Len(posts),
                      chat[n] = u, posts[n] # <<>>, chat[m] = u, posts[m] # <<>>
               PROVE  n = m /\ Len(posts[n]) = 1 /\ u # msg.author
    BY DEF NotifiedOnce
  <2>1. Len(posts[n]) = 1 /\ chat[n] # msg.author /\ Len(posts) = Len(chat)
    BY DEF IInv, Posted, Sent, CountInv, OwnTypes
  <2>2. CASE \A p, q \in 1..Len(chat) : chat[p] = chat[q] => p = q
    BY <2>1, <2>2
  <2>3. CASE Len(chat) = 2 /\ chat[1] = chat[2]
    BY <2>1, <2>3
  <2> QED BY <2>1, <2>2, <2>3 DEF IInv, Posted, Members
<1> QED BY <1>1, Invariance, PTL

(* Only an empty message is dropped as empty, if a member was connected    *)
(* when it was converted.                                                  *)
THEOREM Dropped == Spec => EmptyMeansEmpty
<1>1. IInv /\ [Next]_vars =>
        [\A n \in 1..Len(outcome) :
            outcome'[n] = "empty" /\ outcome[n] # "empty" /\ found =>
                ~msg.text /\ FilesOf(msg) = {} /\ (msg.subject => root \/ parent)]_vars
  <2> SUFFICES ASSUME IInv, Next, NEW n \in 1..Len(outcome), outcome'[n] = "empty",
                      outcome[n] # "empty", found
               PROVE  ~msg.text /\ FilesOf(msg) = {} /\ (msg.subject => root \/ parent)
    OBVIOUS
  <2> USE DEF At, Goto, Continue, Observe
  <2>1. outcome \in [1..Len(outcome) -> Outcomes]
    BY DEF IInv, CountInv, OwnTypes
  <2>2. NotifyChat /\ ~HasText /\ count = 0 /\ skipped = 0
    <3>1. CASE outcome' = outcome
      BY <3>1
    <3>2. CASE GetChat
      BY <3>2 DEF GetChat, IInv, Posted, CountInv, OwnTypes
    <3>3. ASSUME NEW reason \in Outcomes \ {"empty"}, outcome' = [outcome EXCEPT ![i] = reason]
          PROVE  FALSE
      BY <2>1, <3>3
    <3>4. CASE MapMember \/ CheckMember \/ GetDirect
      BY <3>1, <3>3, <3>4 DEF MapMember, CheckMember, GetDirect, Outcomes
    <3>5. CASE NotifyChat
      BY <3>3, <3>5 DEF NotifyChat, Outcomes
    <3> QED
      BY <3>1, <3>2, <3>4, <3>5
         DEF Next, HandleActivity, FindClient, GetChatMessage, GetPresences, LastMember,
             Convert, FindClientAgain, LastAttachment, NonFile, CodeSnippet, MessageReference,
             Card, OtherType, GetHostedFileContent, GetFileSizeAndDownloadURL, GetFileContent,
             ProcessAndUploadFileToMM, GetFileFromTeamsAndUploadToMM, Streaming, Streamed,
             Fetching, history, SetLastChatReceivedAt
  <2>3. pc = "post" /\ files = {} /\ AllTaken /\ (msg.text => text)
    BY <2>2 DEF NotifyChat, IInv, CountInv, Counted, OwnTypes
  <2>4. msg \in Messages /\ msg.attachments \in Seq(Kinds) /\ attachments \in Seq(Kinds)
    BY <2>3, MessageFacts DEF IInv, CountInv, OwnTypes, Grown, Handled
  <2>5. /\ Len(msg.attachments) <= Len(attachments)
        /\ \A j \in 1..Len(msg.attachments) : attachments[j] = msg.attachments[j]
    BY <2>3 DEF IInv, CountInv, Grown, Handled
  <2>6. FilesOf(msg) = {}
    BY <2>3, <2>4, <2>5 DEF AllTaken, FilesOf
  <2> QED BY <2>2, <2>3, <2>6 DEF HasText
<1> QED BY <1>1, Invariance, PTL DEF Spec, EmptyMeansEmpty

(* Every step brings a worker nearer to the end of its activity, by an     *)
(* order that goes down only finitely often: for any chat, message and     *)
(* file it is done after finitely many calls, or waits in a transfer.      *)
THEOREM NoCircles ==
  Spec => /\ [][Nearer]_vars
          /\ [](/\ Stage \in Nat /\ MembersLeft \in Nat /\ MemberStage \in Nat
                /\ AttachmentsLeft \in Nat /\ AttachmentStage \in Nat
                /\ Reading \in Nat /\ BytesLeft \in Nat /\ WriterStage \in Nat
                /\ Len(body) \in Nat)
<1>1. Init => Ahead
  BY DEF Init, TransferInit, Ahead
<1>2. IInv /\ Ahead /\ [Next]_vars => [Nearer]_vars
  BY NearerStep DEF IInv, TransferInv
<1>3. IInv => /\ Stage \in Nat /\ MembersLeft \in Nat /\ MemberStage \in Nat
              /\ AttachmentsLeft \in Nat /\ AttachmentStage \in Nat
              /\ Reading \in Nat /\ BytesLeft \in Nat /\ WriterStage \in Nat
              /\ Len(body) \in Nat
  BY Measured, Zenon DEF IInv, TransferInv, CountInv
<1> QED BY <1>1, <1>2, <1>3, AheadStep, Invariance, PTL DEF Spec

(* A worker waits for a transfer in vain only if it is stuck: else the     *)
(* upload has returned, or has all bytes, or finds the pipe closed, or the *)
(* goroutine has a request to make or bytes to hand over.                  *)
THEOREM OnlyBrokenWait ==
  Spec => [](pc = "stream" /\ ~Stuck =>
               \/ upload # "reading"
               \/ Len(data) = size
               \/ writer \in {"request", "copy", "closed"})
<1>1. Init => Running
  BY DEF Init, Running
<1>2. IInv /\ Running =>
        (pc = "stream" /\ ~Stuck =>
               \/ upload # "reading"
               \/ Len(data) = size
               \/ writer \in {"request", "copy", "closed"})
  BY MaxSizeAssumption DEF IInv, TransferInv, TransferTypeOK, Running, Stuck
<1>3. IInv => TransferTypeOK
  BY DEF IInv, TransferInv
<1> QED BY <1>1, <1>2, <1>3, RunningStep, Invariance, PTL DEF Spec
=============================================================================
