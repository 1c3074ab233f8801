---------------------------- MODULE FileTransfer ----------------------------
(***************************************************************************)
(* The download of a large file from Microsoft Teams, streamed into an     *)
(* upload to Mattermost: a goroutine asks for one range of the file after  *)
(* the other (GetFileContentStream) and copies the answers into a pipe,    *)
(* UploadData reads the other end of it.                                   *)
(*                                                                         *)
(* A byte of the file is its offset; a byte of an error page is Junk. The  *)
(* pipe holds nothing: a byte is handed over when both ends are ready.     *)
(***************************************************************************)
EXTENDS Naturals, Sequences

CONSTANTS
    Increment, \* bytes per range (BufferSizeForFileStreaming)
    MaxSize,   \* bound on the size of a file
    Junk

ASSUME IncrementAssumption == Increment \in Nat \ {0}
ASSUME MaxSizeAssumption   == MaxSize \in Nat \ {0}
ASSUME JunkAssumption      == Junk \notin Nat

VARIABLES
    size,    \* size of the file, as the upload session was told
    start,   \* rangeStart
    whole,   \* the answer is not a partial one (its status is not 206)
    short,   \* its Content-Length is known and less than a range
    body,    \* bytes of the answer not yet copied
    data,    \* bytes UploadData has read
    mangled, \* history: Teams answered something else than a range of the file
    writer,  \* the goroutine: "none", "request", "copy", "closed", "gone"
    upload   \* UploadData: "none", "reading", "ok", "failed", "incomplete"

answer == <<whole, short, body>>
transferVars == <<size, start, answer, data, mangled, writer, upload>>

Bytes == 0..(MaxSize - 1) \cup {Junk}

TransferTypeOK ==
    /\ size \in 0..MaxSize /\ start \in Nat
    /\ whole \in BOOLEAN /\ short \in BOOLEAN
    /\ body \in Seq(Bytes) /\ data \in Seq(Bytes)
    /\ mangled \in BOOLEAN
    /\ writer \in {"none", "request", "copy", "closed", "gone"}
    /\ upload \in {"none", "reading", "ok", "failed", "incomplete"}

TransferInit ==
    /\ size = 0 /\ start = 0
    /\ whole = FALSE /\ short = FALSE /\ body = <<>>
    /\ data = <<>> /\ mangled = FALSE
    /\ writer = "none" /\ upload = "none"

(* The bytes from first on that an answer of at most n bytes has.          *)
Slice(first, n) ==
    [i \in 1..(IF first + n <= size THEN n ELSE size - first) |-> first + i - 1]

-----------------------------------------------------------------------------
(* GetFileFromTeamsAndUploadToMM has an upload session for s bytes: the    *)
(* goroutine and UploadData begin.                                         *)
TransferStart(s) ==
    /\ size' = s /\ start' = 0
    /\ whole' = FALSE /\ short' = FALSE /\ body' = <<>>
    /\ data' = <<>> /\ mangled' = FALSE
    /\ writer' = "request" /\ upload' = "reading"

(* UploadData has returned, its end of the pipe stays open: a goroutine    *)
(* still copying is never heard of again.                                  *)
TransferForget ==
    /\ size' = 0 /\ start' = 0
    /\ whole' = FALSE /\ short' = FALSE /\ body' = <<>>
    /\ data' = <<>> /\ mangled' = FALSE
    /\ writer' = "none" /\ upload' = "none"

Answer(isWhole, bytes) ==
    /\ whole' = isWhole /\ body' = bytes
    /\ short' \in {FALSE, Len(bytes) < Increment}
    /\ writer' = "copy"
    /\ UNCHANGED <<size, start, data, upload>>

RangeRequest ==
    /\ writer = "request"
    /\ \/ start < size /\ Answer(FALSE, Slice(start, Increment)) /\ UNCHANGED mangled
       \/ start = 0 /\ Answer(TRUE, Slice(0, size)) /\ UNCHANGED mangled
       \/ /\ \E bytes \in {<<>>, <<Junk>>} : Answer(TRUE, bytes)
          /\ mangled' = (mangled \/ start < size)

(* The request, or reading its answer, fails. The goroutine returns and    *)
(* leaves the pipe as it is.                                               *)
RangeError ==
    /\ writer \in {"request", "copy"} /\ upload = "reading"
    /\ writer' = "gone"
    /\ UNCHANGED <<size, start, answer, data, mangled, upload>>

(* io.Copy and UploadData, a byte at a time; UploadData stops reading when *)
(* it has as many bytes as the session was told.                           *)
Copy ==
    /\ writer = "copy" /\ body # <<>>
    /\ upload = "reading" /\ Len(data) < size
    /\ data' = Append(data, Head(body))
    /\ body' = Tail(body)
    /\ UNCHANGED <<size, start, whole, short, mangled, writer, upload>>

IsLast == whole \/ short

(* Mutant: the next range overlaps the one just copied.                    *)
OverlappingRange ==
    /\ writer = "copy" /\ body = <<>>
    /\ \/ IsLast /\ writer' = "closed" /\ UNCHANGED start
       \/ ~IsLast /\ writer' = "request" /\ start' = start + Increment - 1
    /\ UNCHANGED <<size, answer, data, mangled, upload>>

(* An answer known to be shorter than the range, or of another status than *)
(* 206, is the last.                                                       *)
NextRange ==
    /\ writer = "copy" /\ body = <<>>
    /\ \/ IsLast /\ writer' = "closed" /\ UNCHANGED start
       \/ ~IsLast /\ writer' = "request" /\ start' = start + Increment
    /\ UNCHANGED <<size, answer, data, mangled, upload>>

(* UploadData returns: with a file when it has read all, with none at the  *)
(* end of the pipe before that, with an error at any time.                 *)
UploadData ==
    /\ upload = "reading"
    /\ \/ Len(data) = size /\ upload' = "ok"
       \/ Len(data) < size /\ writer = "closed" /\ upload' = "incomplete"
    /\ UNCHANGED <<size, start, answer, data, mangled, writer>>

UploadError ==
    /\ upload = "reading" /\ upload' = "failed"
    /\ UNCHANGED <<size, start, answer, data, mangled, writer>>

(* Nobody will write to the pipe that UploadData reads, or close it.       *)
Stuck == upload = "reading" /\ writer = "gone" /\ Len(data) < size

-----------------------------------------------------------------------------
(* A file accepted by Mattermost is the file in Teams, byte for byte,      *)
(* unless Teams answered a range with something else: the ranges meet.     *)
Intact == upload = "ok" /\ ~mangled => data = [i \in 1..size |-> i - 1]
=============================================================================
