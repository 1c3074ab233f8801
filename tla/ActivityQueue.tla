---------------------------- MODULE ActivityQueue ---------------------------
(***************************************************************************)
(* Change notifications from the webhook to the workers: requests of       *)
(* Microsoft Graph (processActivity) put activities on a bounded channel,  *)
(* workers take them off and handle them, a worker that panics is started  *)
(* again, and Stop closes the channel quit and waits for the workers.      *)
(*                                                                         *)
(* The model starts when Start has returned. It ends when Stop has, or     *)
(* when a panic nobody recovers takes the plugin's process down.           *)
(***************************************************************************)
EXTENDS Integers, Sequences, FiniteSets, SequencesExt

CONSTANTS
    Workers,    \* numberOfWorkers goroutines (50 in the code)
    QueueSize,  \* activityQueueSize (5000 in the code)
    Activities,
    Forged,     \* activities that carry another secret than ours
    Requests,   \* requests of Microsoft Graph
    Batch,      \* the activities of each request
    MaxSends,   \* bound on the times a request is sent
    Panics,     \* handling an activity may panic
    None

ASSUME WorkersAssumption == IsFiniteSet(Workers)
ASSUME RequestsAssumption == IsFiniteSet(Requests)
ASSUME QueueAssumption   == QueueSize \in Nat \ {0} /\ MaxSends \in Nat
ASSUME BatchAssumption   == Batch \in [Requests -> Seq(Activities)] /\ None \notin Activities
ASSUME PanicsAssumption  == Panics \in BOOLEAN

VARIABLES
    queue,   \* the channel of activities
    gauge,   \* the metric of the queue's length
    quit,    \* the channel quit is "open" or "closed"
    worker,  \* what each worker does
    hand,    \* the activity a worker holds
    wg,      \* workersWaitGroup
    process, \* the plugin "runs", has "stopped" or "crashed"
    todo,    \* the activities a request has still to hand over
    request, \* what each request does, and its answer in the end
    errors,  \* the requests an activity of which was refused
    sends,   \* times each request was sent
    taken    \* history: times each activity was taken by a worker

workerVars == <<worker, hand, wg, taken>>
requestVars == <<todo, request, errors, sends>>
vars == <<queue, gauge, quit, process, workerVars, requestVars>>

TypeOK ==
    /\ queue \in Seq(Activities) /\ Len(queue) <= QueueSize
    /\ gauge \in Int
    /\ quit \in {"open", "closed"} /\ process \in {"runs", "stopped", "crashed"}
    /\ worker \in [Workers -> {"select", "decrement", "handle", "stuck",
                               "panicked", "returned", "done"}]
    /\ hand \in [Workers -> Activities \cup {None}]
    /\ wg \in Int
    /\ todo \in [Requests -> Seq(Activities)]
    /\ request \in [Requests -> {"none", "next", "increment", "202", "400"}]
    /\ errors \in SUBSET Requests
    /\ sends \in [Requests -> 0..MaxSends]
    /\ taken \in [Activities -> Nat]

Init ==
    /\ queue = <<>> /\ gauge = 0 /\ quit = "open" /\ process = "runs"
    /\ worker = [w \in Workers |-> "select"]
    /\ hand = [w \in Workers |-> None]
    /\ wg = Cardinality(Workers)
    /\ todo = [r \in Requests |-> <<>>]
    /\ request = [r \in Requests |-> "none"]
    /\ errors = {}
    /\ sends = [r \in Requests |-> 0]
    /\ taken = [a \in Activities |-> 0]

-----------------------------------------------------------------------------
(* Requests.                                                               *)

(* Graph sends a request, or sends it again: it was not accepted, or the   *)
(* answer was lost.                                                        *)
Send(r) ==
    /\ request[r] \in {"none", "400", "202"} /\ sends[r] < MaxSends
    /\ sends' = [sends EXCEPT ![r] = @ + 1]
    /\ todo' = [todo EXCEPT ![r] = Batch[r]]
    /\ errors' = errors \ {r}
    /\ request' = [request EXCEPT ![r] = "next"]
    /\ UNCHANGED <<queue, gauge, quit, process, workerVars>>

Refuse(r) ==
    /\ errors' = errors \cup {r}
    /\ todo' = [todo EXCEPT ![r] = Tail(@)]
    /\ UNCHANGED <<queue, request>>

(* Mutant: a full queue drops the activity without a word.                 *)
HandleSilently(r) ==
    IF Len(queue) < QueueSize
    THEN /\ queue' = Append(queue, Head(todo[r]))
         /\ todo' = [todo EXCEPT ![r] = Tail(@)]
         /\ request' = [request EXCEPT ![r] = "increment"]
         /\ UNCHANGED errors
    ELSE todo' = [todo EXCEPT ![r] = Tail(@)] /\ UNCHANGED <<queue, request, errors>>

(* Mutant: one place more than the channel has.                            *)
HandleOverfull(r) ==
    IF Len(queue) <= QueueSize
    THEN /\ queue' = Append(queue, Head(todo[r]))
         /\ todo' = [todo EXCEPT ![r] = Tail(@)]
         /\ request' = [request EXCEPT ![r] = "increment"]
         /\ UNCHANGED errors
    ELSE Refuse(r)

(* ActivityHandler.Handle, up to the channel: it never blocks.             *)
Handle(r) ==
    IF Len(queue) < QueueSize
    THEN /\ queue' = Append(queue, Head(todo[r]))
         /\ todo' = [todo EXCEPT ![r] = Tail(@)]
         /\ request' = [request EXCEPT ![r] = "increment"]
         /\ UNCHANGED errors
    ELSE Refuse(r)

(* One turn of processActivity's loop.                                     *)
ProcessActivity(r) ==
    /\ request[r] = "next" /\ todo[r] # <<>>
    /\ \/ Head(todo[r]) \in Forged /\ Refuse(r)
       \/ Head(todo[r]) \notin Forged /\ Handle(r)
    /\ UNCHANGED <<gauge, quit, process, workerVars, sends>>

IncrementChangeEventQueueLength(r) ==
    /\ request[r] = "increment"
    /\ gauge' = gauge + 1
    /\ request' = [request EXCEPT ![r] = "next"]
    /\ UNCHANGED <<queue, quit, process, workerVars, todo, errors, sends>>

(* The answer: one activity refused and the whole request is.              *)
Answer(r) ==
    /\ request[r] = "next" /\ todo[r] = <<>>
    /\ request' = [request EXCEPT ![r] = IF r \in errors THEN "400" ELSE "202"]
    /\ UNCHANGED <<queue, gauge, quit, process, workerVars, todo, errors, sends>>

-----------------------------------------------------------------------------
(* Workers.                                                                *)

(* The select of doStart: either case may be taken when both are ready.    *)
TakeActivity(w) ==
    /\ worker[w] = "select" /\ queue # <<>>
    /\ hand' = [hand EXCEPT ![w] = Head(queue)]
    /\ taken' = [taken EXCEPT ![Head(queue)] = @ + 1]
    /\ queue' = Tail(queue)
    /\ worker' = [worker EXCEPT ![w] = "decrement"]
    /\ UNCHANGED <<gauge, quit, process, wg, requestVars>>

SeeQuit(w) ==
    /\ worker[w] = "select" /\ quit = "closed"
    /\ worker' = [worker EXCEPT ![w] = "returned"]
    /\ UNCHANGED <<queue, gauge, quit, process, hand, wg, taken, requestVars>>

(* Mutant: the metric never shows a negative length.                       *)
DecrementToZero(w) ==
    /\ worker[w] = "decrement"
    /\ gauge' = IF gauge > 0 THEN gauge - 1 ELSE gauge
    /\ worker' = [worker EXCEPT ![w] = "handle"]
    /\ UNCHANGED <<queue, quit, process, hand, wg, taken, requestVars>>

DecrementChangeEventQueueLength(w) ==
    /\ worker[w] = "decrement"
    /\ gauge' = gauge - 1
    /\ worker' = [worker EXCEPT ![w] = "handle"]
    /\ UNCHANGED <<queue, quit, process, hand, wg, taken, requestVars>>

(* Mutant: what panicked is put back on the queue.                         *)
RequeueOnPanic(w) ==
    /\ worker[w] = "handle"
    /\ \/ /\ worker' = [worker EXCEPT ![w] = "select"]
          /\ hand' = [hand EXCEPT ![w] = None] /\ UNCHANGED queue
       \/ /\ Panics /\ worker' = [worker EXCEPT ![w] = "panicked"]
          /\ hand' = [hand EXCEPT ![w] = None]
          /\ queue' = IF Len(queue) < QueueSize THEN Append(queue, hand[w]) ELSE queue
       \/ worker' = [worker EXCEPT ![w] = "stuck"] /\ UNCHANGED <<hand, queue>>
    /\ UNCHANGED <<gauge, quit, process, wg, taken, requestVars>>

(* Handling ends, panics, or waits for good in UploadData for a file whose *)
(* stream broke off (see Stuck in Delivery).                               *)
HandleActivity(w) ==
    /\ worker[w] = "handle"
    /\ \/ /\ \/ worker' = [worker EXCEPT ![w] = "select"]
             \/ Panics /\ worker' = [worker EXCEPT ![w] = "panicked"]
          /\ hand' = [hand EXCEPT ![w] = None]
       \/ worker' = [worker EXCEPT ![w] = "stuck"] /\ UNCHANGED hand
    /\ UNCHANGED <<queue, gauge, quit, process, wg, taken, requestVars>>

(* Mutant: a panic ends the worker for good.                               *)
NoRestart(w) ==
    /\ worker[w] \in {"panicked", "returned"}
    /\ worker' = [worker EXCEPT ![w] = "done"] /\ wg' = wg - 1
    /\ process' = IF worker[w] = "panicked" /\ quit = "closed" THEN "crashed" ELSE process
    /\ UNCHANGED <<queue, gauge, quit, hand, taken, requestVars>>

(* Mutant: a worker that panicked while quitting is not counted out.       *)
ForgetDone(w) ==
    /\ worker[w] \in {"panicked", "returned"}
    /\ worker' = [worker EXCEPT ![w] = IF quit = "closed" THEN "done" ELSE "select"]
    /\ UNCHANGED <<queue, gauge, quit, process, hand, wg, taken, requestVars>>

(* Mutant: recover is never called.                                        *)
NeverRecover(w) ==
    /\ worker[w] \in {"panicked", "returned"}
    /\ worker' = [worker EXCEPT ![w] = IF quit = "closed" THEN "done" ELSE "select"]
    /\ wg' = IF quit = "closed" THEN wg - 1 ELSE wg
    /\ process' = IF worker[w] = "panicked" THEN "crashed" ELSE process
    /\ UNCHANGED <<queue, gauge, quit, hand, taken, requestVars>>

(* doRecover, deferred by doRecoverableStart. While quitting it does not   *)
(* call recover: a panic goes on and ends the process.                     *)
DoRecover(w) ==
    /\ worker[w] \in {"panicked", "returned"}
    /\ \/ /\ quit = "closed"
          /\ worker' = [worker EXCEPT ![w] = "done"] /\ wg' = wg - 1
          /\ process' = IF worker[w] = "panicked" THEN "crashed" ELSE process
       \/ /\ quit = "open"
          /\ worker' = [worker EXCEPT ![w] = "select"] /\ UNCHANGED <<wg, process>>
    /\ UNCHANGED <<queue, gauge, quit, hand, taken, requestVars>>

-----------------------------------------------------------------------------
(* Stop: closes quit, then waits.                                          *)
CloseQuit ==
    /\ quit = "open" /\ quit' = "closed"
    /\ UNCHANGED <<queue, gauge, process, workerVars, requestVars>>

(* Mutant: Stop does not wait for the workers.                             *)
ReturnAtOnce ==
    /\ quit = "closed"
    /\ process' = "stopped"
    /\ UNCHANGED <<queue, gauge, quit, workerVars, requestVars>>

Wait ==
    /\ quit = "closed" /\ wg = 0
    /\ process' = "stopped"
    /\ UNCHANGED <<queue, gauge, quit, workerVars, requestVars>>

RequestStep(r) == ProcessActivity(r) \/ IncrementChangeEventQueueLength(r) \/ Answer(r)

WorkerStep(w) ==
    \/ TakeActivity(w) \/ SeeQuit(w) \/ DecrementChangeEventQueueLength(w)
    \/ HandleActivity(w) \/ DoRecover(w)

Next ==
    /\ process = "runs"
    /\ \/ \E r \in Requests : Send(r) \/ RequestStep(r)
       \/ \E w \in Workers : WorkerStep(w)
       \/ CloseQuit \/ Wait

Spec == Init /\ [][Next]_vars

(* Goroutines are scheduled; one that is stuck has no step to take. What a *)
(* request is sent is bounded, so the queue runs dry and the select takes  *)
(* quit.                                                                   *)
FairSpec ==
    /\ Spec
    /\ \A r \in Requests : WF_vars(process = "runs" /\ RequestStep(r))
    /\ \A w \in Workers : WF_vars(process = "runs" /\ WorkerStep(w))
    /\ WF_vars(process = "runs" /\ Wait)

-----------------------------------------------------------------------------
(* The wait group counts the workers that are alive: Done is called once   *)
(* for each, by whichever goroutine runs the worker by then.               *)
Alive == {w \in Workers : worker[w] # "done"}
WaitGroupExact == wg = Cardinality(Alive)

(* Workers only leave when told to: panics do not use up the pool. (A      *)
(* worker that is stuck has not left.)                                     *)
PoolComplete == quit = "open" => \A w \in Workers : worker[w] # "done"

(* No worker is left when Stop has returned.                               *)
StoppedEmpty == process = "stopped" => \A w \in Workers : worker[w] = "done"

(* The gauge is off by the goroutines between the channel and the metric.  *)
Decrementing == {w \in Workers : worker[w] = "decrement"}
Incrementing == {r \in Requests : request[r] = "increment"}
GaugeExact == gauge = Len(queue) + Cardinality(Decrementing) - Cardinality(Incrementing)

(* What Graph sent once is handled at most once: each activity is taken    *)
(* as often as it was sent, or less often.                                 *)
Places(a, s) == {i \in 1..Len(s) : s[i] = a}
Occurrences(a, s) == Cardinality(Places(a, s))
Sendings(a) == UNION {({r} \X (1..sends[r])) \X Places(a, Batch[r]) : r \in Requests}
TakenAsSent ==
    \A a \in Activities : taken[a] + Occurrences(a, queue) <= Cardinality(Sendings(a))

Stuck == {w \in Workers : worker[w] = "stuck"}

(* What was accepted is handled: once a request is answered 202, each of   *)
(* its activities gets to a worker, unless the plugin is stopped, as long  *)
(* as a single worker is left that is not stuck.                           *)
AcceptedTaken ==
    \A r \in Requests :
        request[r] = "202" ~> \/ \A a \in ToSet(Batch[r]) : taken[a] > 0
                              \/ quit = "closed"
                              \/ Stuck = Workers

(* Stop returns, or the process goes down first, or Stop waits for workers *)
(* that are stuck and for no others: all the rest have gone.               *)
StopReturns ==
    quit = "closed" ~> \/ process # "runs"
                       \/ Stuck # {} /\ Alive = Stuck /\ wg = Cardinality(Stuck)

(* A panic of a worker takes the plugin down only when it is stopping      *)
(* anyway: until then each one is recovered and its worker replaced.       *)
CrashOnlyStopping == process = "crashed" => quit = "closed"
=============================================================================
