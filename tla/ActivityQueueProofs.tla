------------------------ MODULE ActivityQueueProofs -------------------------
(***************************************************************************)
(* Theorems about ActivityQueue for any pool of workers, any size of the   *)
(* queue, any batches and any number of requests. A counter is exact       *)
(* because every step that changes a set it counts by one element changes  *)
(* the counter by one: CountUp, CountDown and CountSame say what moving x  *)
(* to the state l does to the number of elements in one of the states X.   *)
(***************************************************************************)
EXTENDS ActivityQueue, FiniteSetTheorems, SequenceTheorems, TLAPS

Counted(f, S, X) == {y \in S : f[y] \in X}
Moves(f, g, x, l) == g = [f EXCEPT ![x] = l]

(* x moves into X.                                                         *)
LEMMA CountUp ==
    ASSUME NEW S, IsFiniteSet(S), NEW f, DOMAIN f = S, NEW g, NEW x \in S, NEW l, NEW X,
           Moves(f, g, x, l), f[x] \notin X, l \in X
    PROVE  Cardinality(Counted(g, S, X)) = Cardinality(Counted(f, S, X)) + 1
<1>1. Counted(g, S, X) = Counted(f, S, X) \cup {x} /\ x \notin Counted(f, S, X)
  BY DEF Counted, Moves
<1>2. IsFiniteSet(Counted(f, S, X))
  BY FS_Subset DEF Counted
<1> QED BY <1>1, <1>2, FS_AddElement

(* x moves out of X.                                                       *)
LEMMA CountDown ==
    ASSUME NEW S, IsFiniteSet(S), NEW f, DOMAIN f = S, NEW g, NEW x \in S, NEW l, NEW X,
           Moves(f, g, x, l), f[x] \in X, l \notin X
    PROVE  Cardinality(Counted(g, S, X)) = Cardinality(Counted(f, S, X)) - 1
<1>1. Counted(g, S, X) = Counted(f, S, X) \ {x} /\ x \in Counted(f, S, X)
  BY DEF Counted, Moves
<1>2. IsFiniteSet(Counted(f, S, X))
  BY FS_Subset DEF Counted
<1> QED BY <1>1, <1>2, FS_RemoveElement

(* x stays inside or outside X.                                            *)
LEMMA CountSame ==
    ASSUME NEW S, NEW f, DOMAIN f = S, NEW g, NEW x \in S, NEW l, NEW X,
           Moves(f, g, x, l), f[x] \in X <=> l \in X
    PROVE  Counted(g, S, X) = Counted(f, S, X)
BY DEF Counted, Moves

-----------------------------------------------------------------------------
(* Every step keeps the types.                                             *)
LEMMA TypingStep == TypeOK /\ [Next]_vars => TypeOK'
<1> SUFFICES ASSUME TypeOK, [Next]_vars PROVE TypeOK'
  OBVIOUS
<1> USE QueueAssumption, BatchAssumption DEF TypeOK, workerVars, requestVars, vars
<1>1. ASSUME NEW r \in Requests, Send(r) PROVE TypeOK'
  BY <1>1 DEF Send
<1>2. ASSUME NEW r \in Requests, ProcessActivity(r) PROVE TypeOK'
  <2>1. /\ Head(todo[r]) \in Activities /\ Tail(todo[r]) \in Seq(Activities)
    BY <1>2, HeadTailProperties DEF ProcessActivity
  <2>2. CASE Refuse(r)
    BY <1>2, <2>1, <2>2 DEF ProcessActivity, Refuse
  <2>3. CASE Handle(r) /\ Len(queue) < QueueSize
    <3>1. /\ Append(queue, Head(todo[r])) \in Seq(Activities)
          /\ Len(Append(queue, Head(todo[r]))) = Len(queue) + 1
      BY <2>1, AppendProperties
    <3>2. Len(queue) \in Nat
      BY LenProperties
    <3>3. /\ queue' = Append(queue, Head(todo[r]))
          /\ todo' = [todo EXCEPT ![r] = Tail(@)]
          /\ request' = [request EXCEPT ![r] = "increment"]
          /\ UNCHANGED <<errors, gauge, quit, process, workerVars, sends>>
      BY <1>2, <2>3 DEF ProcessActivity, Handle
    <3>4. queue' \in Seq(Activities) /\ Len(queue') <= QueueSize
      BY <2>3, <3>1, <3>2, <3>3
    <3> QED BY <2>1, <3>3, <3>4
  <2>4. Refuse(r) \/ (Handle(r) /\ Len(queue) < QueueSize)
    BY <1>2 DEF ProcessActivity, Handle
  <2> QED BY <2>2, <2>3, <2>4
<1>3. ASSUME NEW r \in Requests, IncrementChangeEventQueueLength(r) PROVE TypeOK'
  BY <1>3 DEF IncrementChangeEventQueueLength
<1>4. ASSUME NEW r \in Requests, Answer(r) PROVE TypeOK'
  BY <1>4 DEF Answer
<1>5. ASSUME NEW w \in Workers, TakeActivity(w) PROVE TypeOK'
  <2>1. /\ Head(queue) \in Activities /\ Tail(queue) \in Seq(Activities)
        /\ Len(Tail(queue)) = Len(queue) - 1 /\ Len(queue) \in Nat
    BY <1>5, HeadTailProperties, LenProperties DEF TakeActivity
  <2> QED BY <1>5, <2>1 DEF TakeActivity
<1>6. ASSUME NEW w \in Workers, SeeQuit(w) PROVE TypeOK'
  BY <1>6 DEF SeeQuit
<1>7. ASSUME NEW w \in Workers, DecrementChangeEventQueueLength(w) PROVE TypeOK'
  BY <1>7 DEF DecrementChangeEventQueueLength
<1>8. ASSUME NEW w \in Workers, HandleActivity(w) PROVE TypeOK'
  BY <1>8 DEF HandleActivity
<1>9. ASSUME NEW w \in Workers, DoRecover(w) PROVE TypeOK'
  <2>1. CASE quit = "closed"
    <3>1. /\ worker' = [worker EXCEPT ![w] = "done"] /\ wg' = wg - 1
          /\ UNCHANGED <<queue, gauge, quit, hand, taken, requestVars>>
      BY <1>9, <2>1 DEF DoRecover
    <3>2. process' \in {"runs", "stopped", "crashed"}
      BY <1>9, <2>1 DEF DoRecover
    <3> QED BY <3>1, <3>2
  <2>2. CASE quit = "open"
    BY <1>9, <2>2 DEF DoRecover
  <2> QED BY <2>1, <2>2
<1>10. CASE CloseQuit
  BY <1>10 DEF CloseQuit
<1>11. CASE Wait
  BY <1>11 DEF Wait
<1>12. CASE UNCHANGED vars
  BY <1>12
<1> QED BY <1>1, <1>2, <1>3, <1>4, <1>5, <1>6, <1>7, <1>8, <1>9, <1>10, <1>11, <1>12
        DEF Next, RequestStep, WorkerStep

(* The counters after a step, from the sets before it: Live are the states *)
(* of a worker that is alive.                                              *)
Live == {"select", "decrement", "handle", "stuck", "panicked", "returned"}
NAlive == Cardinality(Counted(worker, Workers, Live))
NDec == Cardinality(Counted(worker, Workers, {"decrement"}))
NInc == Cardinality(Counted(request, Requests, {"increment"}))
Exact == wg = NAlive /\ gauge = Len(queue) + NDec - NInc

(* The counters are exact, in terms of these sets.                         *)
LEMMA Counters ==
    ASSUME TypeOK
    PROVE  /\ NDec \in Nat /\ NInc \in Nat /\ Len(queue) \in Nat
           /\ Exact <=> WaitGroupExact /\ GaugeExact
<1>1. /\ Alive = Counted(worker, Workers, Live)
      /\ Decrementing = Counted(worker, Workers, {"decrement"})
      /\ Incrementing = Counted(request, Requests, {"increment"})
  BY DEF Alive, Decrementing, Incrementing, Counted, Live, TypeOK
<1>2. Decrementing \in SUBSET Workers /\ Incrementing \in SUBSET Requests
  BY DEF Decrementing, Incrementing
<1>3. IsFiniteSet(Decrementing) /\ IsFiniteSet(Incrementing)
  BY <1>2, WorkersAssumption, RequestsAssumption, FS_Subset
<1>4. NDec \in Nat /\ NInc \in Nat
  BY <1>1, <1>3, FS_CardinalityType DEF NDec, NInc
<1>5. Len(queue) \in Nat
  BY LenProperties DEF TypeOK
<1> QED BY <1>1, <1>4, <1>5 DEF Exact, WaitGroupExact, GaugeExact, NAlive, NDec, NInc

(* What the move of a worker does to the two counts of workers.            *)
LEMMA WorkerMoves ==
    ASSUME TypeOK, NEW w \in Workers, NEW l, Moves(worker, worker', w, l)
    PROVE  /\ worker[w] \in Live /\ l \in Live => NAlive' = NAlive
           /\ worker[w] \in Live /\ l \notin Live => NAlive' = NAlive - 1
           /\ worker[w] # "decrement" /\ l = "decrement" => NDec' = NDec + 1
           /\ worker[w] = "decrement" /\ l # "decrement" => NDec' = NDec - 1
           /\ worker[w] # "decrement" /\ l # "decrement" => NDec' = NDec
<1>1. DOMAIN worker = Workers /\ IsFiniteSet(Workers)
  BY WorkersAssumption DEF TypeOK
<1>2. ASSUME worker[w] \in Live, l \in Live PROVE NAlive' = NAlive
  BY <1>1, <1>2, CountSame DEF NAlive
<1>3. ASSUME worker[w] \in Live, l \notin Live PROVE NAlive' = NAlive - 1
  BY <1>1, <1>3, CountDown DEF NAlive
<1> DEFINE D == {"decrement"}
<1>4. NDec = Cardinality(Counted(worker, Workers, D)) /\ NDec' = Cardinality(Counted(worker', Workers, D))
  BY DEF NDec
<1> HIDE DEF D
<1>5. ASSUME worker[w] \notin D, l \in D PROVE NDec' = NDec + 1
  BY <1>1, <1>4, <1>5, CountUp
<1>6. ASSUME worker[w] \in D, l \notin D PROVE NDec' = NDec - 1
  BY <1>1, <1>4, <1>6, CountDown
<1>7. ASSUME worker[w] \notin D, l \notin D PROVE NDec' = NDec
  BY <1>1, <1>4, <1>7, CountSame
<1> QED BY <1>2, <1>3, <1>5, <1>6, <1>7 DEF D

(* What the move of a request does to the count of requests.               *)
LEMMA RequestMoves ==
    ASSUME TypeOK, NEW r \in Requests, NEW l, Moves(request, request', r, l)
    PROVE  /\ request[r] # "increment" /\ l = "increment" => NInc' = NInc + 1
           /\ request[r] = "increment" /\ l # "increment" => NInc' = NInc - 1
           /\ request[r] # "increment" /\ l # "increment" => NInc' = NInc
<1>1. DOMAIN request = Requests /\ IsFiniteSet(Requests)
  BY RequestsAssumption DEF TypeOK
<1> DEFINE D == {"increment"}
<1>2. NInc = Cardinality(Counted(request, Requests, D)) /\ NInc' = Cardinality(Counted(request', Requests, D))
  BY DEF NInc
<1> HIDE DEF D
<1>3. ASSUME request[r] \notin D, l \in D PROVE NInc' = NInc + 1
  BY <1>1, <1>2, <1>3, CountUp
<1>4. ASSUME request[r] \in D, l \notin D PROVE NInc' = NInc - 1
  BY <1>1, <1>2, <1>4, CountDown
<1>5. ASSUME request[r] \notin D, l \notin D PROVE NInc' = NInc
  BY <1>1, <1>2, <1>5, CountSame
<1> QED BY <1>3, <1>4, <1>5 DEF D

(* Every step keeps both counters exact.                                   *)
LEMMA CountStep == TypeOK /\ Exact /\ [Next]_vars => Exact'
<1> SUFFICES ASSUME TypeOK, Exact, [Next]_vars PROVE Exact'
  OBVIOUS
<1>1. /\ NDec \in Nat /\ NInc \in Nat /\ Len(queue) \in Nat /\ wg \in Int
      /\ wg = NAlive /\ gauge = Len(queue) + NDec - NInc
  BY Counters DEF Exact, TypeOK
<1>2. worker' = worker => NAlive' = NAlive /\ NDec' = NDec
  BY DEF NAlive, NDec
<1>3. request' = request => NInc' = NInc
  BY DEF NInc
<1>11. ASSUME NEW r \in Requests, Send(r) PROVE Exact'
  <2>1. Moves(request, request', r, "next") /\ request[r] # "increment"
    BY <1>11 DEF Send, Moves
  <2>2. UNCHANGED <<worker, wg, gauge, queue>>
    BY <1>11 DEF Send, workerVars
  <2> QED BY <1>1, <1>2, <2>1, <2>2, RequestMoves DEF Exact
<1>12. ASSUME NEW r \in Requests, ProcessActivity(r) PROVE Exact'
  <2>1. UNCHANGED <<worker, wg, gauge>> /\ request[r] = "next"
    BY <1>12 DEF ProcessActivity, workerVars
  <2>2. CASE Refuse(r)
    BY <1>1, <1>2, <1>3, <2>1, <2>2 DEF Refuse, Exact
  <2>3. CASE Handle(r) /\ Len(queue) < QueueSize
    <3>1. queue' = Append(queue, Head(todo[r])) /\ Moves(request, request', r, "increment")
      BY <2>3 DEF Handle, Moves
    <3>2. Head(todo[r]) \in Activities
      BY <1>12, HeadTailProperties DEF ProcessActivity, TypeOK
    <3>3. Len(queue') = Len(queue) + 1
      BY <3>1, <3>2, AppendProperties DEF TypeOK
    <3> QED BY <1>1, <1>2, <2>1, <3>1, <3>3, RequestMoves DEF Exact
  <2> QED BY <1>12, <2>2, <2>3 DEF ProcessActivity, Handle
<1>13. ASSUME NEW r \in Requests, IncrementChangeEventQueueLength(r) PROVE Exact'
  <2>1. Moves(request, request', r, "next") /\ request[r] = "increment"
    BY <1>13 DEF IncrementChangeEventQueueLength, Moves
  <2>2. UNCHANGED <<worker, wg, queue>> /\ gauge' = gauge + 1
    BY <1>13 DEF IncrementChangeEventQueueLength, workerVars
  <2> QED BY <1>1, <1>2, <2>1, <2>2, RequestMoves DEF Exact
<1>14. ASSUME NEW r \in Requests, Answer(r) PROVE Exact'
  <2>1. PICK l \in {"202", "400"} : Moves(request, request', r, l)
    BY <1>14 DEF Answer, Moves
  <2>2. UNCHANGED <<worker, wg, queue, gauge>> /\ request[r] # "increment"
    BY <1>14 DEF Answer, workerVars
  <2> QED BY <1>1, <1>2, <2>1, <2>2, RequestMoves DEF Exact
<1>15. ASSUME NEW w \in Workers, TakeActivity(w) PROVE Exact'
  <2>1. Len(queue') = Len(queue) - 1
    BY <1>15, HeadTailProperties DEF TakeActivity, TypeOK
  <2>2. Moves(worker, worker', w, "decrement") /\ worker[w] = "select"
    BY <1>15 DEF TakeActivity, Moves
  <2>3. UNCHANGED <<wg, gauge, request>>
    BY <1>15 DEF TakeActivity, requestVars
  <2>4. NAlive' = NAlive /\ NDec' = NDec + 1
    BY <2>2, WorkerMoves DEF Live
  <2> QED BY <1>1, <1>3, <2>1, <2>3, <2>4 DEF Exact
<1>16. ASSUME NEW w \in Workers, SeeQuit(w) PROVE Exact'
  <2>1. Moves(worker, worker', w, "returned") /\ worker[w] = "select"
    BY <1>16 DEF SeeQuit, Moves
  <2>2. UNCHANGED <<wg, gauge, request, queue>>
    BY <1>16 DEF SeeQuit, requestVars
  <2> QED BY <1>1, <1>3, <2>1, <2>2, WorkerMoves DEF Exact, Live
<1>17. ASSUME NEW w \in Workers, DecrementChangeEventQueueLength(w) PROVE Exact'
  <2>1. Moves(worker, worker', w, "handle") /\ worker[w] = "decrement"
    BY <1>17 DEF DecrementChangeEventQueueLength, Moves
  <2>2. UNCHANGED <<wg, request, queue>> /\ gauge' = gauge - 1
    BY <1>17 DEF DecrementChangeEventQueueLength, requestVars
  <2> QED BY <1>1, <1>3, <2>1, <2>2, WorkerMoves DEF Exact, Live
<1>18. ASSUME NEW w \in Workers, HandleActivity(w) PROVE Exact'
  <2>1. PICK l \in {"select", "panicked", "stuck"} : Moves(worker, worker', w, l)
    BY <1>18 DEF HandleActivity, Moves
  <2>2. UNCHANGED <<wg, gauge, request, queue>> /\ worker[w] = "handle"
    BY <1>18 DEF HandleActivity, requestVars
  <2> QED BY <1>1, <1>3, <2>1, <2>2, WorkerMoves DEF Exact, Live
<1>19. ASSUME NEW w \in Workers, DoRecover(w) PROVE Exact'
  <2>1. worker[w] \in {"panicked", "returned"} /\ UNCHANGED <<gauge, request, queue>>
    BY <1>19 DEF DoRecover, requestVars
  <2>2. CASE Moves(worker, worker', w, "done") /\ wg' = wg - 1
    BY <1>1, <1>3, <2>1, <2>2, WorkerMoves DEF Exact, Live
  <2>3. CASE Moves(worker, worker', w, "select") /\ wg' = wg
    BY <1>1, <1>3, <2>1, <2>3, WorkerMoves DEF Exact, Live
  <2> QED BY <1>19, <2>2, <2>3 DEF DoRecover, Moves
<1>20. CASE CloseQuit \/ Wait \/ UNCHANGED vars
  BY <1>1, <1>2, <1>3, <1>20 DEF CloseQuit, Wait, vars, workerVars, requestVars, Exact
<1> QED BY <1>11, <1>12, <1>13, <1>14, <1>15, <1>16, <1>17, <1>18, <1>19, <1>20
        DEF Next, RequestStep, WorkerStep

(* Workers leave only after quit was closed, which stays closed; Stop      *)
(* returns when the wait group, and so the number of workers left, is 0.   *)
LEMMA LeaveStep ==
    TypeOK /\ WaitGroupExact /\ PoolComplete /\ StoppedEmpty /\ [Next]_vars
        => PoolComplete' /\ StoppedEmpty'
<1> SUFFICES ASSUME TypeOK, WaitGroupExact, PoolComplete, StoppedEmpty, [Next]_vars
             PROVE PoolComplete' /\ StoppedEmpty'
  OBVIOUS
<1> USE DEF TypeOK, PoolComplete, StoppedEmpty, workerVars, requestVars, vars
<1>1. ASSUME process = "runs", NEW w \in Workers, WorkerStep(w)
      PROVE PoolComplete' /\ StoppedEmpty'
  <2>1. CASE TakeActivity(w)
    BY <1>1, <2>1 DEF TakeActivity
  <2>2. CASE SeeQuit(w)
    BY <1>1, <2>2 DEF SeeQuit
  <2>3. CASE DecrementChangeEventQueueLength(w)
    BY <1>1, <2>3 DEF DecrementChangeEventQueueLength
  <2>4. CASE HandleActivity(w)
    BY <1>1, <2>4 DEF HandleActivity
  <2>5. CASE DoRecover(w)
    BY <1>1, <2>5 DEF DoRecover
  <2> QED BY <1>1, <2>1, <2>2, <2>3, <2>4, <2>5 DEF WorkerStep
<1>2. ASSUME process = "runs", NEW r \in Requests, Send(r) \/ RequestStep(r)
      PROVE PoolComplete' /\ StoppedEmpty'
  BY <1>2 DEF Send, RequestStep, ProcessActivity, IncrementChangeEventQueueLength, Answer
<1>3. CASE process = "runs" /\ CloseQuit
  BY <1>3 DEF CloseQuit
<1>4. CASE process = "runs" /\ Wait
  <2>1. Cardinality(Alive) = 0 /\ Alive \in SUBSET Workers
    BY <1>4 DEF Wait, WaitGroupExact, Alive
  <2>2. Alive = {}
    BY <2>1, WorkersAssumption, FS_Subset, FS_EmptySet
  <2> QED BY <1>4, <2>2 DEF Wait, Alive
<1>5. CASE UNCHANGED vars
  BY <1>5
<1> QED BY <1>1, <1>2, <1>3, <1>4, <1>5 DEF Next

IInv == TypeOK /\ WaitGroupExact /\ GaugeExact /\ PoolComplete /\ StoppedEmpty

(* All workers wait, nothing is queued.                                    *)
LEMMA InitIInv == Init => IInv
<1> SUFFICES ASSUME Init PROVE IInv
  OBVIOUS
<1>1. Cardinality(Workers) \in Nat
  BY WorkersAssumption, FS_CardinalityType
<1>2. TypeOK
  BY <1>1, QueueAssumption, EmptySeq DEF Init, TypeOK
<1>3. Alive = Workers /\ Decrementing = {} /\ Incrementing = {}
  BY DEF Init, Alive, Decrementing, Incrementing
<1>4. WaitGroupExact /\ GaugeExact
  BY <1>3, FS_EmptySet, EmptySeq DEF Init, WaitGroupExact, GaugeExact
<1> QED BY <1>2, <1>4 DEF Init, IInv, PoolComplete, StoppedEmpty

(* The invariant holds of every behaviour.                                 *)
LEMMA Invariance == Spec => []IInv
<1>1. IInv /\ [Next]_vars => IInv'
  <2> SUFFICES ASSUME IInv, [Next]_vars PROVE IInv'
    OBVIOUS
  <2>1. TypeOK /\ TypeOK'
    BY TypingStep DEF IInv
  <2>2. Exact
    BY Counters DEF IInv
  <2>3. Exact'
    BY <2>1, <2>2, CountStep
  <2>4. TypeOK' => (Exact' <=> WaitGroupExact' /\ GaugeExact')
    BY Counters, PTL
  <2>5. PoolComplete' /\ StoppedEmpty'
    BY LeaveStep DEF IInv
  <2> QED BY <2>1, <2>3, <2>4, <2>5 DEF IInv
<1> QED BY InitIInv, <1>1, PTL DEF Spec

-----------------------------------------------------------------------------
(* Every variable keeps its type; the channel never holds more than its    *)
(* capacity.                                                               *)
THEOREM TypeCorrect == Spec => []TypeOK
<1>1. IInv => TypeOK
  BY DEF IInv
<1> QED BY <1>1, Invariance, PTL

(* The wait group counts the workers that are alive, through any panics    *)
(* and restarts.                                                           *)
THEOREM WaitGroupExactHolds == Spec => []WaitGroupExact
<1>1. IInv => WaitGroupExact
  BY DEF IInv
<1> QED BY <1>1, Invariance, PTL

(* Until quit is closed the pool has all its workers, however often they   *)
(* panic.                                                                  *)
THEOREM PoolCompleteHolds == Spec => []PoolComplete
<1>1. IInv => PoolComplete
  BY DEF IInv
<1> QED BY <1>1, Invariance, PTL

(* When Stop has returned no worker is left.                               *)
THEOREM StoppedEmptyHolds == Spec => []StoppedEmpty
<1>1. IInv => StoppedEmpty
  BY DEF IInv
<1> QED BY <1>1, Invariance, PTL

(* A panic takes the plugin down only when it is stopping anyway.          *)
THEOREM CrashOnlyStoppingHolds == Spec => []CrashOnlyStopping
<1>1. Init => CrashOnlyStopping
  BY DEF Init, CrashOnlyStopping
<1>2. CrashOnlyStopping /\ [Next]_vars => CrashOnlyStopping'
  <2> SUFFICES ASSUME CrashOnlyStopping, [Next]_vars PROVE CrashOnlyStopping'
    OBVIOUS
  <2> USE DEF CrashOnlyStopping
  <2>1. ASSUME NEW w \in Workers, DoRecover(w) PROVE CrashOnlyStopping'
    BY <2>1 DEF DoRecover
  <2>2. ASSUME NEW w \in Workers, WorkerStep(w), ~DoRecover(w) PROVE CrashOnlyStopping'
    BY <2>2 DEF WorkerStep, TakeActivity, SeeQuit, DecrementChangeEventQueueLength, HandleActivity
  <2>3. ASSUME NEW r \in Requests, Send(r) \/ RequestStep(r) PROVE CrashOnlyStopping'
    BY <2>3 DEF RequestStep, Send, Refuse, Handle, ProcessActivity,
                IncrementChangeEventQueueLength, Answer, workerVars, requestVars
  <2>4. CASE CloseQuit \/ Wait
    BY <2>4 DEF CloseQuit, Wait
  <2>5. CASE UNCHANGED vars
    BY <2>5 DEF vars
  <2> QED BY <2>1, <2>2, <2>3, <2>4, <2>5 DEF Next
<1> QED BY <1>1, <1>2, PTL DEF Spec

(* The gauge is off by exactly the goroutines between the channel and the  *)
(* metric.                                                                 *)
THEOREM GaugeExactHolds == Spec => []GaugeExact
<1>1. IInv => GaugeExact
  BY DEF IInv
<1> QED BY <1>1, Invariance, PTL

-----------------------------------------------------------------------------
(* Handed(a) are the sendings of a that processActivity is done with: all  *)
(* of the requests sent before, and those of the last one that are no      *)
(* longer to do. What was taken or is queued is not more than these.       *)

Remaining(r) == Len(Batch[r]) - Len(todo[r])

Handed(a) ==
    {s \in Sendings(a) : s[1][2] = sends[s[1][1]] => s[2] <= Remaining(s[1][1])}

(* What a request has to do is the end of its batch, and nothing unless it *)
(* was sent and is not answered.                                           *)
EndOf(t, s) ==
    Len(t) <= Len(s) /\ \A j \in 1..Len(t) : t[j] = s[Len(s) - Len(t) + j]
ToDo ==
    \A r \in Requests :
        /\ EndOf(todo[r], Batch[r])
        /\ request[r] \notin {"next", "increment"} => Len(todo[r]) = 0
        /\ request[r] \in {"next", "increment"} => sends[r] > 0

Bounded ==
    \A a \in Activities : taken[a] + Occurrences(a, queue) <= Cardinality(Handed(a))

(* The places of a in a sequence are finitely many.                        *)
LEMMA PlacesFinite ==
  ASSUME NEW S, NEW s \in Seq(S), NEW a
  PROVE  IsFiniteSet(Places(a, s)) /\ Occurrences(a, s) \in Nat
<1>1. Len(s) \in Nat
  OBVIOUS
<1>2. IsFiniteSet(1..Len(s))
  BY <1>1, FS_Interval
<1>3. Places(a, s) \in SUBSET (1..Len(s))
  BY DEF Places
<1>4. IsFiniteSet(Places(a, s))
  BY <1>2, <1>3, FS_Subset
<1> QED BY <1>4, FS_CardinalityType DEF Occurrences

(* An element appended is one occurrence more of itself.                   *)
LEMMA OccurrencesAppend ==
  ASSUME NEW S, NEW s \in Seq(S), NEW x \in S, NEW a
  PROVE  Occurrences(a, Append(s, x)) = Occurrences(a, s) + (IF x = a THEN 1 ELSE 0)
<1>1. /\ Len(s) \in Nat /\ Len(Append(s, x)) = Len(s) + 1
      /\ \A i \in 1..Len(s) : Append(s, x)[i] = s[i]
      /\ Append(s, x)[Len(s) + 1] = x
  OBVIOUS
<1>2. Places(a, Append(s, x)) = Places(a, s) \cup (IF x = a THEN {Len(s) + 1} ELSE {})
  BY <1>1 DEF Places
<1>3. Len(s) + 1 \notin Places(a, s)
  BY <1>1 DEF Places
<1>4. IsFiniteSet(Places(a, s)) /\ Cardinality(Places(a, s)) \in Nat
  BY PlacesFinite DEF Occurrences
<1>5. CASE x = a
  BY <1>2, <1>3, <1>4, <1>5, FS_AddElement DEF Occurrences
<1>6. CASE x # a
  <2>1. Places(a, Append(s, x)) = Places(a, s)
    BY <1>2, <1>6
  <2> QED BY <1>4, <1>6, <2>1 DEF Occurrences
<1> QED BY <1>5, <1>6

(* The first element taken off is one occurrence less of itself.           *)
LEMMA OccurrencesTail ==
  ASSUME NEW S, NEW s \in Seq(S), s # <<>>, NEW a
  PROVE  Occurrences(a, Tail(s)) + (IF Head(s) = a THEN 1 ELSE 0) = Occurrences(a, s)
<1>1. /\ Len(s) \in Nat /\ Len(s) >= 1 /\ Tail(s) \in Seq(S) /\ Len(Tail(s)) = Len(s) - 1
      /\ \A i \in 1..Len(s) - 1 : Tail(s)[i] = s[i + 1]
      /\ Head(s) = s[1]
  OBVIOUS
<1> DEFINE P == Places(a, Tail(s))
           Q == Places(a, s) \ {1}
           f == [i \in P |-> i + 1]
<1>2. IsFiniteSet(P) /\ IsFiniteSet(Places(a, s)) /\ Cardinality(Places(a, s)) \in Nat
  BY <1>1, PlacesFinite DEF Occurrences
<1>3. P \subseteq Nat /\ \A i \in P : i + 1 \in Q
  BY <1>1 DEF Places
<1>4. \A j \in Q : j - 1 \in P /\ j \in Nat
  BY <1>1 DEF Places
<1>5. f \in Bijection(P, Q)
  <2>1. f \in [P -> Q]
    BY <1>3
  <2>2. \A i, j \in P : f[i] = f[j] => i = j
    BY <1>3
  <2>3. \A j \in Q : \E i \in P : f[i] = j
    <3> SUFFICES ASSUME NEW j \in Q PROVE \E i \in P : f[i] = j
      OBVIOUS
    <3>1. j - 1 \in P /\ f[j - 1] = j
      BY <1>4
    <3> QED BY <3>1
  <2> QED BY <2>1, <2>2, <2>3 DEF Bijection, Injection, Surjection, IsInjective
<1>6. Cardinality(Q) = Cardinality(P)
  BY <1>2, <1>5, FS_Bijection DEF ExistsBijection
<1>7. 1 \in Places(a, s) <=> Head(s) = a
  BY <1>1 DEF Places
<1> HIDE DEF P, Q
<1>8. Cardinality(Q) = IF Head(s) = a THEN Cardinality(Places(a, s)) - 1 ELSE Cardinality(Places(a, s))
  BY <1>2, <1>7, FS_RemoveElement DEF Q
<1> QED BY <1>2, <1>6, <1>8 DEF Occurrences, P

(* Graph has sent finitely many.                                           *)
LEMMA SendingsFinite ==
  ASSUME TypeOK, NEW a
  PROVE  /\ IsFiniteSet(Sendings(a)) /\ Cardinality(Sendings(a)) \in Nat
         /\ IsFiniteSet(Handed(a)) /\ Cardinality(Handed(a)) \in Nat
         /\ Cardinality(Handed(a)) <= Cardinality(Sendings(a))
<1> DEFINE Of == [r \in Requests |-> ({r} \X (1..sends[r])) \X Places(a, Batch[r])]
           All == {Of[r] : r \in Requests}
<1>1. \A r \in Requests : IsFiniteSet(Of[r])
  <2> SUFFICES ASSUME NEW r \in Requests PROVE IsFiniteSet(Of[r])
    OBVIOUS
  <2>1. sends[r] \in Nat /\ Batch[r] \in Seq(Activities)
    BY QueueAssumption, BatchAssumption DEF TypeOK
  <2>2. IsFiniteSet({r}) /\ IsFiniteSet(1..sends[r]) /\ IsFiniteSet(Places(a, Batch[r]))
    <3>1. 1 \in Int /\ sends[r] \in Int
      BY <2>1
    <3>2. IsFiniteSet(1..sends[r])
      BY <3>1, FS_Interval
    <3>3. IsFiniteSet(Places(a, Batch[r]))
      BY <2>1, PlacesFinite
    <3> QED BY <3>2, <3>3, FS_Singleton
  <2>3. IsFiniteSet({r} \X (1..sends[r]))
    BY <2>2, FS_Product
  <2>4. IsFiniteSet(({r} \X (1..sends[r])) \X Places(a, Batch[r]))
    BY <2>2, <2>3, FS_Product
  <2> QED BY <2>4
<1>2. IsFiniteSet(All)
  <2>1. Of \in Surjection(Requests, All)
    BY DEF Surjection
  <2> QED BY <2>1, RequestsAssumption, FS_Surjection
<1>3. Sendings(a) = UNION All
  BY DEF Sendings
<1>4. IsFiniteSet(Sendings(a))
  <2>1. \A T \in All : IsFiniteSet(T)
    BY <1>1
  <2> HIDE DEF All
  <2> QED BY <1>2, <1>3, <2>1, FS_UNION
<1>5. Handed(a) \in SUBSET Sendings(a)
  BY DEF Handed
<1> QED BY <1>4, <1>5, FS_Subset, FS_CardinalityType

(* The same of the next state.                                             *)
LEMMA HandedFiniteThen == TypeOK' => (\A a \in Activities : IsFiniteSet(Handed(a)))'
<1>1. TypeOK => \A a \in Activities : IsFiniteSet(Handed(a))
  BY SendingsFinite
<1> QED BY <1>1, PTL

(* Who is among the sendings handed over.                                  *)
LEMMA HandedIs ==
  ASSUME TypeOK, NEW a, NEW s
  PROVE  s \in Handed(a) <=>
            \E r \in Requests : \E n \in 1..sends[r], i \in Places(a, Batch[r]) :
                s = <<<<r, n>>, i>> /\ (n = sends[r] => i <= Remaining(r))
BY DEF Handed, Sendings

(* One less to do is one more done.                                        *)
LEMMA Shift ==
  ASSUME NEW n \in Int, NEW m \in Int, NEW j \in Int
  PROVE  /\ n - (m - 1) + j = n - m + (j + 1) /\ n - (m - 1) = n - m + 1
         /\ 1 <= m /\ m <= n => n - m + 1 \in 1..n
OBVIOUS

(* Ends of a sequence.                                                     *)
LEMMA Ends ==
  ASSUME NEW S, NEW s \in Seq(S)
  PROVE  /\ EndOf(s, s)
         /\ \A t \in Seq(S) : EndOf(t, s) /\ t # <<>> =>
                EndOf(Tail(t), s) /\ Head(t) = s[Len(s) - Len(t) + 1]
<1>1. Len(s) \in Nat
  OBVIOUS
<1>2. EndOf(s, s)
  <2>1. \A j \in Nat : Len(s) - Len(s) + j = j
    BY <1>1
  <2> QED BY <1>1, <2>1 DEF EndOf
<1>3. ASSUME NEW t \in Seq(S), EndOf(t, s), t # <<>>
      PROVE  EndOf(Tail(t), s) /\ Head(t) = s[Len(s) - Len(t) + 1]
  <2>1. /\ Len(t) \in Nat /\ Len(t) >= 1 /\ Head(t) = t[1] /\ Len(Tail(t)) = Len(t) - 1
        /\ \A j \in 1..Len(t) - 1 : Tail(t)[j] = t[j + 1]
    BY <1>3
  <2>2. Len(t) <= Len(s) /\ \A j \in 1..Len(t) : t[j] = s[Len(s) - Len(t) + j]
    BY <1>3 DEF EndOf
  <2>3. ASSUME NEW j \in 1..Len(Tail(t)) PROVE Tail(t)[j] = s[Len(s) - Len(Tail(t)) + j]
    <3>1. j \in 1..Len(t) - 1 /\ j + 1 \in 1..Len(t)
      BY <2>1
    <3>2. Len(s) - Len(Tail(t)) + j = Len(s) - Len(t) + (j + 1)
      <4>1. Len(s) \in Int /\ Len(t) \in Int /\ j \in Int
        BY <1>1, <2>1, <3>1
      <4>2. Len(s) - (Len(t) - 1) + j = Len(s) - Len(t) + (j + 1)
        BY <4>1, Shift
      <4> QED BY <2>1, <4>2, Zenon
    <3>3. Tail(t)[j] = t[j + 1]
      BY <2>1, <3>1
    <3>4. t[j + 1] = s[Len(s) - Len(t) + (j + 1)]
      BY <2>2, <3>1
    <3> QED BY <3>2, <3>3, <3>4
  <2>4. Len(Tail(t)) <= Len(s)
    BY <1>1, <2>1, <2>2
  <2>5. Head(t) = s[Len(s) - Len(t) + 1]
    BY <2>1, <2>2
  <2> QED BY <2>3, <2>4, <2>5 DEF EndOf
<1> QED BY <1>2, <1>3

(* What a request has to do stays the end of its batch.                    *)
LEMMA ToDoStep == TypeOK /\ ToDo /\ [Next]_vars => ToDo'
<1> SUFFICES ASSUME TypeOK, ToDo, [Next]_vars PROVE ToDo'
  OBVIOUS
<1> USE DEF ToDo
<1>1. \A r \in Requests : Batch[r] \in Seq(Activities) /\ EndOf(Batch[r], Batch[r])
  BY BatchAssumption, Ends
<1>2. ASSUME NEW r \in Requests, Send(r) PROVE ToDo'
  <2>1. /\ todo' = [todo EXCEPT ![r] = Batch[r]] /\ request' = [request EXCEPT ![r] = "next"]
        /\ sends' = [sends EXCEPT ![r] = @ + 1] /\ sends[r] \in Nat
    BY <1>2, QueueAssumption DEF Send, TypeOK
  <2>2. sends[r] + 1 > 0
    BY <2>1
  <2> QED BY <1>1, <2>1, <2>2 DEF TypeOK
<1>3. ASSUME NEW r \in Requests, ProcessActivity(r) PROVE ToDo'
  <2>1. /\ todo[r] \in Seq(Activities) /\ todo[r] # <<>> /\ request[r] = "next"
        /\ todo' = [todo EXCEPT ![r] = Tail(todo[r])] /\ sends' = sends
        /\ \/ request' = request
           \/ request' = [request EXCEPT ![r] = "increment"]
    BY <1>3 DEF ProcessActivity, Handle, Refuse, TypeOK
  <2>2. EndOf(Tail(todo[r]), Batch[r])
    BY <1>1, <2>1, Ends
  <2>3. todo[r]' = Tail(todo[r]) /\ sends[r] > 0 /\ request[r]' \in {"next", "increment"}
    BY <2>1 DEF TypeOK
  <2>4. \A q \in Requests : q # r => todo[q]' = todo[q] /\ request[q]' = request[q]
    BY <2>1 DEF TypeOK
  <2>5. ASSUME NEW q \in Requests
        PROVE  /\ EndOf(todo[q]', Batch[q])
               /\ request[q]' \notin {"next", "increment"} => Len(todo[q]') = 0
               /\ request[q]' \in {"next", "increment"} => sends[q]' > 0
    <3>1. CASE q = r
      BY <2>1, <2>2, <2>3, <3>1
    <3>2. CASE q # r
      BY <2>1, <2>4, <3>2
    <3> QED BY <3>1, <3>2
  <2> QED BY <2>5
<1>4. ASSUME NEW r \in Requests, IncrementChangeEventQueueLength(r) PROVE ToDo'
  BY <1>4 DEF IncrementChangeEventQueueLength, TypeOK
<1>5. ASSUME NEW r \in Requests, Answer(r) PROVE ToDo'
  BY <1>5 DEF Answer, TypeOK
<1>6. CASE UNCHANGED requestVars
  BY <1>6 DEF requestVars
<1> QED BY <1>2, <1>3, <1>4, <1>5, <1>6
        DEF Next, RequestStep, WorkerStep, TakeActivity, SeeQuit, HandleActivity, DoRecover,
            DecrementChangeEventQueueLength, CloseQuit, Wait, vars

(* What was handed over stays so.                                          *)
LEMMA HandedGrows ==
  ASSUME TypeOK, TypeOK', ToDo, NEW a,
         \/ UNCHANGED <<sends, todo>>
         \/ \E r \in Requests : Send(r) \/ ProcessActivity(r)
  PROVE  Handed(a) \subseteq Handed(a)'
<1> SUFFICES ASSUME NEW s \in Handed(a) PROVE s \in Handed(a)'
  OBVIOUS
<1>1. PICK r \in Requests : \E n \in 1..sends[r], i \in Places(a, Batch[r]) :
                s = <<<<r, n>>, i>> /\ (n = sends[r] => i <= Remaining(r))
  BY HandedIs
<1>2. PICK n \in 1..sends[r], i \in Places(a, Batch[r]) :
                s = <<<<r, n>>, i>> /\ (n = sends[r] => i <= Remaining(r))
  BY <1>1
<1>3. /\ sends[r] \in Nat /\ Len(Batch[r]) \in Nat /\ Len(todo[r]) \in Nat
      /\ i \in 1..Len(Batch[r]) /\ i \in Nat
  BY QueueAssumption, BatchAssumption DEF TypeOK, Places
<1>4. n \in 1..sends[r]' /\ (n = sends[r]' => i <= Remaining(r)')
  <2>1. CASE UNCHANGED <<sends, todo>>
    BY <1>2, <2>1 DEF Remaining
  <2>2. ASSUME NEW q \in Requests, Send(q) PROVE n \in 1..sends[r]' /\ (n = sends[r]' => i <= Remaining(r)')
    <3>1. CASE q = r
      <4>1. sends[r]' = sends[r] + 1
        BY <2>2, <3>1 DEF Send, TypeOK
      <4> QED BY <1>3, <4>1
    <3>2. CASE q # r
      BY <1>2, <1>3, <2>2, <3>2 DEF Send, TypeOK, Remaining
    <3> QED BY <3>1, <3>2
  <2>3. ASSUME NEW q \in Requests, ProcessActivity(q) PROVE n \in 1..sends[r]' /\ (n = sends[r]' => i <= Remaining(r)')
    <3>1. /\ sends' = sends /\ todo' = [todo EXCEPT ![q] = Tail(todo[q])]
          /\ todo[q] \in Seq(Activities) /\ todo[q] # <<>>
      BY <2>3 DEF ProcessActivity, Handle, Refuse, TypeOK
    <3>2. Len(Tail(todo[q])) = Len(todo[q]) - 1
      BY <3>1
    <3>3. Remaining(r)' = IF q = r THEN Remaining(r) + 1 ELSE Remaining(r)
      <4>1. Len(todo[q]) \in Nat /\ Len(Batch[q]) \in Nat
        BY <3>1, BatchAssumption
      <4>2. todo[r]' = IF q = r THEN Tail(todo[q]) ELSE todo[r]
        BY <3>1 DEF TypeOK
      <4>3. CASE q = r
        <5>1. Remaining(r)' = Len(Batch[r]) - (Len(todo[r]) - 1)
          BY <3>2, <4>2, <4>3 DEF Remaining
        <5>2. Len(Batch[r]) \in Int /\ Len(todo[r]) \in Int
          BY <4>1, <4>3
        <5>3. Len(Batch[r]) - (Len(todo[r]) - 1) = Len(Batch[r]) - Len(todo[r]) + 1
          BY <5>2, Shift
        <5> QED BY <4>3, <5>1, <5>3 DEF Remaining
      <4>4. CASE q # r
        BY <4>2, <4>4 DEF Remaining
      <4> QED BY <4>3, <4>4
    <3>4. Remaining(r) \in Int
      BY <1>3 DEF Remaining
    <3> HIDE DEF Remaining
    <3> QED BY <1>2, <1>3, <3>1, <3>3, <3>4
  <2> QED BY <2>1, <2>2, <2>3
<1>5. \E p \in Requests : \E m \in 1..sends[p]', j \in Places(a, Batch[p]) :
          s = <<<<p, m>>, j>> /\ (m = sends[p]' => j <= Remaining(p)')
  BY <1>2, <1>4
<1>6. TypeOK' => (s \in Handed(a)' <=>
          \E p \in Requests : \E m \in 1..sends[p]', j \in Places(a, Batch[p]) :
              s = <<<<p, m>>, j>> /\ (m = sends[p]' => j <= Remaining(p)'))
  BY DEF Handed, Sendings
<1> QED BY <1>5, <1>6

(* What is put on the queue is one sending more.                           *)
LEMMA HandedOne ==
  ASSUME TypeOK, TypeOK', ToDo, NEW r \in Requests, ProcessActivity(r), NEW a,
         Head(todo[r]) = a
  PROVE  Cardinality(Handed(a)') >= Cardinality(Handed(a)) + 1
<1> DEFINE i == Remaining(r) + 1
           x == <<<<r, sends[r]>>, i>>
<1>1. /\ sends' = sends /\ todo' = [todo EXCEPT ![r] = Tail(todo[r])]
      /\ todo[r] \in Seq(Activities) /\ todo[r] # <<>> /\ request[r] = "next"
  BY DEF ProcessActivity, Handle, Refuse, TypeOK
<1>2. /\ Len(Tail(todo[r])) = Len(todo[r]) - 1 /\ Len(todo[r]) \in Nat /\ Len(todo[r]) >= 1
      /\ Head(todo[r]) = todo[r][1] /\ Len(Batch[r]) \in Nat
      /\ sends[r] \in Nat /\ sends[r] > 0 /\ Len(todo[r]) <= Len(Batch[r])
  BY <1>1, QueueAssumption, BatchAssumption DEF ToDo, EndOf, TypeOK
<1>3. a = Batch[r][i] /\ i \in 1..Len(Batch[r]) /\ Remaining(r)' = i
  <2>1. EndOf(todo[r], Batch[r]) /\ Batch[r] \in Seq(Activities)
    BY BatchAssumption DEF ToDo
  <2>2. a = Batch[r][i]
    BY <1>1, <2>1, Ends DEF Remaining
  <2>3. todo[r]' = Tail(todo[r])
    BY <1>1 DEF TypeOK
  <2>4. Len(Batch[r]) - (Len(todo[r]) - 1) = Len(Batch[r]) - Len(todo[r]) + 1
    BY <1>2, Shift
  <2>5. Remaining(r)' = i
    BY <1>2, <2>3, <2>4, Zenon DEF Remaining
  <2>6. i \in 1..Len(Batch[r])
    <3>1. Len(Batch[r]) - Len(todo[r]) + 1 \in 1..Len(Batch[r])
      <4>1. /\ Len(Batch[r]) \in Int /\ Len(todo[r]) \in Int
            /\ 1 <= Len(todo[r]) /\ Len(todo[r]) <= Len(Batch[r])
        BY <1>2
      <4> HIDE DEF i
      <4> QED BY <4>1, Shift, Zenon
    <3> QED BY <3>1, Zenon DEF Remaining
  <2> QED BY <2>2, <2>5, <2>6
<1>4. i \in Places(a, Batch[r])
  BY <1>3 DEF Places
<1>5. x \notin Handed(a)
  <2>1. ~(i <= Remaining(r))
    BY <1>2 DEF Remaining
  <2> HIDE DEF i
  <2> QED BY <2>1 DEF Handed
<1>6. x \in Handed(a)'
  <2> HIDE DEF i
  <2>1. sends[r]' = sends[r] /\ sends[r] \in 1..sends[r]' /\ i <= Remaining(r)'
    BY <1>1, <1>2, <1>3
  <2>2. x \in Sendings(a)'
    BY <1>4, <2>1 DEF Sendings
  <2> QED BY <2>1, <2>2 DEF Handed
<1>7. Handed(a) \cup {x} \in SUBSET Handed(a)'
  BY <1>6, HandedGrows
<1>8. IsFiniteSet(Handed(a)) /\ Cardinality(Handed(a)) \in Nat
  BY SendingsFinite
<1>9. IsFiniteSet(Handed(a)')
  <2>1. TypeOK' => (\A b \in Activities : IsFiniteSet(Handed(b)))'
    BY HandedFiniteThen
  <2>2. a \in Activities
    BY <1>1
  <2> QED BY <2>1, <2>2
<1> HIDE DEF x
<1>10. Cardinality(Handed(a) \cup {x}) = Cardinality(Handed(a)) + 1
  BY <1>5, <1>8, FS_AddElement
<1>11. Cardinality(Handed(a) \cup {x}) <= Cardinality(Handed(a)')
  BY <1>7, <1>9, FS_Subset
<1> QED BY <1>10, <1>11

(* Nothing is taken or queued that was not handed over.                    *)
LEMMA BoundedStep == TypeOK /\ TypeOK' /\ ToDo /\ Bounded /\ [Next]_vars => Bounded'
<1> SUFFICES ASSUME TypeOK, TypeOK', ToDo, Bounded, [Next]_vars, NEW a \in Activities
             PROVE  taken'[a] + Occurrences(a, queue') <= Cardinality(Handed(a)')
  BY DEF Bounded
<1>1. /\ taken[a] \in Nat /\ Occurrences(a, queue) \in Nat
      /\ taken[a] + Occurrences(a, queue) <= Cardinality(Handed(a))
  BY PlacesFinite DEF Bounded, TypeOK
<1>2. IsFiniteSet(Handed(a)') /\ Cardinality(Handed(a)) \in Nat
  BY HandedFiniteThen, SendingsFinite
<1>3. Cardinality(Handed(a)') \in Nat
  BY <1>2, FS_CardinalityType
<1>4. ASSUME Handed(a) \subseteq Handed(a)' PROVE Cardinality(Handed(a)) <= Cardinality(Handed(a)')
  BY <1>2, <1>4, FS_Subset
<1>5. CASE \E r \in Requests : Send(r)
  <2>1. Handed(a) \subseteq Handed(a)' /\ UNCHANGED <<taken, queue>>
    BY <1>5, HandedGrows DEF Send, workerVars
  <2> QED BY <1>1, <1>2, <1>3, <1>4, <2>1
<1>6. ASSUME NEW r \in Requests, ProcessActivity(r)
      PROVE  taken'[a] + Occurrences(a, queue') <= Cardinality(Handed(a)')
  <2>1. Handed(a) \subseteq Handed(a)' /\ taken' = taken
    BY <1>6, HandedGrows DEF ProcessActivity, workerVars
  <2>2. CASE queue' = queue
    BY <1>1, <1>2, <1>3, <1>4, <2>1, <2>2
  <2>3. CASE queue' = Append(queue, Head(todo[r]))
    <3>1. Head(todo[r]) \in Activities /\ queue \in Seq(Activities)
      BY <1>6, HeadTailProperties DEF ProcessActivity, TypeOK
    <3>2. Occurrences(a, queue') = Occurrences(a, queue) + (IF Head(todo[r]) = a THEN 1 ELSE 0)
      BY <2>3, <3>1, OccurrencesAppend
    <3>3. CASE Head(todo[r]) = a
      <4>1. Cardinality(Handed(a)') >= Cardinality(Handed(a)) + 1
        BY <1>6, <3>3, HandedOne
      <4> QED BY <1>1, <1>2, <1>3, <2>1, <3>2, <3>3, <4>1
    <3>4. CASE Head(todo[r]) # a
      BY <1>1, <1>2, <1>3, <1>4, <2>1, <3>2, <3>4
    <3> QED BY <3>3, <3>4
  <2> QED BY <1>6, <2>2, <2>3 DEF ProcessActivity, Handle, Refuse
<1>7. ASSUME NEW w \in Workers, TakeActivity(w)
      PROVE  taken'[a] + Occurrences(a, queue') <= Cardinality(Handed(a)')
  <2>1. Handed(a) \subseteq Handed(a)'
    BY <1>7, HandedGrows DEF TakeActivity, requestVars
  <2>2. /\ queue \in Seq(Activities) /\ queue # <<>> /\ queue' = Tail(queue)
        /\ taken' = [taken EXCEPT ![Head(queue)] = @ + 1]
    BY <1>7 DEF TakeActivity, TypeOK
  <2>3. Occurrences(a, queue') + (IF Head(queue) = a THEN 1 ELSE 0) = Occurrences(a, queue)
    BY <2>2, OccurrencesTail
  <2>4. taken'[a] = taken[a] + (IF Head(queue) = a THEN 1 ELSE 0)
    BY <2>2, <1>1 DEF TypeOK
  <2>5. queue' \in Seq(Activities)
    BY DEF TypeOK
  <2>6. Occurrences(a, queue') \in Nat
    BY <2>5, PlacesFinite
  <2> QED BY <1>1, <1>2, <1>3, <1>4, <2>1, <2>3, <2>4, <2>6
<1>8. CASE UNCHANGED <<queue, taken, sends, todo>>
  <2>1. Handed(a) \subseteq Handed(a)'
    BY <1>8, HandedGrows
  <2> QED BY <1>1, <1>2, <1>3, <1>4, <1>8, <2>1
<1> QED
  BY <1>5, <1>6, <1>7, <1>8
     DEF Next, RequestStep, WorkerStep, IncrementChangeEventQueueLength, Answer, SeeQuit,
         HandleActivity, DoRecover, DecrementChangeEventQueueLength, CloseQuit, Wait, vars,
         workerVars, requestVars

(* Nothing is taken more often than it was sent, through any repetitions,  *)
(* refusals and panics.                                                    *)
THEOREM TakenAsSentHolds == Spec => []TakenAsSent
<1>1. Init => ToDo /\ Bounded
  <2> SUFFICES ASSUME Init PROVE ToDo /\ Bounded
    OBVIOUS
  <2>1. TypeOK
    BY InitIInv DEF IInv
  <2>2. ToDo
    <3>1. \A r \in Requests : Len(Batch[r]) \in Nat
      BY BatchAssumption
    <3> QED BY <3>1 DEF Init, ToDo, EndOf
  <2>3. \A a \in Activities : taken[a] = 0 /\ Occurrences(a, queue) = 0
    <3>1. \A a \in Activities : Places(a, <<>>) = {}
      BY DEF Places
    <3> QED BY <3>1, FS_EmptySet DEF Init, Occurrences
  <2>4. \A a \in Activities : Cardinality(Handed(a)) \in Nat
    BY <2>1, SendingsFinite
  <2> QED BY <2>2, <2>3, <2>4 DEF Bounded
<1>2. TypeOK /\ ToDo /\ Bounded /\ [Next]_vars => ToDo' /\ Bounded'
  BY TypingStep, ToDoStep, BoundedStep
<1>3. TypeOK /\ Bounded => TakenAsSent
  <2> SUFFICES ASSUME TypeOK, Bounded, NEW a \in Activities
               PROVE  taken[a] + Occurrences(a, queue) <= Cardinality(Sendings(a))
    BY DEF TakenAsSent
  <2>1. /\ taken[a] \in Nat /\ Occurrences(a, queue) \in Nat
        /\ Cardinality(Handed(a)) \in Nat /\ Cardinality(Sendings(a)) \in Nat
        /\ Cardinality(Handed(a)) <= Cardinality(Sendings(a))
    BY PlacesFinite, SendingsFinite DEF TypeOK
  <2>2. taken[a] + Occurrences(a, queue) <= Cardinality(Handed(a))
    BY DEF Bounded
  <2> QED BY <2>1, <2>2
<1> QED BY <1>1, <1>2, <1>3, TypeCorrect, PTL DEF Spec
-----------------------------------------------------------------------------
(* Activities a worker has taken or will find on the queue.                *)
Reached == {a \in Activities : taken[a] > 0 \/ a \in ToSet(queue)}

(* What a request was sent has reached the queue or is still to do, until  *)
(* the first of its activities is refused; what is forged never gets there.*)
Accounted ==
    /\ Reached \cap Forged = {}
    /\ \A r \in Requests :
          /\ request[r] # "none" /\ r \notin errors =>
                ToSet(Batch[r]) \subseteq Reached \cup ToSet(todo[r])
          /\ request[r] = "202" => r \notin errors /\ todo[r] = <<>>

(* The elements of a sequence without its first, and with one more.        *)
LEMMA Elements ==
  ASSUME NEW S, NEW s \in Seq(S)
  PROVE  /\ \A x \in S : ToSet(Append(s, x)) = ToSet(s) \cup {x}
         /\ s # <<>> => Head(s) \in S /\ ToSet(s) = ToSet(Tail(s)) \cup {Head(s)}
         /\ ToSet(s) \subseteq S
<1> USE DEF ToSet
<1>0. Len(s) \in Nat /\ DOMAIN s = 1..Len(s)
  OBVIOUS
<1>1. ASSUME NEW x \in S PROVE ToSet(Append(s, x)) = ToSet(s) \cup {x}
  <2>1. /\ DOMAIN Append(s, x) = 1..Len(s) + 1
        /\ \A i \in 1..Len(s) : Append(s, x)[i] = s[i]
        /\ Append(s, x)[Len(s) + 1] = x
    OBVIOUS
  <2> QED BY <1>0, <2>1
<1>2. ASSUME s # <<>> PROVE Head(s) \in S /\ ToSet(s) = ToSet(Tail(s)) \cup {Head(s)}
  <2>1. /\ Len(s) >= 1 /\ Head(s) = s[1] /\ s[1] \in S
        /\ DOMAIN Tail(s) = 1..Len(s) - 1
        /\ \A i \in 1..Len(s) - 1 : Tail(s)[i] = s[i + 1]
    BY <1>2
  <2>2. ASSUME NEW i \in 1..Len(s) PROVE s[i] \in ToSet(Tail(s)) \cup {Head(s)}
    <3>1. CASE i = 1
      BY <2>1, <3>1
    <3>2. CASE i # 1
      <4>1. i - 1 \in 1..Len(s) - 1 /\ Tail(s)[i - 1] = s[i]
        BY <1>0, <2>1, <3>2
      <4> QED BY <2>1, <4>1
    <3> QED BY <3>1, <3>2
  <2>3. ASSUME NEW i \in 1..Len(s) - 1 PROVE Tail(s)[i] \in ToSet(s)
    BY <1>0, <2>1
  <2> QED BY <1>0, <2>1, <2>2, <2>3
<1>3. ToSet(s) \subseteq S
  BY <1>0
<1> QED BY <1>1, <1>2, <1>3

(* No step loses what has reached the queue.                               *)
LEMMA AccountedStep == TypeOK /\ TypeOK' /\ Accounted /\ [Next]_vars => Accounted'
<1> SUFFICES ASSUME TypeOK, TypeOK', Accounted, [Next]_vars PROVE Accounted'
  OBVIOUS
<1>0. queue \in Seq(Activities) /\ \A a \in Activities : taken[a] \in Nat
  BY DEF TypeOK
<1>r. ASSUME UNCHANGED <<taken, queue>> PROVE Reached' = Reached
  BY <1>r DEF Reached
<1>1. ASSUME NEW r \in Requests, Send(r) PROVE Accounted'
  BY <1>1, <1>r DEF Send, workerVars, Accounted, TypeOK
<1>2. ASSUME NEW r \in Requests, ProcessActivity(r) PROVE Accounted'
  <2> DEFINE x == Head(todo[r])
  <2>1. /\ request[r] = "next" /\ todo[r] \in Seq(Activities) /\ todo[r] # <<>>
        /\ todo' = [todo EXCEPT ![r] = Tail(todo[r])] /\ taken' = taken
    BY <1>2 DEF ProcessActivity, Handle, Refuse, TypeOK, workerVars
  <2>2. x \in Activities /\ ToSet(todo[r]) = ToSet(todo[r]') \cup {x}
    <3>1. todo[r]' = Tail(todo[r])
      BY <2>1 DEF TypeOK
    <3> QED BY <2>1, <3>1, Elements
  <2>3. \A q \in Requests : q # r => todo[q]' = todo[q] /\ (request[q]' = request[q])
    BY <1>2, <2>1 DEF ProcessActivity, Handle, Refuse, TypeOK
  <2> HIDE DEF x
  <2>4. CASE Refuse(r)
    <3>1. Reached' = Reached /\ errors' = errors \cup {r} /\ request' = request
      BY <1>r, <2>1, <2>4 DEF Refuse
    <3> QED BY <2>1, <2>3, <3>1 DEF Accounted
  <2>5. CASE /\ x \notin Forged /\ queue' = Append(queue, x)
             /\ request' = [request EXCEPT ![r] = "increment"] /\ errors' = errors
    <3>1. Reached' = Reached \cup {x}
      <4>1. ToSet(queue') = ToSet(queue) \cup {x}
        BY <1>0, <2>2, <2>5, Elements
      <4> QED BY <2>1, <2>2, <4>1 DEF Reached
    <3>2. request[r]' = "increment"
      BY <2>5 DEF TypeOK
    <3> QED BY <2>1, <2>2, <2>3, <2>5, <3>1, <3>2 DEF Accounted
  <2> QED BY <1>2, <2>4, <2>5 DEF ProcessActivity, Handle, x
<1>3. ASSUME NEW r \in Requests, IncrementChangeEventQueueLength(r) PROVE Accounted'
  BY <1>3, <1>r DEF IncrementChangeEventQueueLength, workerVars, Accounted, TypeOK
<1>4. ASSUME NEW r \in Requests, Answer(r) PROVE Accounted'
  BY <1>4, <1>r DEF Answer, workerVars, Accounted, TypeOK
<1>5. ASSUME NEW w \in Workers, TakeActivity(w) PROVE Accounted'
  <2>1. /\ queue # <<>> /\ queue' = Tail(queue)
        /\ taken' = [taken EXCEPT ![Head(queue)] = @ + 1]
    BY <1>5 DEF TakeActivity
  <2>2. Head(queue) \in Activities /\ ToSet(queue) = ToSet(queue') \cup {Head(queue)}
    BY <1>0, <2>1, Elements
  <2>3. taken'[Head(queue)] > 0 /\ \A a \in Activities : a # Head(queue) => taken'[a] = taken[a]
    BY <1>0, <2>1, <2>2 DEF TypeOK
  <2>4. Reached' = Reached
    BY <2>2, <2>3 DEF Reached
  <2> QED BY <1>5, <2>4 DEF TakeActivity, requestVars, Accounted
<1>6. CASE UNCHANGED <<taken, queue, requestVars>>
  BY <1>6, <1>r DEF requestVars, Accounted
<1> QED BY <1>1, <1>2, <1>3, <1>4, <1>5, <1>6
        DEF Next, RequestStep, WorkerStep, SeeQuit, HandleActivity, DoRecover,
            DecrementChangeEventQueueLength, CloseQuit, Wait, vars, workerVars

(* So every activity is accounted for throughout.                          *)
LEMMA AccountedInvariant == Spec => []Accounted
<1>1. Init => Accounted
  BY DEF Init, Accounted, Reached, ToSet
<1>2. TypeOK /\ Accounted /\ [Next]_vars => Accounted'
  BY TypingStep, AccountedStep
<1> QED BY <1>1, <1>2, TypeCorrect, PTL DEF Spec

(* A request answered 202 has every one of its activities taken by a       *)
(* worker or waiting on the queue (api.go, processActivity): no refusal,   *)
(* panic or repetition loses one, though the worker may not get to it      *)
(* before Stop. That a worker takes it is the liveness AcceptedTaken.      *)
THEOREM NothingAcceptedLost ==
    Spec => [](\A r \in Requests : request[r] = "202" =>
                  \A a \in ToSet(Batch[r]) : taken[a] > 0 \/ a \in ToSet(queue))
<1>1. TypeOK /\ Accounted => \A r \in Requests : request[r] = "202" =>
                  \A a \in ToSet(Batch[r]) : taken[a] > 0 \/ a \in ToSet(queue)
  <2>1. ToSet(<<>>) = {}
    BY DEF ToSet
  <2> QED BY <2>1 DEF Accounted, Reached
<1> QED BY AccountedInvariant, TypeCorrect, <1>1, PTL

(* An activity with another secret than ours never gets to a worker, nor   *)
(* is a request accepted that has one (api.go, processActivity), whatever  *)
(* good activities share its request.                                      *)
THEOREM ForgedRefused ==
    Spec => [](/\ \A a \in Activities \cap Forged : taken[a] = 0 /\ a \notin ToSet(queue)
               /\ \A r \in Requests : request[r] = "202" => ToSet(Batch[r]) \cap Forged = {})
<1>1. TypeOK /\ Accounted =>
         /\ \A a \in Activities \cap Forged : taken[a] = 0 /\ a \notin ToSet(queue)
         /\ \A r \in Requests : request[r] = "202" => ToSet(Batch[r]) \cap Forged = {}
  <2> SUFFICES ASSUME TypeOK, Accounted
               PROVE  /\ \A a \in Activities \cap Forged : taken[a] = 0 /\ a \notin ToSet(queue)
                      /\ \A r \in Requests : request[r] = "202" => ToSet(Batch[r]) \cap Forged = {}
    OBVIOUS
  <2>1. \A a \in Activities \cap Forged : taken[a] = 0 /\ a \notin ToSet(queue)
    BY DEF TypeOK, Accounted, Reached
  <2>2. ToSet(<<>>) = {}
    BY DEF ToSet
  <2> QED BY <2>1, <2>2 DEF Accounted
<1> QED BY AccountedInvariant, TypeCorrect, <1>1, PTL

(* The wait group never goes below zero, which would panic, and while it   *)
(* is not zero there is a worker left that Stop waits for (worker.go,      *)
(* doRecover; handlers.go, Stop): it never waits for nobody.               *)
THEOREM WaitsForSomebody ==
    Spec => [](/\ wg \in 0..Cardinality(Workers)
               /\ wg > 0 <=> \E w \in Workers : worker[w] # "done")
<1>1. IInv => /\ wg \in 0..Cardinality(Workers)
              /\ wg > 0 <=> \E w \in Workers : worker[w] # "done"
  <2> SUFFICES ASSUME WaitGroupExact
               PROVE  /\ wg \in 0..Cardinality(Workers)
                      /\ wg > 0 <=> \E w \in Workers : worker[w] # "done"
    BY DEF IInv
  <2>1. /\ IsFiniteSet(Workers) /\ Alive \subseteq Workers /\ IsFiniteSet(Alive)
        /\ Cardinality(Alive) <= Cardinality(Workers)
    BY WorkersAssumption, FS_Subset DEF Alive
  <2>2. Cardinality(Alive) \in Nat /\ Cardinality(Workers) \in Nat
    BY <2>1, FS_CardinalityType
  <2>3. Cardinality(Alive) = 0 <=> Alive = {}
    BY <2>1, FS_EmptySet
  <2> QED BY <2>1, <2>2, <2>3 DEF WaitGroupExact, Alive
<1> QED BY Invariance, <1>1, PTL

(* The reverse of StopReturns: a worker that waits for a broken stream     *)
(* (attachments.go, UploadData) does so for good, and while it does Stop   *)
(* does not return. Only the end of the process, by a panic, frees it.     *)
THEOREM StuckHoldsStop ==
    Spec => [][\A w \in Workers : worker[w] = "stuck" =>
                  worker'[w] = "stuck" /\ hand'[w] = hand[w] /\ process' # "stopped"]_vars
<1>1. IInv /\ [Next]_vars =>
        [\A w \in Workers : worker[w] = "stuck" =>
            worker'[w] = "stuck" /\ hand'[w] = hand[w] /\ process' # "stopped"]_vars
  <2> SUFFICES ASSUME TypeOK, WaitGroupExact, Next, NEW w \in Workers, worker[w] = "stuck"
               PROVE  worker'[w] = "stuck" /\ hand'[w] = hand[w] /\ process' # "stopped"
    BY DEF IInv
  <2>0. process = "runs" /\ w \in Alive
    BY DEF Next, Alive
  <2>1. ASSUME NEW v \in Workers, WorkerStep(v)
        PROVE  worker'[w] = "stuck" /\ hand'[w] = hand[w] /\ process' # "stopped"
    <3>1. v # w
      BY <2>1 DEF WorkerStep, TakeActivity, SeeQuit, DecrementChangeEventQueueLength,
                  HandleActivity, DoRecover
    <3>2. worker'[w] = worker[w] /\ hand'[w] = hand[w]
      BY <2>1, <3>1 DEF WorkerStep, TakeActivity, SeeQuit, DecrementChangeEventQueueLength,
                        HandleActivity, DoRecover, TypeOK
    <3>3. process' # "stopped"
      BY <2>0, <2>1 DEF WorkerStep, TakeActivity, SeeQuit, DecrementChangeEventQueueLength,
                        HandleActivity, DoRecover
    <3> QED BY <3>2, <3>3
  <2>2. ASSUME NEW r \in Requests, Send(r) \/ RequestStep(r)
        PROVE  worker'[w] = "stuck" /\ hand'[w] = hand[w] /\ process' # "stopped"
    BY <2>0, <2>2 DEF Send, RequestStep, ProcessActivity, IncrementChangeEventQueueLength,
                      Answer, workerVars
  <2>3. CASE CloseQuit
    BY <2>0, <2>3 DEF CloseQuit, workerVars
  <2>4. CASE Wait
    <3>1. Alive \in SUBSET Workers /\ Cardinality(Alive) = 0
      BY <2>4 DEF Wait, WaitGroupExact, Alive
    <3>2. Alive = {}
      BY <3>1, WorkersAssumption, FS_Subset, FS_EmptySet
    <3> QED BY <2>0, <3>2
  <2> QED BY <2>1, <2>2, <2>3, <2>4 DEF Next
<1> QED BY Invariance, <1>1, PTL DEF Spec
=============================================================================
