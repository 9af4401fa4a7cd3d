--------------------------- MODULE ThreadPool_proofs ---------------------------
(***************************************************************************)
(* For any number of threads and operations: no operation runs twice, the  *)
(* io_service does not stop under one that was posted while it ran, the    *)
(* first WaitAsync returns with nothing left to run, and the pool          *)
(* implements the promise of AsyncOps.                                     *)
(***************************************************************************)
EXTENDS ThreadPool, SequenceTheorems, TLAPS

-------------------------------------------------------------------------------
(* The queue *)

Distinct(s) == \A i, j \in DOMAIN s : s[i] = s[j] => i = j

\* Posting adds one handler to the queue, and no duplicate if it was not there.
LEMMA QueueAppend ==
  ASSUME NEW S, NEW s \in Seq(S), NEW e \in S
  PROVE  /\ Append(s, e) \in Seq(S)
         /\ ToSet(Append(s, e)) = ToSet(s) \cup {e}
         /\ Distinct(s) /\ e \notin ToSet(s) => Distinct(Append(s, e))
<1>1. /\ Append(s, e) \in Seq(S)
      /\ Len(s) \in Nat
      /\ DOMAIN s = 1..Len(s)
      /\ DOMAIN Append(s, e) = 1..(Len(s) + 1)
      /\ Append(s, e)[Len(s) + 1] = e
      /\ \A i \in 1..Len(s) : Append(s, e)[i] = s[i]
  BY AppendProperties, LenProperties
<1>2. ToSet(Append(s, e)) = ToSet(s) \cup {e}
  BY <1>1 DEF ToSet
<1>3. ASSUME Distinct(s), e \notin ToSet(s) PROVE Distinct(Append(s, e))
  BY <1>1, <1>3 DEF ToSet, Distinct
<1> QED BY <1>1, <1>2, <1>3

\* Taking removes exactly the handler at the head.
LEMMA QueueTail ==
  ASSUME NEW S, NEW s \in Seq(S), s # <<>>
  PROVE  /\ Head(s) \in S
         /\ Tail(s) \in Seq(S)
         /\ ToSet(s) = ToSet(Tail(s)) \cup {Head(s)}
         /\ Distinct(s) => Distinct(Tail(s)) /\ Head(s) \notin ToSet(Tail(s))
<1>1. /\ Head(s) \in S /\ Head(s) = s[1]
      /\ Tail(s) \in Seq(S)
      /\ Len(s) \in Nat \ {0}
      /\ DOMAIN s = 1..Len(s)
      /\ DOMAIN Tail(s) = 1..(Len(s) - 1)
      /\ \A i \in 1..(Len(s) - 1) : Tail(s)[i] = s[i + 1]
  BY HeadTailProperties, LenProperties, ElementOfSeq, EmptySeq
<1>2. ToSet(s) = ToSet(Tail(s)) \cup {Head(s)}
  <2>1. ASSUME NEW x \in ToSet(s) PROVE x \in ToSet(Tail(s)) \cup {Head(s)}
    <3>1. PICK i \in 1..Len(s) : x = s[i]
      BY <1>1 DEF ToSet
    <3>2. CASE i = 1
      BY <1>1, <3>1, <3>2
    <3>3. CASE i # 1
      <4>1. i - 1 \in 1..(Len(s) - 1) /\ Tail(s)[i - 1] = s[i]
        BY <1>1, <3>3
      <4> QED BY <1>1, <3>1, <4>1 DEF ToSet
    <3> QED BY <3>2, <3>3
  <2>2. ASSUME NEW x \in ToSet(Tail(s)) PROVE x \in ToSet(s)
    BY <1>1, <2>2 DEF ToSet
  <2>3. Head(s) \in ToSet(s)
    BY <1>1 DEF ToSet
  <2> QED BY <2>1, <2>2, <2>3
<1>3. ASSUME Distinct(s) PROVE Distinct(Tail(s)) /\ Head(s) \notin ToSet(Tail(s))
  BY <1>1, <1>3 DEF ToSet, Distinct
<1> QED BY <1>1, <1>2, <1>3

LEMMA QueueEmpty == ToSet(<<>>) = {} /\ Distinct(<<>>)
BY DEF ToSet, Distinct

-------------------------------------------------------------------------------
(* The inductive invariant *)

\* A thread that is not in io_service::run executes nothing, and a thread
\* leaves only when the service has stopped.
ThreadsInv ==
    /\ \A w \in Workers : thread[w] # "up" => current[w] = NoTask
    /\ \A w \in Workers : thread[w] = "exited" => stopped

\* Operations are posted to threads that exist, and are then in the pool until
\* the process exits.
PostedInv ==
    /\ Created = {} => early = {}
    /\ owner # "gone" => early \subseteq Posted
    /\ owner = "gone" => AllExited

\* While the process is not exiting, the service stops only inside a JoinAll
\* that finds threads; until the first of them has returned, a stopped service
\* has nothing queued or running.
StopInv ==
    owner \in {"free", "joining"} =>
        /\ guard => Created # {}
        /\ stopped => Created # {}
        /\ ~guard /\ Created # {} /\ ~joined => owner = "joining"
        /\ stopped /\ ~joined => owner = "joining" /\ queue = <<>> /\ Running = {}

\* What the queue of boost's io_service provides: a handler is waiting once, or
\* held by one thread, or finished.
RunsOnce ==
    /\ \A i, j \in DOMAIN queue : queue[i] = queue[j] => i = j
    /\ \A v, w \in Workers : current[v] = current[w] /\ v # w => current[v] = NoTask
    /\ ToSet(queue) \cap (Running \cup done) = {}
    /\ Running \cap done = {}

PoolIInv ==
    /\ PoolTypeOK
    /\ RunsOnce
    /\ ThreadsInv
    /\ PostedInv
    /\ EarlyNotStranded
    /\ StopInv

LEMMA PoolInitInv == PoolAssumption /\ PoolInit => PoolIInv
<1> SUFFICES ASSUME PoolAssumption, PoolInit PROVE PoolIInv
  OBVIOUS
<1>1. Running = {} /\ Created = {} /\ ToSet(queue) = {}
  BY QueueEmpty DEF PoolInit, Running, Created
<1>2. PoolTypeOK
  BY EmptySeq DEF PoolInit, PoolTypeOK
<1>3. RunsOnce
  BY <1>1 DEF PoolInit, RunsOnce
<1> QED
  BY <1>1, <1>2, <1>3
  DEF PoolInit, PoolIInv, ThreadsInv, PostedInv, EarlyNotStranded, StopInv

-------------------------------------------------------------------------------
(* One lemma per group of actions *)

LEMMA EnqueueInv ==
  ASSUME PoolAssumption, PoolIInv, NEW t \in Tasks, Enqueue(t), Created # {},
         owner = "free" \/ Running # {}
  PROVE  PoolIInv'
<1>1. /\ t \notin Posted
      /\ queue' = Append(queue, t)
      /\ early' = IF stopped THEN early ELSE early \cup {t}
      /\ UNCHANGED <<guard, stopped, thread, current, owner, done, joined>>
  BY DEF Enqueue
<1>2. queue \in Seq(Tasks) /\ Distinct(queue)
  BY DEF PoolIInv, PoolTypeOK, RunsOnce, Distinct
<1>3. /\ queue' \in Seq(Tasks)
      /\ ToSet(queue') = ToSet(queue) \cup {t}
      /\ Distinct(queue')
  BY <1>1, <1>2, QueueAppend DEF Posted
<1>4. Running' = Running /\ Created' = Created /\ AllExited' = AllExited
  BY <1>1 DEF Running, Created, AllExited
<1>5. PoolTypeOK'
  BY <1>1, <1>3 DEF PoolIInv, PoolTypeOK
<1>6. RunsOnce'
  BY <1>1, <1>3, <1>4 DEF PoolIInv, RunsOnce, Posted, Distinct
<1>7. ThreadsInv'
  BY <1>1 DEF PoolIInv, ThreadsInv
<1>8. PostedInv'
  BY <1>1, <1>3, <1>4 DEF PoolIInv, PostedInv, Posted
<1>9. EarlyNotStranded'
  BY <1>1 DEF PoolIInv, EarlyNotStranded
<1>10. StopInv'
  BY <1>1, <1>4 DEF PoolIInv, StopInv
<1> QED BY <1>5, <1>6, <1>7, <1>8, <1>9, <1>10 DEF PoolIInv

\* The owner's own steps leave the queue and the running handlers alone, except
\* that DestroyReturn empties the queue.
LEMMA OwnerInv ==
  ASSUME PoolAssumption, PoolIInv,
         InitPool \/ JoinAll \/ JoinReturn \/ Destroy \/ DestroyReturn
  PROVE  PoolIInv'
<1>1. CASE InitPool
  <2>1. Running' = Running
    BY <1>1 DEF InitPool, Running
  <2>2. Created = {} /\ Created' = Workers /\ Created' # {}
    BY <1>1 DEF InitPool, Created, PoolAssumption
  <2>3. PoolTypeOK'
    BY <1>1 DEF InitPool, PoolIInv, PoolTypeOK
  <2>4. RunsOnce'
    BY <1>1, <2>1 DEF InitPool, PoolIInv, RunsOnce
  <2>5. ThreadsInv'
    BY <1>1 DEF InitPool, PoolIInv, ThreadsInv
  <2>6. PostedInv'
    BY <1>1, <2>1, <2>2 DEF InitPool, PoolIInv, PostedInv, Posted
  <2>7. EarlyNotStranded' /\ StopInv'
    BY <1>1, <2>1, <2>2 DEF InitPool, PoolIInv, EarlyNotStranded, StopInv
  <2> QED BY <2>3, <2>4, <2>5, <2>6, <2>7 DEF PoolIInv
<1>2. CASE JoinAll
  <2>1. Running' = Running /\ Created' = Created /\ Posted' = Posted
    BY <1>2 DEF JoinAll, Running, Created, Posted
  <2>2. PoolTypeOK' /\ RunsOnce'
    BY <1>2, <2>1 DEF JoinAll, PoolIInv, PoolTypeOK, RunsOnce
  <2>3. ThreadsInv' /\ PostedInv'
    BY <1>2, <2>1 DEF JoinAll, PoolIInv, ThreadsInv, PostedInv
  <2>4. EarlyNotStranded'
    BY <1>2, QueueEmpty
    DEF JoinAll, PoolIInv, EarlyNotStranded, PostedInv, Posted
  <2>5. StopInv'
    BY <1>2, <2>1 DEF JoinAll, PoolIInv, StopInv
  <2> QED BY <2>2, <2>3, <2>4, <2>5 DEF PoolIInv
<1>3. CASE JoinReturn
  <2>1. Running' = Running /\ Created' = Created /\ Posted' = Posted
    BY <1>3 DEF JoinReturn, Running, Created, Posted
  <2>2. PoolTypeOK' /\ RunsOnce'
    BY <1>3, <2>1 DEF JoinReturn, PoolIInv, PoolTypeOK, RunsOnce
  <2>3. ThreadsInv' /\ PostedInv' /\ EarlyNotStranded' /\ StopInv'
    BY <1>3, <2>1
    DEF JoinReturn, PoolIInv, ThreadsInv, PostedInv, EarlyNotStranded, StopInv
  <2> QED BY <2>2, <2>3 DEF PoolIInv
<1>4. CASE Destroy
  <2>1. Running' = Running /\ Created' = Created /\ Posted' = Posted
    BY <1>4 DEF Destroy, Running, Created, Posted
  <2>2. PoolTypeOK' /\ RunsOnce'
    BY <1>4, <2>1 DEF Destroy, PoolIInv, PoolTypeOK, RunsOnce
  <2>3. ThreadsInv' /\ PostedInv' /\ EarlyNotStranded' /\ StopInv'
    BY <1>4, <2>1
    DEF Destroy, PoolIInv, ThreadsInv, PostedInv, EarlyNotStranded, StopInv
  <2> QED BY <2>2, <2>3 DEF PoolIInv
<1>5. CASE DestroyReturn
  <2>1. Running' = Running /\ Created' = Created /\ AllExited' = AllExited
    BY <1>5 DEF DestroyReturn, Running, Created, AllExited
  <2>2. PoolTypeOK'
    BY <1>5, EmptySeq DEF DestroyReturn, PoolIInv, PoolTypeOK
  <2>3. RunsOnce'
    BY <1>5, <2>1, QueueEmpty DEF DestroyReturn, PoolIInv, RunsOnce
  <2>4. ThreadsInv' /\ PostedInv' /\ EarlyNotStranded' /\ StopInv'
    BY <1>5, <2>1
    DEF DestroyReturn, PoolIInv, ThreadsInv, PostedInv, EarlyNotStranded, StopInv
  <2> QED BY <2>2, <2>3, <2>4 DEF PoolIInv
<1> QED BY <1>1, <1>2, <1>3, <1>4, <1>5

LEMMA TakeInv ==
  ASSUME PoolAssumption, PoolIInv, NEW w \in Workers, Take(w)
  PROVE  PoolIInv'
<1> DEFINE t == Head(queue)
<1>1. /\ thread[w] = "up" /\ current[w] = NoTask /\ ~stopped /\ queue # <<>>
      /\ current' = [current EXCEPT ![w] = t]
      /\ queue' = Tail(queue)
      /\ UNCHANGED <<guard, stopped, thread, owner, done, early, joined>>
  BY DEF Take
<1>2. queue \in Seq(Tasks) /\ Distinct(queue) /\ current \in [Workers -> Tasks \cup {NoTask}]
  BY DEF PoolIInv, PoolTypeOK, RunsOnce, Distinct
<1>3. /\ t \in Tasks /\ queue' \in Seq(Tasks)
      /\ ToSet(queue) = ToSet(queue') \cup {t}
      /\ Distinct(queue') /\ t \notin ToSet(queue')
  BY <1>1, <1>2, QueueTail
<1>4. t # NoTask
  BY <1>3 DEF PoolAssumption
<1> HIDE DEF t
<1>5. Running' = Running \cup {t}
  BY <1>1, <1>2, <1>4 DEF Running
<1>6. Created' = Created /\ AllExited' = AllExited /\ Posted' = Posted
  BY <1>1, <1>3, <1>5 DEF Created, AllExited, Posted
<1>7. PoolTypeOK'
  BY <1>1, <1>2, <1>3 DEF PoolIInv, PoolTypeOK
<1>8. RunsOnce'
  <2>1. t \notin Running /\ t \notin done
    BY <1>3 DEF PoolIInv, RunsOnce
  <2>2. \A v \in Workers : current[v] # t
    BY <1>4, <2>1 DEF Running
  <2>3. \A u, v \in Workers : current'[u] = current'[v] /\ u # v => current'[u] = NoTask
    BY <1>1, <1>2, <2>2 DEF PoolIInv, RunsOnce
  <2> QED BY <1>1, <1>3, <1>5, <2>1, <2>3 DEF PoolIInv, RunsOnce, Distinct
<1>9. ThreadsInv'
  BY <1>1, <1>2 DEF PoolIInv, ThreadsInv
<1>10. PostedInv' /\ EarlyNotStranded' /\ StopInv'
  BY <1>1, <1>6 DEF PoolIInv, PostedInv, EarlyNotStranded, StopInv
<1> QED BY <1>7, <1>8, <1>9, <1>10 DEF PoolIInv

\* What a thread was executing is executing no longer when it finishes.
LEMMA FinishRunning ==
  ASSUME PoolAssumption, PoolIInv, NEW w \in Workers, Finish(w)
  PROVE  /\ current[w] \in Running
         /\ Running' = Running \ {current[w]}
<1>1. /\ current[w] # NoTask /\ current' = [current EXCEPT ![w] = NoTask]
      /\ current \in [Workers -> Tasks \cup {NoTask}]
  BY DEF Finish, PoolIInv, PoolTypeOK
<1>2. \A v \in Workers : v # w => current[v] # current[w]
  BY <1>1 DEF PoolIInv, RunsOnce
<1> QED BY <1>1, <1>2 DEF Running

LEMMA FinishInv ==
  ASSUME PoolAssumption, PoolIInv, NEW w \in Workers, Finish(w)
  PROVE  PoolIInv'
<1> DEFINE t == current[w]
<1>1. /\ t # NoTask
      /\ done' = done \cup {t}
      /\ current' = [current EXCEPT ![w] = NoTask]
      /\ stopped' = (stopped \/ (~guard /\ queue = <<>> /\ Running = {t}))
      /\ UNCHANGED <<guard, queue, thread, owner, early, joined>>
  BY DEF Finish
<1>2. current \in [Workers -> Tasks \cup {NoTask}] /\ t \in Tasks
  BY <1>1 DEF PoolIInv, PoolTypeOK
<1>3. t \in Running /\ Running' = Running \ {t}
  BY FinishRunning
<1>4. /\ Created' = Created /\ AllExited' = AllExited /\ Posted' = Posted
      /\ thread[w] = "up" /\ w \in Created
  BY <1>1, <1>3 DEF Created, AllExited, Posted, PoolIInv, ThreadsInv
<1> HIDE DEF t
<1>5. PoolTypeOK'
  BY <1>1, <1>2 DEF PoolIInv, PoolTypeOK
<1>6. RunsOnce'
  BY <1>1, <1>2, <1>3 DEF PoolIInv, RunsOnce
<1>7. ThreadsInv'
  BY <1>1, <1>2 DEF PoolIInv, ThreadsInv
<1>8. PostedInv'
  BY <1>1, <1>4 DEF PoolIInv, PostedInv
<1>9. EarlyNotStranded'
  <2>1. CASE stopped
    BY <1>1, <2>1 DEF PoolIInv, EarlyNotStranded
  <2>2. CASE ~stopped
    BY <1>1, <2>2, QueueEmpty DEF PoolIInv, EarlyNotStranded, PostedInv, Posted
  <2> QED BY <2>1, <2>2
<1>10. StopInv'
  BY <1>1, <1>3, <1>4 DEF PoolIInv, StopInv
<1> QED BY <1>5, <1>6, <1>7, <1>8, <1>9, <1>10 DEF PoolIInv

LEMMA LeaveInv ==
  ASSUME PoolAssumption, PoolIInv, NEW w \in Workers, Leave(w)
  PROVE  PoolIInv'
<1>1. /\ thread[w] = "up" /\ current[w] = NoTask /\ stopped
      /\ thread' = [thread EXCEPT ![w] = "exited"]
      /\ UNCHANGED <<guard, queue, stopped, current, owner, done, early, joined>>
      /\ thread \in [Workers -> {"none", "up", "exited"}]
  BY DEF Leave, PoolIInv, PoolTypeOK
<1>2. Running' = Running /\ Created' = Created /\ Posted' = Posted
  BY <1>1 DEF Running, Created, Posted
<1>3. AllExited => AllExited'
  BY <1>1, <1>2 DEF AllExited, Created
<1>4. PoolTypeOK' /\ RunsOnce'
  BY <1>1, <1>2 DEF PoolIInv, PoolTypeOK, RunsOnce
<1>5. ThreadsInv'
  BY <1>1 DEF PoolIInv, ThreadsInv
<1>6. PostedInv' /\ EarlyNotStranded' /\ StopInv'
  BY <1>1, <1>2, <1>3 DEF PoolIInv, PostedInv, EarlyNotStranded, StopInv
<1> QED BY <1>4, <1>5, <1>6 DEF PoolIInv

\* A callback runs on a thread, so there are threads and something is running.
LEMMA CallbackCreated ==
  ASSUME PoolIInv, NEW w \in Workers, current[w] # NoTask
  PROVE  Created # {} /\ Running # {} /\ owner # "gone"
<1>1. thread[w] = "up" /\ w \in Created
  BY DEF PoolIInv, ThreadsInv, Created
<1>2. current[w] \in Running
  BY DEF Running
<1>3. ~AllExited
  BY <1>1 DEF AllExited
<1> QED BY <1>1, <1>2, <1>3 DEF PoolIInv, PostedInv

LEMMA PoolStepInv == PoolAssumption /\ PoolIInv /\ [PoolNext]_poolVars => PoolIInv'
<1> SUFFICES ASSUME PoolAssumption, PoolIInv, [PoolNext]_poolVars PROVE PoolIInv'
  OBVIOUS
<1>1. ASSUME NEW t \in Tasks, Post(t) PROVE PoolIInv'
  BY <1>1, EnqueueInv DEF Post
<1>2. ASSUME NEW w \in Workers, NEW t \in Tasks, CallbackPost(w, t) PROVE PoolIInv'
  <2>1. current[w] # NoTask /\ Enqueue(t)
    BY <1>2 DEF CallbackPost
  <2>2. Created # {} /\ Running # {}
    BY <2>1, CallbackCreated
  <2> QED BY <2>1, <2>2, EnqueueInv
<1>3. ASSUME NEW w \in Workers, Take(w) \/ Finish(w) \/ Leave(w) PROVE PoolIInv'
  BY <1>3, TakeInv, FinishInv, LeaveInv
<1>4. CASE UNCHANGED poolVars
  <2>1. /\ Running' = Running /\ Created' = Created /\ Posted' = Posted
        /\ AllExited' = AllExited
    BY <1>4 DEF poolVars, Running, Created, Posted, AllExited
  <2>2. PoolTypeOK' /\ RunsOnce'
    BY <1>4, <2>1 DEF poolVars, PoolIInv, PoolTypeOK, RunsOnce
  <2>3. ThreadsInv' /\ PostedInv' /\ EarlyNotStranded' /\ StopInv'
    BY <1>4, <2>1
    DEF poolVars, PoolIInv, ThreadsInv, PostedInv, EarlyNotStranded, StopInv
  <2> QED BY <2>2, <2>3 DEF PoolIInv
<1> QED
  BY <1>1, <1>2, <1>3, <1>4, OwnerInv DEF PoolNext, OwnerStep, WorkerStep

-------------------------------------------------------------------------------
(* Theorems *)

\* The invariant holds, whatever the application, its callbacks and the threads
\* do.
THEOREM PoolInvariance ==
  ASSUME PoolAssumption
  PROVE  PoolSafety => []PoolIInv
BY PoolInitInv, PoolStepInv, PTL DEF PoolSafety

\* The variables of CThreadPool and of its io_service have their types.
THEOREM PoolTypeCorrect ==
  ASSUME PoolAssumption
  PROVE  PoolSafety => []PoolTypeOK
<1>1. PoolIInv => PoolTypeOK
  BY DEF PoolIInv
<1> QED BY <1>1, PoolInvariance, PTL

\* Dropping the work guard in JoinAll does not cut off an operation.
THEOREM PoolEarlyNotStranded ==
  ASSUME PoolAssumption
  PROVE  PoolSafety => []EarlyNotStranded
<1>1. PoolIInv => EarlyNotStranded
  BY DEF PoolIInv
<1> QED BY <1>1, PoolInvariance, PTL

\* When every thread has exited nothing is running, and if there were threads
\* the service has stopped.
LEMMA ExitedFacts ==
  ASSUME PoolIInv, AllExited
  PROVE  Running = {} /\ (Created # {} => stopped)
BY DEF AllExited, PoolIInv, ThreadsInv, Running, Created

\* The first WaitAsync to find threads returns with nothing left to run.
THEOREM PoolFirstJoinDrains ==
  ASSUME PoolAssumption
  PROVE  PoolSafety => FirstJoinDrains
<1>1. PoolIInv => (JoinReturn /\ ~joined /\ Created # {} => queue = <<>> /\ Running = {})
  <2> SUFFICES ASSUME PoolIInv, JoinReturn, ~joined, Created # {}
               PROVE  queue = <<>> /\ Running = {}
    OBVIOUS
  <2>1. owner = "joining" /\ stopped
    BY ExitedFacts DEF JoinReturn
  <2> QED BY <2>1 DEF PoolIInv, StopInv
<1> QED BY <1>1, PoolInvariance, PTL DEF FirstJoinDrains, PoolSafety

-------------------------------------------------------------------------------
(* The pool implements AsyncOps *)

LEMMA InitImplements == PoolInit => Ops!OpsInit
BY DEF PoolInit, Ops!OpsInit

LEMMA StepImplements ==
  ASSUME PoolAssumption
  PROVE  PoolIInv /\ [PoolNext]_poolVars => [Ops!OpsNext]_(Ops!opsVars)
<1> SUFFICES ASSUME PoolIInv, [PoolNext]_poolVars
             PROVE  [Ops!OpsNext]_(Ops!opsVars)
  OBVIOUS
<1>1. ASSUME NEW t \in Tasks, Enqueue(t), owner # "gone"
      PROVE  Ops!Submit(t) \/ UNCHANGED Ops!opsVars
  <2>1. t \notin early /\ t \notin done
    BY <1>1 DEF Enqueue, PoolIInv, PostedInv, Posted
  <2>2. CASE stopped
    BY <1>1, <2>2 DEF Enqueue, Ops!opsVars
  <2>3. CASE ~stopped
    BY <1>1, <2>1, <2>3 DEF Enqueue, Ops!Submit
  <2> QED BY <2>2, <2>3
<1>2. ASSUME NEW t \in Tasks, Post(t) PROVE [Ops!OpsNext]_(Ops!opsVars)
  BY <1>1, <1>2 DEF Post, Ops!OpsNext
<1>3. ASSUME NEW w \in Workers, NEW t \in Tasks, CallbackPost(w, t)
      PROVE  [Ops!OpsNext]_(Ops!opsVars)
  BY <1>1, <1>3, CallbackCreated DEF CallbackPost, Ops!OpsNext
<1>4. CASE JoinAll
  BY <1>4 DEF JoinAll, Ops!OpsNext, Ops!StartWait
<1>5. CASE JoinReturn
  <2>1. early \subseteq done
    BY <1>5, ExitedFacts
    DEF JoinReturn, PoolIInv, PostedInv, EarlyNotStranded
  <2> QED BY <1>5, <2>1 DEF JoinReturn, Ops!OpsNext, Ops!EndWait
<1>6. CASE InitPool \/ Destroy \/ DestroyReturn
  BY <1>6 DEF InitPool, Destroy, DestroyReturn, Ops!opsVars
<1>7. ASSUME NEW w \in Workers, Take(w) \/ Leave(w) PROVE UNCHANGED Ops!opsVars
  BY <1>7 DEF Take, Leave, Ops!opsVars
<1>8. ASSUME NEW w \in Workers, Finish(w) PROVE [Ops!OpsNext]_(Ops!opsVars)
  <2>1. current[w] \in Tasks /\ current[w] \notin done
    BY <1>8, FinishRunning DEF Finish, PoolIInv, PoolTypeOK, RunsOnce
  <2>2. /\ done' = done \cup {current[w]}
        /\ early' = early /\ (owner = "joining")' = (owner = "joining")
    BY <1>8 DEF Finish
  <2>3. CASE current[w] \in early
    <3>1. Ops!Complete(current[w])
      BY <2>1, <2>2, <2>3 DEF Ops!Complete
    <3> QED BY <2>1, <3>1 DEF Ops!OpsNext
  <2>4. CASE current[w] \notin early
    BY <2>2, <2>4 DEF Ops!opsVars
  <2> QED BY <2>3, <2>4
<1>9. CASE UNCHANGED poolVars
  BY <1>9 DEF poolVars, Ops!opsVars
<1> QED
  BY <1>2, <1>3, <1>4, <1>5, <1>6, <1>7, <1>8, <1>9
  DEF PoolNext, OwnerStep, WorkerStep

\* WaitAsync keeps its promise for every operation posted before the pool
\* stopped, however many threads, operations and callbacks there are.
THEOREM PoolImplementsAsyncOps ==
  ASSUME PoolAssumption
  PROVE  PoolSafety => ImplementsAsyncOps
BY InitImplements, StepImplements, PoolInvariance, PTL
DEF PoolSafety, ImplementsAsyncOps, Ops!OpsSpec
===============================================================================
