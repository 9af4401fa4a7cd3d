------------------------------ MODULE ThreadPool ------------------------------
(***************************************************************************)
(* CThreadPool (src/ThreadPool.h): a boost io_service run by a group of    *)
(* threads, kept alive by a work guard.  The owner is the application      *)
(* thread that creates the asynchronous factory, posts operations, calls   *)
(* WaitAsync and finally runs the static destructors.  The io_service      *)
(* itself is external; Take, Finish, Leave and StopIfIdle state what the   *)
(* pool relies on: the service stops when its last piece of work (guard,   *)
(* queued handler, running handler) goes away, and a stopped service hands *)
(* out no handler until somebody resets it, which nothing here does.       *)
(***************************************************************************)
EXTENDS Naturals, SequencesExt

CONSTANTS
    Workers,    \* the threads Init(n) creates
    Tasks,      \* the handlers that may be posted
    NoTask

ASSUME PoolAssumption ==
    /\ Workers # {}         \* GetCpuCoresAvaiable() is at least 1 on Linux and Windows
    /\ NoTask \notin Tasks

VARIABLES
    guard,      \* m_pWorkGurad is held
    queue,      \* handlers posted to m_ioService and not yet taken
    stopped,    \* m_ioService has stopped
    thread,     \* life of each thread of m_threadPool
    current,    \* the handler a thread is executing
    owner,      \* where the application thread is
    done,       \* handlers that have returned
    early,      \* history: handlers posted while m_ioService was not stopped
    joined      \* history: a JoinAll that found threads to join has returned

poolVars == <<guard, queue, stopped, thread, current, owner, done, early, joined>>

Running  == {current[w] : w \in Workers} \ {NoTask}
Posted   == ToSet(queue) \cup Running \cup done
Created  == {w \in Workers : thread[w] # "none"}
AllExited == \A w \in Created : thread[w] = "exited"

PoolInit ==
    /\ guard = FALSE
    /\ queue = <<>>
    /\ stopped = FALSE
    /\ thread = [w \in Workers |-> "none"]
    /\ current = [w \in Workers |-> NoTask]
    /\ owner = "free"
    /\ done = {}
    /\ early = {}
    /\ joined = FALSE

-------------------------------------------------------------------------------
(* CThreadPool *)

\* Init(n): run once, by the constructor of the CFileUtilGeneratorAsync
\* singleton; its join_all finds an empty group.
InitPool ==
    /\ owner = "free"
    /\ Created = {}
    /\ guard' = TRUE
    /\ thread' = [w \in Workers |-> "up"]
    /\ UNCHANGED <<queue, stopped, current, owner, done, early, joined>>

Enqueue(t) ==
    /\ t \notin Posted
    /\ queue' = Append(queue, t)
    /\ early' = IF stopped THEN early ELSE early \cup {t}
    /\ UNCHANGED <<guard, stopped, thread, current, owner, done, joined>>

\* Post, called by the application thread (asynchronous utilities exist only
\* after InitPool) ...
Post(t) == owner = "free" /\ Created # {} /\ Enqueue(t)

\* ... or by a completion callback, on the thread that runs the callback.
CallbackPost(w, t) == current[w] # NoTask /\ Enqueue(t)

\* Faulty forms: JoinAll that stops the service, or that keeps the guard.
JoinAllStopping ==
    /\ owner = "free"
    /\ owner' = "joining"
    /\ guard' = FALSE
    /\ stopped' = TRUE
    /\ UNCHANGED <<queue, thread, current, done, early, joined>>

JoinAllKeepingGuard ==
    /\ owner = "free"
    /\ owner' = "joining"
    /\ UNCHANGED <<guard, queue, stopped, thread, current, done, early, joined>>

\* JoinAll: drops the guard, then waits for every thread of the group.  The
\* service stops if the guard was the last piece of work.
JoinAll ==
    /\ owner = "free"
    /\ owner' = "joining"
    /\ guard' = FALSE
    /\ stopped' = (stopped \/ (guard /\ queue = <<>> /\ Running = {}))
    /\ UNCHANGED <<queue, thread, current, done, early, joined>>

\* Faulty form: interrupts the threads and does not wait for them.
JoinReturnAtOnce ==
    /\ owner = "joining"
    /\ owner' = "free"
    /\ joined' = (joined \/ Created # {})
    /\ UNCHANGED <<guard, queue, stopped, thread, current, done, early>>

JoinReturn ==
    /\ owner = "joining"
    /\ AllExited
    /\ owner' = "free"
    /\ joined' = (joined \/ Created # {})
    /\ UNCHANGED <<guard, queue, stopped, thread, current, done, early>>

\* ~CThreadPool at process exit: stop(), then join_all(); the members are
\* destroyed after it, and queued handlers with them.
Destroy ==
    /\ owner = "free"
    /\ owner' = "stopping"
    /\ stopped' = TRUE
    /\ UNCHANGED <<guard, queue, thread, current, done, early, joined>>

DestroyReturn ==
    /\ owner = "stopping"
    /\ AllExited
    /\ owner' = "gone"
    /\ guard' = FALSE
    /\ queue' = <<>>
    /\ UNCHANGED <<stopped, thread, current, done, early, joined>>

-------------------------------------------------------------------------------
(* boost::asio::io_service::run on each thread of the group *)

Take(w) ==
    /\ thread[w] = "up"
    /\ current[w] = NoTask
    /\ ~stopped
    /\ queue # <<>>
    /\ current' = [current EXCEPT ![w] = Head(queue)]
    /\ queue' = Tail(queue)
    /\ UNCHANGED <<guard, stopped, thread, owner, done, early, joined>>

\* The handler returns; the service stops if it was the last piece of work.
Finish(w) ==
    /\ current[w] # NoTask
    /\ done' = done \cup {current[w]}
    /\ current' = [current EXCEPT ![w] = NoTask]
    /\ stopped' = (stopped \/ (~guard /\ queue = <<>> /\ Running = {current[w]}))
    /\ UNCHANGED <<guard, queue, thread, owner, early, joined>>

Leave(w) ==
    /\ thread[w] = "up"
    /\ current[w] = NoTask
    /\ stopped
    /\ thread' = [thread EXCEPT ![w] = "exited"]
    /\ UNCHANGED <<guard, queue, stopped, current, owner, done, early, joined>>

-------------------------------------------------------------------------------
OwnerStep ==
    \/ InitPool
    \/ \E t \in Tasks : Post(t)
    \/ JoinAll
    \/ JoinReturn
    \/ Destroy
    \/ DestroyReturn

WorkerStep(w) ==
    \/ Take(w)
    \/ Finish(w)
    \/ Leave(w)
    \/ \E t \in Tasks : CallbackPost(w, t)

PoolNext == OwnerStep \/ \E w \in Workers : WorkerStep(w)

\* The scheduler runs every thread, and an operation's handler returns; the
\* application need not call anything, and callbacks need not post.
PoolFairness ==
    /\ \A w \in Workers : WF_poolVars(Take(w) \/ Finish(w) \/ Leave(w))
    /\ WF_poolVars(JoinReturn)
    /\ WF_poolVars(DestroyReturn)

PoolSafety == PoolInit /\ [][PoolNext]_poolVars
PoolSpec == PoolSafety /\ PoolFairness

-------------------------------------------------------------------------------
(* Properties *)

PoolTypeOK ==
    /\ guard \in BOOLEAN
    /\ queue \in Seq(Tasks)
    /\ stopped \in BOOLEAN
    /\ thread \in [Workers -> {"none", "up", "exited"}]
    /\ current \in [Workers -> Tasks \cup {NoTask}]
    /\ owner \in {"free", "joining", "stopping", "gone"}
    /\ done \subseteq Tasks
    /\ early \subseteq Tasks
    /\ joined \in BOOLEAN

\* The io_service never stops under an operation that was posted to it while
\* it ran, unless the process is exiting: JoinAll only drops the guard, and
\* the last handler out stops the service.
EarlyNotStranded ==
    stopped /\ owner \in {"free", "joining"} => early \subseteq done

\* The first WaitAsync to find threads returns with nothing left to run, even
\* if callbacks posted more operations while it waited.
FirstJoinDrains ==
    [][JoinReturn /\ ~joined /\ Created # {} => queue = <<>> /\ Running = {}]_poolVars

\* src/FileUtilSdk.h says it of every WaitAsync, not of the first one only.
EveryJoinDrains ==
    [][JoinReturn => queue = <<>> /\ Running = {}]_poolVars

\* WaitAsync returns: every thread runs out of work once the guard is gone.
JoinTerminates == owner = "joining" ~> owner = "free"

\* The pool implements the promise of WaitAsync for the operations posted
\* before its io_service stopped.
Ops == INSTANCE AsyncOps WITH
         pending  <- early \ done,
         finished <- early \cap done,
         waiting  <- owner = "joining"

ImplementsAsyncOps == Ops!OpsSpec
===============================================================================
