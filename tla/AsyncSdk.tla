------------------------------- MODULE AsyncSdk -------------------------------
(***************************************************************************)
(* Asynchronous operations of the SDK on top of CThreadPool.  An operation *)
(* is one call of Execute on a utility object; the handler it posts keeps  *)
(* the object's raw address and a reference to the caller's output string, *)
(* and the object keeps the one callback it was last given.  A handler's   *)
(* accesses to these shared things are steps of their own:                 *)
(*                                                                         *)
(*   started --Prepare--> prepared --OpenOutput--> opened --Notify-->      *)
(*   calling --Return--> idle          (started --Notify--> calling when   *)
(*   the operation names no output: uncompression, or an early error)      *)
(*                                                                         *)
(* The client is the application (test/test.cpp).  Misuse names the rules  *)
(* it may break; with Misuse = {} it keeps all of them.                    *)
(***************************************************************************)
EXTENDS ThreadPool

CONSTANTS
    Utils,      \* utility objects (new CFileCompresserAsync() ...)
    Outs,       \* std::string variables of the caller
    NoOut,      \* the operation leaves its output string alone
    Misuse      \* rules the client breaks

ASSUME SdkAssumption ==
    /\ NoOut \notin Outs
    /\ "none" \notin Utils
    /\ Misuse \subseteq {"reuses busy object", "shares output string"}

NotCalled == [util |-> "none", out |-> NoOut]

VARIABLES
    util,       \* life of each object
    onFinished, \* m_onFinished of each object: the operation it was given for
    call,       \* what the handler of each operation is bound to
    phase,      \* how far each thread is in its handler
    outString,  \* each output string: the operation whose path it holds
    target,     \* the operation whose path each operation opened for writing
    told,       \* callbacks made: <<operation that ended, operation told>>
    waited      \* objects not used since the last return of WaitAsync

sdkVars == <<util, onFinished, call, phase, outString, target, told, waited>>
vars == <<poolVars, sdkVars>>

Called(t)    == call[t] # NotCalled
Told(t)      == \E p \in told : p[1] = t
OpsOf(u)     == {t \in Tasks : call[t].util = u}
Outstanding  == {t \in Tasks : Called(t) /\ ~Told(t)}
UtilOf(w)    == call[current[w]].util

SdkInit ==
    /\ PoolInit
    /\ util = [u \in Utils |-> "none"]
    /\ onFinished = [u \in Utils |-> NoTask]
    /\ call = [t \in Tasks |-> NotCalled]
    /\ phase = [w \in Workers |-> "idle"]
    /\ outString = [o \in Outs |-> NoTask]
    /\ target = [t \in Tasks |-> NoTask]
    /\ told = {}
    /\ waited = {}

-------------------------------------------------------------------------------
(* The application thread *)

\* CreateFactory(1, ...): the first call constructs the factory, and with it
\* the threads.
CreateFactory == InitPool /\ UNCHANGED sdkVars

\* CreateCompresser() and the other Create functions that succeed.
Create(u) ==
    /\ owner = "free"
    /\ Created # {}
    /\ util[u] = "none"
    /\ util' = [util EXCEPT ![u] = "live"]
    /\ UNCHANGED <<poolVars, onFinished, call, phase, outString, target, told, waited>>

\* What a client that keeps the rules looks at before it starts an operation.
MayExecute(u, o) ==
    /\ util[u] = "live"
    /\ "reuses busy object" \in Misuse \/ OpsOf(u) \cap Outstanding = {}
    /\ \/ o = NoOut
       \/ "shares output string" \in Misuse
       \/ \A t \in Outstanding : call[t].out # o

\* Faulty form: the callback is not stored.
BindNoCallback(t, u, o) ==
    /\ call' = [call EXCEPT ![t] = [util |-> u, out |-> o]]
    /\ waited' = waited \ {u}
    /\ UNCHANGED onFinished

\* CFileUtilBase::Execute: the object takes the callback, then the derived
\* Execute posts the handler and returns 0.
BindCall(t, u, o) ==
    /\ onFinished' = [onFinished EXCEPT ![u] = t]
    /\ call' = [call EXCEPT ![t] = [util |-> u, out |-> o]]
    /\ waited' = waited \ {u}

Execute(t, u, o) ==
    /\ MayExecute(u, o)
    /\ Post(t)
    /\ ~Called(t)
    /\ BindCall(t, u, o)
    /\ UNCHANGED <<util, phase, outString, target, told>>

\* An input does not exist: the callback is made here and nothing is posted.
ExecuteMissing(t, u, o) ==
    /\ owner = "free"
    /\ MayExecute(u, o)
    /\ ~Called(t)
    /\ BindCall(t, u, o)
    /\ told' = told \cup {<<t, t>>}
    /\ UNCHANGED <<poolVars, util, phase, outString, target>>

StartWaitAsync == JoinAll /\ UNCHANGED sdkVars

EndWaitAsync ==
    /\ JoinReturn
    /\ waited' = Utils
    /\ UNCHANGED <<util, onFinished, call, phase, outString, target, told>>

\* ReleaseUtil.  The client releases an object when each of its operations
\* has called back, or when WaitAsync has returned since the last of them.
ReleaseUtil(u) ==
    /\ owner = "free"
    /\ util[u] = "live"
    /\ u \in waited \/ OpsOf(u) \cap Outstanding = {}
    /\ util' = [util EXCEPT ![u] = "deleted"]
    /\ UNCHANGED <<poolVars, onFinished, call, phase, outString, target, told, waited>>

Exit == (Destroy \/ DestroyReturn) /\ UNCHANGED sdkVars

-------------------------------------------------------------------------------
(* A thread running a handler *)

Step(w, from, to) ==
    /\ phase[w] = from
    /\ phase' = [phase EXCEPT ![w] = to]

Start(w) ==
    /\ Take(w)
    /\ Step(w, "idle", "started")
    /\ UNCHANGED <<util, onFinished, call, outString, target, told, waited>>

\* Faulty form: one string, as if it were static, for every operation.
PrepareShared(w) ==
    /\ Step(w, "started", "prepared")
    /\ call[current[w]].out \in Outs
    /\ outString' = [o \in Outs |-> current[w]]
    /\ UNCHANGED <<poolVars, util, onFinished, call, target, told, waited>>

\* PrepareCompress or SymEncode composes the output path into the caller's
\* string ...
Prepare(w) ==
    /\ Step(w, "started", "prepared")
    /\ call[current[w]].out \in Outs
    /\ outString' = [outString EXCEPT ![call[current[w]].out] = current[w]]
    /\ UNCHANGED <<poolVars, util, onFinished, call, target, told, waited>>

\* ... which is read again where the output is opened.
OpenOutput(w) ==
    /\ Step(w, "prepared", "opened")
    /\ target' = [target EXCEPT ![current[w]] = outString[call[current[w]].out]]
    /\ UNCHANGED <<poolVars, util, onFinished, call, outString, told, waited>>

\* Faulty form: a failed check returns before the callback.
NotifyUnlessFailed(w) ==
    /\ \/ /\ Step(w, "started", "calling")
          /\ UNCHANGED told
       \/ /\ Step(w, "opened", "calling")
          /\ told' = told \cup {<<current[w], onFinished[UtilOf(w)]>>}
    /\ UNCHANGED <<poolVars, util, onFinished, call, outString, target, waited>>

\* m_onFinished(nError), read from the object at the end of the operation, or
\* as soon as a check fails.
Notify(w) ==
    /\ \/ Step(w, "started", "calling")
       \/ Step(w, "opened", "calling")
    /\ told' = told \cup {<<current[w], onFinished[UtilOf(w)]>>}
    /\ UNCHANGED <<poolVars, util, onFinished, call, outString, target, waited>>

\* The callback may start another operation, on any object ...
CallbackExecute(w, t, u, o) ==
    /\ phase[w] = "calling"
    /\ MayExecute(u, o)
    /\ CallbackPost(w, t)
    /\ ~Called(t)
    /\ BindCall(t, u, o)
    /\ UNCHANGED <<util, phase, outString, target, told>>

\* ... or release an object that has nothing outstanding, its own included.
CallbackRelease(w, u) ==
    /\ phase[w] = "calling"
    /\ util[u] = "live"
    /\ OpsOf(u) \cap Outstanding = {}
    /\ util' = [util EXCEPT ![u] = "deleted"]
    /\ UNCHANGED <<poolVars, onFinished, call, phase, outString, target, told, waited>>

Return(w) ==
    /\ Finish(w)
    /\ Step(w, "calling", "idle")
    /\ UNCHANGED <<util, onFinished, call, outString, target, told, waited>>

ThreadEnds(w) == Leave(w) /\ UNCHANGED sdkVars

-------------------------------------------------------------------------------
ClientStep ==
    \/ CreateFactory
    \/ \E u \in Utils :
        \/ Create(u)
        \/ ReleaseUtil(u)
        \/ \E t \in Tasks, o \in Outs \cup {NoOut} :
              Execute(t, u, o) \/ ExecuteMissing(t, u, o)
    \/ StartWaitAsync
    \/ EndWaitAsync
    \/ Exit

HandlerStep(w) ==
    Start(w) \/ Prepare(w) \/ OpenOutput(w) \/ Notify(w) \/ Return(w) \/ ThreadEnds(w)

CallbackStep(w) ==
    \E u \in Utils :
        \/ CallbackRelease(w, u)
        \/ \E t \in Tasks, o \in Outs \cup {NoOut} : CallbackExecute(w, t, u, o)

SdkNext ==
    \/ ClientStep
    \/ \E w \in Workers : HandlerStep(w) \/ CallbackStep(w)

\* Threads are scheduled and joins return; the client owes nothing.
SdkFairness ==
    /\ \A w \in Workers : WF_vars(HandlerStep(w))
    /\ WF_vars(EndWaitAsync)
    /\ WF_vars(Exit /\ owner = "stopping")

SdkSpec == SdkInit /\ [][SdkNext]_vars /\ SdkFairness

-------------------------------------------------------------------------------
(* Properties *)

SdkTypeOK ==
    /\ PoolTypeOK
    /\ util \in [Utils -> {"none", "live", "deleted"}]
    /\ onFinished \in [Utils -> Tasks \cup {NoTask}]
    /\ call \in [Tasks -> [util : Utils, out : Outs \cup {NoOut}] \cup {NotCalled}]
    /\ phase \in [Workers -> {"idle", "started", "prepared", "opened", "calling"}]
    /\ outString \in [Outs -> Tasks \cup {NoTask}]
    /\ target \in [Tasks -> Tasks \cup {NoTask}]
    /\ told \subseteq Tasks \X Tasks
    /\ waited \subseteq Utils

\* Every operation that has ended, on a thread or at once, has called the
\* callback it was started with, and nobody else's (Execute stores the
\* callback in the object; the handler reads it back when it ends).
OwnCallback ==
    /\ \A p \in told : p[1] = p[2]
    /\ done \subseteq {p[1] : p \in told}

\* No handler touches an object after ReleaseUtil deleted it, whether the
\* client waited with WaitAsync or for the callback, or released it inside
\* the callback: after its callback a handler uses the object no more.
NoUseAfterRelease ==
    \A w \in Workers :
        phase[w] \in {"started", "prepared", "opened"} => util[UtilOf(w)] = "live"

\* An operation writes the file it named, although the name passes through a
\* string that belongs to the caller.
OwnOutput == \A t \in Tasks : target[t] \in {t, NoTask}

\* Every operation posted while the pool ran calls back, unless the process
\* exits first.
CallsBack ==
    \A t \in Tasks : t \in early ~> Told(t) \/ owner \in {"stopping", "gone"}

\* The promise of WaitAsync, with completion now meaning that the operation
\* has made its callback: WaitAsync returns only when every operation posted
\* before the pool stopped has called back.
Sdk == INSTANCE AsyncOps WITH
         pending  <- {t \in early : ~Told(t)},
         finished <- {t \in early : Told(t)},
         waiting  <- owner = "joining"

SdkImplementsAsyncOps == Sdk!OpsSpec
===============================================================================
