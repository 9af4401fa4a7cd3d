---------------------------- MODULE AsyncSdk_proofs ----------------------------
(***************************************************************************)
(* For any number of threads, operations, objects and strings, and a       *)
(* client that keeps the rules: every operation calls its own callback and *)
(* writes its own output, no handler uses a deleted object, and WaitAsync  *)
(* returns only when what was posted in time has called back.              *)
(***************************************************************************)
EXTENDS AsyncSdk, ThreadPool_proofs

\* The client reuses no busy object and shares no string.
RulesKept == Misuse = {}

-------------------------------------------------------------------------------
(* The inductive invariant *)

Heard   == {p[1] : p \in told}
Waiting == {t \in Tasks : call[t] # NotCalled /\ t \notin Heard}
Working == {"started", "prepared", "opened"}

\* A thread is in a handler exactly while it executes one, and the callback
\* separates the two halves of the handler.
PhaseInv ==
    \A w \in Workers :
        /\ phase[w] = "idle" <=> current[w] = NoTask
        /\ phase[w] \in Working => current[w] \notin Heard
        /\ phase[w] = "calling" => current[w] \in Heard

\* An operation known to the pool was started by a call of Execute; it waits
\* before its callback, and is done after it.
CallInv ==
    /\ Posted \cup early \cup Heard \subseteq {t \in Tasks : call[t] # NotCalled}
    /\ ToSet(queue) \cap Heard = {}
    /\ Created = {} => Posted = {}

\* The callback slot of an object belongs to its outstanding operation.
SlotInv == \A t \in Waiting : onFinished[call[t].util] = t

\* Outstanding operations name different strings.
StringsApart ==
    \A s, t \in Waiting : s # t /\ call[s].out = call[t].out => call[s].out = NoOut

\* An object with a handler at work is neither deleted nor given up by a wait;
\* nor is one with a handler that may still be taken.
Alive(t) == util[call[t].util] = "live" /\ call[t].util \notin waited

LiveInv ==
    /\ \A w \in Workers : phase[w] \in Working => Alive(current[w])
    /\ ~stopped => \A t \in ToSet(queue) : Alive(t)

\* Between composing a path and opening it the string keeps it.
StringInv ==
    \A w \in Workers : phase[w] = "prepared" =>
        /\ call[current[w]].out \in Outs
        /\ outString[call[current[w]].out] = current[w]

SdkIInv ==
    /\ SdkTypeOK
    /\ PhaseInv
    /\ CallInv
    /\ OwnCallback
    /\ SlotInv
    /\ StringsApart
    /\ LiveInv
    /\ StringInv
    /\ OwnOutput

LEMMA HeardTold ==
  /\ \A t : Told(t) <=> t \in Heard
  /\ Outstanding = Waiting
BY DEF Told, Heard, Outstanding, Waiting, Called

\* Whatever is queued or at work is outstanding.
LEMMA AtWork ==
  ASSUME SdkIInv
  PROVE  /\ ToSet(queue) \subseteq Waiting
         /\ \A w \in Workers : phase[w] \in Working => current[w] \in Waiting
         /\ \A w \in Workers : phase[w] # "idle" =>
                current[w] \in Tasks /\ current[w] \in Running /\ call[current[w]] # NotCalled
<1>1. ToSet(queue) \subseteq Waiting
  BY DEF SdkIInv, CallInv, Posted, Waiting
<1>2. ASSUME NEW w \in Workers, phase[w] # "idle"
      PROVE  current[w] \in Tasks /\ current[w] \in Running /\ call[current[w]] # NotCalled
  <2>1. current[w] # NoTask
    BY <1>2 DEF SdkIInv, PhaseInv
  <2>2. current[w] \in Running
    BY <2>1 DEF Running
  <2> QED BY <2>2 DEF SdkIInv, CallInv, Posted
<1>3. ASSUME NEW w \in Workers, phase[w] \in Working PROVE current[w] \in Waiting
  <2>1. phase[w] # "idle"
    BY <1>3 DEF Working
  <2> QED BY <1>2, <1>3, <2>1 DEF SdkIInv, PhaseInv, Waiting
<1> QED BY <1>1, <1>2, <1>3

\* What the rules grant when an operation is started.
LEMMA RulesGrant ==
  ASSUME RulesKept, NEW u \in Utils, NEW o \in Outs \cup {NoOut}, MayExecute(u, o)
  PROVE  /\ util[u] = "live"
         /\ \A t \in Waiting : call[t].util # u
         /\ o # NoOut => \A t \in Waiting : call[t].out # o
BY HeardTold DEF RulesKept, MayExecute, OpsOf, Waiting

\* A callback made for operation t.
LEMMA HeardGrows ==
  ASSUME NEW t, NEW s, told' = told \cup {<<t, s>>}
  PROVE  Heard' = Heard \cup {t}
<1>1. <<t, s>>[1] = t
  OBVIOUS
<1>2. ASSUME NEW x \in Heard' PROVE x \in Heard \cup {t}
  <2>1. PICK p \in told' : x = p[1]
    BY <1>2 DEF Heard
  <2> QED BY <1>1, <2>1 DEF Heard
<1>3. ASSUME NEW x \in Heard \cup {t} PROVE x \in Heard'
  <2>1. CASE x = t
    <3>1. <<t, s>> \in told'
      OBVIOUS
    <3>2. <<t, s>>[1] \in {p[1] : p \in told'}
      BY <3>1
    <3> QED BY <1>1, <2>1, <3>2 DEF Heard
  <2>2. CASE x \in Heard
    BY <2>2 DEF Heard
  <2> QED BY <2>1, <2>2
<1> QED BY <1>2, <1>3

-------------------------------------------------------------------------------
(* One lemma per kind of step *)

LEMMA SdkInitInv == SdkAssumption /\ PoolIInv /\ SdkInit => SdkIInv
<1> SUFFICES ASSUME SdkAssumption, PoolIInv, SdkInit PROVE SdkIInv
  OBVIOUS
<1>1. /\ current = [w \in Workers |-> NoTask]
      /\ queue = <<>>
      /\ done = {}
      /\ early = {}
  BY DEF SdkInit, PoolInit
<1>2. Heard = {} /\ Waiting = {} /\ Posted = {} /\ ToSet(queue) = {}
  BY <1>1, QueueEmpty DEF SdkInit, Heard, Waiting, Posted, Running
<1>3. SdkTypeOK
  BY DEF SdkInit, SdkTypeOK, PoolIInv
<1>4. PhaseInv /\ LiveInv /\ StringInv
  BY <1>1, <1>2 DEF SdkInit, PhaseInv, LiveInv, StringInv, Working
<1>5. CallInv
  BY <1>1, <1>2 DEF CallInv
<1>6. OwnCallback /\ OwnOutput
  BY <1>1 DEF SdkInit, OwnCallback, OwnOutput
<1>7. SlotInv /\ StringsApart
  BY <1>2 DEF SlotInv, StringsApart
<1> QED BY <1>3, <1>4, <1>5, <1>6, <1>7 DEF SdkIInv

\* Steps of the pool that post, take and finish nothing.
LEMMA QuietInv ==
  ASSUME SdkIInv, PoolTypeOK', UNCHANGED sdkVars,
         current' = current, done' = done, early' = early,
         ToSet(queue') \subseteq ToSet(queue),
         stopped => stopped',
         Created' = {} => Created = {}
  PROVE  SdkIInv'
<1>1. /\ UNCHANGED <<util, onFinished, call, phase, outString, target, told, waited>>
      /\ Heard' = Heard
      /\ Waiting' = Waiting
  BY DEF sdkVars, Heard, Waiting
<1>2. Posted' \subseteq Posted
  BY DEF Posted, Running
<1>3. SdkTypeOK'
  BY <1>1 DEF SdkIInv, SdkTypeOK
<1>4. PhaseInv' /\ StringInv'
  BY <1>1 DEF SdkIInv, PhaseInv, StringInv
<1>5. CallInv'
  BY <1>1, <1>2 DEF SdkIInv, CallInv
<1>6. OwnCallback' /\ OwnOutput'
  BY <1>1 DEF SdkIInv, OwnCallback, OwnOutput
<1>7. SlotInv' /\ StringsApart'
  BY <1>1 DEF SdkIInv, SlotInv, StringsApart
<1>8. LiveInv'
  BY <1>1 DEF SdkIInv, LiveInv, Alive
<1> QED BY <1>3, <1>4, <1>5, <1>6, <1>7, <1>8 DEF SdkIInv

\* An object is created, or deleted when nothing at work needs it.
LEMMA UtilInv ==
  ASSUME SdkIInv, NEW u \in Utils, NEW s \in {"live", "deleted"},
         util' = [util EXCEPT ![u] = s],
         UNCHANGED <<poolVars, onFinished, call, phase, outString, target, told, waited>>,
         s = "live" \/ u \in waited \/ \A t \in Waiting : call[t].util # u
  PROVE  SdkIInv'
<1>1. /\ UNCHANGED <<onFinished, call, phase, outString, target, told, waited>>
      /\ UNCHANGED <<guard, queue, stopped, thread, current, owner, done, early, joined>>
  BY DEF poolVars
<1>2. /\ Heard' = Heard /\ Waiting' = Waiting /\ Posted' = Posted /\ Created' = Created
  BY <1>1 DEF Heard, Waiting, Posted, Running, Created
<1>3. SdkTypeOK'
  <2>1. PoolTypeOK'
    BY <1>1 DEF SdkIInv, SdkTypeOK, PoolTypeOK
  <2>2. util' \in [Utils -> {"none", "live", "deleted"}]
    BY DEF SdkIInv, SdkTypeOK
  <2> QED BY <1>1, <2>1, <2>2 DEF SdkIInv, SdkTypeOK
<1>4. PhaseInv' /\ StringInv'
  BY <1>1, <1>2 DEF SdkIInv, PhaseInv, StringInv
<1>5. CallInv'
  BY <1>1, <1>2 DEF SdkIInv, CallInv
<1>6. OwnCallback' /\ OwnOutput'
  BY <1>1 DEF SdkIInv, OwnCallback, OwnOutput
<1>7. SlotInv' /\ StringsApart'
  BY <1>1, <1>2 DEF SdkIInv, SlotInv, StringsApart
<1>8. LiveInv'
  <2>1. ASSUME NEW t \in Waiting, Alive(t) PROVE util'[call[t].util] = "live"
    <3>1. util \in [Utils -> {"none", "live", "deleted"}]
      BY DEF SdkIInv, SdkTypeOK
    <3> QED BY <2>1, <3>1 DEF Alive, SdkIInv, SdkTypeOK, Waiting
  <2>2. \A w \in Workers : phase'[w] \in Working =>
            util'[call'[current'[w]].util] = "live" /\ call'[current'[w]].util \notin waited'
    BY <1>1, <2>1, AtWork DEF SdkIInv, LiveInv, Alive
  <2>3. ~stopped' => \A t \in ToSet(queue') :
            util'[call'[t].util] = "live" /\ call'[t].util \notin waited'
    BY <1>1, <2>1, AtWork DEF SdkIInv, LiveInv, Alive
  <2> QED BY <2>2, <2>3 DEF LiveInv, Alive
<1> QED BY <1>3, <1>4, <1>5, <1>6, <1>7, <1>8 DEF SdkIInv

\* An operation starts: on a thread, or told at once that an input is missing.
LEMMA BindInv ==
  ASSUME SdkAssumption, RulesKept, SdkIInv, PoolTypeOK',
         NEW t \in Tasks, NEW u \in Utils, NEW o \in Outs \cup {NoOut},
         MayExecute(u, o), ~Called(t), BindCall(t, u, o),
         UNCHANGED <<util, phase, outString, target>>,
         \/ Enqueue(t) /\ Created # {} /\ UNCHANGED told
         \/ UNCHANGED poolVars /\ told' = told \cup {<<t, t>>}
  PROVE  SdkIInv'
<1>1. /\ onFinished' = [onFinished EXCEPT ![u] = t]
      /\ call' = [call EXCEPT ![t] = [util |-> u, out |-> o]]
      /\ waited' = waited \ {u}
      /\ util' = util /\ phase' = phase /\ outString' = outString /\ target' = target
  BY DEF BindCall
<1>2. /\ call[t] = NotCalled
      /\ t \notin Waiting
      /\ onFinished \in [Utils -> Tasks \cup {NoTask}]
      /\ call \in [Tasks -> [util : Utils, out : Outs \cup {NoOut}] \cup {NotCalled}]
      /\ \A s \in Waiting : call[s].util \in Utils /\ s \in Tasks
  BY DEF Called, Waiting, SdkIInv, SdkTypeOK
<1>3. /\ call'[t].util = u /\ call'[t].out = o
      /\ call'[t] # NotCalled
      /\ \A s \in Tasks : s # t => call'[s] = call[s]
  <2>1. [util |-> u, out |-> o].util # "none"
    BY DEF SdkAssumption
  <2>2. call'[t] = [util |-> u, out |-> o]
    BY <1>1, <1>2
  <2>3. NotCalled.util = "none"
    BY DEF NotCalled
  <2> QED BY <1>1, <1>2, <2>1, <2>2, <2>3
<1>4. /\ util[u] = "live"
      /\ \A s \in Waiting : call[s].util # u
      /\ o # NoOut => \A s \in Waiting : call[s].out # o
  BY RulesGrant
<1>5. /\ current' = current /\ done' = done /\ thread' = thread
      /\ stopped' = stopped
      /\ Running' = Running /\ Created' = Created
      /\ t \notin Heard /\ t \notin Posted /\ t \notin early
  <2>1. t \notin Heard /\ t \notin Posted /\ t \notin early
    BY <1>2 DEF SdkIInv, CallInv
  <2>2. current' = current /\ done' = done /\ thread' = thread /\ stopped' = stopped
    BY DEF Enqueue, poolVars
  <2> QED BY <2>1, <2>2 DEF Running, Created
<1>6. \/ /\ ToSet(queue') = ToSet(queue) \cup {t} /\ early' \subseteq early \cup {t}
         /\ Created # {} /\ told' = told /\ Heard' = Heard
      \/ /\ queue' = queue /\ early' = early
         /\ told' = told \cup {<<t, t>>} /\ Heard' = Heard \cup {t}
  <2>1. CASE Enqueue(t) /\ Created # {} /\ UNCHANGED told
    <3>1. queue \in Seq(Tasks)
      BY DEF SdkIInv, SdkTypeOK, PoolTypeOK
    <3>2. queue' = Append(queue, t)
      BY <2>1 DEF Enqueue
    <3>3. ToSet(queue') = ToSet(queue) \cup {t}
      <4>1. ToSet(Append(queue, t)) = ToSet(queue) \cup {t}
        BY ONLY <3>1, t \in Tasks, QueueAppend
      <4> QED BY <3>2, <4>1
    <3>4. early' \subseteq early \cup {t}
      BY <2>1 DEF Enqueue
    <3>5. told' = told /\ Heard' = Heard
      BY <2>1 DEF Heard
    <3> QED BY <2>1, <3>3, <3>4, <3>5
  <2>2. CASE UNCHANGED poolVars /\ told' = told \cup {<<t, t>>}
    <3>1. Heard' = Heard \cup {t}
      BY <2>2, HeardGrows
    <3>2. queue' = queue /\ early' = early
      BY <2>2 DEF poolVars
    <3> QED BY <2>2, <3>1, <3>2
  <2> QED BY <2>1, <2>2
<1>7. Waiting' \subseteq Waiting \cup {t}
  BY <1>3, <1>6 DEF Waiting
<1>8. SdkTypeOK'
  <2>1. onFinished' \in [Utils -> Tasks \cup {NoTask}]
    BY <1>1, <1>2
  <2>2. call' \in [Tasks -> [util : Utils, out : Outs \cup {NoOut}] \cup {NotCalled}]
    BY <1>1, <1>2
  <2>3. told' \subseteq Tasks \X Tasks
    <3>1. <<t, t>> \in Tasks \X Tasks /\ told \subseteq Tasks \X Tasks
      BY DEF SdkIInv, SdkTypeOK
    <3>2. told' \subseteq told \cup {<<t, t>>}
      BY <1>6
    <3> QED BY <3>1, <3>2
  <2>4. waited' \subseteq Utils
    BY <1>1 DEF SdkIInv, SdkTypeOK
  <2> QED BY <1>1, <2>1, <2>2, <2>3, <2>4 DEF SdkIInv, SdkTypeOK
<1>9. \A w \in Workers : phase[w] # "idle" => current[w] # t /\ call'[current[w]] = call[current[w]]
  BY <1>2, <1>3, AtWork
<1>10. PhaseInv'
  BY <1>1, <1>5, <1>6, <1>9 DEF SdkIInv, PhaseInv, Working
<1>11. CallInv'
  <2>1. Posted' \subseteq Posted \cup {t} /\ early' \subseteq early \cup {t}
        /\ Heard' \subseteq Heard \cup {t}
    BY <1>5, <1>6 DEF Posted
  <2>2. Posted' \cup early' \cup Heard' \subseteq {s \in Tasks : call'[s] # NotCalled}
    BY <1>3, <2>1 DEF SdkIInv, CallInv
  <2>3. ToSet(queue') \cap Heard' = {}
    BY <1>5, <1>6 DEF SdkIInv, CallInv, Posted
  <2>4. Created' = {} => Posted' = {}
    BY <1>5, <1>6 DEF SdkIInv, CallInv, Posted
  <2> QED BY <2>2, <2>3, <2>4 DEF CallInv
<1>12. OwnCallback'
  <2>1. told' \subseteq told \cup {<<t, t>>} /\ Heard \subseteq Heard'
    BY <1>6
  <2>2. \A p \in told' : p[1] = p[2]
    <3>1. <<t, t>>[1] = <<t, t>>[2]
      OBVIOUS
    <3>2. \A p \in told : p[1] = p[2]
      BY DEF SdkIInv, OwnCallback
    <3> QED BY ONLY <2>1, <3>1, <3>2
  <2>3. done' \subseteq Heard'
    BY <1>5, <2>1 DEF SdkIInv, OwnCallback, Heard
  <2> QED BY <2>2, <2>3 DEF OwnCallback, Heard
<1>13. SlotInv'
  <2> SUFFICES ASSUME NEW s \in Waiting' PROVE onFinished'[call'[s].util] = s
    BY DEF SlotInv
  <2>1. CASE s = t
    BY <1>1, <1>2, <1>3, <2>1
  <2>2. CASE s # t
    BY <1>1, <1>2, <1>3, <1>4, <1>7, <2>2 DEF SdkIInv, SlotInv
  <2> QED BY <2>1, <2>2
<1>14. StringsApart'
  <2> SUFFICES ASSUME NEW r \in Waiting', NEW s \in Waiting', r # s,
                      call'[r].out = call'[s].out
               PROVE  call'[r].out = NoOut
    BY DEF StringsApart
  <2>1. CASE r = t
    <3>1. s \in Waiting /\ call'[s] = call[s] /\ call'[r].out = o
      BY <1>2, <1>3, <1>7, <2>1
    <3> QED BY <1>4, <3>1
  <2>2. CASE s = t
    <3>1. r \in Waiting /\ call'[r] = call[r] /\ call'[s].out = o
      BY <1>2, <1>3, <1>7, <2>2
    <3> QED BY <1>4, <3>1
  <2>3. CASE r # t /\ s # t
    <3>1. r \in Waiting /\ call'[r] = call[r] /\ s \in Waiting /\ call'[s] = call[s]
      BY <1>2, <1>3, <1>7, <2>3
    <3> QED BY <3>1 DEF SdkIInv, StringsApart
  <2> QED BY <2>1, <2>2, <2>3
<1>15. LiveInv'
  <2>1. \A s \in Waiting : Alive(s) => util'[call'[s].util] = "live" /\ call'[s].util \notin waited'
    BY <1>1, <1>2, <1>3 DEF Alive
  <2>2. util'[call'[t].util] = "live" /\ call'[t].util \notin waited'
    <3>1. util' = util /\ waited' = waited \ {u}
      BY <1>1
    <3>2. call'[t].util = u
      BY <1>3
    <3> QED BY ONLY <1>4, <3>1, <3>2
  <2>3. \A w \in Workers : phase'[w] \in Working =>
            util'[call'[current'[w]].util] = "live" /\ call'[current'[w]].util \notin waited'
    BY <1>1, <1>5, <2>1, AtWork DEF SdkIInv, LiveInv
  <2>4. ~stopped' => \A s \in ToSet(queue') :
            util'[call'[s].util] = "live" /\ call'[s].util \notin waited'
    <3> SUFFICES ASSUME ~stopped', NEW s \in ToSet(queue')
                 PROVE  util'[call'[s].util] = "live" /\ call'[s].util \notin waited'
      OBVIOUS
    <3>1. ~stopped
      BY <1>5
    <3>4. ToSet(queue') \subseteq ToSet(queue) \cup {t}
      BY <1>6
    <3>2. CASE s = t
      BY <2>2, <3>2
    <3>3. CASE s \in ToSet(queue)
      <4>1. s \in Waiting
        BY <3>3, AtWork
      <4>2. Alive(s)
        BY <3>1, <3>3 DEF SdkIInv, LiveInv
      <4> QED BY <2>1, <4>1, <4>2
    <3> QED BY <3>2, <3>3, <3>4
  <2> QED BY <2>3, <2>4 DEF LiveInv, Alive
<1>16. StringInv'
  <2> SUFFICES ASSUME NEW w \in Workers, phase[w] = "prepared"
               PROVE  /\ call'[current[w]].out \in Outs
                      /\ outString'[call'[current[w]].out] = current[w]
    BY <1>1, <1>5 DEF StringInv
  <2>1. call'[current[w]] = call[current[w]]
    BY <1>9
  <2> QED BY <1>1, <2>1 DEF SdkIInv, StringInv
<1>17. OwnOutput'
  BY <1>1 DEF SdkIInv, OwnOutput
<1> QED
  BY <1>8, <1>10, <1>11, <1>12, <1>13, <1>14, <1>15, <1>16, <1>17 DEF SdkIInv

\* WaitAsync returns: nothing is at work, and if there are threads nothing will
\* be taken any more.
LEMMA EndWaitInv ==
  ASSUME PoolIInv, SdkIInv, PoolTypeOK', EndWaitAsync
  PROVE  SdkIInv'
<1>1. /\ waited' = Utils
      /\ util' = util /\ onFinished' = onFinished /\ call' = call /\ phase' = phase
      /\ outString' = outString /\ target' = target /\ told' = told
      /\ stopped' = stopped /\ queue' = queue /\ thread' = thread /\ current' = current
      /\ done' = done /\ early' = early
  BY DEF EndWaitAsync, JoinReturn
<1>2. Running = {} /\ (Created # {} => stopped)
  BY ExitedFacts DEF EndWaitAsync, JoinReturn
<1>3. /\ Heard' = Heard /\ Waiting' = Waiting /\ Posted' = Posted /\ Created' = Created
  BY <1>1 DEF Heard, Waiting, Posted, Running, Created
<1>4. SdkTypeOK'
  BY <1>1 DEF SdkIInv, SdkTypeOK
<1>5. PhaseInv' /\ StringInv'
  BY <1>1, <1>3 DEF SdkIInv, PhaseInv, StringInv
<1>6. CallInv'
  BY <1>1, <1>3 DEF SdkIInv, CallInv
<1>7. OwnCallback' /\ OwnOutput'
  BY <1>1 DEF SdkIInv, OwnCallback, OwnOutput
<1>8. SlotInv' /\ StringsApart'
  BY <1>1, <1>3 DEF SdkIInv, SlotInv, StringsApart
<1>9. LiveInv'
  <2>1. \A w \in Workers : phase[w] = "idle"
    BY <1>2, AtWork
  <2>2. stopped \/ ToSet(queue) = {}
    BY <1>2 DEF SdkIInv, CallInv, Posted
  <2> QED BY <1>1, <2>1, <2>2 DEF LiveInv, Working
<1> QED BY <1>4, <1>5, <1>6, <1>7, <1>8, <1>9 DEF SdkIInv

LEMMA TakenIsTask ==
  ASSUME PoolAssumption, PoolIInv, NEW w \in Workers, Take(w)
  PROVE  Head(queue) \in Tasks /\ Head(queue) # NoTask
BY QueueTail DEF Take, PoolIInv, PoolTypeOK, PoolAssumption

LEMMA StartInv ==
  ASSUME PoolAssumption, PoolIInv, SdkIInv, PoolTypeOK', NEW w \in Workers, Start(w)
  PROVE  SdkIInv'
<1> DEFINE t == Head(queue)
<1>1. /\ current' = [current EXCEPT ![w] = t]
      /\ phase' = [phase EXCEPT ![w] = "started"]
      /\ phase[w] = "idle" /\ current[w] = NoTask
      /\ queue' = Tail(queue) /\ queue # <<>> /\ ~stopped
  BY DEF Start, Take, Step
<1>2. /\ util' = util /\ onFinished' = onFinished /\ call' = call
      /\ outString' = outString /\ target' = target /\ told' = told /\ waited' = waited
      /\ stopped' = stopped /\ thread' = thread /\ done' = done /\ early' = early
  BY DEF Start, Take
<1>3. /\ queue \in Seq(Tasks)
      /\ current \in [Workers -> Tasks \cup {NoTask}]
      /\ phase \in [Workers -> {"idle", "started", "prepared", "opened", "calling"}]
  BY DEF SdkIInv, SdkTypeOK, PoolTypeOK
<1>4. /\ t \in ToSet(queue) /\ t \in Tasks
      /\ ToSet(queue') \subseteq ToSet(queue)
  BY <1>1, <1>3, QueueTail
<1>15. t # NoTask
  BY TakenIsTask DEF Start
<1> HIDE DEF t
<1>5. t \in Waiting /\ t \notin Heard /\ Alive(t) /\ t \in Posted
  BY <1>1, <1>4, AtWork DEF SdkIInv, LiveInv, Waiting, Posted
<1>6. /\ current'[w] = t /\ phase'[w] = "started"
      /\ \A v \in Workers : v # w => current'[v] = current[v] /\ phase'[v] = phase[v]
  BY <1>1, <1>3
<1>7. /\ Heard' = Heard /\ Waiting' = Waiting /\ Created' = Created
      /\ Posted' \subseteq Posted
  <2>1. Running' \subseteq Running \cup {t}
    BY <1>6 DEF Running
  <2> QED BY <1>2, <1>4, <1>5, <2>1 DEF Heard, Waiting, Created, Posted
<1>8. SdkTypeOK'
  BY <1>1, <1>2, <1>3 DEF SdkIInv, SdkTypeOK
<1>9. PhaseInv'
  BY <1>5, <1>6, <1>7, <1>15 DEF SdkIInv, PhaseInv, Working
<1>10. CallInv'
  BY <1>2, <1>4, <1>7 DEF SdkIInv, CallInv
<1>11. OwnCallback' /\ OwnOutput'
  BY <1>2 DEF SdkIInv, OwnCallback, OwnOutput
<1>12. SlotInv' /\ StringsApart'
  BY <1>2, <1>7 DEF SdkIInv, SlotInv, StringsApart
<1>13. LiveInv'
  BY <1>2, <1>4, <1>5, <1>6 DEF SdkIInv, LiveInv, Alive
<1>14. StringInv'
  BY <1>2, <1>6 DEF SdkIInv, StringInv
<1> QED BY <1>8, <1>9, <1>10, <1>11, <1>12, <1>13, <1>14 DEF SdkIInv

\* Two threads are never in handlers of the same operation.
LEMMA OtherCurrent ==
  ASSUME PoolIInv, NEW v \in Workers, NEW w \in Workers, v # w, current[w] # NoTask
  PROVE  current[v] # current[w]
BY DEF PoolIInv, RunsOnce

LEMMA PrepareInv ==
  ASSUME PoolIInv, SdkIInv, NEW w \in Workers, Prepare(w)
  PROVE  SdkIInv'
<1> DEFINE t == current[w]
<1>1. /\ phase[w] = "started"
      /\ phase' = [phase EXCEPT ![w] = "prepared"]
      /\ call[t].out \in Outs
      /\ outString' = [outString EXCEPT ![call[t].out] = t]
  BY DEF Prepare, Step
<1>2. /\ UNCHANGED <<util, onFinished, call, target, told, waited>>
      /\ UNCHANGED <<guard, queue, stopped, thread, current, owner, done, early, joined>>
  BY DEF Prepare, poolVars
<1>3. /\ phase \in [Workers -> {"idle", "started", "prepared", "opened", "calling"}]
      /\ outString \in [Outs -> Tasks \cup {NoTask}]
  BY DEF SdkIInv, SdkTypeOK
<1>4. t \in Waiting /\ t \in Tasks
  BY <1>1, AtWork DEF Working
<1>5. /\ phase'[w] = "prepared"
      /\ \A v \in Workers : v # w => phase'[v] = phase[v]
      /\ \A v \in Workers : phase'[v] \in Working <=> phase[v] \in Working
      /\ \A v \in Workers : phase'[v] = "idle" <=> phase[v] = "idle"
      /\ \A v \in Workers : phase'[v] = "calling" <=> phase[v] = "calling"
  BY <1>1, <1>3 DEF Working
<1>6. Heard' = Heard /\ Waiting' = Waiting /\ Posted' = Posted /\ Created' = Created
  BY <1>2 DEF Heard, Waiting, Posted, Running, Created
<1>7. SdkTypeOK'
  <2>1. PoolTypeOK'
    BY <1>2 DEF SdkIInv, SdkTypeOK, PoolTypeOK
  <2>2. outString' \in [Outs -> Tasks \cup {NoTask}]
    BY <1>1, <1>3, <1>4
  <2>3. phase' \in [Workers -> {"idle", "started", "prepared", "opened", "calling"}]
    BY <1>1, <1>3
  <2> QED BY <1>2, <2>1, <2>2, <2>3 DEF SdkIInv, SdkTypeOK
<1>8. PhaseInv'
  BY <1>2, <1>5, <1>6 DEF SdkIInv, PhaseInv
<1>9. CallInv'
  BY <1>2, <1>6 DEF SdkIInv, CallInv
<1>10. OwnCallback' /\ OwnOutput'
  BY <1>2 DEF SdkIInv, OwnCallback, OwnOutput
<1>11. SlotInv' /\ StringsApart'
  BY <1>2, <1>6 DEF SdkIInv, SlotInv, StringsApart
<1>12. LiveInv'
  BY <1>2, <1>5 DEF SdkIInv, LiveInv, Alive
<1>13. StringInv'
  <2> SUFFICES ASSUME NEW v \in Workers, phase'[v] = "prepared"
               PROVE  /\ call[current[v]].out \in Outs
                      /\ outString'[call[current[v]].out] = current[v]
    BY <1>2 DEF StringInv
  <2>1. CASE v = w
    BY <1>1, <1>3, <2>1
  <2>2. CASE v # w
    <3>1. phase[v] = "prepared"
      BY <1>5, <2>2
    <3>2. call[current[v]].out \in Outs /\ outString[call[current[v]].out] = current[v]
      BY <3>1 DEF SdkIInv, StringInv
    <3>3. current[v] \in Waiting /\ current[v] # t
      <4>1. t # NoTask
        BY <1>1 DEF SdkIInv, PhaseInv
      <4> QED BY <2>2, <3>1, <4>1, AtWork, OtherCurrent DEF Working
    <3>4. call[current[v]].out # call[t].out
      <4>1. NoOut \notin Outs \/ call[t].out # NoOut
        BY <1>1, SdkAssumption DEF SdkAssumption
      <4> QED BY <1>1, <1>4, <3>3, <4>1, SdkAssumption DEF SdkIInv, StringsApart, SdkAssumption
    <3> QED BY <1>1, <1>3, <3>2, <3>4
  <2> QED BY <2>1, <2>2
<1> QED BY <1>7, <1>8, <1>9, <1>10, <1>11, <1>12, <1>13 DEF SdkIInv

LEMMA OpenInv ==
  ASSUME SdkIInv, NEW w \in Workers, OpenOutput(w)
  PROVE  SdkIInv'
<1> DEFINE t == current[w]
<1>1. /\ phase[w] = "prepared"
      /\ phase' = [phase EXCEPT ![w] = "opened"]
      /\ target' = [target EXCEPT ![t] = outString[call[t].out]]
  BY DEF OpenOutput, Step
<1>2. /\ UNCHANGED <<util, onFinished, call, outString, told, waited>>
      /\ UNCHANGED <<guard, queue, stopped, thread, current, owner, done, early, joined>>
  BY DEF OpenOutput, poolVars
<1>3. /\ phase \in [Workers -> {"idle", "started", "prepared", "opened", "calling"}]
      /\ target \in [Tasks -> Tasks \cup {NoTask}]
  BY DEF SdkIInv, SdkTypeOK
<1>4. t \in Tasks /\ outString[call[t].out] = t
  BY <1>1, AtWork DEF SdkIInv, StringInv
<1>5. /\ \A v \in Workers : phase'[v] \in Working <=> phase[v] \in Working
      /\ \A v \in Workers : phase'[v] = "idle" <=> phase[v] = "idle"
      /\ \A v \in Workers : phase'[v] = "calling" <=> phase[v] = "calling"
      /\ \A v \in Workers : phase'[v] = "prepared" => phase[v] = "prepared"
  BY <1>1, <1>3 DEF Working
<1>6. Heard' = Heard /\ Waiting' = Waiting /\ Posted' = Posted /\ Created' = Created
  BY <1>2 DEF Heard, Waiting, Posted, Running, Created
<1>7. SdkTypeOK'
  <2>1. PoolTypeOK'
    BY <1>2 DEF SdkIInv, SdkTypeOK, PoolTypeOK
  <2>2. target' \in [Tasks -> Tasks \cup {NoTask}]
    BY <1>1, <1>3, <1>4
  <2>3. phase' \in [Workers -> {"idle", "started", "prepared", "opened", "calling"}]
    BY <1>1, <1>3
  <2> QED BY <1>2, <2>1, <2>2, <2>3 DEF SdkIInv, SdkTypeOK
<1>8. PhaseInv'
  BY <1>2, <1>5, <1>6 DEF SdkIInv, PhaseInv
<1>9. CallInv'
  BY <1>2, <1>6 DEF SdkIInv, CallInv
<1>10. OwnCallback'
  BY <1>2 DEF SdkIInv, OwnCallback
<1>11. SlotInv' /\ StringsApart'
  BY <1>2, <1>6 DEF SdkIInv, SlotInv, StringsApart
<1>12. LiveInv'
  BY <1>2, <1>5 DEF SdkIInv, LiveInv, Alive
<1>13. StringInv'
  BY <1>2, <1>5 DEF SdkIInv, StringInv
<1>14. OwnOutput'
  BY <1>1, <1>3, <1>4 DEF SdkIInv, OwnOutput
<1> QED BY <1>7, <1>8, <1>9, <1>10, <1>11, <1>12, <1>13, <1>14 DEF SdkIInv

LEMMA NotifyInv ==
  ASSUME PoolIInv, SdkIInv, NEW w \in Workers, Notify(w)
  PROVE  SdkIInv'
<1> DEFINE t == current[w]
<1>1. /\ phase[w] \in Working
      /\ phase' = [phase EXCEPT ![w] = "calling"]
      /\ told' = told \cup {<<t, onFinished[call[t].util]>>}
  BY DEF Notify, Step, Working, UtilOf
<1>2. /\ UNCHANGED <<util, onFinished, call, outString, target, waited>>
      /\ UNCHANGED <<guard, queue, stopped, thread, current, owner, done, early, joined>>
  BY DEF Notify, poolVars
<1>3. phase \in [Workers -> {"idle", "started", "prepared", "opened", "calling"}]
  BY DEF SdkIInv, SdkTypeOK
<1>4. /\ t \in Waiting /\ t \in Tasks /\ t \in Running /\ t # NoTask
      /\ onFinished[call[t].util] = t
  <2>1. phase[w] # "idle"
    BY <1>1 DEF Working
  <2>2. t \in Waiting /\ t \in Tasks /\ t \in Running
    BY <1>1, <2>1, AtWork
  <2> QED BY <2>1, <2>2 DEF SdkIInv, PhaseInv, SlotInv
<1>5. /\ phase'[w] = "calling"
      /\ \A v \in Workers : v # w => phase'[v] = phase[v]
      /\ \A v \in Workers : v # w => current[v] # t
      /\ \A v \in Workers : phase'[v] \in Working => v # w
  BY <1>1, <1>3, <1>4, OtherCurrent DEF Working
<1>6. told' = told \cup {<<t, t>>} /\ Heard' = Heard \cup {t}
  <2>1. told' = told \cup {<<t, t>>}
    BY <1>1, <1>4
  <2> QED BY <2>1, HeardGrows
<1>7. Waiting' \subseteq Waiting /\ Posted' = Posted /\ Created' = Created
  BY <1>2, <1>6 DEF Waiting, Posted, Running, Created
<1>8. SdkTypeOK'
  <2>1. PoolTypeOK'
    BY <1>2 DEF SdkIInv, SdkTypeOK, PoolTypeOK
  <2>2. told' \subseteq Tasks \X Tasks
    <3>1. <<t, t>> \in Tasks \X Tasks /\ told \subseteq Tasks \X Tasks
      BY <1>4 DEF SdkIInv, SdkTypeOK
    <3> QED BY <1>6, <3>1
  <2>3. phase' \in [Workers -> {"idle", "started", "prepared", "opened", "calling"}]
    BY <1>1, <1>3
  <2> QED BY <1>2, <2>1, <2>2, <2>3 DEF SdkIInv, SdkTypeOK
<1>9. PhaseInv'
  <2> SUFFICES ASSUME NEW v \in Workers
               PROVE  /\ phase'[v] = "idle" <=> current[v] = NoTask
                      /\ phase'[v] \in Working => current[v] \notin Heard'
                      /\ phase'[v] = "calling" => current[v] \in Heard'
    BY <1>2 DEF PhaseInv
  <2>1. CASE v = w
    BY <1>4, <1>5, <1>6, <2>1
  <2>2. CASE v # w
    BY <1>5, <1>6, <2>2 DEF SdkIInv, PhaseInv
  <2> QED BY <2>1, <2>2
<1>10. CallInv'
  <2>1. t \notin ToSet(queue) /\ call[t] # NotCalled
    BY <1>4 DEF PoolIInv, RunsOnce, Waiting
  <2> QED BY <1>2, <1>4, <1>6, <1>7, <2>1 DEF SdkIInv, CallInv
<1>11. OwnCallback'
  <2>1. <<t, t>>[1] = <<t, t>>[2]
    OBVIOUS
  <2>2. (\A p \in told : p[1] = p[2]) /\ done \subseteq Heard
    BY DEF SdkIInv, OwnCallback, Heard
  <2>3. \A p \in told' : p[1] = p[2]
    BY ONLY <1>6, <2>1, <2>2
  <2>4. done' \subseteq Heard'
    BY <1>2, <1>6, <2>2
  <2> QED BY <2>3, <2>4 DEF OwnCallback, Heard
<1>12. OwnOutput'
  BY <1>2 DEF SdkIInv, OwnOutput
<1>13. SlotInv' /\ StringsApart'
  BY <1>2, <1>7 DEF SdkIInv, SlotInv, StringsApart
<1>14. LiveInv'
  BY <1>2, <1>5 DEF SdkIInv, LiveInv, Alive
<1>15. StringInv'
  BY <1>2, <1>5 DEF SdkIInv, StringInv
<1> QED
  BY <1>8, <1>9, <1>10, <1>11, <1>12, <1>13, <1>14, <1>15 DEF SdkIInv

LEMMA ReturnInv ==
  ASSUME PoolAssumption, PoolIInv, SdkIInv, PoolTypeOK', NEW w \in Workers, Return(w)
  PROVE  SdkIInv'
<1> DEFINE t == current[w]
<1>1. /\ phase[w] = "calling"
      /\ phase' = [phase EXCEPT ![w] = "idle"]
      /\ current' = [current EXCEPT ![w] = NoTask]
      /\ done' = done \cup {t}
  BY DEF Return, Finish, Step
<1>2. /\ UNCHANGED <<util, onFinished, call, outString, target, told, waited>>
      /\ UNCHANGED <<guard, queue, thread, owner, early, joined>>
      /\ stopped => stopped'
  BY DEF Return, Finish
<1>3. /\ phase \in [Workers -> {"idle", "started", "prepared", "opened", "calling"}]
      /\ current \in [Workers -> Tasks \cup {NoTask}]
  BY DEF SdkIInv, SdkTypeOK, PoolTypeOK
<1>4. t \in Heard /\ t \in Running
  BY <1>1, AtWork DEF SdkIInv, PhaseInv
<1>5. /\ phase'[w] = "idle" /\ current'[w] = NoTask
      /\ \A v \in Workers : v # w => phase'[v] = phase[v] /\ current'[v] = current[v]
  BY <1>1, <1>3
<1>6. Heard' = Heard /\ Waiting' = Waiting /\ Created' = Created
  BY <1>2 DEF Heard, Waiting, Created
<1>7. Posted' \subseteq Posted
  <2>1. Running' \subseteq Running
    BY <1>5 DEF Running
  <2> QED BY <1>1, <1>2, <1>4, <2>1 DEF Posted
<1>8. SdkTypeOK'
  <2>1. phase' \in [Workers -> {"idle", "started", "prepared", "opened", "calling"}]
    BY <1>1, <1>3
  <2> QED BY <1>2, <2>1 DEF SdkIInv, SdkTypeOK
<1>9. PhaseInv'
  BY <1>5, <1>6 DEF SdkIInv, PhaseInv, Working
<1>10. CallInv'
  BY <1>2, <1>6, <1>7 DEF SdkIInv, CallInv
<1>11. OwnCallback'
  <2>1. done' \subseteq Heard'
    BY <1>1, <1>4, <1>6 DEF SdkIInv, OwnCallback, Heard
  <2> QED BY <1>2, <2>1 DEF SdkIInv, OwnCallback, Heard
<1>12. OwnOutput'
  BY <1>2 DEF SdkIInv, OwnOutput
<1>13. SlotInv' /\ StringsApart'
  BY <1>2, <1>6 DEF SdkIInv, SlotInv, StringsApart
<1>14. LiveInv'
  BY <1>2, <1>5 DEF SdkIInv, LiveInv, Alive, Working
<1>15. StringInv'
  BY <1>2, <1>5 DEF SdkIInv, StringInv
<1> QED
  BY <1>8, <1>9, <1>10, <1>11, <1>12, <1>13, <1>14, <1>15 DEF SdkIInv

LEMMA CallbackExecuteInv ==
  ASSUME RulesKept, PoolIInv, SdkIInv, PoolTypeOK', NEW w \in Workers,
         NEW t \in Tasks, NEW u \in Utils, NEW o \in Outs \cup {NoOut},
         CallbackExecute(w, t, u, o)
  PROVE  SdkIInv'
<1>1. Created # {}
  BY CallbackCreated DEF CallbackExecute, CallbackPost
<1> QED BY <1>1, BindInv, SdkAssumption DEF CallbackExecute, CallbackPost

-------------------------------------------------------------------------------
(* The invariant and what follows from it *)

\* A step of the SDK is a step of the pool, or leaves the pool alone.
LEMMA SdkStepIsPoolStep == [SdkNext]_vars => [PoolNext]_poolVars
BY DEF SdkNext, ClientStep, HandlerStep, CallbackStep, CreateFactory, Create, ReleaseUtil,
       Execute, ExecuteMissing, StartWaitAsync, EndWaitAsync, Exit, Start, Prepare,
       OpenOutput, Notify, Return, ThreadEnds, CallbackRelease, CallbackExecute,
       PoolNext, OwnerStep, WorkerStep, vars

LEMMA ClientStepInv ==
  ASSUME PoolAssumption, SdkAssumption, RulesKept, PoolIInv, PoolIInv', SdkIInv, ClientStep
  PROVE  SdkIInv'
<1>1. PoolTypeOK'
  BY DEF PoolIInv
<1>2. CASE CreateFactory
  <2>1. UNCHANGED sdkVars /\ Created = {} /\ UNCHANGED <<queue, stopped, current, done, early>>
    BY <1>2 DEF CreateFactory, InitPool
  <2> QED BY <1>1, <2>1, QuietInv
<1>3. ASSUME NEW u \in Utils, Create(u) PROVE SdkIInv'
  BY <1>3, UtilInv DEF Create
<1>4. ASSUME NEW u \in Utils, ReleaseUtil(u) PROVE SdkIInv'
  <2>1. u \in waited \/ \A t \in Waiting : call[t].util # u
    BY <1>4, HeardTold DEF ReleaseUtil, OpsOf, Waiting
  <2> QED BY <1>4, <2>1, UtilInv DEF ReleaseUtil
<1>5. ASSUME NEW u \in Utils, NEW t \in Tasks, NEW o \in Outs \cup {NoOut}, Execute(t, u, o)
      PROVE  SdkIInv'
  BY <1>1, <1>5, BindInv DEF Execute, Post
<1>6. ASSUME NEW u \in Utils, NEW t \in Tasks, NEW o \in Outs \cup {NoOut},
             ExecuteMissing(t, u, o)
      PROVE  SdkIInv'
  BY <1>1, <1>6, BindInv DEF ExecuteMissing
<1>7. CASE StartWaitAsync
  <2>1. /\ UNCHANGED sdkVars /\ UNCHANGED <<queue, thread, current, done, early>>
        /\ stopped => stopped'
    BY <1>7 DEF StartWaitAsync, JoinAll
  <2>2. Created' = Created
    BY <2>1 DEF Created
  <2> QED BY <1>1, <2>1, <2>2, QuietInv
<1>8. CASE EndWaitAsync
  BY <1>1, <1>8, EndWaitInv
<1>9. CASE Exit
  <2>1. UNCHANGED sdkVars /\ UNCHANGED <<thread, current, done, early>>
    BY <1>9 DEF Exit, Destroy, DestroyReturn
  <2>2. (stopped => stopped') /\ ToSet(queue') \subseteq ToSet(queue)
    <3>1. CASE Destroy
      BY <3>1 DEF Destroy
    <3>2. CASE DestroyReturn
      BY <3>2, QueueEmpty DEF DestroyReturn
    <3> QED BY <1>9, <3>1, <3>2 DEF Exit
  <2>3. Created' = Created
    BY <2>1 DEF Created
  <2> QED BY <1>1, <2>1, <2>2, <2>3, QuietInv
<1> QED BY <1>2, <1>3, <1>4, <1>5, <1>6, <1>7, <1>8, <1>9 DEF ClientStep

LEMMA ThreadStepInv ==
  ASSUME PoolAssumption, SdkAssumption, RulesKept, PoolIInv, PoolIInv', SdkIInv,
         NEW w \in Workers, HandlerStep(w) \/ CallbackStep(w)
  PROVE  SdkIInv'
<1>1. PoolTypeOK'
  BY DEF PoolIInv
<1>2. CASE Start(w) \/ Prepare(w) \/ OpenOutput(w) \/ Notify(w) \/ Return(w)
  BY <1>1, <1>2, StartInv, PrepareInv, OpenInv, NotifyInv, ReturnInv
<1>3. CASE ThreadEnds(w)
  <2>1. /\ UNCHANGED sdkVars /\ UNCHANGED <<queue, stopped, current, done, early>>
        /\ thread[w] = "up" /\ thread' = [thread EXCEPT ![w] = "exited"]
    BY <1>3 DEF ThreadEnds, Leave
  <2>2. thread \in [Workers -> {"none", "up", "exited"}]
    BY DEF PoolIInv, PoolTypeOK
  <2>3. Created' = Created
    BY <2>1, <2>2 DEF Created
  <2> QED BY <1>1, <2>1, <2>3, QuietInv
<1>4. ASSUME NEW u \in Utils, CallbackRelease(w, u) PROVE SdkIInv'
  <2>1. \A t \in Waiting : call[t].util # u
    BY <1>4, HeardTold DEF CallbackRelease, OpsOf, Waiting
  <2> QED BY <1>4, <2>1, UtilInv DEF CallbackRelease
<1>5. ASSUME NEW u \in Utils, NEW t \in Tasks, NEW o \in Outs \cup {NoOut},
             CallbackExecute(w, t, u, o)
      PROVE  SdkIInv'
  BY <1>1, <1>5, CallbackExecuteInv
<1> QED BY <1>2, <1>3, <1>4, <1>5 DEF HandlerStep, CallbackStep

LEMMA SdkStepInv ==
  ASSUME PoolAssumption, SdkAssumption, RulesKept
  PROVE  PoolIInv /\ PoolIInv' /\ SdkIInv /\ [SdkNext]_vars => SdkIInv'
<1> SUFFICES ASSUME PoolIInv, PoolIInv', SdkIInv, [SdkNext]_vars PROVE SdkIInv'
  OBVIOUS
<1>1. CASE ClientStep
  BY <1>1, ClientStepInv
<1>2. ASSUME NEW w \in Workers, HandlerStep(w) \/ CallbackStep(w) PROVE SdkIInv'
  BY <1>2, ThreadStepInv
<1>3. CASE UNCHANGED vars
  <2>1. UNCHANGED sdkVars /\ UNCHANGED <<queue, stopped, thread, current, done, early>>
    BY <1>3 DEF vars, poolVars
  <2>2. Created' = Created /\ PoolTypeOK'
    BY <2>1 DEF Created, PoolIInv
  <2> QED BY <2>1, <2>2, QuietInv
<1> QED BY <1>1, <1>2, <1>3 DEF SdkNext

\* The pool inside the SDK behaves as CThreadPool does on its own.
THEOREM SdkKeepsPool ==
  ASSUME PoolAssumption
  PROVE  SdkSpec => []PoolIInv
<1>1. SdkInit => PoolInit
  BY DEF SdkInit
<1> QED BY <1>1, SdkStepIsPoolStep, PoolInvariance, PTL DEF SdkSpec, PoolSafety

\* The inductive invariant of AsyncSdk, for a client that keeps the rules.
THEOREM SdkInvariance ==
  ASSUME PoolAssumption, SdkAssumption, RulesKept
  PROVE  SdkSpec => []SdkIInv
<1>1. PoolIInv /\ SdkInit => SdkIInv
  BY SdkInitInv
<1> QED BY <1>1, SdkStepInv, SdkKeepsPool, PTL DEF SdkSpec

\* Every variable of the SDK keeps its type.
THEOREM SdkTypeCorrect ==
  ASSUME PoolAssumption, SdkAssumption, RulesKept
  PROVE  SdkSpec => []SdkTypeOK
<1>1. SdkIInv => SdkTypeOK
  BY DEF SdkIInv
<1> QED BY <1>1, SdkInvariance, PTL

\* The callback slot an object has only one of is never overwritten under an
\* operation: each one that ends has told the callback it was started with.
THEOREM SdkOwnCallback ==
  ASSUME PoolAssumption, SdkAssumption, RulesKept
  PROVE  SdkSpec => []OwnCallback
<1>1. SdkIInv => OwnCallback
  BY DEF SdkIInv
<1> QED BY <1>1, SdkInvariance, PTL

\* ReleaseUtil never deletes an object a handler has still to use, after a
\* WaitAsync, after the callback, or inside it.
THEOREM SdkNoUseAfterRelease ==
  ASSUME PoolAssumption, SdkAssumption, RulesKept
  PROVE  SdkSpec => []NoUseAfterRelease
<1>1. SdkIInv => NoUseAfterRelease
  BY DEF SdkIInv, LiveInv, Alive, Working, NoUseAfterRelease, UtilOf
<1> QED BY <1>1, SdkInvariance, PTL

\* The path an operation opens is its own, although another operation may have
\* composed one meanwhile.
THEOREM SdkOwnOutput ==
  ASSUME PoolAssumption, SdkAssumption, RulesKept
  PROVE  SdkSpec => []OwnOutput
<1>1. SdkIInv => OwnOutput
  BY DEF SdkIInv
<1> QED BY <1>1, SdkInvariance, PTL

-------------------------------------------------------------------------------
(* The SDK implements AsyncOps *)

LEMMA SdkInitImplements == SdkInit => Sdk!OpsInit
BY DEF SdkInit, PoolInit, Sdk!OpsInit

\* A step that changes neither what was posted in time, nor who was told, nor
\* where the application is, is no step of AsyncOps.
LEMMA SdkStutters ==
  ASSUME early' = early, told' = told, (owner = "joining")' = (owner = "joining")
  PROVE  UNCHANGED Sdk!opsVars
<1>1. \A t : Told(t)' <=> Told(t)
  BY DEF Told
<1> QED BY <1>1 DEF Sdk!opsVars

LEMMA SubmitImplements ==
  ASSUME SdkIInv, NEW t \in Tasks, ~Called(t), Enqueue(t), told' = told
  PROVE  [Sdk!OpsNext]_(Sdk!opsVars)
<1>1. t \notin early /\ ~Told(t)
  BY HeardTold DEF Called, SdkIInv, CallInv
<1>2. \A s : Told(s)' <=> Told(s)
  BY DEF Told
<1>3. owner' = owner /\ early' = IF stopped THEN early ELSE early \cup {t}
  BY DEF Enqueue
<1>4. CASE stopped
  BY <1>3, <1>4, SdkStutters
<1>5. CASE ~stopped
  <2>1. Sdk!Submit(t)
    BY <1>1, <1>2, <1>3, <1>5 DEF Sdk!Submit
  <2> QED BY <2>1 DEF Sdk!OpsNext
<1> QED BY <1>4, <1>5

LEMMA TellImplements ==
  ASSUME NEW t \in Tasks, NEW s, ~Told(t), told' = told \cup {<<t, s>>},
         early' = early, (owner = "joining")' = (owner = "joining")
  PROVE  [Sdk!OpsNext]_(Sdk!opsVars)
<1>1. \A r : Told(r)' <=> Told(r) \/ r = t
  <2>1. Heard' = Heard \cup {t}
    BY HeardGrows
  <2>2. \A r : Told(r)' <=> r \in Heard'
    BY DEF Told, Heard
  <2> QED BY <2>1, <2>2, HeardTold
<1>2. CASE t \in early
  <2>1. Sdk!Complete(t)
    BY <1>1, <1>2 DEF Sdk!Complete
  <2> QED BY <2>1 DEF Sdk!OpsNext
<1>3. CASE t \notin early
  BY <1>1, <1>3 DEF Sdk!opsVars
<1> QED BY <1>2, <1>3

LEMMA SdkStepImplements ==
  ASSUME PoolAssumption, SdkAssumption
  PROVE  PoolIInv /\ SdkIInv /\ [SdkNext]_vars => [Sdk!OpsNext]_(Sdk!opsVars)
<1> SUFFICES ASSUME PoolIInv, SdkIInv, [SdkNext]_vars
             PROVE  [Sdk!OpsNext]_(Sdk!opsVars)
  OBVIOUS
<1>1. ASSUME NEW t \in Tasks, NEW u \in Utils, NEW o \in Outs \cup {NoOut}, Execute(t, u, o)
      PROVE  [Sdk!OpsNext]_(Sdk!opsVars)
  BY <1>1, SubmitImplements DEF Execute, Post
<1>2. ASSUME NEW w \in Workers, NEW t \in Tasks, NEW u \in Utils, NEW o \in Outs \cup {NoOut},
             CallbackExecute(w, t, u, o)
      PROVE  [Sdk!OpsNext]_(Sdk!opsVars)
  BY <1>2, SubmitImplements DEF CallbackExecute, CallbackPost
<1>3. ASSUME NEW t \in Tasks, NEW u \in Utils, NEW o \in Outs \cup {NoOut},
             ExecuteMissing(t, u, o)
      PROVE  [Sdk!OpsNext]_(Sdk!opsVars)
  <2>1. ~Told(t)
    BY <1>3, HeardTold DEF ExecuteMissing, Called, SdkIInv, CallInv
  <2>2. told' = told \cup {<<t, t>>} /\ early' = early /\ owner' = owner
    BY <1>3 DEF ExecuteMissing, poolVars
  <2> QED BY <2>1, <2>2, TellImplements
<1>4. ASSUME NEW w \in Workers, Notify(w) PROVE [Sdk!OpsNext]_(Sdk!opsVars)
  <2>1. phase[w] \in Working
    BY <1>4 DEF Notify, Step, Working
  <2>2. current[w] \in Tasks /\ ~Told(current[w])
    BY <2>1, AtWork, HeardTold DEF Waiting
  <2>3. /\ told' = told \cup {<<current[w], onFinished[UtilOf(w)]>>}
        /\ early' = early /\ owner' = owner
    BY <1>4 DEF Notify, poolVars
  <2> QED BY <2>2, <2>3, TellImplements
<1>5. CASE StartWaitAsync
  <2>1. \A t : Told(t)' <=> Told(t)
    BY <1>5 DEF StartWaitAsync, sdkVars, Told
  <2>2. owner = "free" /\ owner' = "joining" /\ early' = early
    BY <1>5 DEF StartWaitAsync, JoinAll
  <2> QED BY <2>1, <2>2 DEF Sdk!OpsNext, Sdk!StartWait
<1>6. CASE EndWaitAsync
  <2>1. \A t : Told(t)' <=> Told(t)
    BY <1>6 DEF EndWaitAsync, Told
  <2>2. owner = "joining" /\ owner' = "free" /\ early' = early
    BY <1>6 DEF EndWaitAsync, JoinReturn
  <2>3. early \subseteq done
    BY <1>6, ExitedFacts DEF EndWaitAsync, JoinReturn, PoolIInv, PostedInv, EarlyNotStranded
  <2>4. \A t \in early : Told(t)
    BY <2>3, HeardTold DEF SdkIInv, OwnCallback, Heard
  <2> QED BY <2>1, <2>2, <2>4 DEF Sdk!OpsNext, Sdk!EndWait
<1>7. CASE CreateFactory \/ Exit
  <2>1. early' = early /\ told' = told
    BY <1>7 DEF CreateFactory, InitPool, Exit, Destroy, DestroyReturn, sdkVars
  <2>2. owner # "joining" /\ owner' # "joining"
    BY <1>7 DEF CreateFactory, InitPool, Exit, Destroy, DestroyReturn
  <2> QED BY <2>1, <2>2, SdkStutters
<1>8. ASSUME NEW u \in Utils, Create(u) \/ ReleaseUtil(u) PROVE UNCHANGED Sdk!opsVars
  BY <1>8, SdkStutters DEF Create, ReleaseUtil, poolVars
<1>9. ASSUME NEW w \in Workers,
             \/ Start(w) \/ Prepare(w) \/ OpenOutput(w) \/ Return(w) \/ ThreadEnds(w)
             \/ \E u \in Utils : CallbackRelease(w, u)
      PROVE  UNCHANGED Sdk!opsVars
  <2>1. early' = early /\ told' = told /\ owner' = owner
    BY <1>9 DEF Start, Take, Prepare, OpenOutput, Return, Finish, ThreadEnds, Leave,
               CallbackRelease, poolVars, sdkVars
  <2> QED BY <2>1, SdkStutters
<1>10. CASE UNCHANGED vars
  BY <1>10, SdkStutters DEF vars, poolVars, sdkVars
<1> QED
  BY <1>1, <1>2, <1>3, <1>4, <1>5, <1>6, <1>7, <1>8, <1>9, <1>10
  DEF SdkNext, ClientStep, HandlerStep, CallbackStep

\* WaitAsync returns only when each operation posted before the pool stopped
\* has made its callback, whatever the callbacks themselves started.
THEOREM SdkImplements ==
  ASSUME PoolAssumption, SdkAssumption, RulesKept
  PROVE  SdkSpec => SdkImplementsAsyncOps
BY SdkInitImplements, SdkStepImplements, SdkKeepsPool, SdkInvariance, PTL
DEF SdkSpec, SdkImplementsAsyncOps, Sdk!OpsSpec
===============================================================================
