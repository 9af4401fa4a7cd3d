--------------------------- MODULE RemoteJobs_proofs ---------------------------
(***************************************************************************)
(* For any number of operations, files of any length and any libraries in  *)
(* the directory of the server: client and handler take turns, no handler  *)
(* mistakes data for the key, every block gets one answer, the answers are *)
(* written in order, as RemoteSpec promises, and what was compressed and   *)
(* decompressed without a broken stream is what it was.                    *)
(***************************************************************************)
EXTENDS RemoteJobs, SequenceTheorems, WellFoundedInduction, TLAPS

-------------------------------------------------------------------------------
(* The inductive invariant *)

Services == {"compress", "uncompress", "crypto"}
Three == <<"compress", "uncompress", "crypto">>

\* What the libraries loaded so far have left behind.
Registered ==
    /\ pool \in Seq(Services) /\ builder \in Seq(Services)
    /\ \/ pool = <<>> /\ builder = <<>>
       \/ pool = Three /\ builder = Three
       \/ Len(builder) >= 6 /\ builder[1] = builder[4]

ServerInv ==
    /\ Registered
    /\ server = "down" => pool = <<>> /\ builder = <<>>
    /\ server = "serving" => Distinct(builder) /\ builder # <<>>

Talking == {"key", "key sent", "send", "sent"}
Waiting == {"key sent", "sent"}

\* The stage of an operation and the state of its stream belong together.
StageInv(j) ==
    /\ job[j].pc # "idle" => job[j].kind \in Kinds
    /\ job[j].pc \in {"idle", "open", "create"} =>
          /\ link[j] = "none" /\ ~job[j].opened /\ job[j].read = 0
          /\ out[j] = <<>> /\ hand[j] = NoHandler("none")
    /\ link[j] = "none" => job[j].pc \notin Talking \cup {"finish"}
    /\ link[j] = "open" => job[j].pc \in Talking /\ hand[j].st = "running"
    /\ link[j] = "half" => job[j].pc = "finish"
    /\ link[j] = "closed" => job[j].pc \in {"done", "thrown"}
    /\ link[j] = "silent" => hand[j] = NoHandler("none")
    /\ job[j].pc \in Talking => link[j] # "half"
    /\ job[j].pc \in {"key", "key sent"} => Crypto(j)

\* Messages are in the stream only while the client waits, and then exactly one
\* as long as the stream is there.
TurnInv(j) ==
    /\ job[j].pc \notin Waiting => up[j] = <<>> /\ down[j] = <<>>
    /\ link[j] = "broken" => up[j] = <<>> /\ Len(down[j]) <= 1
    /\ link[j] = "silent" => up[j] = <<>> /\ down[j] = <<>>
    /\ link[j] = "open" /\ job[j].pc \in Waiting =>
          \/ Len(up[j]) = 1 /\ down[j] = <<>>
          \/ up[j] = <<>> /\ Len(down[j]) = 1

\* How many answers have been written.
CountInv(j) ==
    /\ job[j].read <= Len(job[j].src)
    /\ ~job[j].opened => out[j] = <<>>
    /\ job[j].pc \in {"key", "key sent"} => job[j].read = 0 /\ out[j] = <<>>
    /\ job[j].pc \in {"send", "finish"} /\ job[j].opened => Len(out[j]) = job[j].read
    /\ job[j].pc = "sent" => job[j].read > 0
    /\ job[j].pc = "sent" /\ job[j].opened => Len(out[j]) = job[j].read - 1
    /\ job[j].pc = "finish" => job[j].read = Len(job[j].src)
    /\ Done(j) /\ job[j].opened /\ job[j].err # "in open" => Len(out[j]) = Len(job[j].src)
    /\ link[j] = "closed" /\ job[j].opened => Len(out[j]) = Len(job[j].src)

\* The handler has the key from the moment it has answered the first message.
KeyInv(j) ==
    Crypto(j) /\ job[j].key # "empty" =>
        /\ hand[j].key \in {<<>>, <<0>>}
        /\ Live(j) /\ hand[j].st = "running" =>
            /\ job[j].pc = "key sent" =>
                  \/ up[j] # <<>> /\ up[j][1] = <<0>>
                  \/ up[j] = <<>> /\ hand[j].key = <<0>>
            /\ job[j].pc \in {"send", "sent", "finish"} => hand[j].key = <<0>>

\* What is sent, what is answered and what is written, while nothing is lost.
AnswerInv(j) ==
    /\ job[j].kind = "compress" => \A i \in 1..Len(job[j].src) : job[j].src[i] = <<i>>
    /\ job[j].kind = "uncompress" => job[j].src = job[j].file.body
    /\ ~Crypto(j) /\ link[j] # "broken" =>
          /\ \A i \in 1..Len(out[j]) : out[j][i] \in RightAnswers(j, i)
          /\ job[j].pc = "sent" =>
                /\ up[j] # <<>> => up[j][1] = job[j].src[job[j].read]
                /\ down[j] # <<>> => down[j][1] \in RightAnswers(j, job[j].read)

LocalInv(j) ==
    StageInv(j) /\ TurnInv(j) /\ CountInv(j) /\ KeyInv(j) /\ AnswerInv(j)

IInv ==
    /\ TypeOK
    /\ ServerInv
    /\ \A j \in Jobs : hand[j].st # "cancelled" /\ LocalInv(j)

-------------------------------------------------------------------------------
(* Operators *)

\* A file an operation may be given is a record of the type the model gives it.
LEMMA FilesTyped ==
    ASSUME TypeOK
    PROVE  Files \subseteq [ext : {"none", "plain", "directory", ".zb", ".spc"},
                            body : Seq(Message), key : Keys \cup {"empty"}]
  <1>1. /\ Plain \in [ext : {"none", "plain", "directory", ".zb", ".spc"},
                      body : Seq(Message), key : Keys \cup {"empty"}]
        /\ Directory \in [ext : {"none", "plain", "directory", ".zb", ".spc"},
                      body : Seq(Message), key : Keys \cup {"empty"}]
    BY DEF Plain, Directory
  <1>2. ASSUME NEW k \in Jobs
        PROVE  Made(k) \in [ext : {"none", "plain", "directory", ".zb", ".spc"},
                            body : Seq(Message), key : Keys \cup {"empty"}]
    <2>1. out[k] \in Seq(Message) /\ job[k].key \in Keys \cup {"empty"}
      BY DEF TypeOK
    <2> QED  BY <2>1 DEF Made
  <1>3. \A f \in Files : f = Plain \/ f = Directory \/ \E k \in Jobs : f = Made(k)
    BY DEF Files
  <1> QED  BY <1>1, <1>2, <1>3

\* The blocks of a file are messages of one mark each.
LEMMA BlocksTyped ==
    ASSUME NEW n \in Nat
    PROVE  /\ Blocks(n) \in Seq(Message)
           /\ Len(Blocks(n)) = n
           /\ \A i \in 1..n : Blocks(n)[i] = <<i>>
  <1>1. \A i \in 1..n : <<i>> \in Seq(Int)
    OBVIOUS
  <1>2. Blocks(n) \in [1..n -> Message] /\ \A i \in 1..n : Blocks(n)[i] = <<i>>
    BY <1>1 DEF Blocks, Message
  <1>3. Blocks(n) \in Seq(Message) /\ DOMAIN Blocks(n) = 1..n
    BY <1>2
  <1>4. Len(Blocks(n)) = n
    BY <1>3
  <1> QED  BY <1>2, <1>3, <1>4

\* The server does not register a service twice.
LEMMA ServerStep ==
    ASSUME ServerInv, ServerStarts \/ (\E dir \in LibDirs : Launch(dir)) \/ ServerStops
    PROVE  ServerInv' /\ server' \in {"down", "loading", "serving"}
  <1>1. CASE LoadLibrary
    <2> DEFINE three == <<"compress", "uncompress", "crypto">>
    <2>0. three \in Seq(Services) /\ Len(three) = 3
      <3>1. three \in Seq(Services)
        BY DEF Services
      <3>2. Len(three) = 3
        OBVIOUS
      <3> QED  BY <3>1, <3>2
    <2>1. CreateServices \in Seq(Services) /\ Len(CreateServices) = Len(pool) + 3
      <3>1. CreateServices = pool \o three
        BY DEF CreateServices
      <3>2. pool \in Seq(Services)
        BY DEF ServerInv, Registered
      <3> QED  BY <2>0, <3>1, <3>2
    <2>2. CASE pool = <<>> /\ builder = <<>>
      BY <1>1, <2>1, <2>2 DEF LoadLibrary, ServerInv, Registered, CreateServices, Three
    <2>3. CASE pool = Three /\ builder = Three
      BY <1>1, <2>1, <2>3 DEF LoadLibrary, ServerInv, Registered, CreateServices, Three
    <2>4. CASE Len(builder) >= 6 /\ builder[1] = builder[4]
      BY <1>1, <2>1, <2>4 DEF LoadLibrary, ServerInv, Registered
    <2> QED  BY <2>2, <2>3, <2>4 DEF ServerInv, Registered
  <1>2. CASE Dies
    <2>1. Registered'
      BY <1>2 DEF Dies, Registered
    <2> QED  BY <1>2, <2>1 DEF Dies, ServerInv
  <1>3. CASE UNCHANGED <<pool, builder>> /\ server' = "loading"
    BY <1>3 DEF ServerInv, Registered
  <1>4. CASE /\ UNCHANGED <<pool, builder>> /\ server' = "serving"
             /\ Distinct(builder) /\ builder # <<>>
    BY <1>4 DEF ServerInv, Registered, Distinct
  <1> QED
    BY <1>1, <1>2, <1>3, <1>4
    DEF ServerStarts, ServerStops, LoadFails, BuildAndStart, Launch

\* What an action leaves alone keeps its part of the invariant.
LEMMA LocalSame ==
    ASSUME NEW k \in Jobs, LocalInv(k),
           job'[k] = job[k], out'[k] = out[k], link'[k] = link[k],
           up'[k] = up[k], down'[k] = down[k], hand'[k] = hand[k]
    PROVE  LocalInv(k)'
  <1>1. StageInv(k)'
    BY DEF LocalInv, StageInv, Crypto
  <1>2. TurnInv(k)'
    BY DEF LocalInv, TurnInv
  <1>3. CountInv(k)'
    BY DEF LocalInv, CountInv, Done, At
  <1>4. KeyInv(k)'
    BY DEF LocalInv, KeyInv, Crypto, Live
  <1>5. AnswerInv(k)'
    BY DEF LocalInv, AnswerInv, Crypto, RightAnswers, KeyMessage
  <1> QED  BY <1>1, <1>2, <1>3, <1>4, <1>5 DEF LocalInv

\* What an action leaves of the request when it changes something else.
SameRequest(j) ==
    /\ job'[j].kind = job[j].kind /\ job'[j].file = job[j].file
    /\ job'[j].src = job[j].src /\ job'[j].key = job[j].key

JobRecord ==
    [pc : {"idle", "open", "create", "key", "key sent", "send", "sent", "finish", "done",
           "thrown"},
     kind : Kinds \cup {"none"}, key : Keys \cup {"empty"}, read : Nat,
     file : [ext : {"none", "plain", "directory", ".zb", ".spc"},
             body : Seq(Message), key : Keys \cup {"empty"}],
     src : Seq(Message), resp : Message, opened : BOOLEAN, err : Errors]

HandRecord == [st : {"none", "running", "ok", "cancelled"}, key : Message, acc : Message]

LinkStates == {"none", "open", "half", "closed", "broken", "silent"}

\* The types in pieces.
LEMMA Typed ==
    ASSUME IInv
    PROVE  /\ job \in [Jobs -> JobRecord] /\ hand \in [Jobs -> HandRecord]
           /\ out \in [Jobs -> Seq(Message)] /\ link \in [Jobs -> LinkStates]
           /\ up \in [Jobs -> Seq(Message)] /\ down \in [Jobs -> Seq(Message)]
           /\ channel \in BOOLEAN /\ ended \in BOOLEAN
           /\ \A j \in Jobs : LocalInv(j) /\ hand[j].st # "cancelled"
  BY DEF IInv, TypeOK, JobRecord, HandRecord, LinkStates

\* An action that leaves all jobs but one alone needs to be looked at for that
\* one only.
LEMMA OnlyOne ==
    ASSUME IInv, UNCHANGED serverVars, NEW j \in Jobs,
           channel' \in BOOLEAN, ended' \in BOOLEAN,
           UNCHANGED job \/ \E r \in JobRecord : job' = [job EXCEPT ![j] = r],
           \/ UNCHANGED hand
           \/ \E r \in HandRecord : hand' = [hand EXCEPT ![j] = r] /\ r.st # "cancelled",
           UNCHANGED out \/ \E o \in Seq(Message) : out' = [out EXCEPT ![j] = o],
           UNCHANGED up \/ \E m \in Seq(Message) : up' = [up EXCEPT ![j] = m],
           UNCHANGED down \/ \E m \in Seq(Message) : down' = [down EXCEPT ![j] = m],
           UNCHANGED link \/ \E l \in LinkStates : link' = [link EXCEPT ![j] = l],
           LocalInv(j)'
    PROVE  IInv'
  <1>1. ServerInv'
    BY DEF IInv, ServerInv, Registered, Distinct, serverVars
  <1>2. TypeOK'
    <2>1. job' \in [Jobs -> JobRecord]
      BY Typed
    <2>2. hand' \in [Jobs -> HandRecord]
      BY Typed
    <2>3. out' \in [Jobs -> Seq(Message)]
      BY Typed
    <2>4. up' \in [Jobs -> Seq(Message)]
      BY Typed
    <2>5. down' \in [Jobs -> Seq(Message)]
      BY Typed
    <2>6. link' \in [Jobs -> LinkStates]
      BY Typed
    <2>7. server' \in {"down", "loading", "serving"}
      BY DEF IInv, TypeOK, serverVars
    <2> QED
      BY <2>1, <2>2, <2>3, <2>4, <2>5, <2>6, <2>7 DEF TypeOK, JobRecord, HandRecord, LinkStates
  <1>3. hand'[j].st # "cancelled"
    BY Typed
  <1>4. ASSUME NEW k \in Jobs \ {j}
        PROVE  hand'[k].st # "cancelled" /\ LocalInv(k)'
    <2>1. LocalInv(k) /\ hand[k].st # "cancelled"
      BY Typed
    <2>2. /\ job'[k] = job[k] /\ out'[k] = out[k] /\ link'[k] = link[k]
          /\ up'[k] = up[k] /\ down'[k] = down[k] /\ hand'[k] = hand[k]
      BY Typed
    <2>3. LocalInv(k)'
      BY <2>1, <2>2, LocalSame
    <2> QED  BY <2>1, <2>2, <2>3
  <1> QED  BY <1>1, <1>2, <1>3, <1>4 DEF IInv

\* A client that is about to send has nothing in its stream.
LEMMA NothingSent ==
    ASSUME IInv, NEW j \in Jobs, job[j].pc \in {"key", "send"}
    PROVE  /\ up[j] = <<>> /\ down[j] = <<>>
           /\ link[j] \in {"open", "broken", "silent"} /\ (Live(j) <=> link[j] = "open")
  <1>1. LocalInv(j) /\ link[j] \in LinkStates
    BY Typed
  <1>2. up[j] = <<>> /\ down[j] = <<>>
    BY <1>1 DEF LocalInv, TurnInv, Waiting
  <1>3. link[j] \in {"open", "broken", "silent"}
    BY <1>1 DEF LocalInv, StageInv, Talking, LinkStates
  <1> QED  BY <1>2, <1>3 DEF Live

\* A client whose Read returns has the answer, unless its stream has broken, and
\* leaves nothing in the stream.
LEMMA AnswerThere ==
    ASSUME IInv, NEW j \in Jobs, job[j].pc \in Waiting, Readable(j)
    PROVE  /\ up[j] = <<>>
           /\ (IF down[j] # <<>> THEN Tail(down[j]) ELSE down[j]) = <<>>
           /\ link[j] \in {"open", "broken"}
           /\ link[j] = "open" => down[j] # <<>>
  <1>1. LocalInv(j) /\ link[j] \in LinkStates /\ down[j] \in Seq(Message) /\ up[j] \in Seq(Message)
    BY Typed
  <1>2. link[j] \in {"open", "broken"}
    <2>1. link[j] \in {"open", "broken", "silent"}
      BY <1>1 DEF LocalInv, StageInv, Talking, Waiting, LinkStates
    <2>2. ASSUME link[j] = "silent" PROVE FALSE
      <3>1. down[j] = <<>> /\ hand[j] = NoHandler("none")
        BY <1>1, <2>2 DEF LocalInv, StageInv, TurnInv
      <3>2. hand[j].st = "none"
        BY <3>1 DEF NoHandler
      <3> QED  BY <2>2, <3>1, <3>2 DEF Readable
    <2> QED  BY <2>1, <2>2
  <1>3. link[j] = "open" => up[j] = <<>> /\ down[j] # <<>> /\ Len(down[j]) = 1
    <2>1. link[j] = "open" => hand[j].st = "running"
      BY <1>1 DEF LocalInv, StageInv
    <2>2. link[j] = "open" => down[j] # <<>>
      BY <2>1 DEF Readable
    <2> QED  BY <1>1, <2>2 DEF LocalInv, TurnInv
  <1>4. link[j] = "broken" => up[j] = <<>> /\ Len(down[j]) <= 1
    BY <1>1 DEF LocalInv, TurnInv
  <1>5. Len(down[j]) <= 1
    <2>1. CASE link[j] = "open"
      <3>1. Len(down[j]) = 1
        BY <1>3, <2>1
      <3> QED  BY <3>1
    <2>2. CASE link[j] = "broken"
      BY <1>4, <2>2
    <2> QED  BY <1>2, <2>1, <2>2
  <1>6. (IF down[j] # <<>> THEN Tail(down[j]) ELSE down[j]) = <<>>
    BY <1>1, <1>5
  <1> QED  BY <1>2, <1>3, <1>4, <1>6

\* A sequence that has been given one more element.
LEMMA Appended ==
    ASSUME NEW S, NEW s \in Seq(S), NEW e \in S
    PROVE  /\ Append(s, e) \in Seq(S) /\ Len(Append(s, e)) = Len(s) + 1
           /\ \A i \in 1..Len(s) : Append(s, e)[i] = s[i]
           /\ Append(s, e)[Len(s) + 1] = e
  OBVIOUS

\* A stream with one message in it.
LEMMA Single ==
    ASSUME NEW s \in Seq(Message)
    PROVE  /\ Len(s) \in Nat /\ Len(<<>>) = 0
           /\ Len(s) = 1 => Tail(s) = <<>>
           /\ Len(s) = 1 => Len(s) <= 1 /\ 0 + Len(s) <= 1 /\ Len(s) + 0 <= 1
  <1>1. Len(s) \in Nat /\ Len(<<>>) = 0
    BY EmptySeq, LenProperties
  <1>2. ASSUME Len(s) = 1 PROVE Tail(s) = <<>>
    <2>1. s # <<>>
      BY <1>1, <1>2
    <2>2. Tail(s) \in Seq(Message) /\ Len(Tail(s)) = 0
      BY <1>2, <2>1
    <2> QED  BY <2>2, EmptySeq
  <1>3. ASSUME NEW n \in Nat, n = 1 PROVE n <= 1 /\ 0 + n <= 1 /\ n + 0 <= 1
    BY <1>3
  <1> QED  BY <1>1, <1>2, <1>3

\* The end of an operation.
LEMMA EndedTyped ==
    ASSUME NEW r \in JobRecord, NEW err \in Errors
    PROVE  /\ Ended(r, err) \in JobRecord
           /\ Ended(r, err).pc = "done"
           /\ Ended(r, err).kind = r.kind /\ Ended(r, err).file = r.file
           /\ Ended(r, err).src = r.src /\ Ended(r, err).key = r.key
           /\ Ended(r, err).read = r.read /\ Ended(r, err).opened = r.opened
           /\ r.opened => Ended(r, err).err = err
  <1>1. <<>> \in Message
    BY DEF Message
  <1>2. (IF r.kind = "uncompress" /\ err = "none" /\ ~r.opened THEN "in open" ELSE err) \in Errors
    BY DEF Errors
  <1> QED  BY <1>1, <1>2 DEF Ended, JobRecord

-------------------------------------------------------------------------------
(* The steps *)

\* GetChannel sees that there is no channel.
LEMMA SeeNoChannelKeeps ==
    ASSUME IInv, ended' \in BOOLEAN, NEW j \in Jobs, SeeNoChannel(j)
    PROVE  IInv'
  <1>1. /\ job[j] \in JobRecord /\ hand[j] \in HandRecord /\ LocalInv(j)
        /\ link[j] \in LinkStates /\ out[j] \in Seq(Message)
        /\ up[j] \in Seq(Message) /\ down[j] \in Seq(Message)
        /\ job[j].read \in Nat /\ job[j].src \in Seq(Message) /\ job[j].resp \in Message
    BY Typed DEF JobRecord
  <1>2. job' = [job EXCEPT ![j] = [job[j] EXCEPT !.pc = "create"]]
    BY DEF SeeNoChannel
  <1>3. [job[j] EXCEPT !.pc = "create"] \in JobRecord
    BY <1>1 DEF JobRecord, Errors
  <1>4. /\ job'[j].pc = "create" /\ SameRequest(j)
        /\ job'[j].read = job[j].read /\ job'[j].opened = job[j].opened
    <2>1. job'[j] = [job[j] EXCEPT !.pc = "create"]
      BY <1>2, Typed
    <2> QED  BY <1>1, <2>1 DEF JobRecord, SameRequest
  <1>5. /\ job[j].pc = "open"
        /\ UNCHANGED <<out, link, up, down, hand>>
    BY Typed DEF SeeNoChannel, At
  <1>6. StageInv(j)'
    BY <1>1, <1>4, <1>5 DEF LocalInv, StageInv, SameRequest, Talking, Crypto
  <1>7. TurnInv(j)'
    BY <1>1, <1>4, <1>5 DEF LocalInv, StageInv, TurnInv, SameRequest, Waiting
  <1>8. CountInv(j)'
    BY <1>1, <1>4, <1>5 DEF LocalInv, StageInv, CountInv, SameRequest, Done, At
  <1>9. KeyInv(j)'
    BY <1>1, <1>4, <1>5 DEF LocalInv, StageInv, KeyInv, SameRequest, Crypto, Live
  <1>10. AnswerInv(j)'
    BY <1>1, <1>4, <1>5 DEF LocalInv, StageInv, AnswerInv, SameRequest, Crypto, RightAnswers, KeyMessage
  <1> QED
    BY <1>2, <1>3, <1>6, <1>7, <1>8, <1>9, <1>10, Typed, OnlyOne
    DEF SeeNoChannel, At, LocalInv, serverVars, LinkStates

\* GetChannel makes one.
LEMMA CreateChannelKeeps ==
    ASSUME IInv, ended' \in BOOLEAN, NEW j \in Jobs, CreateChannel(j)
    PROVE  IInv'
  <1>1. /\ job[j] \in JobRecord /\ hand[j] \in HandRecord /\ LocalInv(j)
        /\ link[j] \in LinkStates /\ out[j] \in Seq(Message)
        /\ up[j] \in Seq(Message) /\ down[j] \in Seq(Message)
        /\ job[j].read \in Nat /\ job[j].src \in Seq(Message) /\ job[j].resp \in Message
    BY Typed DEF JobRecord
  <1>2. job' = [job EXCEPT ![j] = [job[j] EXCEPT !.pc = "open"]]
    BY DEF CreateChannel
  <1>3. [job[j] EXCEPT !.pc = "open"] \in JobRecord
    BY <1>1 DEF JobRecord, Errors
  <1>4. /\ job'[j].pc = "open" /\ SameRequest(j)
        /\ job'[j].read = job[j].read /\ job'[j].opened = job[j].opened
    <2>1. job'[j] = [job[j] EXCEPT !.pc = "open"]
      BY <1>2, Typed
    <2> QED  BY <1>1, <2>1 DEF JobRecord, SameRequest
  <1>5. /\ job[j].pc = "create"
        /\ UNCHANGED <<out, link, up, down, hand>>
    BY Typed DEF CreateChannel, At
  <1>6. StageInv(j)'
    BY <1>1, <1>4, <1>5 DEF LocalInv, StageInv, SameRequest, Talking, Crypto
  <1>7. TurnInv(j)'
    BY <1>1, <1>4, <1>5 DEF LocalInv, StageInv, TurnInv, SameRequest, Waiting
  <1>8. CountInv(j)'
    BY <1>1, <1>4, <1>5 DEF LocalInv, StageInv, CountInv, SameRequest, Done, At
  <1>9. KeyInv(j)'
    BY <1>1, <1>4, <1>5 DEF LocalInv, StageInv, KeyInv, SameRequest, Crypto, Live
  <1>10. AnswerInv(j)'
    BY <1>1, <1>4, <1>5 DEF LocalInv, StageInv, AnswerInv, SameRequest, Crypto, RightAnswers, KeyMessage
  <1> QED
    BY <1>2, <1>3, <1>6, <1>7, <1>8, <1>9, <1>10, Typed, OnlyOne
    DEF CreateChannel, At, LocalInv, serverVars, LinkStates

\* The end of the file is found.
LEMMA WritesDoneKeeps ==
    ASSUME IInv, ended' \in BOOLEAN, NEW j \in Jobs, WritesDone(j)
    PROVE  IInv'
  <1>1. /\ job[j] \in JobRecord /\ hand[j] \in HandRecord /\ LocalInv(j)
        /\ link[j] \in LinkStates /\ out[j] \in Seq(Message)
        /\ up[j] \in Seq(Message) /\ down[j] \in Seq(Message)
        /\ job[j].read \in Nat /\ job[j].src \in Seq(Message) /\ job[j].resp \in Message
    BY Typed DEF JobRecord
  <1>2. job' = [job EXCEPT ![j] = [job[j] EXCEPT !.pc = "finish"]]
    BY DEF WritesDone
  <1>3. [job[j] EXCEPT !.pc = "finish"] \in JobRecord
    BY <1>1 DEF JobRecord, Errors
  <1>4. /\ job'[j].pc = "finish" /\ SameRequest(j)
        /\ job'[j].read = job[j].read /\ job'[j].opened = job[j].opened
    <2>1. job'[j] = [job[j] EXCEPT !.pc = "finish"]
      BY <1>2, Typed
    <2> QED  BY <1>1, <2>1 DEF JobRecord, SameRequest
  <1>5. /\ job[j].pc = "send"
        /\ job[j].read = Len(job[j].src)
        /\ link'[j] = IF link[j] = "open" THEN "half" ELSE link[j]
        /\ UNCHANGED <<out, up, down, hand>>
    BY Typed DEF WritesDone, At
  <1>6. StageInv(j)'
    BY <1>1, <1>4, <1>5 DEF LocalInv, StageInv, SameRequest, Talking, Crypto
  <1>7. TurnInv(j)'
    BY <1>1, <1>4, <1>5 DEF LocalInv, StageInv, TurnInv, SameRequest, Waiting
  <1>8. CountInv(j)'
    BY <1>1, <1>4, <1>5 DEF LocalInv, StageInv, CountInv, SameRequest, Done, At
  <1>9. KeyInv(j)'
    BY <1>1, <1>4, <1>5 DEF LocalInv, StageInv, KeyInv, SameRequest, Crypto, Live
  <1>10. AnswerInv(j)'
    BY <1>1, <1>4, <1>5 DEF LocalInv, StageInv, AnswerInv, SameRequest, Crypto, RightAnswers, KeyMessage
  <1> QED
    BY <1>2, <1>3, <1>6, <1>7, <1>8, <1>9, <1>10, Typed, OnlyOne
    DEF WritesDone, At, LocalInv, serverVars, LinkStates

\* The status of the handler has come.
LEMMA FinishKeeps ==
    ASSUME IInv, ended' \in BOOLEAN, NEW j \in Jobs, Finish(j)
    PROVE  IInv'
  <1>1. /\ job[j] \in JobRecord /\ hand[j] \in HandRecord /\ LocalInv(j)
        /\ link[j] \in LinkStates /\ out[j] \in Seq(Message)
        /\ up[j] \in Seq(Message) /\ down[j] \in Seq(Message)
        /\ job[j].read \in Nat /\ job[j].src \in Seq(Message) /\ job[j].resp \in Message
    BY Typed DEF JobRecord
  <1>2. job' = [job EXCEPT ![j] = Ended(job[j], job[j].err)]
    BY DEF Finish, Ended
  <1>3. Ended(job[j], job[j].err) \in JobRecord
    BY <1>1, EndedTyped DEF JobRecord
  <1>4. /\ job'[j].pc = "done" /\ SameRequest(j)
        /\ job'[j].read = job[j].read /\ job'[j].opened = job[j].opened
        /\ job[j].opened => job'[j].err = job[j].err
    <2>1. job'[j] = Ended(job[j], job[j].err)
      BY <1>2, Typed
    <2>2. job[j].err \in Errors
      BY <1>1 DEF JobRecord
    <2> QED  BY <1>1, <2>1, <2>2, EndedTyped DEF SameRequest
  <1>5. /\ job[j].pc = "finish"
        /\ link'[j] = IF link[j] = "half" THEN "closed" ELSE link[j]
        /\ UNCHANGED <<out, up, down, hand>>
    BY Typed DEF Finish, At, Ended
  <1>6. StageInv(j)'
    BY <1>1, <1>4, <1>5 DEF LocalInv, StageInv, SameRequest, Talking, Crypto
  <1>7. TurnInv(j)'
    BY <1>1, <1>4, <1>5 DEF LocalInv, StageInv, TurnInv, SameRequest, Waiting
  <1>8. CountInv(j)'
    BY <1>1, <1>4, <1>5 DEF LocalInv, StageInv, CountInv, SameRequest, Done, At
  <1>9. KeyInv(j)'
    BY <1>1, <1>4, <1>5 DEF LocalInv, StageInv, KeyInv, SameRequest, Crypto, Live
  <1>10. AnswerInv(j)'
    BY <1>1, <1>4, <1>5 DEF LocalInv, StageInv, AnswerInv, SameRequest, Crypto, RightAnswers, KeyMessage
  <1> QED
    BY <1>2, <1>3, <1>6, <1>7, <1>8, <1>9, <1>10, Typed, OnlyOne
    DEF Finish, At, Ended, LocalInv, serverVars, LinkStates

\* The key goes out.
LEMMA SendKeyKeeps ==
    ASSUME IInv, ended' \in BOOLEAN, NEW j \in Jobs, SendKey(j)
    PROVE  IInv'
  <1>1. /\ job[j] \in JobRecord /\ hand[j] \in HandRecord /\ LocalInv(j)
        /\ link[j] \in LinkStates /\ out[j] \in Seq(Message)
        /\ up[j] \in Seq(Message) /\ down[j] \in Seq(Message)
        /\ job[j].read \in Nat /\ job[j].src \in Seq(Message) /\ job[j].resp \in Message
    BY Typed DEF JobRecord
  <1>2. job' = [job EXCEPT ![j] = [job[j] EXCEPT !.pc = "key sent"]]
    BY DEF SendKey
  <1>3. [job[j] EXCEPT !.pc = "key sent"] \in JobRecord
    BY <1>1 DEF JobRecord, Errors
  <1>4. /\ job'[j].pc = "key sent" /\ SameRequest(j)
        /\ job'[j].read = job[j].read /\ job'[j].opened = job[j].opened
    <2>1. job'[j] = [job[j] EXCEPT !.pc = "key sent"]
      BY <1>2, Typed
    <2> QED  BY <1>1, <2>1 DEF JobRecord, SameRequest
  <1>5. /\ job[j].pc = "key"
        /\ up'[j] = IF Live(j) THEN Append(up[j], KeyMessage(j)) ELSE up[j]
        /\ UNCHANGED <<out, link, down, hand>>
    BY Typed DEF SendKey, At, Write
  <1>6. StageInv(j)'
    BY <1>1, <1>4, <1>5 DEF LocalInv, StageInv, SameRequest, Talking, Crypto
  <1>7. TurnInv(j)'
    <2>1. KeyMessage(j) \in Message
      BY DEF KeyMessage, Message
    <2>2. link[j] = "open" => Len(up'[j]) = 1
      BY <1>1, <1>5, <2>1, NothingSent, Appended
    <2>3. link[j] \in {"broken", "silent"} => up'[j] = <<>>
      BY <1>5, NothingSent
    <2>4. down'[j] = <<>> /\ Len(down'[j]) = 0 /\ link'[j] = link[j]
      BY <1>5, NothingSent
    <2>5. job'[j].pc \in Waiting
      BY <1>4 DEF Waiting
    <2> QED  BY <2>2, <2>3, <2>4, <2>5 DEF TurnInv
  <1>8. CountInv(j)'
    BY <1>1, <1>4, <1>5 DEF LocalInv, StageInv, CountInv, SameRequest, Done, At
  <1>9. KeyInv(j)'
    <2>1. KeyMessage(j) \in Message /\ (job[j].key # "empty" => KeyMessage(j) = <<0>>)
      BY DEF KeyMessage, Message
    <2>2. Live(j) /\ job[j].key # "empty" => up'[j] # <<>> /\ up'[j][1] = <<0>>
      BY <1>1, <1>5, <2>1, NothingSent, Appended
    <2> QED  BY <1>1, <1>4, <1>5, <2>2 DEF LocalInv, KeyInv, SameRequest, Crypto, Live
  <1>10. AnswerInv(j)'
    BY <1>1, <1>4, <1>5 DEF LocalInv, StageInv, AnswerInv, SameRequest, Crypto, RightAnswers, KeyMessage
  <1>11. UNCHANGED up \/ \E m \in Seq(Message) : up' = [up EXCEPT ![j] = m]
    <2>1. KeyMessage(j) \in Message
      BY DEF KeyMessage, Message
    <2>2. Append(up[j], KeyMessage(j)) \in Seq(Message)
      BY <1>1, <2>1
    <2> QED  BY <2>2 DEF SendKey, Write
  <1> QED
    BY <1>2, <1>3, <1>6, <1>7, <1>8, <1>9, <1>10, <1>11, Typed, OnlyOne
    DEF SendKey, At, Write, LocalInv, serverVars, LinkStates

\* The answer to the key is dropped.
LEMMA ReceiveKeyKeeps ==
    ASSUME IInv, ended' \in BOOLEAN, NEW j \in Jobs, ReceiveKey(j)
    PROVE  IInv'
  <1>1. /\ job[j] \in JobRecord /\ hand[j] \in HandRecord /\ LocalInv(j)
        /\ link[j] \in LinkStates /\ out[j] \in Seq(Message)
        /\ up[j] \in Seq(Message) /\ down[j] \in Seq(Message)
        /\ job[j].read \in Nat /\ job[j].src \in Seq(Message) /\ job[j].resp \in Message
    BY Typed DEF JobRecord
  <1>0. <<>> \in Message
    BY DEF Message
  <1>2. job' = [job EXCEPT ![j] = [job[j] EXCEPT !.pc = "send", !.resp = <<>>]]
    BY DEF ReceiveKey
  <1>3. [job[j] EXCEPT !.pc = "send", !.resp = <<>>] \in JobRecord
    BY <1>0, <1>1 DEF JobRecord, Errors, Message
  <1>4. /\ job'[j].pc = "send" /\ SameRequest(j)
        /\ job'[j].read = job[j].read /\ job'[j].opened = job[j].opened
    <2>1. job'[j] = [job[j] EXCEPT !.pc = "send", !.resp = <<>>]
      BY <1>2, Typed
    <2> QED  BY <1>1, <2>1 DEF JobRecord, SameRequest
  <1>5. /\ job[j].pc = "key sent"
        /\ down'[j] = IF down[j] # <<>> THEN Tail(down[j]) ELSE down[j]
        /\ Readable(j)
        /\ UNCHANGED <<out, link, up, hand>>
    BY Typed DEF ReceiveKey, At, Consume
  <1>6. StageInv(j)'
    BY <1>1, <1>4, <1>5 DEF LocalInv, StageInv, SameRequest, Talking, Crypto
  <1>7. TurnInv(j)'
    <2>1. up'[j] = <<>> /\ down'[j] = <<>>
      BY <1>5, AnswerThere DEF Waiting
    <2> QED  BY <1>4, <2>1 DEF TurnInv, Waiting
  <1>8. CountInv(j)'
    BY <1>1, <1>4, <1>5 DEF LocalInv, StageInv, CountInv, SameRequest, Done, At
  <1>9. KeyInv(j)'
    <2>1. Live(j) => link[j] = "open" /\ up[j] = <<>>
      BY <1>5, AnswerThere DEF Live, Waiting
    <2> QED  BY <1>1, <1>4, <1>5, <2>1 DEF LocalInv, KeyInv, SameRequest, Crypto, Live
  <1>10. AnswerInv(j)'
    BY <1>1, <1>4, <1>5 DEF LocalInv, StageInv, AnswerInv, SameRequest, Crypto, RightAnswers, KeyMessage
  <1>11. UNCHANGED down \/ \E m \in Seq(Message) : down' = [down EXCEPT ![j] = m]
    <2>1. down'[j] = <<>>
      BY <1>5, AnswerThere DEF Waiting
    <2>2. <<>> \in Seq(Message)
      OBVIOUS
    <2> QED  BY <2>1, <2>2, Typed DEF ReceiveKey, Consume
  <1> QED
    BY <1>2, <1>3, <1>6, <1>7, <1>8, <1>9, <1>10, <1>11, Typed, OnlyOne
    DEF ReceiveKey, At, Consume, LocalInv, serverVars, LinkStates

\* A block goes out.
LEMMA SendBlockKeeps ==
    ASSUME IInv, ended' \in BOOLEAN, NEW j \in Jobs, SendBlock(j)
    PROVE  IInv'
  <1>1. /\ job[j] \in JobRecord /\ hand[j] \in HandRecord /\ LocalInv(j)
        /\ link[j] \in LinkStates /\ out[j] \in Seq(Message)
        /\ up[j] \in Seq(Message) /\ down[j] \in Seq(Message)
        /\ job[j].read \in Nat /\ job[j].src \in Seq(Message) /\ job[j].resp \in Message
    BY Typed DEF JobRecord
  <1>0. /\ (IF job[j].kind = "compress" THEN <<>> ELSE job[j].resp) \in Message
        /\ job[j].read + 1 \in Nat
    BY <1>1 DEF Message
  <1>2. job' = [job EXCEPT ![j] = [job[j] EXCEPT !.pc = "sent", !.read = @ + 1,
                              !.resp = IF job[j].kind = "compress" THEN <<>> ELSE @]]
    BY DEF SendBlock
  <1>3. [job[j] EXCEPT !.pc = "sent", !.read = @ + 1,
                              !.resp = IF job[j].kind = "compress" THEN <<>> ELSE @] \in JobRecord
    BY <1>0, <1>1 DEF JobRecord, Errors
  <1>4. /\ job'[j].pc = "sent" /\ SameRequest(j)
        /\ job'[j].read = job[j].read + 1 /\ job'[j].opened = job[j].opened
    <2>1. job'[j] = [job[j] EXCEPT !.pc = "sent", !.read = @ + 1,
                              !.resp = IF job[j].kind = "compress" THEN <<>> ELSE @]
      BY <1>2, Typed
    <2> QED  BY <1>1, <2>1 DEF JobRecord, SameRequest
  <1>5. /\ job[j].pc = "send"
        /\ job[j].read < Len(job[j].src)
        /\ up'[j] = IF Live(j) THEN Append(up[j], job[j].src[job[j].read + 1]) ELSE up[j]
        /\ UNCHANGED <<out, link, down, hand>>
    BY Typed DEF SendBlock, At, Write
  <1>6. StageInv(j)'
    BY <1>1, <1>4, <1>5 DEF LocalInv, StageInv, SameRequest, Talking, Crypto
  <1>7. TurnInv(j)'
    <2>1. job[j].src[job[j].read + 1] \in Message
      BY <1>1, <1>5
    <2>2. link[j] = "open" => Len(up'[j]) = 1
      BY <1>1, <1>5, <2>1, NothingSent, Appended
    <2>3. link[j] \in {"broken", "silent"} => up'[j] = <<>>
      BY <1>5, NothingSent
    <2>4. down'[j] = <<>> /\ Len(down'[j]) = 0 /\ link'[j] = link[j]
      BY <1>5, NothingSent
    <2>5. job'[j].pc \in Waiting
      BY <1>4 DEF Waiting
    <2> QED  BY <2>2, <2>3, <2>4, <2>5 DEF TurnInv
  <1>8. CountInv(j)'
    BY <1>1, <1>4, <1>5 DEF LocalInv, StageInv, CountInv, SameRequest, Done, At
  <1>9. KeyInv(j)'
    BY <1>1, <1>4, <1>5 DEF LocalInv, StageInv, KeyInv, SameRequest, Crypto, Live
  <1>10. AnswerInv(j)'
    <2>1. job[j].src[job[j].read + 1] \in Message
      BY <1>1, <1>5
    <2>2. up'[j] # <<>> => up'[j][1] = job'[j].src[job'[j].read]
      BY <1>1, <1>4, <1>5, <2>1, NothingSent, Appended DEF SameRequest
    <2>3. down'[j] = <<>>
      BY <1>5, NothingSent
    <2>4. \A i : RightAnswers(j, i)' = RightAnswers(j, i)
      BY <1>4 DEF SameRequest, RightAnswers, KeyMessage
    <2> QED  BY <1>1, <1>4, <1>5, <2>2, <2>3, <2>4 DEF LocalInv, AnswerInv, SameRequest, Crypto
  <1>11. UNCHANGED up \/ \E m \in Seq(Message) : up' = [up EXCEPT ![j] = m]
    <2>1. job[j].src[job[j].read + 1] \in Message
      BY <1>1, <1>5
    <2>2. Append(up[j], job[j].src[job[j].read + 1]) \in Seq(Message)
      BY <1>1, <2>1
    <2> QED  BY <2>2 DEF SendBlock, Write
  <1> QED
    BY <1>2, <1>3, <1>6, <1>7, <1>8, <1>9, <1>10, <1>11, Typed, OnlyOne
    DEF SendBlock, At, Write, LocalInv, serverVars, LinkStates

\* An answer is written.
LEMMA ReceiveAnswerKeeps ==
    ASSUME IInv, ended' \in BOOLEAN, NEW j \in Jobs, ReceiveAnswer(j)
    PROVE  IInv'
  <1>1. /\ job[j] \in JobRecord /\ hand[j] \in HandRecord /\ LocalInv(j)
        /\ link[j] \in LinkStates /\ out[j] \in Seq(Message)
        /\ up[j] \in Seq(Message) /\ down[j] \in Seq(Message)
        /\ job[j].read \in Nat /\ job[j].src \in Seq(Message) /\ job[j].resp \in Message
    BY Typed DEF JobRecord
  <1>0. ReadInto(j) \in Message
    BY <1>1 DEF ReadInto
  <1>2. job' = [job EXCEPT ![j] = [job[j] EXCEPT !.pc = "send", !.resp = ReadInto(j)]]
    BY DEF ReceiveAnswer
  <1>3. [job[j] EXCEPT !.pc = "send", !.resp = ReadInto(j)] \in JobRecord
    BY <1>0, <1>1 DEF JobRecord, Errors
  <1>4. /\ job'[j].pc = "send" /\ SameRequest(j)
        /\ job'[j].read = job[j].read /\ job'[j].opened = job[j].opened
    <2>1. job'[j] = [job[j] EXCEPT !.pc = "send", !.resp = ReadInto(j)]
      BY <1>2, Typed
    <2> QED  BY <1>1, <2>1 DEF JobRecord, SameRequest
  <1>5. /\ job[j].pc = "sent"
        /\ down'[j] = IF down[j] # <<>> THEN Tail(down[j]) ELSE down[j]
        /\ out'[j] = IF job[j].opened THEN Append(out[j], ReadInto(j)) ELSE out[j]
        /\ Readable(j)
        /\ UNCHANGED <<link, up, hand>>
    BY Typed DEF ReceiveAnswer, At, Consume
  <1>6. StageInv(j)'
    BY <1>1, <1>4, <1>5 DEF LocalInv, StageInv, SameRequest, Talking, Crypto
  <1>7. TurnInv(j)'
    <2>1. up'[j] = <<>> /\ down'[j] = <<>>
      BY <1>5, AnswerThere DEF Waiting
    <2> QED  BY <1>4, <2>1 DEF TurnInv, Waiting
  <1>8. CountInv(j)'
    <2>1. Len(out'[j]) = IF job[j].opened THEN Len(out[j]) + 1 ELSE Len(out[j])
      BY <1>1, <1>0, <1>5, Appended
    <2> QED  BY <1>1, <1>4, <1>5, <2>1 DEF LocalInv, StageInv, CountInv, SameRequest, Done, At
  <1>9. KeyInv(j)'
    BY <1>1, <1>4, <1>5 DEF LocalInv, StageInv, KeyInv, SameRequest, Crypto, Live
  <1>10. AnswerInv(j)'
    <2>1. link[j] # "broken" => ReadInto(j) = down[j][1] /\ down[j] # <<>>
      <3>1. link[j] # "broken" => down[j] # <<>>
        BY <1>5, AnswerThere DEF Waiting
      <3> QED  BY <1>1, <3>1 DEF ReadInto
    <2>2. \A i : RightAnswers(j, i)' = RightAnswers(j, i)
      BY <1>4 DEF SameRequest, RightAnswers, KeyMessage
    <2>3. ASSUME ~Crypto(j), link[j] # "broken", job[j].opened,
                 NEW i \in 1..Len(out'[j])
          PROVE  out'[j][i] \in RightAnswers(j, i)
      <3>0. Len(out[j]) = job[j].read - 1
        BY <1>1, <1>5, <2>3 DEF LocalInv, CountInv
      <3>1. out'[j] = Append(out[j], ReadInto(j)) /\ Len(out[j]) + 1 = job[j].read
        <4>1. out'[j] = Append(out[j], ReadInto(j))
          BY ONLY <1>5, <2>3
        <4>2. PICK r \in Nat : r = job[j].read
          BY <1>1
        <4>3. Len(out[j]) + 1 = r
          BY ONLY <3>0, <4>2
        <4> QED  BY ONLY <4>1, <4>2, <4>3
      <3>2. ReadInto(j) \in RightAnswers(j, job[j].read)
        BY <1>1, <1>5, <2>1, <2>3 DEF LocalInv, AnswerInv
      <3>3. \A k \in 1..Len(out[j]) : out[j][k] \in RightAnswers(j, k)
        BY <1>1, <2>3 DEF LocalInv, AnswerInv
      <3> QED  BY <1>0, <1>1, <3>1, <3>2, <3>3, Appended
    <2> QED
      BY <1>1, <1>4, <1>5, <2>2, <2>3 DEF LocalInv, AnswerInv, SameRequest, Crypto
  <1>11. UNCHANGED down \/ \E m \in Seq(Message) : down' = [down EXCEPT ![j] = m]
    <2>1. down'[j] = <<>>
      BY <1>5, AnswerThere DEF Waiting
    <2>2. <<>> \in Seq(Message)
      OBVIOUS
    <2> QED  BY <2>1, <2>2, Typed DEF ReceiveAnswer, Consume
  <1>12. UNCHANGED out \/ \E m \in Seq(Message) : out' = [out EXCEPT ![j] = m]
    <2>1. Append(out[j], ReadInto(j)) \in Seq(Message)
      BY <1>0, <1>1
    <2> QED  BY <2>1 DEF ReceiveAnswer
  <1> QED
    BY <1>2, <1>3, <1>6, <1>7, <1>8, <1>9, <1>10, <1>11, <1>12, Typed, OnlyOne
    DEF ReceiveAnswer, At, Consume, LocalInv, serverVars, LinkStates

\* A Call starts the handler, or the stream is broken.
LEMMA Called ==
    ASSUME IInv, NEW j \in Jobs, link[j] = "none", hand[j] = NoHandler("none"), Call(j)
    PROVE  /\ \/ link'[j] = "open" /\ hand'[j] = NoHandler("running")
              \/ link'[j] = "broken" /\ hand'[j] = NoHandler("none")
           /\ UNCHANGED hand \/ \E r \in HandRecord : hand' = [hand EXCEPT ![j] = r] /\ r.st # "cancelled"
           /\ \E l \in LinkStates : link' = [link EXCEPT ![j] = l]
  <1>1. hand \in [Jobs -> HandRecord] /\ link \in [Jobs -> LinkStates]
    BY Typed
  <1>2. NoHandler("running") \in HandRecord /\ NoHandler("running").st # "cancelled"
    BY DEF NoHandler, HandRecord, Message
  <1>3. [NoHandler("none") EXCEPT !.st = "running"] = NoHandler("running")
    BY DEF NoHandler
  <1>4. CASE link' = [link EXCEPT ![j] = "open"] /\ hand' = [hand EXCEPT ![j].st = "running"]
    <2>1. hand' = [hand EXCEPT ![j] = NoHandler("running")]
      BY <1>1, <1>3, <1>4
    <2> QED  BY <1>1, <1>2, <1>4, <2>1 DEF LinkStates
  <1>5. CASE link' = [link EXCEPT ![j] = "broken"] /\ UNCHANGED hand
    BY <1>1, <1>5 DEF LinkStates
  <1> QED  BY <1>4, <1>5 DEF Call

\* Before a stream is opened there is nothing of it.
LEMMA Unopened ==
    ASSUME IInv, NEW j \in Jobs, job[j].pc \in {"idle", "open", "create"}
    PROVE  /\ link[j] = "none" /\ ~job[j].opened /\ job[j].read = 0
           /\ hand[j] = NoHandler("none") /\ hand[j].key = <<>>
           /\ out[j] = <<>> /\ up[j] = <<>> /\ down[j] = <<>>
           /\ Len(out[j]) = 0 /\ Len(down[j]) = 0
  <1>1. LocalInv(j)
    BY Typed
  <1>2. link[j] = "none" /\ ~job[j].opened /\ job[j].read = 0 /\ hand[j] = NoHandler("none") /\ out[j] = <<>>
    BY <1>1 DEF LocalInv, StageInv
  <1>3. up[j] = <<>> /\ down[j] = <<>>
    BY <1>1 DEF LocalInv, TurnInv, Waiting
  <1> QED  BY <1>2, <1>3 DEF NoHandler

\* However an operation gets its stream, or ends for want of a file.
LEMMA OpenedKeeps ==
    ASSUME IInv, ended' \in BOOLEAN, NEW j \in Jobs, job[j].pc = "open",
           NEW r \in JobRecord, job' = [job EXCEPT ![j] = r],
           r.kind = job[j].kind, r.file = job[j].file, r.src = job[j].src,
           r.key = job[j].key, r.read = job[j].read,
           \/ r.pc = (IF Crypto(j) THEN "key" ELSE "send") /\ Call(j)
           \/ /\ r.pc = "done" /\ (r.opened => r.err = "in open")
              /\ UNCHANGED link \/ link' = [link EXCEPT ![j] = "broken"]
              /\ UNCHANGED hand,
           UNCHANGED <<serverVars, channel, out, up, down>>
    PROVE  IInv'
  <1> DEFINE begins == r.pc = (IF Crypto(j) THEN "key" ELSE "send") /\ Call(j)
             ends == /\ r.pc = "done" /\ (r.opened => r.err = "in open")
                     /\ UNCHANGED link \/ link' = [link EXCEPT ![j] = "broken"]
                     /\ UNCHANGED hand
  <1>1. LocalInv(j) /\ job[j].src \in Seq(Message) /\ job[j].pc = "open"
    BY Typed DEF JobRecord
  <1>2. /\ link[j] = "none" /\ job[j].read = 0 /\ hand[j] = NoHandler("none")
        /\ out[j] = <<>> /\ up[j] = <<>> /\ down[j] = <<>>
        /\ Len(out[j]) = 0 /\ Len(down[j]) = 0
    BY Unopened
  <1>3. /\ job'[j] = r /\ SameRequest(j) /\ job'[j].read = 0
        /\ out'[j] = <<>> /\ up'[j] = <<>> /\ down'[j] = <<>>
        /\ Len(out'[j]) = 0 /\ Len(down'[j]) = 0
    <2>1. job'[j] = r
      BY Typed
    <2> QED  BY <1>2, <2>1 DEF SameRequest
  <1>4. \A st : NoHandler(st).key = <<>> /\ NoHandler(st).st = st
    BY DEF NoHandler
  <1>5. CASE begins
    <2>1. \/ link'[j] = "open" /\ hand'[j].st = "running" /\ hand'[j].key = <<>>
          \/ link'[j] = "broken" /\ hand'[j].key = <<>>
      BY <1>2, <1>4, <1>5, Called
    <2>0. job'[j].pc = (IF Crypto(j) THEN "key" ELSE "send")
      BY <1>3, <1>5
    <2>2. /\ UNCHANGED hand \/ \E h \in HandRecord : hand' = [hand EXCEPT ![j] = h] /\ h.st # "cancelled"
          /\ \E l \in LinkStates : link' = [link EXCEPT ![j] = l]
      BY <1>2, <1>5, Called
    <2>3. StageInv(j)'
      BY ONLY <1>1, <1>3, <2>0, <2>1 DEF LocalInv, StageInv, SameRequest, Talking, Crypto
    <2>4. TurnInv(j)'
      BY ONLY <1>3, <2>0, <2>1 DEF TurnInv, Waiting
    <2>5. CountInv(j)'
      BY ONLY <1>1, <1>3, <2>0, <2>1 DEF CountInv, SameRequest, Done, At
    <2>6. KeyInv(j)'
      BY ONLY <1>3, <2>0, <2>1 DEF KeyInv, SameRequest, Crypto
    <2>7. AnswerInv(j)'
      BY ONLY <1>1, <1>3, <2>0 DEF LocalInv, AnswerInv, SameRequest, Crypto
    <2> QED  BY <2>2, <2>3, <2>4, <2>5, <2>6, <2>7, Typed, OnlyOne DEF LocalInv
  <1>6. CASE ends
    <2>1. link'[j] \in {"none", "broken"} /\ hand'[j].key = <<>>
      <3>1. link'[j] \in {"none", "broken"}
        BY <1>2, <1>6, Typed
      <3>2. hand'[j].key = <<>>
        BY ONLY <1>2, <1>4, <1>6
      <3> QED  BY <3>1, <3>2
    <2>0. job'[j].pc = "done"
      BY <1>3, <1>6
    <2>8. job'[j].opened = FALSE \/ job'[j].err = "in open"
      BY <1>3, <1>6 DEF JobRecord
    <2>2. UNCHANGED link \/ \E l \in LinkStates : link' = [link EXCEPT ![j] = l]
      BY <1>6 DEF LinkStates
    <2>3. StageInv(j)'
      BY ONLY <1>1, <1>3, <2>0, <2>1 DEF LocalInv, StageInv, SameRequest, Talking
    <2>4. TurnInv(j)'
      BY ONLY <1>3, <2>0, <2>1 DEF TurnInv, Waiting
    <2>5. CountInv(j)'
      <3>1. job'[j].read <= Len(job'[j].src)
        BY ONLY <1>1, <1>3 DEF SameRequest
      <3>2. (~job[j].opened => out[j] = <<>>)'
        BY ONLY <1>1, <1>3
      <3>3. (Done(j) /\ job[j].opened /\ job[j].err # "in open" => Len(out[j]) = Len(job[j].src))'
        BY ONLY <2>8 DEF Done, At
      <3>4. (link[j] = "closed" /\ job[j].opened => Len(out[j]) = Len(job[j].src))'
        BY ONLY <2>1
      <3> QED  BY ONLY <2>0, <3>1, <3>2, <3>3, <3>4, <1>1 DEF CountInv
    <2>6. KeyInv(j)'
      BY ONLY <1>3, <2>0, <2>1 DEF KeyInv, SameRequest, Crypto
    <2>7. AnswerInv(j)'
      BY ONLY <1>1, <1>3, <2>0 DEF LocalInv, AnswerInv, SameRequest, Crypto
    <2> QED  BY <1>6, <2>2, <2>3, <2>4, <2>5, <2>6, <2>7, Typed, OnlyOne DEF LocalInv
  <1> QED  BY <1>5, <1>6

\* CompressWithGrpc opens the archive, or does not.
LEMMA OpenCompressKeeps ==
    ASSUME IInv, ended' \in BOOLEAN, NEW j \in Jobs, OpenCompress(j)
    PROVE  IInv'
  <1>1. job[j] \in JobRecord /\ job[j].pc = "open" /\ ~Crypto(j)
    BY Typed DEF OpenCompress, At, Crypto
  <1>2. PICK opened \in BOOLEAN :
           \/ /\ job' = [job EXCEPT ![j].pc = "send", ![j].opened = opened]
              /\ Call(j)
           \/ /\ job' = [job EXCEPT ![j] = [Ended(@, "in open") EXCEPT !.opened = opened]]
              /\ Abandon(j)
    BY DEF OpenCompress
  <1>3. UNCHANGED <<serverVars, channel, out, up, down>>
    BY DEF OpenCompress
  <1>4. CASE job' = [job EXCEPT ![j].pc = "send", ![j].opened = opened] /\ Call(j)
    <2> DEFINE r == [job[j] EXCEPT !.pc = "send", !.opened = opened]
    <2>1. job' = [job EXCEPT ![j] = r]
      BY <1>4
    <2>2. /\ r \in JobRecord /\ r.pc = "send" /\ r.kind = job[j].kind /\ r.file = job[j].file
          /\ r.src = job[j].src /\ r.key = job[j].key /\ r.read = job[j].read
      BY <1>1 DEF JobRecord
    <2>3. r.pc = (IF Crypto(j) THEN "key" ELSE "send")
      BY <1>1, <2>2
    <2> HIDE DEF r
    <2> QED  BY <1>1, <1>3, <1>4, <2>1, <2>2, <2>3, OpenedKeeps
  <1>5. CASE job' = [job EXCEPT ![j] = [Ended(@, "in open") EXCEPT !.opened = opened]] /\ Abandon(j)
    <2> DEFINE e == Ended(job[j], "in open")
               r == [e EXCEPT !.opened = opened]
    <2>1. job' = [job EXCEPT ![j] = r]
      BY <1>5
    <2>2. "in open" \in Errors
      BY DEF Errors
    <2>3. /\ e \in JobRecord /\ e.pc = "done" /\ e.kind = job[j].kind /\ e.file = job[j].file
          /\ e.src = job[j].src /\ e.key = job[j].key /\ e.read = job[j].read
      BY <1>1, <2>2, EndedTyped
    <2>4. e.err = "in open"
      BY <1>1 DEF Ended, JobRecord
    <2> HIDE DEF e
    <2>5. /\ r \in JobRecord /\ r.pc = "done" /\ r.kind = job[j].kind /\ r.file = job[j].file
          /\ r.src = job[j].src /\ r.key = job[j].key /\ r.read = job[j].read /\ r.err = "in open"
      BY <2>3, <2>4 DEF JobRecord
    <2> QED  BY <1>1, <1>3, <1>5, <2>1, <2>5, OpenedKeeps DEF Abandon
  <1> QED  BY <1>2, <1>4, <1>5

\* UncompressWithGrpc has examined the header.
LEMMA OpenUncompressKeeps ==
    ASSUME IInv, ended' \in BOOLEAN, NEW j \in Jobs, OpenUncompress(j)
    PROVE  IInv'
  <1>1. job[j] \in JobRecord /\ job[j].pc = "open" /\ ~Crypto(j) /\ ~job[j].opened
    BY Typed, Unopened DEF OpenUncompress, At, Crypto
  <1>2. UNCHANGED <<serverVars, channel, out, up, down>>
    BY DEF OpenUncompress
  <1>3. ASSUME NEW opened \in BOOLEAN,
               job' = [job EXCEPT ![j].pc = "send", ![j].opened = opened], Call(j)
        PROVE  IInv'
    <2> DEFINE r == [job[j] EXCEPT !.pc = "send", !.opened = opened]
    <2>1. job' = [job EXCEPT ![j] = r]
      BY <1>3
    <2>2. /\ r \in JobRecord /\ r.pc = "send" /\ r.kind = job[j].kind /\ r.file = job[j].file
          /\ r.src = job[j].src /\ r.key = job[j].key /\ r.read = job[j].read
      BY <1>1 DEF JobRecord
    <2>3. r.pc = (IF Crypto(j) THEN "key" ELSE "send")
      BY <1>1, <2>2
    <2> HIDE DEF r
    <2> QED  BY <1>1, <1>2, <1>3, <2>1, <2>2, <2>3, OpenedKeeps
  <1>4. ASSUME job' = [job EXCEPT ![j] = Ended(@, "bad header")], Abandon(j)
        PROVE  IInv'
    <2> DEFINE r == Ended(job[j], "bad header")
    <2>1. job' = [job EXCEPT ![j] = r]
      BY <1>4
    <2>2. "bad header" \in Errors
      BY DEF Errors
    <2>3. /\ r \in JobRecord /\ r.pc = "done" /\ r.kind = job[j].kind /\ r.file = job[j].file
          /\ r.src = job[j].src /\ r.key = job[j].key /\ r.read = job[j].read
      BY <1>1, <2>2, EndedTyped
    <2>4. r.opened = job[j].opened
      BY <1>1, <2>2, EndedTyped
    <2> HIDE DEF r
    <2>5. r.opened => r.err = "in open"
      BY <1>1, <2>4
    <2> QED  BY <1>1, <1>2, <1>4, <2>1, <2>3, <2>5, OpenedKeeps DEF Abandon
  <1> QED  BY <1>3, <1>4 DEF OpenUncompress

\* The three ways SymEncodeWithGrpc and its counterpart begin.
LEMMA OpenCryptoKeeps ==
    ASSUME IInv, ended' \in BOOLEAN, NEW j \in Jobs, OpenCrypto(j)
    PROVE  IInv'
  <1>1. job[j] \in JobRecord /\ job[j].pc = "open" /\ Crypto(j) /\ ~job[j].opened
    BY Typed, Unopened DEF OpenCrypto, At
  <1>2. UNCHANGED <<serverVars, channel, out, up, down>>
    BY DEF OpenCrypto
  <1>3. ASSUME job' = [job EXCEPT ![j].pc = "key", ![j].opened = TRUE], Call(j)
        PROVE  IInv'
    <2> DEFINE r == [job[j] EXCEPT !.pc = "key", !.opened = TRUE]
    <2>1. job' = [job EXCEPT ![j] = r]
      BY <1>3
    <2>2. /\ r \in JobRecord /\ r.pc = "key" /\ r.kind = job[j].kind /\ r.file = job[j].file
          /\ r.src = job[j].src /\ r.key = job[j].key /\ r.read = job[j].read
      BY <1>1 DEF JobRecord
    <2>3. r.pc = (IF Crypto(j) THEN "key" ELSE "send")
      BY <1>1, <2>2
    <2> HIDE DEF r
    <2> QED  BY <1>1, <1>2, <1>3, <2>1, <2>2, <2>3, OpenedKeeps
  <1>4. ASSUME NEW err \in Errors, job' = [job EXCEPT ![j] = Ended(@, err)], UNCHANGED <<link, hand>>
        PROVE  IInv'
    <2> DEFINE r == Ended(job[j], err)
    <2>1. job' = [job EXCEPT ![j] = r]
      BY <1>4
    <2>2. /\ r \in JobRecord /\ r.pc = "done" /\ r.kind = job[j].kind /\ r.file = job[j].file
          /\ r.src = job[j].src /\ r.key = job[j].key /\ r.read = job[j].read
          /\ ~r.opened
      BY <1>1, <1>4, EndedTyped
    <2> HIDE DEF r
    <2> QED  BY <1>1, <1>2, <1>4, <2>1, <2>2, OpenedKeeps
  <1>5. CryptoError(j) \in Errors /\ "out open" \in Errors
    BY DEF CryptoError, Errors
  <1> QED  BY <1>3, <1>4, <1>5 DEF OpenCrypto

\* The application asks for an operation.
LEMMA BeginKeeps ==
    ASSUME IInv, ended' \in BOOLEAN, NEW j \in Jobs, NEW kind \in Kinds, NEW f \in Files,
           NEW n \in Lengths, NEW key \in KeysFor(kind), Begin(j, kind, f, n, key)
    PROVE  IInv'
  <1>1. job[j] \in JobRecord /\ job[j].pc = "idle" /\ LocalInv(j)
    BY Typed DEF Begin, At
  <1>2. f \in [ext : {"none", "plain", "directory", ".zb", ".spc"},
               body : Seq(Message), key : Keys \cup {"empty"}]
    BY FilesTyped DEF IInv
  <1>3. /\ Blocks(n) \in Seq(Message) /\ Len(Blocks(n)) = n
        /\ \A i \in 1..n : Blocks(n)[i] = <<i>>
    BY RemoteAssumption, BlocksTyped DEF RemoteAssumption
  <1>4. key \in Keys \cup {"empty"}
    BY DEF KeysFor
  <1> DEFINE src == IF kind = "uncompress" THEN f.body ELSE Blocks(n)
  <1>5. src \in Seq(Message) /\ Len(src) >= 0
    <2>1. src \in Seq(Message)
      BY <1>2, <1>3
    <2> HIDE DEF src
    <2> QED  BY <2>1
  <1>6. PICK pc \in {"done", "open"}, err \in Errors :
           job' = [job EXCEPT ![j] =
              [job[j] EXCEPT !.pc = pc, !.kind = kind, !.file = f, !.key = key,
                             !.src = src, !.err = err]]
    <2>1. PICK e \in {"none"} \cup (IF kind = "compress" THEN Faults \cap {"archive"} ELSE {}) :
             LET refused == \/ kind = "compress" /\ f.ext = ".zb"
                            \/ kind = "uncompress" /\ f = Directory
             IN  job' = [job EXCEPT ![j] =
                [@ EXCEPT !.pc = IF refused THEN "done" ELSE "open",
                          !.kind = kind, !.file = f, !.key = key,
                          !.src = IF kind = "uncompress" THEN f.body ELSE Blocks(n),
                          !.err = IF refused THEN "refused" ELSE e]]
      BY DEF Begin
    <2>2. e \in Errors /\ "refused" \in Errors
      BY DEF Errors
    <2> QED  BY <2>1, <2>2
  <1> DEFINE r == [job[j] EXCEPT !.pc = pc, !.kind = kind, !.file = f, !.key = key,
                                 !.src = src, !.err = err]
  <1>7. /\ r \in JobRecord /\ r.pc = pc /\ r.kind = kind /\ r.file = f /\ r.key = key
        /\ r.src = src /\ r.read = job[j].read /\ r.opened = job[j].opened
    <2> HIDE DEF src
    <2> QED  BY <1>1, <1>2, <1>4, <1>5 DEF JobRecord
  <1>8. UNCHANGED <<out, link, up, down, hand>> /\ UNCHANGED <<serverVars, channel>>
    BY DEF Begin
  <1>9. /\ link[j] = "none" /\ ~job[j].opened /\ job[j].read = 0
        /\ hand[j] = NoHandler("none") /\ hand[j].key = <<>>
        /\ out[j] = <<>> /\ up[j] = <<>> /\ down[j] = <<>> /\ Len(out[j]) = 0
    BY <1>1, Unopened
  <1>10. /\ job'[j].pc \in {"done", "open"} /\ job'[j].kind = kind /\ job'[j].file = f
         /\ job'[j].src = src /\ job'[j].read = 0 /\ ~job'[j].opened
    <2>1. job'[j] = r
      BY <1>6, Typed
    <2> HIDE DEF r
    <2> QED  BY <1>7, <1>9, <2>1
  <1>11. StageInv(j)'
    BY ONLY <1>8, <1>9, <1>10, kind \in Kinds DEF StageInv, Talking
  <1>12. TurnInv(j)'
    BY ONLY <1>8, <1>9, <1>10 DEF TurnInv, Waiting
  <1>13. CountInv(j)'
    BY ONLY <1>5, <1>8, <1>9, <1>10 DEF CountInv, Done, At
  <1>14. KeyInv(j)'
    BY ONLY <1>8, <1>9, <1>10 DEF KeyInv, Live
  <1>15. AnswerInv(j)'
    <2>1. kind = "uncompress" => src = f.body
      OBVIOUS
    <2>2. kind = "compress" => \A i \in 1..Len(src) : src[i] = <<i>>
      BY <1>3
    <2> HIDE DEF src
    <2> QED  BY ONLY <1>8, <1>9, <1>10, <2>1, <2>2 DEF AnswerInv
  <1>16. job' = [job EXCEPT ![j] = r]
    BY <1>6
  <1> HIDE DEF r
  <1> QED  BY <1>7, <1>8, <1>16, <1>11, <1>12, <1>13, <1>14, <1>15, Typed, OnlyOne DEF LocalInv

\* A handler answers: it has a message, and the stream has no other.
LEMMA ServeKeeps ==
    ASSUME IInv, ended' \in BOOLEAN, NEW j \in Jobs, Serve(j)
    PROVE  IInv'
  <1>1. /\ job[j] \in JobRecord /\ hand[j] \in HandRecord /\ LocalInv(j)
        /\ link[j] \in LinkStates /\ up[j] \in Seq(Message) /\ down[j] \in Seq(Message)
    BY Typed
  <1>2. Live(j) /\ hand[j].st = "running" /\ up[j] # <<>>
    BY DEF Serve
  <1>3. job[j].pc \in Waiting /\ link[j] = "open" /\ Len(up[j]) = 1 /\ down[j] = <<>>
    <2>1. job[j].pc \in Waiting
      BY <1>1, <1>2 DEF LocalInv, TurnInv
    <2>2. link[j] = "open"
      BY <1>1, <1>2, <2>1 DEF LocalInv, StageInv, Live, Waiting
    <2> QED  BY <1>1, <1>2, <2>1, <2>2 DEF LocalInv, TurnInv
  <1> DEFINE m == up[j][1]
  <1>4. m \in Message /\ Head(up[j]) = m /\ Tail(up[j]) = <<>> /\ m \in Seq(Int)
    <2>1. m \in Message
      BY <1>1, <1>3
    <2>2. Head(up[j]) = m
      BY <1>1, <1>3
    <2>3. Tail(up[j]) = <<>>
      BY <1>1, <1>3, Single
    <2> QED  BY <2>1, <2>2, <2>3 DEF Message
  <1>5. ~Refuses(j)
    BY RemoteAssumption DEF RemoteAssumption, Refuses
  <1>6. up' = [up EXCEPT ![j] = <<>>] /\ UNCHANGED <<serverVars, channel, job, out, link>>
    BY <1>4 DEF Serve
  <1>7. PICK a \in Message :
           /\ down' = [down EXCEPT ![j] = Append(@, a)]
           /\ ~Crypto(j) => a \in (IF job[j].kind = "compress" THEN Compressed(m) ELSE {m})
    <2>1. CASE Crypto(j)
      <3>1. hand[j].acc \o m \in Message
        BY <1>1, <1>4 DEF HandRecord, Message
      <3> QED  BY <1>4, <1>5, <2>1, <3>1 DEF Serve
    <2>2. CASE ~Crypto(j)
      <3>1. Compressed(m) \subseteq Message
        <4>1. ASSUME NEW b \in Dense, m = <<b>>
              PROVE  <<-m[1]>> \in Message
          BY <4>1, RemoteAssumption DEF RemoteAssumption, Message
        <4> QED  BY <1>4, <4>1 DEF Compressed
      <3> QED  BY <1>4, <1>5, <2>2, <3>1 DEF Serve
    <2> QED  BY <2>1, <2>2
  <1>8. PICK h \in HandRecord :
           /\ hand' = [hand EXCEPT ![j] = h] /\ h.st = "running"
           /\ h.key = IF Crypto(j) THEN KeyAfter(j, m) ELSE hand[j].key
    <2>1. CASE Crypto(j)
      <3> DEFINE h == [hand[j] EXCEPT !.key = KeyAfter(j, m), !.acc = @ \o m]
      <3>1. hand[j].acc \o m \in Message /\ KeyAfter(j, m) \in Message
        BY <1>1, <1>4 DEF HandRecord, Message, KeyAfter
      <3>2. h \in HandRecord /\ h.st = "running" /\ h.key = KeyAfter(j, m)
        BY <1>1, <1>2, <3>1 DEF HandRecord
      <3>3. hand' = [hand EXCEPT ![j] = h]
        BY <1>4, <1>5, <2>1 DEF Serve
      <3> HIDE DEF h
      <3> QED  BY <2>1, <3>2, <3>3
    <2>2. CASE ~Crypto(j)
      <3>1. UNCHANGED hand
        BY <1>5, <2>2 DEF Serve
      <3> QED  BY <1>1, <1>2, <2>2, <3>1, Typed
    <2> QED  BY <2>1, <2>2
  <1>9. down'[j] \in Seq(Message) /\ Len(down'[j]) = 1 /\ down'[j][1] = a
    <2>1. down'[j] = Append(down[j], a)
      BY <1>7, Typed
    <2>2. Len(down[j]) = 0
      BY <1>3
    <2> QED  BY <1>1, <1>7, <2>1, <2>2, Appended
  <1>10. /\ up'[j] = <<>> /\ link'[j] = "open" /\ UNCHANGED <<job, out>>
         /\ hand'[j] = h
    <2>1. up'[j] = <<>>
      BY <1>6, Typed
    <2>2. hand'[j] = h
      BY <1>8, Typed
    <2> QED  BY <1>3, <1>6, <2>1, <2>2
  <1>11. StageInv(j)'
    BY ONLY <1>1, <1>3, <1>8, <1>10 DEF LocalInv, StageInv, Talking, Waiting, Crypto
  <1>12. TurnInv(j)'
    BY ONLY <1>3, <1>9, <1>10 DEF TurnInv
  <1>13. CountInv(j)'
    BY ONLY <1>1, <1>3, <1>10 DEF LocalInv, CountInv, Done, At
  <1>14. KeyInv(j)'
    <2>1. ASSUME Crypto(j), job[j].key # "empty"
          PROVE  h.key = <<0>>
      <3>1. h.key = KeyAfter(j, m) /\ hand[j].key \in {<<>>, <<0>>}
        BY <1>1, <1>8, <2>1 DEF LocalInv, KeyInv
      <3>2. CASE job[j].pc = "key sent"
        BY <1>1, <1>2, <2>1, <3>1, <3>2 DEF LocalInv, KeyInv, KeyAfter
      <3>3. CASE job[j].pc = "sent"
        <4>1. hand[j].key = <<0>>
          BY <1>1, <1>2, <2>1, <3>3 DEF LocalInv, KeyInv
        <4>2. <<0>> # <<>>
          OBVIOUS
        <4> QED  BY <3>1, <4>1, <4>2 DEF KeyAfter
      <3> QED  BY <1>3, <3>2, <3>3 DEF Waiting
    <2> QED  BY ONLY <1>10, <2>1 DEF KeyInv, Crypto
  <1>15. AnswerInv(j)'
    <2>1. ASSUME ~Crypto(j), job[j].pc = "sent"
          PROVE  a \in RightAnswers(j, job[j].read)
      <3>1. m = job[j].src[job[j].read]
        BY <1>1, <1>2, <1>3, <2>1 DEF LocalInv, AnswerInv
      <3>2. job[j].kind \in {"compress", "uncompress"}
        BY <1>1, <2>1, RemoteAssumption DEF LocalInv, StageInv, Crypto, RemoteAssumption
      <3> QED  BY <1>7, <2>1, <3>1, <3>2 DEF RightAnswers
    <2>2. \A i : RightAnswers(j, i)' = RightAnswers(j, i)
      BY <1>10 DEF RightAnswers, KeyMessage
    <2> QED
      BY ONLY <1>1, <1>3, <1>9, <1>10, <2>1, <2>2 DEF LocalInv, AnswerInv, Crypto
  <1>16. \E d \in Seq(Message) : down' = [down EXCEPT ![j] = d]
    BY <1>1, <1>7, Appended
  <1>17. <<>> \in Seq(Message)
    OBVIOUS
  <1> QED
    BY <1>6, <1>8, <1>11, <1>12, <1>13, <1>14, <1>15, <1>16, <1>17, Typed, OnlyOne DEF LocalInv

\* A stream that breaks takes with it what was on its way.
LEMMA BrokenLocal ==
    ASSUME IInv, NEW j \in Jobs, Live(j) \/ link[j] = "silent",
           job'[j] = job[j], out'[j] = out[j],
           link'[j] = "broken", up'[j] = <<>>, down'[j] \in {down[j], <<>>},
           hand'[j] = NoHandler("ok")
    PROVE  LocalInv(j)'
  <1>1. /\ job[j] \in JobRecord /\ LocalInv(j)
        /\ link[j] \in LinkStates /\ up[j] \in Seq(Message) /\ down[j] \in Seq(Message)
    BY Typed
  <1>2. job[j].pc \notin {"idle", "open", "create"}
    BY <1>1 DEF LocalInv, StageInv, Live
  <1>3. Len(down[j]) <= 1 /\ (job[j].pc \notin Waiting => down[j] = <<>>)
    <2>1. CASE job[j].pc \notin Waiting
      <3>1. down[j] = <<>>
        BY <1>1, <2>1 DEF LocalInv, TurnInv
      <3> QED  BY <3>1
    <2>2. CASE job[j].pc \in Waiting
      <3>1. link[j] \in {"open", "silent"}
        BY <1>1, <2>2 DEF LocalInv, StageInv, Live, Waiting
      <3>2. down[j] = <<>> \/ Len(down[j]) = 1
        BY <1>1, <2>2, <3>1 DEF LocalInv, TurnInv
      <3> QED  BY <1>1, <2>2, <3>2, Single
    <2> QED  BY <2>1, <2>2
  <1>4. Len(down'[j]) <= 1 /\ (job[j].pc \notin Waiting => down'[j] = <<>>)
    BY <1>3
  <1>5. StageInv(j)'
    BY <1>1, <1>2 DEF LocalInv, StageInv, Talking, Crypto
  <1>6. TurnInv(j)'
    BY <1>4 DEF TurnInv
  <1>7. CountInv(j)'
    BY <1>1 DEF LocalInv, CountInv, Done, At
  <1>8. KeyInv(j)'
    BY DEF KeyInv, Live, NoHandler
  <1>9. AnswerInv(j)'
    BY <1>1 DEF LocalInv, AnswerInv, Crypto
  <1> QED  BY <1>5, <1>6, <1>7, <1>8, <1>9 DEF LocalInv

\* The handler's answer to the end of the stream, or to its loss.
LEMMA NoHandlerTyped ==
    /\ NoHandler("ok") \in HandRecord /\ NoHandler("ok").st = "ok"
    /\ NoHandler("ok").key = <<>> /\ <<>> \in Seq(Message)
  BY DEF NoHandler, HandRecord, Message

\* One stream breaks.
LEMMA BreakStreamKeeps ==
    ASSUME IInv, ended' \in BOOLEAN, NEW j \in Jobs, BreakStream(j)
    PROVE  IInv'
  <1>1. PICK rest \in {down[j], <<>>} : down' = [down EXCEPT ![j] = rest]
    BY DEF BreakStream
  <1>2. rest \in Seq(Message)
    BY <1>1, Typed, NoHandlerTyped
  <1>3. /\ job'[j] = job[j] /\ out'[j] = out[j] /\ link'[j] = "broken" /\ up'[j] = <<>>
        /\ down'[j] \in {down[j], <<>>} /\ hand'[j] = NoHandler("ok")
        /\ Live(j) \/ link[j] = "silent"
    BY <1>1, Typed DEF BreakStream
  <1>4. LocalInv(j)'
    BY <1>3, BrokenLocal
  <1>5. /\ UNCHANGED <<serverVars, channel, job, out>>
        /\ link' = [link EXCEPT ![j] = "broken"] /\ up' = [up EXCEPT ![j] = <<>>]
        /\ hand' = [hand EXCEPT ![j] = NoHandler("ok")]
    BY DEF BreakStream
  <1>6. "broken" \in LinkStates /\ "ok" # "cancelled"
    BY DEF LinkStates
  <1> QED  BY <1>1, <1>2, <1>4, <1>5, <1>6, NoHandlerTyped, Typed, OnlyOne

\* The other side is lost without a word, and so is what was on its way.
LEMMA FallSilentKeeps ==
    ASSUME IInv, ended' \in BOOLEAN, NEW j \in Jobs, FallSilent(j)
    PROVE  IInv'
  <1>1. /\ Live(j) /\ UNCHANGED <<serverVars, channel, job, out>>
        /\ link' = [link EXCEPT ![j] = "silent"] /\ up' = [up EXCEPT ![j] = <<>>]
        /\ down' = [down EXCEPT ![j] = <<>>]
        /\ hand' = [hand EXCEPT ![j] = NoHandler("none")]
    BY DEF FallSilent
  <1>2. /\ NoHandler("none") \in HandRecord /\ NoHandler("none").st # "cancelled"
        /\ NoHandler("none").key = <<>> /\ <<>> \in Seq(Message)
    BY DEF NoHandler, HandRecord, Message
  <1>3. /\ LocalInv(j) /\ link'[j] = "silent" /\ up'[j] = <<>> /\ down'[j] = <<>>
        /\ hand'[j] = NoHandler("none") /\ job'[j] = job[j] /\ out'[j] = out[j]
    BY <1>1, Typed
  <1>4. job[j].pc \notin {"idle", "open", "create"}
    BY <1>1, <1>3 DEF LocalInv, StageInv, Live
  <1>5. StageInv(j)'
    BY <1>3, <1>4 DEF LocalInv, StageInv, Talking, Crypto
  <1>6. TurnInv(j)'
    BY <1>3 DEF TurnInv
  <1>7. CountInv(j)'
    BY <1>3 DEF LocalInv, CountInv, Done, At
  <1>8. KeyInv(j)'
    BY <1>2, <1>3 DEF KeyInv, Live
  <1>9. AnswerInv(j)'
    <2>1. link[j] # "broken"
      BY <1>1 DEF Live
    <2>2. \A i : RightAnswers(j, i)' = RightAnswers(j, i)
      BY <1>3 DEF RightAnswers, KeyMessage
    <2> QED  BY <1>3, <2>1, <2>2 DEF LocalInv, AnswerInv, Crypto
  <1>10. "silent" \in LinkStates
    BY DEF LinkStates
  <1> QED
    BY <1>1, <1>2, <1>5, <1>6, <1>7, <1>8, <1>9, <1>10, Typed, OnlyOne DEF LocalInv

\* An operation ends in an exception, or the process does.
LEMMA ThrowsKeeps ==
    ASSUME IInv, ended' \in BOOLEAN, NEW j \in Jobs, Throws(j)
    PROVE  IInv'
  <1>1. /\ job[j] \in JobRecord /\ LocalInv(j) /\ link[j] \in LinkStates
        /\ job[j].pc \in {"open", "finish"}
        /\ UNCHANGED <<serverVars, channel, out, up, down, hand>>
    BY Typed DEF Throws, At
  <1>2. CASE UNCHANGED <<job, link>>
    <2>1. LocalInv(j)'
      BY <1>1, <1>2, LocalSame
    <2> QED  BY <1>1, <1>2, <2>1, Typed, OnlyOne
  <1>3. CASE /\ job' = [job EXCEPT ![j].pc = "thrown"]
             /\ link' = [link EXCEPT ![j] = IF @ = "half" THEN "closed" ELSE @]
    <2>1. job' = [job EXCEPT ![j] = [job[j] EXCEPT !.pc = "thrown"]]
      BY <1>3
    <2>2. [job[j] EXCEPT !.pc = "thrown"] \in JobRecord
      BY <1>1 DEF JobRecord
    <2>3. /\ job'[j].pc = "thrown" /\ SameRequest(j)
          /\ job'[j].read = job[j].read /\ job'[j].opened = job[j].opened
      <3>1. job'[j] = [job[j] EXCEPT !.pc = "thrown"]
        BY <2>1, Typed
      <3> QED  BY <1>1, <3>1 DEF JobRecord, SameRequest
    <2>4. link'[j] = (IF link[j] = "half" THEN "closed" ELSE link[j])
      BY <1>3, Typed
    <2>5. \E l \in LinkStates : link' = [link EXCEPT ![j] = l]
      <3>1. (IF link[j] = "half" THEN "closed" ELSE link[j]) \in LinkStates
        BY <1>1 DEF LinkStates
      <3> QED  BY <1>3, <3>1
    <2>6. StageInv(j)'
      BY <1>1, <2>3, <2>4 DEF LocalInv, StageInv, SameRequest, Talking, Crypto
    <2>7. TurnInv(j)'
      BY <1>1, <2>3, <2>4 DEF LocalInv, TurnInv, Waiting
    <2>8. CountInv(j)'
      <3>1. link[j] = "half" => job[j].pc = "finish"
        BY <1>1 DEF LocalInv, StageInv
      <3> QED  BY <1>1, <2>3, <2>4, <3>1 DEF LocalInv, CountInv, SameRequest, Done, At
    <2>9. KeyInv(j)'
      BY <1>1, <2>3, <2>4 DEF LocalInv, KeyInv, SameRequest, Crypto, Live
    <2>10. AnswerInv(j)'
      BY <1>1, <2>3, <2>4
      DEF LocalInv, AnswerInv, SameRequest, Crypto, RightAnswers, KeyMessage
    <2> QED
      BY <1>1, <2>1, <2>2, <2>5, <2>6, <2>7, <2>8, <2>9, <2>10, Typed, OnlyOne DEF LocalInv
  <1> QED  BY <1>2, <1>3 DEF Throws

\* A handler returns when the client has sent everything.
LEMMA HandlerReturnsKeeps ==
    ASSUME IInv, ended' \in BOOLEAN, NEW j \in Jobs, HandlerReturns(j)
    PROVE  IInv'
  <1>1. LocalInv(j) /\ link[j] = "half" /\ job[j].pc = "finish"
    BY Typed DEF HandlerReturns, LocalInv, StageInv
  <1>2. /\ UNCHANGED <<serverVars, channel, job, out, link, up, down>>
        /\ hand' = [hand EXCEPT ![j] = NoHandler("ok")]
    BY DEF HandlerReturns
  <1>3. hand'[j] = NoHandler("ok")
    BY <1>2, Typed
  <1>4. StageInv(j)'
    BY <1>1, <1>2 DEF LocalInv, StageInv, Crypto
  <1>5. TurnInv(j)'
    BY <1>1, <1>2 DEF LocalInv, TurnInv
  <1>6. CountInv(j)'
    BY <1>1, <1>2 DEF LocalInv, CountInv, Done, At
  <1>7. KeyInv(j)'
    BY <1>3, NoHandlerTyped DEF KeyInv
  <1>8. AnswerInv(j)'
    BY <1>1, <1>2 DEF LocalInv, AnswerInv, Crypto, RightAnswers, KeyMessage
  <1> QED
    BY <1>2, <1>4, <1>5, <1>6, <1>7, <1>8, NoHandlerTyped, Typed, OnlyOne DEF LocalInv

\* The process ends, and every stream with it.
LEMMA StopServerKeeps ==
    ASSUME IInv, ended' \in BOOLEAN, StopServer
    PROVE  IInv'
  <1>1. ServerInv' /\ server' \in {"down", "loading", "serving"}
    BY ServerStep DEF StopServer, IInv
  <1>2. UNCHANGED <<channel, job, out>>
    BY DEF StopServer
  <1>3. ASSUME NEW j \in Jobs
        PROVE  /\ hand'[j] \in HandRecord /\ hand'[j].st # "cancelled"
               /\ link'[j] \in LinkStates /\ up'[j] = <<>> /\ down'[j] \in Seq(Message)
               /\ LocalInv(j)'
    <2>1. CASE Live(j)
      <3>1. /\ link'[j] = "broken" /\ up'[j] = <<>> /\ down'[j] = <<>>
            /\ hand'[j] = NoHandler("ok") /\ job'[j] = job[j] /\ out'[j] = out[j]
        BY <2>1 DEF StopServer
      <3>2. LocalInv(j)'
        BY <2>1, <3>1, BrokenLocal
      <3> QED  BY <3>1, <3>2, NoHandlerTyped DEF LinkStates
    <2>2. CASE ~Live(j)
      <3>1. up[j] = <<>>
        BY <2>2, Typed DEF LocalInv, StageInv, TurnInv, Live, LinkStates, Talking, Waiting
      <3>2. /\ link'[j] = link[j] /\ up'[j] = up[j] /\ down'[j] = down[j]
            /\ hand'[j] = hand[j] /\ job'[j] = job[j] /\ out'[j] = out[j]
        BY <2>2, <3>1 DEF StopServer
      <3>3. LocalInv(j)'
        BY <3>2, Typed, LocalSame
      <3> QED  BY <3>1, <3>2, <3>3, Typed
    <2> QED  BY <2>1, <2>2
  <1>4. TypeOK'
    <2>1. /\ link' \in [Jobs -> LinkStates] /\ hand' \in [Jobs -> HandRecord]
          /\ up' \in [Jobs -> Seq(Message)] /\ down' \in [Jobs -> Seq(Message)]
      BY <1>3, NoHandlerTyped DEF StopServer
    <2> QED
      BY <1>1, <1>2, <2>1, Typed DEF TypeOK, JobRecord, HandRecord, LinkStates
  <1> QED  BY <1>1, <1>3, <1>4 DEF IInv

-------------------------------------------------------------------------------
(* The theorems *)

\* The invariant holds before anything is asked for.
LEMMA InitInv == RemoteInit => IInv
  <1> SUFFICES ASSUME RemoteInit PROVE IInv
    OBVIOUS
  <1>1. /\ <<>> \in Message /\ <<>> \in Seq(Message) /\ NoHandler("none") \in HandRecord
        /\ NoHandler("none").key = <<>> /\ NoHandler("none").st = "none"
    BY DEF NoHandler, HandRecord, Message
  <1> DEFINE r == [pc |-> "idle", kind |-> "none", file |-> NoFile, src |-> <<>>,
                   key |-> "empty", read |-> 0, resp |-> <<>>,
                   opened |-> FALSE, err |-> "none"]
  <1>2. r \in JobRecord
    BY <1>1 DEF JobRecord, NoFile, Errors
  <1>3. TypeOK
    BY <1>1, <1>2 DEF RemoteInit, ServerInit, TypeOK, JobRecord, HandRecord
  <1>4. ServerInv
    BY DEF RemoteInit, ServerInit, ServerInv, Registered, Services
  <1>5. ASSUME NEW j \in Jobs
        PROVE  hand[j].st # "cancelled" /\ LocalInv(j)
    <2>1. /\ job[j].pc = "idle" /\ job[j].kind = "none" /\ job[j].read = 0
          /\ ~job[j].opened /\ job[j].src = <<>> /\ Len(job[j].src) = 0
          /\ out[j] = <<>> /\ link[j] = "none" /\ up[j] = <<>> /\ down[j] = <<>>
          /\ hand[j] = NoHandler("none")
      BY DEF RemoteInit
    <2>2. StageInv(j)
      BY <2>1 DEF StageInv, Talking
    <2>3. TurnInv(j)
      BY <2>1 DEF TurnInv, Waiting
    <2>4. CountInv(j)
      BY <2>1 DEF CountInv, Done, At
    <2>5. KeyInv(j) /\ AnswerInv(j)
      BY <2>1 DEF KeyInv, AnswerInv, Crypto
    <2> QED  BY <1>1, <2>1, <2>2, <2>3, <2>4, <2>5 DEF LocalInv
  <1> QED  BY <1>3, <1>4, <1>5 DEF IInv

\* Every action keeps the invariant.
LEMMA StepInv == IInv /\ [Next]_vars => IInv'
  <1> SUFFICES ASSUME IInv, [Next]_vars PROVE IInv'
    OBVIOUS
  <1>0. ended \in BOOLEAN
    BY Typed
  <1>1. CASE UNCHANGED vars
    <2>1. UNCHANGED <<server, pool, builder, channel, job, out, link, up, down, hand, ended>>
      BY <1>1 DEF vars, serverVars, remoteVars
    <2>2. ASSUME NEW j \in Jobs PROVE LocalInv(j)' /\ hand'[j].st # "cancelled"
      BY <2>1, Typed, LocalSame
    <2> QED  BY <2>1, <2>2 DEF IInv, TypeOK, ServerInv, Registered, Distinct
  <1>2. CASE (ServerStarts \/ \E dir \in LibDirs : Launch(dir)) /\ UNCHANGED remoteVars
    <2>1. ServerInv' /\ server' \in {"down", "loading", "serving"}
      BY <1>2, ServerStep DEF IInv
    <2>2. UNCHANGED <<channel, job, out, link, up, down, hand, ended>>
      BY <1>2 DEF remoteVars
    <2>3. ASSUME NEW j \in Jobs PROVE LocalInv(j)' /\ hand'[j].st # "cancelled"
      BY <2>2, Typed, LocalSame
    <2> QED  BY <2>1, <2>2, <2>3 DEF IInv, TypeOK
  <1>3. CASE StopServer /\ UNCHANGED ended
    BY <1>0, <1>3, StopServerKeeps
  <1>4. ASSUME NEW j \in Jobs, ClientStep(j) PROVE IInv'
    <2>1. ended' \in BOOLEAN
      BY <1>0, <1>4 DEF ClientStep
    <2> QED
      BY <1>4, <2>1, SeeNoChannelKeeps, CreateChannelKeeps, OpenCompressKeeps,
         OpenUncompressKeeps, OpenCryptoKeeps, SendKeyKeeps, ReceiveKeyKeeps, SendBlockKeeps,
         ReceiveAnswerKeeps, WritesDoneKeeps, FinishKeeps DEF ClientStep
  <1>5. ASSUME NEW j \in Jobs,
               HandlerStep(j) \/ ((BreakStream(j) \/ FallSilent(j)) /\ UNCHANGED ended)
        PROVE  IInv'
    <2>1. ended' \in BOOLEAN
      BY <1>0, <1>5 DEF HandlerStep
    <2> QED
      BY <1>5, <2>1, ServeKeeps, HandlerReturnsKeeps, BreakStreamKeeps, FallSilentKeeps
      DEF HandlerStep
  <1>6. ASSUME NEW j \in Jobs, NEW kind \in Kinds, NEW f \in Files, NEW n \in Lengths,
               NEW key \in KeysFor(kind), Begin(j, kind, f, n, key), UNCHANGED ended
        PROVE  IInv'
    BY <1>0, <1>6, BeginKeeps
  <1>7. ASSUME NEW j \in Jobs, Throws(j) PROVE IInv'
    <2>1. ended' = ended \/ ended' = TRUE
      BY <1>7 DEF Throws
    <2>2. ended' \in BOOLEAN
      BY <1>0, <2>1, Zenon
    <2> QED  BY <1>7, <2>2, ThrowsKeeps
  <1> QED  BY <1>1, <1>2, <1>3, <1>4, <1>5, <1>6, <1>7 DEF Next

\* The invariant holds throughout.
LEMMA InvHolds == Spec => []IInv
  BY InitInv, StepInv, PTL DEF Spec

\* Every variable of the client, the handler and the stream keeps its type.
THEOREM TypeCorrect == Spec => []TypeOK
  <1>1. IInv => TypeOK
    BY DEF IInv
  <1> QED  BY <1>1, InvHolds, PTL

\* RunServer serves all three services or does not serve: CreateServices hands out
\* what it handed out before, so that a second library is a service registered twice,
\* and without one there is no service.
THEOREM Serving == Spec => []ServesAll
  <1>1. IInv => ServesAll
    BY DEF IInv, ServerInv, Registered, ServesAll, Distinct, Three
  <1> QED  BY <1>1, InvHolds, PTL

\* Client and handler never both have something to say: the stream holds one
\* message at most, and none unless the client is about to read.
THEOREM Turns == Spec => []TakesTurns
  <1>1. ASSUME IInv, NEW j \in Jobs
        PROVE  /\ Len(up[j]) + Len(down[j]) <= 1
               /\ job[j].pc \notin {"key sent", "sent"} => up[j] \o down[j] = <<>>
    <2>1. LocalInv(j) /\ link[j] \in LinkStates /\ up[j] \in Seq(Message) /\ down[j] \in Seq(Message)
      BY <1>1, Typed
    <2>2. CASE job[j].pc \notin Waiting
      <3>1. up[j] = <<>> /\ down[j] = <<>>
        BY <2>1, <2>2 DEF LocalInv, TurnInv
      <3> QED  BY <3>1
    <2>3. CASE job[j].pc \in Waiting
      <3>1. link[j] \in {"open", "broken", "silent"}
        BY <2>1, <2>3 DEF LocalInv, StageInv, LinkStates, Waiting, Talking
      <3>2. Len(up[j]) + Len(down[j]) <= 1
        <4>1. CASE link[j] = "open"
          <5>1. \/ Len(up[j]) = 1 /\ down[j] = <<>>
                \/ up[j] = <<>> /\ Len(down[j]) = 1
            BY <2>1, <2>3, <4>1 DEF LocalInv, TurnInv
          <5> QED  BY <2>1, <5>1, Single
        <4>2. CASE link[j] = "broken"
          <5>1. up[j] = <<>> /\ Len(down[j]) <= 1
            BY <2>1, <4>2 DEF LocalInv, TurnInv
          <5> QED  BY <2>1, <5>1, Single
        <4>3. CASE link[j] = "silent"
          <5>1. up[j] = <<>> /\ down[j] = <<>>
            BY <2>1, <4>3 DEF LocalInv, TurnInv
          <5> QED  BY <5>1
        <4> QED  BY <3>1, <4>1, <4>2, <4>3
      <3> QED  BY <2>3, <3>2 DEF Waiting
    <2> QED  BY <2>2, <2>3
  <1>2. IInv => TakesTurns
    BY <1>1 DEF TakesTurns
  <1> QED  BY <1>2, InvHolds, PTL

\* s_crypto takes the first message that is not empty for the key, and that is
\* the key.
THEOREM KeyFirst == Spec => []KeyIsNoData
  <1>1. IInv => KeyIsNoData
    BY Typed DEF KeyIsNoData, LocalInv, KeyInv
  <1> QED  BY <1>1, InvHolds, PTL

\* An operation that has ended has written one answer for each block, even if
\* its stream broke.
THEOREM AnswersCounted == Spec => []OneAnswerEach
  <1>1. IInv => OneAnswerEach
    BY Typed DEF OneAnswerEach, LocalInv, CountInv
  <1> QED  BY <1>1, InvHolds, PTL

\* CompressWithGrpc and then UncompressWithGrpc give back the blocks, whatever
\* their number, if no stream broke and each got smaller.
THEOREM ThereAndBack == Spec => []RoundTrip
  <1>1. ASSUME IInv, NEW j \in Jobs, NEW k \in Jobs,
               Done(j), job[j].kind = "uncompress", job[j].opened, link[j] = "closed",
               job[k].kind = "compress", job[k].opened, link[k] = "closed",
               job[j].file = Made(k),
               \A i \in 1..Len(job[k].src) : i \notin Dense
        PROVE  out[j] = job[k].src
    <2>1. /\ LocalInv(j) /\ LocalInv(k) /\ out[j] \in Seq(Message)
          /\ job[j].src \in Seq(Message) /\ job[k].src \in Seq(Message)
      BY <1>1, Typed DEF JobRecord
    <2>2. job[j].src = out[k]
      BY <1>1, <2>1 DEF LocalInv, AnswerInv, Made
    <2>3. Len(out[j]) = Len(job[j].src) /\ Len(out[k]) = Len(job[k].src)
      BY <1>1, <2>1 DEF LocalInv, CountInv
    <2>4. \A i \in 1..Len(out[j]) : out[j][i] = job[j].src[i]
      BY <1>1, <2>1 DEF LocalInv, AnswerInv, Crypto, RightAnswers
    <2>5. ASSUME NEW i \in 1..Len(out[k])
          PROVE  out[k][i] = job[k].src[i]
      <3>1. job[k].src[i] = <<i>> /\ i \notin Dense
        BY <1>1, <2>1, <2>3 DEF LocalInv, AnswerInv
      <3>2. out[k][i] \in Compressed(job[k].src[i])
        BY <1>1, <2>1 DEF LocalInv, AnswerInv, Crypto, RightAnswers
      <3>3. \A b : <<i>> = <<b>> => i = b
        OBVIOUS
      <3> QED  BY <3>1, <3>2, <3>3 DEF Compressed
    <2>6. \A i \in 1..Len(out[j]) : out[j][i] = job[k].src[i]
      BY <2>2, <2>3, <2>4, <2>5
    <2> QED  BY <2>1, <2>2, <2>3, <2>6, SeqEqual
  <1>2. IInv => RoundTrip
    BY <1>1 DEF RoundTrip
  <1> QED  BY <1>2, InvHolds, PTL

-------------------------------------------------------------------------------
(* What is written: a second invariant, which rests on the first *)

\* All that s_crypto has been sent after i blocks.
SoFar(j, i) == KeyMessage(j) \o [k \in 1..i |-> k]

\* What the response object holds: the last answer written, unless it has been
\* cleared for the next block.
RespInv(j) ==
    /\ job[j].pc \in {"idle", "open", "create"} => job[j].resp = <<>>
    /\ job[j].opened /\ job[j].pc \in {"send", "sent"} =>
          job[j].resp = IF out[j] = <<>> \/ (job[j].kind = "compress" /\ job[j].pc = "sent")
                        THEN <<>> ELSE out[j][Len(out[j])]

\* What s_crypto has gathered, and what it is sent next.
GatherInv(j) ==
    Crypto(j) =>
        /\ \A i \in 1..Len(job[j].src) : job[j].src[i] = <<i>>
        /\ link[j] = "open" =>
              /\ job[j].pc = "key" => hand[j].acc = <<>>
              /\ job[j].pc = "key sent" =>
                    /\ up[j] # <<>> => hand[j].acc = <<>> /\ up[j][1] = KeyMessage(j)
                    /\ up[j] = <<>> => hand[j].acc = KeyMessage(j)
              /\ job[j].pc = "send" => hand[j].acc = SoFar(j, job[j].read)
              /\ job[j].pc = "sent" =>
                    /\ up[j] # <<>> => /\ hand[j].acc = SoFar(j, job[j].read - 1)
                                       /\ up[j][1] = job[j].src[job[j].read]
                    /\ up[j] = <<>> => hand[j].acc = SoFar(j, job[j].read)

\* An answer on its way is the right one, also if the stream breaks behind it.
NextInv(j) ==
    job[j].pc = "sent" /\ down[j] # <<>> => down[j][1] \in RightAnswers(j, job[j].read)

\* The output is k right answers and then what was left in the response, with no
\* answer to come; nothing of the second kind unless the stream is broken.
RightThenFilled(j, k) ==
    /\ RightUpTo(j, k)
    /\ \A i \in (k + 1)..Len(out[j]) : out[j][i] = Filler(j, k)
    /\ k < Len(out[j]) => link[j] = "broken" /\ down[j] = <<>>

SplitInv(j) == \E k \in 0..Len(out[j]) : RightThenFilled(j, k)

OrderInv(j) == RespInv(j) /\ GatherInv(j) /\ NextInv(j) /\ SplitInv(j)

OInv == IInv /\ \A j \in Jobs : OrderInv(j)

\* One more block after i.
LEMMA OneMore ==
    ASSUME NEW s \in Seq(Int), NEW i \in Nat
    PROVE  (s \o [k \in 1..i |-> k]) \o <<i + 1>> = s \o [k \in 1..(i + 1) |-> k]
  <1> DEFINE f == [k \in 1..i |-> k]
             g == [k \in 1..(i + 1) |-> k]
  <1>1. /\ f \in Seq(Int) /\ Len(f) = i /\ (\A k \in 1..i : f[k] = k)
        /\ g \in Seq(Int) /\ Len(g) = i + 1 /\ (\A k \in 1..(i + 1) : g[k] = k)
        /\ <<i + 1>> \in Seq(Int)
    <2>1. f \in [1..i -> Int] /\ g \in [1..(i + 1) -> Int] /\ i + 1 \in Nat
      OBVIOUS
    <2>2. f \in Seq(Int) /\ DOMAIN f = 1..i
      BY <2>1
    <2>3. g \in Seq(Int) /\ DOMAIN g = 1..(i + 1)
      BY <2>1
    <2> QED  BY <2>2, <2>3
  <1>2. f \o <<i + 1>> = g
    <2> HIDE DEF f, g
    <2>1. /\ f \o <<i + 1>> \in Seq(Int) /\ Len(f \o <<i + 1>>) = i + 1
          /\ \A k \in 1..(i + 1) : (f \o <<i + 1>>)[k] = IF k <= i THEN f[k] ELSE i + 1
      BY <1>1
    <2>2. \A k \in 1..(i + 1) : (f \o <<i + 1>>)[k] = g[k]
      BY <1>1, <2>1
    <2> QED  BY <1>1, <2>1, <2>2, SeqEqual
  <1> HIDE DEF f, g
  <1>3. (s \o f) \o <<i + 1>> = s \o (f \o <<i + 1>>)
    <2>1. f \in Seq(Int) /\ <<i + 1>> \in Seq(Int)
      BY <1>1
    <2> QED  BY <2>1, ConcatAssociative, SMT
  <1>4. (s \o f) \o <<i + 1>> = s \o g
    BY <1>2, <1>3
  <1> QED  BY <1>4 DEF f, g

\* The key and then the blocks, one by one.
LEMMA SoFarGrows ==
    ASSUME NEW j \in Jobs
    PROVE  /\ KeyMessage(j) \in Seq(Int)
           /\ SoFar(j, 0) = KeyMessage(j)
           /\ \A i \in Nat : SoFar(j, i) \o <<i + 1>> = SoFar(j, i + 1)
  <1>1. KeyMessage(j) \in Seq(Int)
    BY DEF KeyMessage
  <1>2. [k \in 1..0 |-> k] = <<>>
    OBVIOUS
  <1>3. KeyMessage(j) \o <<>> = KeyMessage(j)
    BY <1>1
  <1> QED  BY <1>1, <1>2, <1>3, OneMore DEF SoFar

\* An output to which nothing is added stays what it is.
LEMMA SplitKeeps ==
    ASSUME NEW j \in Jobs, SplitInv(j), SameRequest(j), out'[j] = out[j],
           link[j] = "broken" /\ down[j] = <<>> => link'[j] = "broken" /\ down'[j] = <<>>
    PROVE  SplitInv(j)'
  <1>1. PICK k \in 0..Len(out[j]) : RightThenFilled(j, k)
    BY DEF SplitInv
  <1>2. \A i : RightAnswers(j, i)' = RightAnswers(j, i)
    BY DEF RightAnswers, KeyMessage, SameRequest
  <1>3. /\ RightUpTo(j, k) /\ \A i \in (k + 1)..Len(out[j]) : out[j][i] = Filler(j, k)
        /\ k < Len(out[j]) => link[j] = "broken" /\ down[j] = <<>>
    BY <1>1 DEF RightThenFilled
  <1>4. /\ \A i \in 1..k : out'[j][i] \in RightAnswers(j, i)'
        /\ \A i \in (k + 1)..Len(out'[j]) :
              out'[j][i] = IF job'[j].kind = "compress" \/ k = 0 THEN <<>> ELSE out'[j][k]
    BY <1>2, <1>3 DEF RightUpTo, Filler, SameRequest
  <1>5. k < Len(out'[j]) => link'[j] = "broken" /\ down'[j] = <<>>
    BY <1>3
  <1> QED  BY <1>4, <1>5 DEF SplitInv, RightThenFilled, RightUpTo, Filler

\* What is left alone keeps its part of the second invariant.
LEMMA OrderSame ==
    ASSUME NEW k \in Jobs, OrderInv(k),
           job'[k] = job[k], out'[k] = out[k], link'[k] = link[k],
           up'[k] = up[k], down'[k] = down[k], hand'[k] = hand[k]
    PROVE  OrderInv(k)'
  <1>1. RespInv(k)'
    BY DEF OrderInv, RespInv
  <1>2. GatherInv(k)'
    BY DEF OrderInv, GatherInv, Crypto, KeyMessage, SoFar
  <1>3. NextInv(k)'
    BY DEF OrderInv, NextInv, RightAnswers, KeyMessage
  <1>4. SplitInv(k)'
    <2>1. SplitInv(k) /\ SameRequest(k)
      BY DEF OrderInv, SameRequest
    <2> QED  BY <2>1, SplitKeeps
  <1> QED  BY <1>1, <1>2, <1>3, <1>4 DEF OrderInv

\* An output that is empty holds no answer that is not right.
LEMMA SplitNone ==
    ASSUME NEW j \in Jobs, out'[j] = <<>>
    PROVE  SplitInv(j)'
  <1>1. 0 \in 0..Len(out'[j]) /\ Len(out'[j]) = 0
    OBVIOUS
  <1>2. /\ \A i \in 1..0 : out'[j][i] \in RightAnswers(j, i)'
        /\ \A i \in (0 + 1)..Len(out'[j]) : out'[j][i] = <<>>
        /\ ~(0 < Len(out'[j]))
    BY <1>1
  <1> QED  BY <1>1, <1>2 DEF SplitInv, RightThenFilled, RightUpTo, Filler

-------------------------------------------------------------------------------
(* The steps, once more *)

\* The request before the stream is there: nothing is written and nothing sent.
LEMMA EarlyOrder ==
    ASSUME NEW j \in Jobs, LocalInv(j)', out'[j] = <<>>, job'[j].resp = <<>>,
           job'[j].pc \in {"idle", "open", "create", "send", "key", "done", "thrown"},
           hand'[j].acc = <<>>,
           job'[j].kind \in {"encode", "decode"} =>
              /\ job'[j].pc # "send"
              /\ \A i \in 1..Len(job'[j].src) : job'[j].src[i] = <<i>>
    PROVE  OrderInv(j)'
  <1>1. RespInv(j)'
    BY DEF RespInv
  <1>2. GatherInv(j)'
    BY DEF GatherInv, Crypto
  <1>3. NextInv(j)'
    BY DEF NextInv
  <1> QED  BY <1>1, <1>2, <1>3, SplitNone DEF OrderInv

\* After the last block nothing is written any more.
LEMMA LateOrder ==
    ASSUME NEW j \in Jobs, LocalInv(j)', OrderInv(j), SameRequest(j), out'[j] = out[j],
           job'[j].pc \in {"finish", "done", "thrown"},
           link[j] = "broken" /\ down[j] = <<>> => link'[j] = "broken" /\ down'[j] = <<>>
    PROVE  OrderInv(j)'
  <1>1. RespInv(j)'
    BY DEF RespInv
  <1>2. GatherInv(j)'
    <2>1. link'[j] # "open"
      BY DEF LocalInv, StageInv, Talking
    <2>2. Crypto(j)' => \A i \in 1..Len(job'[j].src) : job'[j].src[i] = <<i>>
      BY DEF OrderInv, GatherInv, Crypto, SameRequest
    <2> QED  BY <2>1, <2>2 DEF GatherInv
  <1>3. NextInv(j)'
    BY DEF NextInv
  <1> QED  BY <1>1, <1>2, <1>3, SplitKeeps DEF OrderInv

\* A stream breaks, and an answer behind which it breaks may still arrive; or the
\* other side falls silent.
LEMMA BrokenOrder ==
    ASSUME NEW j \in Jobs, OrderInv(j), Live(j) \/ link[j] = "silent",
           job'[j] = job[j], out'[j] = out[j],
           link'[j] \in {"broken", "silent"}, down'[j] \in {down[j], <<>>}
    PROVE  OrderInv(j)'
  <1>1. RespInv(j)'
    BY DEF OrderInv, RespInv
  <1>2. GatherInv(j)'
    BY DEF OrderInv, GatherInv, Crypto
  <1>3. NextInv(j)'
    BY DEF OrderInv, NextInv, RightAnswers, KeyMessage
  <1>4. SplitInv(j)'
    BY SplitKeeps DEF OrderInv, SameRequest, Live
  <1> QED  BY <1>1, <1>2, <1>3, <1>4 DEF OrderInv

\* An operation that has not come to its stream.
LEMMA NotBegun ==
    ASSUME OInv, NEW j \in Jobs, job[j].pc \in {"idle", "open", "create"}
    PROVE  /\ job[j] \in JobRecord /\ hand[j] \in HandRecord
           /\ job[j].resp = <<>> /\ out[j] = <<>> /\ hand[j].acc = <<>>
           /\ down[j] = <<>> /\ link[j] = "none"
           /\ Crypto(j) => \A i \in 1..Len(job[j].src) : job[j].src[i] = <<i>>
  <1>1. LocalInv(j) /\ OrderInv(j) /\ job[j] \in JobRecord /\ hand[j] \in HandRecord
    BY Typed DEF OInv
  <1>2. hand[j] = NoHandler("none") /\ out[j] = <<>> /\ link[j] = "none"
    BY <1>1 DEF LocalInv, StageInv
  <1>3. down[j] = <<>>
    BY <1>1 DEF LocalInv, TurnInv, Waiting
  <1> QED  BY <1>1, <1>2, <1>3 DEF OrderInv, RespInv, GatherInv, NoHandler

\* An operation is asked for.
LEMMA BeginOrder ==
    ASSUME OInv, IInv', NEW j \in Jobs, NEW kind \in Kinds, NEW f \in Files,
           NEW n \in Lengths, NEW key \in KeysFor(kind), Begin(j, kind, f, n, key)
    PROVE  OrderInv(j)'
  <1>1. /\ job[j] \in JobRecord /\ job[j].pc = "idle" /\ job[j].resp = <<>>
        /\ out[j] = <<>> /\ hand[j].acc = <<>>
    BY NotBegun DEF Begin, At
  <1> DEFINE src == IF kind = "uncompress" THEN f.body ELSE Blocks(n)
  <1>2. PICK pc \in {"done", "open"}, err \in Errors :
           job' = [job EXCEPT ![j] =
              [job[j] EXCEPT !.pc = pc, !.kind = kind, !.file = f, !.key = key,
                             !.src = src, !.err = err]]
    <2>1. PICK e \in {"none"} \cup (IF kind = "compress" THEN Faults \cap {"archive"} ELSE {}) :
             LET refused == \/ kind = "compress" /\ f.ext = ".zb"
                            \/ kind = "uncompress" /\ f = Directory
             IN  job' = [job EXCEPT ![j] =
                [@ EXCEPT !.pc = IF refused THEN "done" ELSE "open",
                          !.kind = kind, !.file = f, !.key = key,
                          !.src = IF kind = "uncompress" THEN f.body ELSE Blocks(n),
                          !.err = IF refused THEN "refused" ELSE e]]
      BY DEF Begin
    <2>2. e \in Errors /\ "refused" \in Errors
      BY DEF Errors
    <2> QED  BY <2>1, <2>2
  <1>3. job \in [Jobs -> JobRecord] /\ LocalInv(j)'
    <2>1. LocalInv(j)'
      BY DEF IInv
    <2> QED  BY <2>1, Typed DEF OInv
  <1>4. Len(Blocks(n)) = n /\ \A i \in 1..n : Blocks(n)[i] = <<i>>
    BY RemoteAssumption, BlocksTyped DEF RemoteAssumption
  <1>5. kind \in {"encode", "decode"} => \A i \in 1..Len(src) : src[i] = <<i>>
    BY <1>4
  <1> HIDE DEF src
  <1>6. /\ job'[j].pc \in {"done", "open"} /\ job'[j].kind = kind /\ job'[j].src = src
        /\ job'[j].resp = <<>>
    <2>1. job'[j] = [job[j] EXCEPT !.pc = pc, !.kind = kind, !.file = f, !.key = key,
                                   !.src = src, !.err = err]
      BY <1>2, <1>3
    <2> QED  BY <1>1, <2>1 DEF JobRecord
  <1>7. out'[j] = <<>> /\ hand'[j].acc = <<>>
    BY <1>1 DEF Begin
  <1> QED  BY <1>3, <1>5, <1>6, <1>7, EarlyOrder

\* GetChannel.
LEMMA ChannelOrder ==
    ASSUME OInv, IInv', NEW j \in Jobs, SeeNoChannel(j) \/ CreateChannel(j)
    PROVE  OrderInv(j)'
  <1>1. /\ job[j] \in JobRecord /\ job[j].resp = <<>> /\ out[j] = <<>> /\ hand[j].acc = <<>>
        /\ Crypto(j) => \A i \in 1..Len(job[j].src) : job[j].src[i] = <<i>>
    BY NotBegun DEF SeeNoChannel, CreateChannel, At
  <1>2. PICK pc \in {"open", "create"} : job' = [job EXCEPT ![j] = [job[j] EXCEPT !.pc = pc]]
    BY DEF SeeNoChannel, CreateChannel
  <1>3. job \in [Jobs -> JobRecord] /\ LocalInv(j)'
    <2>1. LocalInv(j)'
      BY DEF IInv
    <2> QED  BY <2>1, Typed DEF OInv
  <1>4. /\ job'[j].pc = pc /\ job'[j].kind = job[j].kind /\ job'[j].src = job[j].src
        /\ job'[j].resp = <<>>
    <2>1. job'[j] = [job[j] EXCEPT !.pc = pc]
      BY <1>2, <1>3
    <2> QED  BY <1>1, <2>1 DEF JobRecord
  <1>5. out'[j] = <<>> /\ hand'[j].acc = <<>>
    BY <1>1 DEF SeeNoChannel, CreateChannel
  <1> QED  BY <1>1, <1>3, <1>4, <1>5, EarlyOrder DEF Crypto

\* A stream is opened, or the operation ends before it is used.
LEMMA OpenOrder ==
    ASSUME OInv, IInv', NEW j \in Jobs, OpenCompress(j) \/ OpenUncompress(j) \/ OpenCrypto(j)
    PROVE  OrderInv(j)'
  <1>1. /\ job[j] \in JobRecord /\ hand[j] \in HandRecord
        /\ job[j].resp = <<>> /\ out[j] = <<>> /\ hand[j].acc = <<>>
        /\ Crypto(j) => \A i \in 1..Len(job[j].src) : job[j].src[i] = <<i>>
    BY NotBegun DEF OpenCompress, OpenUncompress, OpenCrypto, At
  <1>2. /\ job \in [Jobs -> JobRecord] /\ hand \in [Jobs -> HandRecord] /\ LocalInv(j)'
    <2>1. LocalInv(j)'
      BY DEF IInv
    <2> QED  BY <2>1, Typed DEF OInv
  <1>3. out'[j] = <<>> /\ hand'[j].acc = <<>>
    <2>1. UNCHANGED hand \/ hand' = [hand EXCEPT ![j].st = "running"]
      BY DEF OpenCompress, OpenUncompress, OpenCrypto, Call, Abandon
    <2>2. hand'[j].acc = hand[j].acc
      BY <1>1, <1>2, <2>1 DEF HandRecord
    <2>3. out'[j] = out[j]
      BY DEF OpenCompress, OpenUncompress, OpenCrypto
    <2> QED  BY <1>1, <2>2, <2>3
  <1>4. /\ job'[j].pc \in {"send", "key", "done"} /\ (Crypto(j) => job'[j].pc # "send")
        /\ job'[j].kind = job[j].kind /\ job'[j].src = job[j].src /\ job'[j].resp = <<>>
    <2>1. ASSUME NEW opened, ~Crypto(j),
                 job' = [job EXCEPT ![j].pc = "send", ![j].opened = opened]
          PROVE  /\ job'[j].pc = "send" /\ job'[j].kind = job[j].kind
                 /\ job'[j].src = job[j].src /\ job'[j].resp = <<>>
      BY <1>1, <1>2, <2>1 DEF JobRecord
    <2>2. ASSUME NEW err, job' = [job EXCEPT ![j] = Ended(@, err)]
          PROVE  /\ job'[j].pc = "done" /\ job'[j].kind = job[j].kind
                 /\ job'[j].src = job[j].src /\ job'[j].resp = <<>>
      <3>1. job'[j] = Ended(job[j], err)
        BY <1>2, <2>2
      <3> QED  BY <1>1, <3>1 DEF JobRecord, Ended
    <2>3. ASSUME NEW opened,
                 job' = [job EXCEPT ![j] = [Ended(@, "in open") EXCEPT !.opened = opened]]
          PROVE  /\ job'[j].pc = "done" /\ job'[j].kind = job[j].kind
                 /\ job'[j].src = job[j].src /\ job'[j].resp = <<>>
      <3>1. job'[j] = [Ended(job[j], "in open") EXCEPT !.opened = opened]
        BY <1>2, <2>3
      <3> QED  BY <1>1, <3>1 DEF JobRecord, Ended
    <2>4. CASE OpenCompress(j)
      <3>1. ~Crypto(j)
        BY <2>4 DEF OpenCompress, Crypto
      <3> QED  BY <2>1, <2>3, <2>4, <3>1 DEF OpenCompress
    <2>5. CASE OpenUncompress(j)
      <3>1. ~Crypto(j)
        BY <2>5 DEF OpenUncompress, Crypto
      <3> QED  BY <2>1, <2>2, <2>5, <3>1 DEF OpenUncompress
    <2>6. CASE OpenCrypto(j)
      <3>1. CASE job' = [job EXCEPT ![j].pc = "key", ![j].opened = TRUE]
        BY <1>1, <1>2, <3>1 DEF JobRecord
      <3>2. CASE \E err : job' = [job EXCEPT ![j] = Ended(@, err)]
        BY <2>2, <3>2
      <3> QED  BY <2>6, <3>1, <3>2 DEF OpenCrypto
    <2> QED  BY <2>4, <2>5, <2>6
  <1> QED  BY <1>1, <1>2, <1>3, <1>4, EarlyOrder DEF Crypto

\* The end of the file is found, or the handler's status read.
LEMMA EndOrder ==
    ASSUME OInv, IInv', NEW j \in Jobs, WritesDone(j) \/ Finish(j)
    PROVE  OrderInv(j)'
  <1>1. /\ job \in [Jobs -> JobRecord] /\ link \in [Jobs -> LinkStates] /\ job[j] \in JobRecord
        /\ OrderInv(j) /\ LocalInv(j)'
    <2>1. LocalInv(j)'
      BY DEF IInv
    <2> QED  BY <2>1, Typed DEF OInv
  <1>2. job'[j].pc \in {"finish", "done"} /\ SameRequest(j)
    <2>1. CASE WritesDone(j)
      BY <1>1, <2>1 DEF WritesDone, JobRecord, SameRequest
    <2>2. CASE Finish(j)
      <3>1. job'[j] = Ended(job[j], job[j].err)
        BY <1>1, <2>2 DEF Finish
      <3> QED  BY <1>1, <3>1 DEF JobRecord, Ended, SameRequest
    <2> QED  BY <2>1, <2>2
  <1>3. out'[j] = out[j] /\ down'[j] = down[j] /\ (link[j] = "broken" => link'[j] = "broken")
    BY <1>1 DEF WritesDone, Finish
  <1> QED  BY <1>1, <1>2, <1>3, LateOrder

\* An operation ends in an exception, or the process does.
LEMMA ThrowsOrder ==
    ASSUME OInv, IInv', NEW j \in Jobs, Throws(j)
    PROVE  OrderInv(j)'
  <1>1. /\ job \in [Jobs -> JobRecord] /\ link \in [Jobs -> LinkStates] /\ job[j] \in JobRecord
        /\ OrderInv(j) /\ LocalInv(j)'
    <2>1. LocalInv(j)'
      BY DEF IInv
    <2> QED  BY <2>1, Typed DEF OInv
  <1>2. UNCHANGED <<out, up, down, hand>> /\ job[j].pc \in {"open", "finish"}
    BY DEF Throws, At
  <1>3. CASE UNCHANGED <<job, link>>
    BY <1>1, <1>2, <1>3, OrderSame
  <1>4. CASE /\ job' = [job EXCEPT ![j].pc = "thrown"]
             /\ link' = [link EXCEPT ![j] = IF @ = "half" THEN "closed" ELSE @]
    <2>1. /\ job'[j].pc = "thrown" /\ SameRequest(j) /\ job'[j].resp = job[j].resp
      BY <1>1, <1>4 DEF JobRecord, SameRequest
    <2>2. link[j] = "broken" => link'[j] = "broken"
      BY <1>1, <1>4
    <2>3. CASE job[j].pc = "open"
      <3>1. /\ job[j].resp = <<>> /\ out[j] = <<>> /\ hand[j].acc = <<>>
            /\ Crypto(j) => \A i \in 1..Len(job[j].src) : job[j].src[i] = <<i>>
        BY <2>3, NotBegun
      <3> QED  BY <1>1, <1>2, <2>1, <3>1, EarlyOrder DEF Crypto, SameRequest
    <2>4. CASE job[j].pc = "finish"
      BY <1>1, <1>2, <2>1, <2>2, LateOrder
    <2> QED  BY <1>2, <2>3, <2>4
  <1> QED  BY <1>3, <1>4 DEF Throws

\* The handler of a job that has sent everything returns.
LEMMA ReturnOrder ==
    ASSUME OInv, IInv', NEW j \in Jobs, HandlerReturns(j)
    PROVE  OrderInv(j)'
  <1>1. OrderInv(j) /\ LocalInv(j) /\ LocalInv(j)'
    <2>1. LocalInv(j)'
      BY DEF IInv
    <2> QED  BY <2>1, Typed DEF OInv
  <1>2. /\ job' = job /\ out' = out /\ down' = down /\ link' = link /\ job[j].pc = "finish"
    BY <1>1 DEF HandlerReturns, LocalInv, StageInv
  <1>3. SameRequest(j)
    BY <1>2 DEF SameRequest
  <1> QED  BY <1>1, <1>2, <1>3, LateOrder

\* The key is sent.
LEMMA SendKeyOrder ==
    ASSUME OInv, IInv', NEW j \in Jobs, SendKey(j)
    PROVE  OrderInv(j)'
  <1>1. /\ job \in [Jobs -> JobRecord] /\ up \in [Jobs -> Seq(Message)]
        /\ job[j] \in JobRecord /\ OrderInv(j)
    BY Typed DEF OInv
  <1>2. up[j] = <<>> /\ down[j] = <<>> /\ (Live(j) <=> link[j] = "open")
    BY NothingSent DEF OInv, SendKey, At
  <1>3. /\ job'[j].pc = "key sent" /\ SameRequest(j) /\ job[j].pc = "key"
        /\ UNCHANGED <<out, link, down, hand>>
    BY <1>1 DEF SendKey, At, JobRecord, SameRequest
  <1>4. link[j] = "open" => up'[j] = <<KeyMessage(j)>>
    <2>1. link[j] = "open" => up'[j] = Append(up[j], KeyMessage(j))
      BY <1>1, <1>2 DEF SendKey, Write
    <2>2. Append(<<>>, KeyMessage(j)) = <<KeyMessage(j)>>
      OBVIOUS
    <2> QED  BY <1>2, <2>1, <2>2
  <1>5. /\ Crypto(j)' = Crypto(j) /\ KeyMessage(j)' = KeyMessage(j)
        /\ job'[j].src = job[j].src
    BY <1>3 DEF Crypto, KeyMessage, SameRequest
  <1>6. RespInv(j)' /\ NextInv(j)'
    BY ONLY <1>3 DEF RespInv, NextInv
  <1>7. GatherInv(j)'
    <2>1. /\ Crypto(j) => \A i \in 1..Len(job[j].src) : job[j].src[i] = <<i>>
          /\ Crypto(j) /\ link[j] = "open" => hand[j].acc = <<>>
      BY ONLY <1>1, <1>3 DEF OrderInv, GatherInv
    <2>2. link[j] = "open" => up'[j] # <<>> /\ up'[j][1] = KeyMessage(j)
      BY <1>4
    <2> QED  BY ONLY <1>3, <1>5, <2>1, <2>2 DEF GatherInv
  <1>8. SplitInv(j)'
    BY <1>1, <1>3, SplitKeeps DEF OrderInv
  <1> QED  BY <1>6, <1>7, <1>8 DEF OrderInv

\* The answer to the key is read.
LEMMA ReceiveKeyOrder ==
    ASSUME OInv, IInv', NEW j \in Jobs, ReceiveKey(j)
    PROVE  OrderInv(j)'
  <1>1. /\ job \in [Jobs -> JobRecord] /\ down \in [Jobs -> Seq(Message)]
        /\ job[j] \in JobRecord /\ OrderInv(j) /\ LocalInv(j)
    BY Typed DEF OInv
  <1>2. /\ job'[j].pc = "send" /\ job'[j].resp = <<>> /\ job'[j].read = job[j].read
        /\ SameRequest(j) /\ job[j].pc = "key sent" /\ Readable(j)
        /\ UNCHANGED <<out, link, up, hand>>
    BY <1>1 DEF ReceiveKey, At, JobRecord, SameRequest
  <1>3. up[j] = <<>>
    BY <1>2, AnswerThere DEF OInv, Waiting
  <1>4. down'[j] = IF down[j] # <<>> THEN Tail(down[j]) ELSE down[j]
    BY <1>1 DEF ReceiveKey, Consume
  <1>5. out[j] = <<>> /\ job[j].read = 0
    BY <1>1, <1>2 DEF LocalInv, CountInv
  <1>6. /\ Crypto(j)' = Crypto(j) /\ SoFar(j, job[j].read)' = SoFar(j, job[j].read)
        /\ job'[j].src = job[j].src
    BY <1>2 DEF Crypto, KeyMessage, SoFar, SameRequest
  <1>7. RespInv(j)' /\ NextInv(j)'
    BY ONLY <1>2, <1>5 DEF RespInv, NextInv
  <1>8. GatherInv(j)'
    <2>1. /\ Crypto(j) => \A i \in 1..Len(job[j].src) : job[j].src[i] = <<i>>
          /\ Crypto(j) /\ link[j] = "open" => hand[j].acc = KeyMessage(j)
      BY ONLY <1>1, <1>2, <1>3 DEF OrderInv, GatherInv
    <2>2. SoFar(j, job[j].read) = KeyMessage(j)
      BY <1>5, SoFarGrows
    <2>3. SoFar(j, job[j].read)' = KeyMessage(j)
      BY <1>2, <2>2 DEF SoFar, KeyMessage, SameRequest
    <2> QED  BY ONLY <1>2, <1>6, <2>1, <2>3 DEF GatherInv
  <1>9. SplitInv(j)'
    BY <1>2, <1>5, SplitNone
  <1> QED  BY <1>7, <1>8, <1>9 DEF OrderInv

\* A block is sent.
LEMMA SendBlockOrder ==
    ASSUME OInv, IInv', NEW j \in Jobs, SendBlock(j)
    PROVE  OrderInv(j)'
  <1>1. /\ job \in [Jobs -> JobRecord] /\ up \in [Jobs -> Seq(Message)]
        /\ job[j] \in JobRecord /\ OrderInv(j) /\ job[j].read \in Nat
        /\ job[j].opened \in BOOLEAN
    BY Typed DEF OInv, JobRecord
  <1>2. up[j] = <<>> /\ down[j] = <<>> /\ (Live(j) <=> link[j] = "open")
    BY NothingSent DEF OInv, SendBlock, At
  <1>3. /\ job'[j].pc = "sent" /\ job'[j].read = job[j].read + 1 /\ job'[j].opened = job[j].opened
        /\ job'[j].resp = IF job[j].kind = "compress" THEN <<>> ELSE job[j].resp
        /\ SameRequest(j) /\ job[j].pc = "send"
        /\ UNCHANGED <<out, link, down, hand>>
    BY <1>1 DEF SendBlock, At, JobRecord, SameRequest
  <1>4. link[j] = "open" => up'[j] = <<job[j].src[job[j].read + 1]>>
    BY <1>1, <1>2 DEF SendBlock, Write
  <1>5. /\ Crypto(j)' = Crypto(j) /\ KeyMessage(j)' = KeyMessage(j)
        /\ job'[j].src = job[j].src /\ job'[j].kind = job[j].kind
    BY <1>3 DEF Crypto, KeyMessage, SameRequest
  <1>6. RespInv(j)'
    <2>1. job[j].opened => job[j].resp = IF out[j] = <<>> THEN <<>> ELSE out[j][Len(out[j])]
      BY ONLY <1>1, <1>3 DEF OrderInv, RespInv
    <2>2. job'[j].opened => job[j].opened
      BY <1>3
    <2> QED  BY ONLY <1>3, <1>5, <2>1, <2>2 DEF RespInv
  <1>7. NextInv(j)'
    BY ONLY <1>2, <1>3 DEF NextInv
  <1>8. GatherInv(j)'
    <2>1. /\ Crypto(j) => \A i \in 1..Len(job[j].src) : job[j].src[i] = <<i>>
          /\ Crypto(j) /\ link[j] = "open" => hand[j].acc = SoFar(j, job[j].read)
      BY ONLY <1>1, <1>3 DEF OrderInv, GatherInv
    <2>2. link[j] = "open" => up'[j] # <<>> /\ up'[j][1] = job[j].src[job[j].read + 1]
      BY <1>4
    <2>3. SoFar(j, job[j].read - 1)' = SoFar(j, job[j].read)
      <3>1. job'[j].read - 1 = job[j].read
        BY ONLY <1>1, <1>3
      <3> QED  BY ONLY <1>5, <3>1 DEF SoFar
    <2> QED  BY ONLY <1>3, <1>5, <2>1, <2>2, <2>3 DEF GatherInv
  <1>9. SplitInv(j)'
    BY <1>1, <1>3, SplitKeeps DEF OrderInv
  <1> QED  BY <1>6, <1>7, <1>8, <1>9 DEF OrderInv

\* What Read has left in the response is written: the answer, which is the next
\* right one, or what the response held before.
LEMMA SplitGrows ==
    ASSUME OInv, NEW j \in Jobs, ReceiveAnswer(j), job[j].opened, SameRequest(j),
           out'[j] = Append(out[j], ReadInto(j)), link'[j] = link[j], down'[j] = <<>>
    PROVE  SplitInv(j)'
  <1>1. /\ OrderInv(j) /\ LocalInv(j) /\ out[j] \in Seq(Message) /\ down[j] \in Seq(Message)
        /\ job[j].resp \in Message /\ job[j].read \in Nat
    BY Typed DEF OInv, JobRecord
  <1>2. job[j].pc = "sent" /\ (link[j] = "open" => down[j] # <<>>) /\ link[j] \in {"open", "broken"}
    BY AnswerThere DEF OInv, ReceiveAnswer, At, Waiting
  <1>3. PICK k \in 0..Len(out[j]) : RightThenFilled(j, k)
    BY <1>1 DEF OrderInv, SplitInv
  <1>4. /\ \A i \in 1..k : out[j][i] \in RightAnswers(j, i)
        /\ \A i \in (k + 1)..Len(out[j]) : out[j][i] = Filler(j, k)
        /\ k < Len(out[j]) => link[j] = "broken" /\ down[j] = <<>>
    BY <1>3 DEF RightThenFilled, RightUpTo
  <1> DEFINE L == Len(out[j])
             a == ReadInto(j)
  <1>5. a \in Message
    BY <1>1 DEF ReadInto
  <1>6. /\ L \in Nat /\ Len(out'[j]) = L + 1 /\ (\A i \in 1..L : out'[j][i] = out[j][i])
        /\ out'[j][L + 1] = a
    BY <1>1, <1>5, Appended
  <1>7. \A i : RightAnswers(j, i)' = RightAnswers(j, i)
    BY DEF RightAnswers, KeyMessage, SameRequest
  <1> HIDE DEF L, a
  <1>8. CASE down[j] # <<>>
    <2>1. k = L
      BY <1>4, <1>6, <1>8 DEF L
    <2>2. a = down[j][1]
      BY <1>1, <1>8 DEF a, ReadInto
    <2>3. L + 1 = job[j].read
      <3>1. L = job[j].read - 1
        BY <1>1, <1>2 DEF LocalInv, CountInv, L
      <3> QED  BY ONLY <1>1, <3>1
    <2>4. a \in RightAnswers(j, L + 1)
      BY <1>1, <1>2, <1>8, <2>2, <2>3 DEF OrderInv, NextInv
    <2>5. \A i \in 1..(L + 1) : out'[j][i] \in RightAnswers(j, i)'
      BY ONLY <1>4, <1>6, <1>7, <2>1, <2>4
    <2>6. /\ L + 1 \in 0..Len(out'[j])
          /\ (L + 1 + 1)..Len(out'[j]) = {} /\ ~(L + 1 < Len(out'[j]))
      BY ONLY <1>6
    <2> QED  BY <2>5, <2>6 DEF SplitInv, RightThenFilled, RightUpTo
  <1>9. CASE down[j] = <<>>
    <2>1. link'[j] = "broken" /\ down'[j] = <<>>
      BY <1>2, <1>9
    <2>2. a = job[j].resp
      BY <1>9 DEF a, ReadInto
    <2>3. a = IF out[j] = <<>> \/ job[j].kind = "compress" THEN <<>> ELSE out[j][L]
      BY <1>1, <1>2, <2>2 DEF OrderInv, RespInv, L
    <2>4. out[j] = <<>> <=> L = 0
      BY <1>1 DEF L
    <2>5. a = Filler(j, k)
      <3>1. CASE job[j].kind = "compress" \/ L = 0
        <4>1. a = <<>> /\ (job[j].kind = "compress" \/ k = 0)
          BY <1>6, <2>3, <2>4, <3>1 DEF L
        <4> QED  BY <4>1 DEF Filler
      <3>2. CASE job[j].kind # "compress" /\ L # 0 /\ k = L
        BY <2>3, <2>4, <3>2 DEF Filler
      <3>3. CASE job[j].kind # "compress" /\ L # 0 /\ k # L
        <4>1. L \in (k + 1)..Len(out[j])
          BY <1>6, <3>3 DEF L
        <4> QED  BY <1>4, <2>3, <2>4, <3>3, <4>1
      <3> QED  BY <3>1, <3>2, <3>3
    <2>6. Filler(j, k)' = Filler(j, k)
      <3>1. k # 0 => out'[j][k] = out[j][k]
        BY <1>6 DEF L
      <3> QED  BY <3>1 DEF Filler, SameRequest
    <2>7. \A i \in 1..k : out'[j][i] \in RightAnswers(j, i)'
      BY <1>4, <1>6, <1>7 DEF L
    <2>8. \A i \in (k + 1)..Len(out'[j]) : out'[j][i] = Filler(j, k)'
      BY <1>4, <1>6, <2>5, <2>6 DEF L
    <2>9. k \in 0..Len(out'[j])
      BY <1>6 DEF L
    <2> QED  BY <2>1, <2>7, <2>8, <2>9 DEF SplitInv, RightThenFilled, RightUpTo
  <1> QED  BY <1>8, <1>9

\* An answer is read.
LEMMA ReceiveAnswerOrder ==
    ASSUME OInv, IInv', NEW j \in Jobs, ReceiveAnswer(j)
    PROVE  OrderInv(j)'
  <1>1. /\ job \in [Jobs -> JobRecord] /\ down \in [Jobs -> Seq(Message)]
        /\ out \in [Jobs -> Seq(Message)]
        /\ job[j] \in JobRecord /\ OrderInv(j) /\ LocalInv(j)
        /\ job[j].opened \in BOOLEAN /\ out[j] \in Seq(Message) /\ job[j].resp \in Message
        /\ down[j] \in Seq(Message)
    BY Typed DEF OInv, JobRecord
  <1>2. /\ job'[j].pc = "send" /\ job'[j].resp = ReadInto(j) /\ job'[j].read = job[j].read
        /\ job'[j].opened = job[j].opened
        /\ SameRequest(j) /\ job[j].pc = "sent" /\ Readable(j)
        /\ UNCHANGED <<link, up, hand>>
    BY <1>1 DEF ReceiveAnswer, At, JobRecord, SameRequest
  <1>3. /\ up[j] = <<>> /\ (IF down[j] # <<>> THEN Tail(down[j]) ELSE down[j]) = <<>>
    BY <1>2, AnswerThere DEF OInv, Waiting
  <1>4. down'[j] = <<>>
    BY <1>1, <1>3 DEF ReceiveAnswer, Consume
  <1>5. out'[j] = IF job[j].opened THEN Append(out[j], ReadInto(j)) ELSE out[j]
    BY <1>1 DEF ReceiveAnswer
  <1>6. ReadInto(j) \in Message
    BY <1>1 DEF ReadInto
  <1>7. RespInv(j)'
    <2>1. CASE job[j].opened
      <3>1. out'[j] # <<>> /\ out'[j][Len(out'[j])] = ReadInto(j)
        <4>1. out'[j] = Append(out[j], ReadInto(j)) /\ Len(out[j]) \in Nat
          BY <1>1, <1>5, <2>1
        <4>2. Len(out'[j]) = Len(out[j]) + 1 /\ out'[j][Len(out[j]) + 1] = ReadInto(j)
          BY <1>1, <1>6, <4>1, Appended
        <4>3. Len(<<>>) = 0
          OBVIOUS
        <4> QED  BY ONLY <4>1, <4>2, <4>3
      <3> QED  BY <1>2, <3>1 DEF RespInv
    <2>2. CASE ~job[j].opened
      BY <1>2, <2>2 DEF RespInv
    <2> QED  BY <2>1, <2>2
  <1>8. GatherInv(j)'
    <2>1. /\ Crypto(j) => \A i \in 1..Len(job[j].src) : job[j].src[i] = <<i>>
          /\ Crypto(j) /\ link[j] = "open" => hand[j].acc = SoFar(j, job[j].read)
      BY ONLY <1>1, <1>2, <1>3 DEF OrderInv, GatherInv
    <2>2. /\ Crypto(j)' = Crypto(j) /\ SoFar(j, job[j].read)' = SoFar(j, job[j].read)
          /\ job'[j].src = job[j].src
      BY <1>2 DEF Crypto, KeyMessage, SoFar, SameRequest
    <2> QED  BY ONLY <1>2, <2>1, <2>2 DEF GatherInv
  <1>9. NextInv(j)'
    BY ONLY <1>2 DEF NextInv
  <1>10. SplitInv(j)'
    <2>1. CASE job[j].opened
      BY <1>2, <1>4, <1>5, <2>1, SplitGrows
    <2>2. CASE ~job[j].opened
      BY <1>1, <1>2, <1>4, <1>5, <2>2, SplitKeeps DEF OrderInv
    <2> QED  BY <2>1, <2>2
  <1> QED  BY <1>7, <1>8, <1>9, <1>10 DEF OrderInv

\* The handler answers.
LEMMA ServeOrder ==
    ASSUME OInv, IInv', NEW j \in Jobs, Serve(j)
    PROVE  OrderInv(j)'
  <1>1. /\ OrderInv(j) /\ LocalInv(j) /\ LocalInv(j)'
        /\ link[j] \in LinkStates /\ up[j] \in Seq(Message) /\ down[j] \in Seq(Message)
        /\ job[j] \in JobRecord /\ hand[j] \in HandRecord
        /\ up \in [Jobs -> Seq(Message)] /\ down \in [Jobs -> Seq(Message)]
        /\ hand \in [Jobs -> HandRecord] /\ job[j].read \in Nat
    <2>1. LocalInv(j)'
      BY DEF IInv
    <2> QED  BY <2>1, Typed DEF OInv, JobRecord
  <1>2. Live(j) /\ hand[j].st = "running" /\ up[j] # <<>> /\ UNCHANGED <<job, out, link>>
    BY DEF Serve
  <1>3. job[j].pc \in Waiting /\ link[j] = "open" /\ Len(up[j]) = 1 /\ down[j] = <<>>
    <2>1. job[j].pc \in Waiting
      BY <1>1, <1>2 DEF LocalInv, TurnInv
    <2>2. link[j] = "open"
      BY <1>1, <1>2, <2>1 DEF LocalInv, StageInv, Live, Waiting
    <2> QED  BY <1>1, <1>2, <2>1, <2>2 DEF LocalInv, TurnInv
  <1>4. Head(up[j]) = up[j][1] /\ Tail(up[j]) = <<>> /\ up[j][1] \in Seq(Int)
    <2>1. up[j][1] \in Message
      <3>1. up[j] \in Seq(Message) /\ Len(up[j]) = 1
        BY <1>1, <1>3
      <3> QED  BY ONLY <3>1
    <2>2. Head(up[j]) = up[j][1]
      <3>1. up[j] \in Seq(Message) /\ up[j] # <<>>
        BY <1>1, <1>2
      <3> QED  BY ONLY <3>1
    <2>3. Tail(up[j]) = <<>>
      BY <1>1, <1>3, Single
    <2> QED  BY <2>1, <2>2, <2>3 DEF Message
  <1>5. ~Refuses(j)
    BY RemoteAssumption DEF RemoteAssumption, Refuses
  <1>6. up'[j] = <<>>
    BY <1>1, <1>4 DEF Serve
  <1>7. /\ Crypto(j)' = Crypto(j) /\ KeyMessage(j)' = KeyMessage(j)
        /\ \A i : SoFar(j, i)' = SoFar(j, i) /\ RightAnswers(j, i)' = RightAnswers(j, i)
    BY <1>2 DEF Crypto, KeyMessage, SoFar, RightAnswers
  <1>8. ASSUME Crypto(j)
        PROVE  /\ hand'[j].acc = hand[j].acc \o up[j][1]
               /\ down'[j] = <<hand[j].acc \o up[j][1]>>
    <2>1. /\ hand' = [hand EXCEPT ![j].key = KeyAfter(j, up[j][1]), ![j].acc = @ \o up[j][1]]
          /\ down' = [down EXCEPT ![j] = Append(@, hand[j].acc \o up[j][1])]
      BY <1>4, <1>5, <1>8 DEF Serve
    <2>2. hand'[j].acc = hand[j].acc \o up[j][1]
      BY <1>1, <2>1 DEF HandRecord
    <2>3. down'[j] = Append(<<>>, hand[j].acc \o up[j][1])
      BY <1>1, <1>3, <2>1
    <2>4. \A e : Append(<<>>, e) = <<e>>
      OBVIOUS
    <2> QED  BY <2>2, <2>3, <2>4
  <1>9. ASSUME Crypto(j), job[j].pc = "sent"
        PROVE  hand[j].acc \o up[j][1] = SoFar(j, job[j].read)
    <2>1. hand[j].acc = SoFar(j, job[j].read - 1) /\ up[j][1] = job[j].src[job[j].read]
      BY <1>1, <1>2, <1>3, <1>9 DEF OrderInv, GatherInv
    <2>2. job[j].read \in 1..Len(job[j].src)
      <3>1. job[j].read > 0 /\ job[j].read <= Len(job[j].src)
        BY <1>1, <1>9 DEF LocalInv, CountInv
      <3>2. Len(job[j].src) \in Nat /\ job[j].read \in Nat
        <4>1. job[j].src \in Seq(Message)
          BY <1>1 DEF JobRecord
        <4> QED  BY ONLY <4>1, <1>1
      <3> QED  BY ONLY <3>1, <3>2
    <2>3. up[j][1] = <<job[j].read>>
      BY <1>1, <1>9, <2>1, <2>2 DEF OrderInv, GatherInv
    <2>4. job[j].read - 1 \in Nat /\ (job[j].read - 1) + 1 = job[j].read
      BY <1>1, <2>2
    <2>5. SoFar(j, job[j].read - 1) \o <<(job[j].read - 1) + 1>> = SoFar(j, (job[j].read - 1) + 1)
      BY <2>4, SoFarGrows
    <2> QED  BY <2>1, <2>3, <2>4, <2>5
  <1>10. ASSUME Crypto(j), job[j].pc = "key sent"
         PROVE  hand[j].acc \o up[j][1] = KeyMessage(j)
    <2>1. hand[j].acc = <<>> /\ up[j][1] = KeyMessage(j)
      BY <1>1, <1>2, <1>3, <1>10 DEF OrderInv, GatherInv
    <2>2. <<>> \o KeyMessage(j) = KeyMessage(j)
      BY SoFarGrows
    <2> QED  BY <2>1, <2>2
  <1>11. RespInv(j)'
    BY <1>1, <1>2 DEF OrderInv, RespInv
  <1>12. GatherInv(j)'
    <2>1. Crypto(j) => \A i \in 1..Len(job[j].src) : job[j].src[i] = <<i>>
      BY <1>1 DEF OrderInv, GatherInv
    <2> QED
      BY ONLY <1>2, <1>3, <1>6, <1>7, <1>8, <1>9, <1>10, <2>1 DEF GatherInv, Waiting
  <1>13. NextInv(j)'
    <2>1. CASE Crypto(j)
      <3>1. ASSUME job[j].pc = "sent"
            PROVE  down'[j][1] \in RightAnswers(j, job[j].read)
        <4>1. down'[j][1] = SoFar(j, job[j].read)
          <5>1. down'[j] = <<SoFar(j, job[j].read)>>
            BY <1>8, <1>9, <2>1, <3>1
          <5> QED  BY <5>1
        <4>2. RightAnswers(j, job[j].read) = {SoFar(j, job[j].read)}
          BY <2>1 DEF RightAnswers, Crypto, SoFar
        <4> QED  BY <4>1, <4>2
      <3> QED  BY <1>2, <1>7, <3>1 DEF NextInv
    <2>2. CASE ~Crypto(j)
      <3>1. AnswerInv(j)'
        BY <1>1 DEF LocalInv
      <3>2. link'[j] # "broken" /\ ~Crypto(j)'
        BY <1>2, <1>3, <1>7, <2>2
      <3> QED  BY ONLY <3>1, <3>2 DEF AnswerInv, NextInv, Crypto
    <2> QED  BY <2>1, <2>2
  <1>14. SplitInv(j)'
    BY <1>1, <1>2, <1>3, SplitKeeps DEF OrderInv, SameRequest
  <1> QED  BY <1>11, <1>12, <1>13, <1>14 DEF OrderInv

\* A step of one job is none of another.
LEMMA OthersSame ==
    ASSUME IInv, NEW j \in Jobs, NEW k \in Jobs \ {j},
           \/ ClientStep(j) \/ HandlerStep(j) \/ BreakStream(j) \/ FallSilent(j) \/ Throws(j)
           \/ \E kind \in Kinds, f \in Files, n \in Lengths :
                 \E key \in KeysFor(kind) : Begin(j, kind, f, n, key)
    PROVE  /\ job'[k] = job[k] /\ out'[k] = out[k] /\ link'[k] = link[k]
           /\ up'[k] = up[k] /\ down'[k] = down[k] /\ hand'[k] = hand[k]
  <1>1. /\ k \in DOMAIN job /\ k \in DOMAIN out /\ k \in DOMAIN link
        /\ k \in DOMAIN up /\ k \in DOMAIN down /\ k \in DOMAIN hand /\ k # j
    BY Typed
  <1>2. CASE \E kind \in Kinds, f \in Files, n \in Lengths :
                \E key \in KeysFor(kind) : Begin(j, kind, f, n, key)
    <2>0. PICK kind \in Kinds, f \in Files, n \in Lengths :
              \E key \in KeysFor(kind) : Begin(j, kind, f, n, key)
      BY <1>2
    <2>1. PICK key \in KeysFor(kind) : Begin(j, kind, f, n, key)
      BY <2>0
    <2>2. PICK err \in {"none"} \cup (IF kind = "compress" THEN Faults \cap {"archive"} ELSE {}) :
             LET refused == \/ kind = "compress" /\ f.ext = ".zb"
                            \/ kind = "uncompress" /\ f = Directory
             IN  job' = [job EXCEPT ![j] =
                [@ EXCEPT !.pc = IF refused THEN "done" ELSE "open",
                          !.kind = kind, !.file = f, !.key = key,
                          !.src = IF kind = "uncompress" THEN f.body ELSE Blocks(n),
                          !.err = IF refused THEN "refused" ELSE err]]
      BY <2>1 DEF Begin
    <2>3. job'[k] = job[k]
      BY <1>1, <2>2
    <2>4. UNCHANGED <<out, link, up, down, hand>>
      BY <2>1 DEF Begin
    <2> QED  BY <1>1, <2>3, <2>4
  <1>3. CASE SeeNoChannel(j) \/ CreateChannel(j)
    BY <1>1, <1>3 DEF SeeNoChannel, CreateChannel
  <1>4. CASE OpenCompress(j) \/ OpenUncompress(j) \/ OpenCrypto(j)
    <2>1. UNCHANGED <<out, up, down>> /\ \E r : job' = [job EXCEPT ![j] = r]
      BY <1>4 DEF OpenCompress, OpenUncompress, OpenCrypto
    <2>2. /\ UNCHANGED link \/ \E l : link' = [link EXCEPT ![j] = l]
          /\ UNCHANGED hand \/ \E h : hand' = [hand EXCEPT ![j] = h]
      BY <1>4 DEF OpenCompress, OpenUncompress, OpenCrypto, Call, Abandon
    <2> QED  BY <1>1, <2>1, <2>2
  <1>5. CASE SendKey(j) \/ SendBlock(j)
    BY <1>1, <1>5 DEF SendKey, SendBlock, Write
  <1>6. CASE ReceiveKey(j) \/ ReceiveAnswer(j)
    BY <1>1, <1>6 DEF ReceiveKey, ReceiveAnswer, Consume
  <1>7. CASE WritesDone(j) \/ Finish(j)
    BY <1>1, <1>7 DEF WritesDone, Finish
  <1>8. CASE Serve(j)
    <2>1. UNCHANGED <<job, out, link>> /\ up' = [up EXCEPT ![j] = Tail(@)]
      BY <1>8 DEF Serve
    <2>2. /\ UNCHANGED hand \/ \E h : hand' = [hand EXCEPT ![j] = h]
          /\ UNCHANGED down \/ \E d : down' = [down EXCEPT ![j] = d]
      BY <1>8 DEF Serve
    <2> QED  BY <1>1, <2>1, <2>2
  <1>9. CASE HandlerReturns(j) \/ BreakStream(j) \/ FallSilent(j)
    BY <1>1, <1>9 DEF HandlerReturns, BreakStream, FallSilent
  <1>10. CASE Throws(j)
    BY <1>1, <1>10 DEF Throws
  <1> QED
    BY <1>2, <1>3, <1>4, <1>5, <1>6, <1>7, <1>8, <1>9, <1>10 DEF ClientStep, HandlerStep

\* Nothing is written at first.
LEMMA InitOrder == RemoteInit => OInv
  <1> SUFFICES ASSUME RemoteInit PROVE OInv
    OBVIOUS
  <1>1. ASSUME NEW j \in Jobs
        PROVE  OrderInv(j)
    <2>1. /\ job[j].pc = "idle" /\ job[j].kind = "none" /\ job[j].resp = <<>>
          /\ ~job[j].opened /\ out[j] = <<>> /\ Len(out[j]) = 0
      BY <1>1 DEF RemoteInit
    <2>2. RespInv(j) /\ GatherInv(j) /\ NextInv(j)
      BY <2>1 DEF RespInv, GatherInv, NextInv, Crypto
    <2>3. SplitInv(j)
      <3>1. /\ 0 \in 0..Len(out[j]) /\ ~(0 < Len(out[j]))
            /\ \A i \in 1..0 : out[j][i] \in RightAnswers(j, i)
            /\ \A i \in (0 + 1)..Len(out[j]) : out[j][i] = Filler(j, 0)
        BY <2>1
      <3> QED  BY <3>1 DEF SplitInv, RightThenFilled, RightUpTo
    <2> QED  BY <2>2, <2>3 DEF OrderInv
  <1> QED  BY <1>1, InitInv DEF OInv

\* Every action keeps the second invariant.
LEMMA StepOrder == OInv /\ [Next]_vars => OInv'
  <1> SUFFICES ASSUME OInv, [Next]_vars PROVE OInv'
    OBVIOUS
  <1>1. IInv'
    BY StepInv DEF OInv
  <1>2. ASSUME NEW j \in Jobs,
               \/ ClientStep(j) \/ HandlerStep(j) \/ BreakStream(j)
               \/ FallSilent(j) \/ Throws(j)
               \/ \E kind \in Kinds, f \in Files, n \in Lengths :
                     \E key \in KeysFor(kind) : Begin(j, kind, f, n, key),
               OrderInv(j)'
        PROVE  OInv'
    <2>1. ASSUME NEW k \in Jobs \ {j} PROVE OrderInv(k)'
      <3>1. OrderInv(k)
        BY DEF OInv
      <3>2. /\ job'[k] = job[k] /\ out'[k] = out[k] /\ link'[k] = link[k]
            /\ up'[k] = up[k] /\ down'[k] = down[k] /\ hand'[k] = hand[k]
        BY <1>2, OthersSame DEF OInv
      <3> QED  BY <3>1, <3>2, OrderSame
    <2> QED  BY <1>1, <1>2, <2>1 DEF OInv
  <1>3. CASE UNCHANGED remoteVars
    <2>1. UNCHANGED <<job, out, link, up, down, hand>>
      BY <1>3 DEF remoteVars
    <2>2. ASSUME NEW j \in Jobs PROVE OrderInv(j)'
      <3>1. OrderInv(j)
        BY DEF OInv
      <3> QED  BY <2>1, <3>1, OrderSame
    <2> QED  BY <1>1, <2>2 DEF OInv
  <1>4. CASE StopServer
    <2>1. ASSUME NEW j \in Jobs PROVE OrderInv(j)'
      <3>1. OrderInv(j) /\ job'[j] = job[j] /\ out'[j] = out[j]
        BY <1>4 DEF OInv, StopServer
      <3>2. CASE Live(j)
        <4>1. link'[j] = "broken" /\ down'[j] = <<>>
          BY <1>4, <3>2 DEF StopServer
        <4> QED  BY <3>1, <3>2, <4>1, BrokenOrder
      <3>3. CASE ~Live(j)
        <4>1. up[j] = <<>>
          BY <3>3, Typed
          DEF OInv, LocalInv, StageInv, TurnInv, Live, LinkStates, Talking, Waiting
        <4>2. /\ link'[j] = link[j] /\ up'[j] = up[j] /\ down'[j] = down[j]
              /\ hand'[j] = hand[j]
          BY <1>4, <3>3, <4>1 DEF StopServer
        <4> QED  BY <3>1, <4>2, OrderSame
      <3> QED  BY <3>2, <3>3
    <2> QED  BY <1>1, <2>1 DEF OInv
  <1>5. ASSUME NEW j \in Jobs, ClientStep(j) PROVE OInv'
    <2>1. OrderInv(j)'
      BY <1>1, <1>5, ChannelOrder, OpenOrder, SendKeyOrder, ReceiveKeyOrder, SendBlockOrder,
         ReceiveAnswerOrder, EndOrder DEF ClientStep
    <2> QED  BY <1>2, <1>5, <2>1
  <1>6. ASSUME NEW j \in Jobs, HandlerStep(j) PROVE OInv'
    <2>1. OrderInv(j)'
      BY <1>1, <1>6, ServeOrder, ReturnOrder DEF HandlerStep
    <2> QED  BY <1>2, <1>6, <2>1
  <1>7. ASSUME NEW j \in Jobs, BreakStream(j) \/ FallSilent(j) PROVE OInv'
    <2>1. /\ OrderInv(j)
          /\ Live(j) \/ link[j] = "silent"
          /\ job'[j] = job[j] /\ out'[j] = out[j]
          /\ link'[j] \in {"broken", "silent"} /\ down'[j] \in {down[j], <<>>}
      <3>1. OrderInv(j)
        BY DEF OInv
      <3>2. CASE BreakStream(j)
        BY <3>1, <3>2, Typed DEF OInv, BreakStream
      <3>3. CASE FallSilent(j)
        BY <3>1, <3>3, Typed DEF OInv, FallSilent
      <3> QED  BY <1>7, <3>2, <3>3
    <2>2. OrderInv(j)'
      BY <2>1, BrokenOrder
    <2> QED  BY <1>2, <1>7, <2>2
  <1>8. ASSUME NEW j \in Jobs, NEW kind \in Kinds, NEW f \in Files, NEW n \in Lengths,
               NEW key \in KeysFor(kind), Begin(j, kind, f, n, key)
        PROVE  OInv'
    <2>1. OrderInv(j)'
      BY <1>1, <1>8, BeginOrder
    <2> QED  BY <1>2, <1>8, <2>1
  <1>9. ASSUME NEW j \in Jobs, Throws(j) PROVE OInv'
    <2>1. OrderInv(j)'
      BY <1>1, <1>9, ThrowsOrder
    <2> QED  BY <1>2, <1>9, <2>1
  <1>10. [Next]_vars => UNCHANGED remoteVars \/ Next
    BY DEF vars
  <1> QED  BY <1>3, <1>4, <1>5, <1>6, <1>7, <1>8, <1>9, <1>10 DEF Next

\* The second invariant holds throughout.
LEMMA OrderHolds == Spec => []OInv
  BY InitOrder, StepOrder, PTL DEF Spec

\* A set of numbers up to some bound that has 0 has a greatest number.
LEMMA GreatestThere ==
    ASSUME NEW n \in Nat, NEW S, 0 \in S
    PROVE  \E k \in 0..n : k \in S /\ \A i \in 0..n : i \in S => i <= k
  <1> DEFINE T == {b \in Nat : \A i \in 0..n : i \in S => i <= b}
             R == OpToRel(<, Nat)
  <1>1. n \in T /\ T \subseteq Nat /\ T # {}
    OBVIOUS
  <1>2. IsWellFoundedOn(R, Nat)
    BY NatLessThanWellFounded
  <1>3. \A x, y \in Nat : x < y => <<x, y>> \in R
    BY DEF OpToRel
  <1> HIDE DEF R
  <1>4. PICK k \in T : \A y \in T : <<y, k>> \notin R
    <2> HIDE DEF T
    <2> QED  BY ONLY <1>1, <1>2, WFMin
  <1>5. k \in Nat /\ k <= n /\ \A i \in 0..n : i \in S => i <= k
    <2>1. ~(n < k)
      BY <1>1, <1>3, <1>4
    <2> QED  BY <1>4, <2>1
  <1>6. k \in S
    <2>1. CASE k = 0
      BY <2>1
    <2>2. CASE k # 0
      <3>1. k - 1 \in Nat /\ k - 1 < k
        BY <1>5, <2>2
      <3>2. k - 1 \notin T
        BY <1>3, <1>4, <1>5, <3>1
      <3>3. PICK i \in 0..n : i \in S /\ ~(i <= k - 1)
        BY <3>1, <3>2
      <3>4. i = k
        BY <1>5, <3>3
      <3> QED  BY <3>3, <3>4
    <2> QED  BY <2>1, <2>2
  <1> QED  BY <1>5, <1>6

\* Right is the length of the longest beginning of the output that is right.
RightIs(j, k) ==
    /\ k \in 0..Len(out[j]) /\ RightUpTo(j, k)
    /\ \A i \in 0..Len(out[j]) : RightUpTo(j, i) => i <= k

\* There is such a length, so that Right is it, and it is the only one.
LEMMA RightThere ==
    ASSUME TypeOK, NEW j \in Jobs
    PROVE  RightIs(j, Right(j)) /\ \A k : RightIs(j, k) => k = Right(j)
  <1>1. Len(out[j]) \in Nat
    <2>1. out[j] \in Seq(Message)
      BY DEF TypeOK
    <2> QED  BY ONLY <2>1
  <1>2. RightUpTo(j, 0)
    BY DEF RightUpTo
  <1>3. \E k \in 0..Len(out[j]) : RightIs(j, k)
    <2> DEFINE S == {k \in 0..Len(out[j]) : RightUpTo(j, k)}
    <2>1. 0 \in S
      BY <1>1, <1>2
    <2>2. \A i \in 0..Len(out[j]) : i \in S <=> RightUpTo(j, i)
      OBVIOUS
    <2> HIDE DEF S
    <2>3. PICK k \in 0..Len(out[j]) : k \in S /\ \A i \in 0..Len(out[j]) : i \in S => i <= k
      BY <1>1, <2>1, GreatestThere
    <2> QED  BY <2>2, <2>3 DEF RightIs
  <1>4. RightIs(j, Right(j))
    BY <1>3 DEF Right, RightIs
  <1>5. ASSUME NEW k, RightIs(j, k)
        PROVE  k = Right(j)
    <2>1. k <= Right(j) /\ Right(j) <= k /\ k \in Int /\ Right(j) \in Int
      BY <1>1, <1>4, <1>5 DEF RightIs
    <2> QED  BY ONLY <2>1
  <1> QED  BY <1>4, <1>5

\* The second invariant speaks of some number of right answers; what follows
\* them may happen to be right as well.
LEMMA OrderIsKept ==
    ASSUME OInv, NEW j \in Jobs
    PROVE  /\ Right(j) < Len(out[j]) => link[j] = "broken"
           /\ \A i \in (Right(j) + 1)..Len(out[j]) : out[j][i] = Filler(j, Right(j))
  <1>1. PICK k \in 0..Len(out[j]) : RightThenFilled(j, k)
    BY DEF OInv, OrderInv, SplitInv
  <1>2. RightIs(j, Right(j)) /\ Len(out[j]) \in Nat
    <2>1. TypeOK /\ out[j] \in Seq(Message)
      BY Typed DEF OInv, IInv
    <2>2. Len(out[j]) \in Nat
      BY ONLY <2>1
    <2> QED  BY <2>1, <2>2, RightThere
  <1> DEFINE r == Right(j)
             L == Len(out[j])
  <1>3. r \in 0..L /\ k <= r /\ k \in Nat /\ r \in Nat /\ L \in Nat
    BY <1>1, <1>2 DEF RightIs, RightThenFilled
  <1>4. /\ \A i \in (k + 1)..L : out[j][i] = Filler(j, k)
        /\ k < L => link[j] = "broken"
    BY <1>1 DEF RightThenFilled
  <1> HIDE DEF r, L
  <1>5. r < L => link[j] = "broken"
    BY ONLY <1>3, <1>4
  <1>6. \A i \in (r + 1)..L : out[j][i] = Filler(j, k)
    BY ONLY <1>3, <1>4
  <1>7. Filler(j, r) = Filler(j, k)
    <2>1. CASE r = k
      BY <2>1
    <2>2. CASE r # k
      <3>1. r \in (k + 1)..L /\ r # 0
        BY ONLY <1>3, <2>2
      <3>2. out[j][r] = Filler(j, k)
        BY ONLY <1>4, <3>1
      <3> QED  BY <3>1, <3>2 DEF Filler
    <2> QED  BY <2>1, <2>2
  <1> QED  BY <1>5, <1>6, <1>7 DEF r, L

\* CompressWithGrpc, UncompressWithGrpc and SymEncodeWithGrpc write the answers
\* of the handlers in order, none lost, doubled or mixed up; once a stream has
\* broken they write what Read has left in the response, which is nothing or the
\* last answer again.
THEOREM Answers == Spec => []AnswersInOrder
  <1>1. OInv => AnswersInOrder
    BY OrderIsKept DEF AnswersInOrder
  <1> QED  BY <1>1, OrderHolds, PTL

-------------------------------------------------------------------------------
(* The promise *)

\* What a step may do to a request and to a stream that has broken.
LEMMA RequestKept ==
    ASSUME IInv, [Next]_vars, NEW j \in Jobs
    PROVE  /\ SameRequest(j) \/ (out[j] = <<>> /\ out'[j] = <<>>)
           /\ link[j] = "broken" => link'[j] = "broken"
  <1>1. /\ job \in [Jobs -> JobRecord] /\ link \in [Jobs -> LinkStates]
        /\ job[j] \in JobRecord /\ LocalInv(j)
    BY Typed
  <1>2. CASE job'[j] = job[j] /\ link'[j] = link[j]
    BY <1>2 DEF SameRequest
  <1>3. CASE StopServer
    BY <1>3 DEF StopServer, SameRequest
  <1>4. CASE BreakStream(j) \/ FallSilent(j) \/ HandlerStep(j) \/ Throws(j)
    <2>1. CASE BreakStream(j) \/ FallSilent(j)
      BY <1>1, <2>1 DEF BreakStream, FallSilent, Live, SameRequest
    <2>2. CASE HandlerStep(j)
      BY <1>1, <2>2 DEF HandlerStep, Serve, HandlerReturns, SameRequest
    <2>3. CASE Throws(j)
      <3>1. CASE ended' = TRUE /\ UNCHANGED <<job, link>>
        BY <3>1 DEF SameRequest
      <3>2. CASE /\ job' = [job EXCEPT ![j].pc = "thrown"]
                 /\ link' = [link EXCEPT ![j] = IF link[j] = "half" THEN "closed" ELSE link[j]]
        <4>1. job'[j] = [job[j] EXCEPT !.pc = "thrown"]
          BY <1>1, <3>2
        <4>2. SameRequest(j)
          BY <1>1, <4>1 DEF JobRecord, SameRequest
        <4>3. link[j] = "broken" => link'[j] = "broken"
          BY <1>1, <3>2
        <4> QED  BY <4>2, <4>3
      <3> QED  BY <2>3, <3>1, <3>2 DEF Throws
    <2> QED  BY <1>4, <2>1, <2>2, <2>3
  <1>5. ASSUME ClientStep(j) /\ ~(OpenCompress(j) \/ OpenUncompress(j) \/ OpenCrypto(j))
        PROVE  SameRequest(j) /\ (link[j] = "broken" => link'[j] = "broken")
    <2>1. ASSUME NEW r \in JobRecord, NEW err, r = job[j], job'[j] = Ended(r, err)
          PROVE  SameRequest(j)
      BY <2>1 DEF Ended, JobRecord, SameRequest
    <2>2. CASE SeeNoChannel(j) \/ CreateChannel(j)
      <3>1. link' = link
        BY <2>2 DEF SeeNoChannel, CreateChannel
      <3>2. CASE SeeNoChannel(j)
        BY <1>1, <3>1, <3>2 DEF SeeNoChannel, JobRecord, SameRequest
      <3>3. CASE CreateChannel(j)
        BY <1>1, <3>1, <3>3 DEF CreateChannel, JobRecord, SameRequest
      <3> QED  BY <2>2, <3>2, <3>3
    <2>3. CASE SendKey(j) \/ ReceiveKey(j)
      <3>1. link' = link
        BY <2>3 DEF SendKey, ReceiveKey
      <3>2. CASE SendKey(j)
        BY <1>1, <3>1, <3>2 DEF SendKey, JobRecord, SameRequest
      <3>3. CASE ReceiveKey(j)
        BY <1>1, <3>1, <3>3 DEF ReceiveKey, JobRecord, SameRequest
      <3> QED  BY <2>3, <3>2, <3>3
    <2>4. CASE SendBlock(j) \/ ReceiveAnswer(j)
      <3>1. link' = link
        BY <2>4 DEF SendBlock, ReceiveAnswer
      <3>2. CASE SendBlock(j)
        BY <1>1, <3>1, <3>2 DEF SendBlock, JobRecord, SameRequest
      <3>3. CASE ReceiveAnswer(j)
        BY <1>1, <3>1, <3>3 DEF ReceiveAnswer, JobRecord, SameRequest
      <3> QED  BY <2>4, <3>2, <3>3
    <2>5. CASE WritesDone(j)
      BY <1>1, <2>5 DEF WritesDone, JobRecord, SameRequest
    <2>6. CASE Finish(j)
      BY <1>1, <2>1, <2>6 DEF Finish
    <2> QED  BY <1>5, <2>2, <2>3, <2>4, <2>5, <2>6 DEF ClientStep
  <1>6. CASE \/ OpenCompress(j) \/ OpenUncompress(j) \/ OpenCrypto(j)
             \/ \E kind \in Kinds, f \in Files, n \in Lengths :
                   \E key \in KeysFor(kind) : Begin(j, kind, f, n, key)
    <2>1. job[j].pc \in {"idle", "open"} /\ out' = out
      BY <1>6 DEF OpenCompress, OpenUncompress, OpenCrypto, Begin, At
    <2> QED  BY <1>1, <2>1 DEF LocalInv, StageInv
  <1>7. ASSUME NEW i \in Jobs \ {j},
               \/ ClientStep(i) \/ HandlerStep(i) \/ BreakStream(i)
               \/ FallSilent(i) \/ Throws(i)
               \/ \E kind \in Kinds, f \in Files, n \in Lengths :
                     \E key \in KeysFor(kind) : Begin(i, kind, f, n, key)
        PROVE  job'[j] = job[j] /\ link'[j] = link[j]
    BY <1>7, OthersSame
  <1>8. \/ job'[j] = job[j] /\ link'[j] = link[j]
        \/ StopServer
        \/ \E i \in Jobs :
              \/ ClientStep(i) \/ HandlerStep(i) \/ BreakStream(i)
              \/ FallSilent(i) \/ Throws(i)
              \/ \E kind \in Kinds, f \in Files, n \in Lengths :
                    \E key \in KeysFor(kind) : Begin(i, kind, f, n, key)
    <2>1. UNCHANGED remoteVars => job'[j] = job[j] /\ link'[j] = link[j]
      BY DEF remoteVars
    <2>2. UNCHANGED vars => UNCHANGED remoteVars
      BY DEF vars
    <2> QED  BY <2>1, <2>2 DEF Next
  <1> QED  BY <1>2, <1>3, <1>4, <1>5, <1>6, <1>7, <1>8

\* Only ReceiveAnswer writes.
LEMMA OnlyAnswersWrite ==
    ASSUME IInv, [Next]_vars
    PROVE  out' = out \/ \E j \in Jobs : ReceiveAnswer(j) /\ job[j].opened
  <1>1. CASE StopServer \/ UNCHANGED remoteVars
    BY <1>1 DEF StopServer, remoteVars
  <1>2. ASSUME NEW j \in Jobs, HandlerStep(j) \/ BreakStream(j) \/ FallSilent(j) \/ Throws(j)
        PROVE  out' = out
    BY <1>2 DEF HandlerStep, Serve, HandlerReturns, BreakStream, FallSilent, Throws
  <1>3. ASSUME NEW j \in Jobs, NEW kind, NEW f, NEW n, NEW key, Begin(j, kind, f, n, key)
        PROVE  out' = out
    BY <1>3 DEF Begin
  <1>4. ASSUME NEW j \in Jobs, ClientStep(j), ~(ReceiveAnswer(j) /\ job[j].opened)
        PROVE  out' = out
    BY <1>4
    DEF ClientStep, SeeNoChannel, CreateChannel, OpenCompress, OpenUncompress, OpenCrypto,
        SendKey, ReceiveKey, SendBlock, ReceiveAnswer, WritesDone, Finish
  <1>5. UNCHANGED vars => UNCHANGED remoteVars
    BY DEF vars
  <1> QED  BY <1>1, <1>2, <1>3, <1>4, <1>5 DEF Next

\* What holds of the count of right answers in every state.
RightInv ==
    \A j \in Jobs :
        /\ RightIs(j, Right(j)) /\ \A k : RightIs(j, k) => k = Right(j)
        /\ Right(j) < Len(out[j]) => link[j] = "broken"
        /\ Len(out[j]) \in Nat

\* The count stays what it is while nothing is written.
LEMMA RightSame ==
    ASSUME RightInv, RightInv', NEW j \in Jobs, out'[j] = out[j],
           SameRequest(j) \/ (out[j] = <<>> /\ out'[j] = <<>>)
    PROVE  Right(j)' = Right(j)
  <1>1. CASE SameRequest(j)
    <2>1. \A i : RightAnswers(j, i)' = RightAnswers(j, i)
      BY <1>1 DEF RightAnswers, KeyMessage, SameRequest
    <2>2. \A k : RightUpTo(j, k)' <=> RightUpTo(j, k)
      BY <2>1 DEF RightUpTo
    <2>3. \A k : RightIs(j, k)' <=> RightIs(j, k)
      BY <2>2 DEF RightIs
    <2>4. PICK r : r = Right(j)'
      OBVIOUS
    <2>5. RightIs(j, r)'
      BY <2>4 DEF RightInv
    <2> QED  BY <2>3, <2>4, <2>5 DEF RightInv
  <1>2. CASE out[j] = <<>> /\ out'[j] = <<>>
    <2>1. Right(j) \in 0..Len(out[j]) /\ Right(j)' \in 0..Len(out'[j])
      BY DEF RightInv, RightIs
    <2>2. Right(j) \in 0..0 /\ Right(j)' \in 0..0
      BY <1>2, <2>1
    <2> QED  BY <2>2
  <1> QED  BY <1>1, <1>2

\* One more answer is one more right one, if all before it are and it is the
\* next; otherwise it is one more of the others, and the stream is broken.
LEMMA RightGrows ==
    ASSUME RightInv, RightInv', NEW j \in Jobs, SameRequest(j), link'[j] = link[j],
           NEW a, out'[j] = Append(out[j], a), Len(out'[j]) = Len(out[j]) + 1,
           \A i \in 1..Len(out[j]) : out'[j][i] = out[j][i]
    PROVE  \/ /\ Len(out[j]) - Right(j) = 0
              /\ Right(j)' = Right(j) + 1
              /\ Len(out'[j]) - Right(j)' = Len(out[j]) - Right(j)
           \/ /\ link[j] = "broken"
              /\ Right(j)' = Right(j)
              /\ Len(out'[j]) - Right(j)' = (Len(out[j]) - Right(j)) + 1
  <1>1. PICK L, r, s : L = Len(out[j]) /\ r = Right(j) /\ s = Right(j)'
    OBVIOUS
  <1>2. /\ L \in Nat /\ r \in 0..L /\ s \in 0..(L + 1) /\ Len(out'[j]) = L + 1
        /\ r < L => link[j] = "broken"
        /\ s < L + 1 => link[j] = "broken"
        /\ RightUpTo(j, r) /\ (\A i \in 0..L : RightUpTo(j, i) => i <= r)
        /\ RightUpTo(j, s)' /\ (\A i \in 0..(L + 1) : RightUpTo(j, i)' => i <= s)
    <2>1. Len(out'[j]) = L + 1
      BY <1>1
    <2>2. /\ L \in Nat /\ RightIs(j, r) /\ (r < L => link[j] = "broken")
      BY <1>1 DEF RightInv
    <2>3. RightIs(j, s)' /\ (s < L + 1 => link[j] = "broken")
      BY <1>1, <2>1 DEF RightInv
    <2> QED  BY <1>1, <2>1, <2>2, <2>3 DEF RightIs
  <1>3. \A k \in 0..L : RightUpTo(j, k)' <=> RightUpTo(j, k)
    <2>1. \A i : RightAnswers(j, i)' = RightAnswers(j, i)
      BY DEF RightAnswers, KeyMessage, SameRequest
    <2> QED  BY <1>1, <1>2, <2>1 DEF RightUpTo
  <1>4. RightUpTo(j, L + 1)' => RightUpTo(j, L)'
    BY <1>2 DEF RightUpTo
  <1>5. (s = L + 1 /\ r = L) \/ s = r
    <2>1. CASE s = L + 1
      <3>1. RightUpTo(j, L)
        BY <1>2, <1>3, <1>4, <2>1
      <3>2. L <= r
        BY <1>2, <3>1
      <3> QED  BY ONLY <1>2, <2>1, <3>2
    <2>2. CASE s # L + 1
      <3>1. s \in 0..L
        BY ONLY <1>2, <2>2
      <3>2. RightUpTo(j, s)
        BY <1>2, <1>3, <3>1
      <3>3. s <= r
        BY ONLY <1>2, <3>1, <3>2
      <3>4. r \in 0..(L + 1) /\ RightUpTo(j, r)'
        BY <1>2, <1>3
      <3>5. r <= s
        BY <1>2, <3>4
      <3> QED  BY ONLY <1>2, <3>3, <3>5
    <2> QED  BY <2>1, <2>2
  <1>6. CASE s = L + 1 /\ r = L
    BY <1>1, <1>2, <1>6
  <1>7. CASE s = r
    <2>1. link[j] = "broken"
      BY <1>2, <1>7
    <2>2. (L + 1) - s = (L - r) + 1
      BY ONLY <1>2, <1>7
    <2> QED  BY <1>1, <1>2, <1>7, <2>1, <2>2
  <1> QED  BY <1>5, <1>6, <1>7

\* A step of the operations is a step of the promise, or leaves it alone.
LEMMA StepPromise ==
    ASSUME IInv, RightInv, RightInv', [Next]_vars
    PROVE  [Promise!Next]_(Promise!specVars)
  <1>1. ASSUME NEW j \in Jobs
        PROVE  /\ SameRequest(j) \/ (out[j] = <<>> /\ out'[j] = <<>>)
               /\ link[j] = "broken" => link'[j] = "broken"
               /\ out'[j] = out[j] => Right(j)' = Right(j)
    BY RequestKept, RightSame
  <1>2. CASE out' = out
    <2>1. \A j \in Jobs : Right(j)' = Right(j) /\ out'[j] = out[j]
      BY <1>1, <1>2
    <2> DEFINE lost == {j \in Jobs : link'[j] = "broken"}
    <2>2. /\ lost \in SUBSET Jobs
          /\ [j \in Jobs |-> link[j] = "broken"]'
                = [j \in Jobs |-> [i \in Jobs |-> link[i] = "broken"][j] \/ j \in lost]
      <3>1. \A j \in Jobs : (link'[j] = "broken") <=> (link[j] = "broken" \/ j \in lost)
        BY <1>1
      <3>2. \A j \in Jobs : (link'[j] = "broken")
                               = ([i \in Jobs |-> link[i] = "broken"][j] \/ j \in lost)
        BY <3>1, Zenon
      <3> HIDE DEF lost
      <3>3. [j \in Jobs |-> link'[j] = "broken"]
                = [j \in Jobs |-> [i \in Jobs |-> link[i] = "broken"][j] \/ j \in lost]
        BY <3>2, Zenon
      <3> QED  BY <3>3 DEF lost
    <2>3. /\ [j \in Jobs |-> Right(j)]' = [j \in Jobs |-> Right(j)]
          /\ [j \in Jobs |-> Len(out[j]) - Right(j)]' = [j \in Jobs |-> Len(out[j]) - Right(j)]
      BY <2>1
    <2> HIDE DEF lost
    <2>4. Promise!Break
      BY <2>2, <2>3, Zenon DEF Promise!Break
    <2> QED  BY <2>4 DEF Promise!Next
  <1>3. ASSUME NEW j \in Jobs, ReceiveAnswer(j), job[j].opened
        PROVE  Promise!Answer(j) \/ Promise!Fill(j)
    <2>1. /\ out \in [Jobs -> Seq(Message)] /\ out[j] \in Seq(Message)
          /\ job[j].resp \in Message /\ down[j] \in Seq(Message) /\ job[j].pc = "sent"
          /\ LocalInv(j)
      BY <1>3, Typed DEF JobRecord, ReceiveAnswer, At
    <2>2. ReadInto(j) \in Message /\ link' = link
      BY <1>3, <2>1 DEF ReadInto, ReceiveAnswer
    <2>3. out' = [out EXCEPT ![j] = Append(@, ReadInto(j))]
      BY <1>3 DEF ReceiveAnswer
    <2>4. /\ out'[j] = Append(out[j], ReadInto(j)) /\ Len(out'[j]) = Len(out[j]) + 1
          /\ \A i \in 1..Len(out[j]) : out'[j][i] = out[j][i]
      BY <2>1, <2>2, <2>3, Appended
    <2>5. SameRequest(j)
      <3>1. job \in [Jobs -> JobRecord] /\ job[j] \in JobRecord
        BY Typed
      <3>2. job' = [job EXCEPT ![j].pc = "send", ![j].resp = ReadInto(j)]
        BY <1>3 DEF ReceiveAnswer
      <3> QED  BY <3>1, <3>2 DEF JobRecord, SameRequest
    <2>6. \/ /\ Len(out[j]) - Right(j) = 0
             /\ Right(j)' = Right(j) + 1
             /\ Len(out'[j]) - Right(j)' = Len(out[j]) - Right(j)
          \/ /\ link[j] = "broken"
             /\ Right(j)' = Right(j)
             /\ Len(out'[j]) - Right(j)' = (Len(out[j]) - Right(j)) + 1
      BY <2>2, <2>4, <2>5, RightGrows
    <2>7. \A k \in Jobs \ {j} : Right(k)' = Right(k) /\ Len(out'[k]) = Len(out[k])
      BY <1>1, <2>1, <2>3
    <2>8. [k \in Jobs |-> link[k] = "broken"]' = [k \in Jobs |-> link[k] = "broken"]
      BY <2>2
    <2> DEFINE R == [k \in Jobs |-> Right(k)]
               W == [k \in Jobs |-> Len(out[k]) - Right(k)]
    <2>9. CASE /\ Len(out[j]) - Right(j) = 0
               /\ Right(j)' = Right(j) + 1
               /\ Len(out'[j]) - Right(j)' = Len(out[j]) - Right(j)
      <3>1. R' = [R EXCEPT ![j] = @ + 1]
        BY <2>7, <2>9
      <3>2. W' = W
        BY <2>7, <2>9
      <3>3. W[j] = 0
        BY <2>9
      <3> QED  BY <2>8, <3>1, <3>2, <3>3, Zenon DEF Promise!Answer
    <2>10. CASE /\ link[j] = "broken"
                /\ Right(j)' = Right(j)
                /\ Len(out'[j]) - Right(j)' = (Len(out[j]) - Right(j)) + 1
      <3>1. R' = R
        BY <2>7, <2>10
      <3>2. W' = [W EXCEPT ![j] = @ + 1]
        BY <2>7, <2>10
      <3>3. [k \in Jobs |-> link[k] = "broken"][j]
        BY <2>10, Zenon
      <3> QED  BY <2>8, <3>1, <3>2, <3>3, Zenon DEF Promise!Fill
    <2> QED  BY <2>6, <2>9, <2>10
  <1>4. CASE \E j \in Jobs : ReceiveAnswer(j) /\ job[j].opened
    BY <1>3, <1>4 DEF Promise!Next
  <1> QED  BY <1>2, <1>4, OnlyAnswersWrite

\* Nothing is promised at first.
LEMMA InitPromise ==
    ASSUME RemoteInit, RightInv
    PROVE  Promise!Init
  <1>1. ASSUME NEW j \in Jobs
        PROVE  Right(j) = 0 /\ Len(out[j]) - Right(j) = 0 /\ link[j] # "broken"
    <2>1. out[j] = <<>> /\ link[j] = "none"
      BY DEF RemoteInit
    <2>2. Right(j) \in 0..Len(out[j]) /\ Len(out[j]) = 0
      BY <2>1 DEF RightInv, RightIs
    <2> QED  BY <2>1, <2>2
  <1>2. [j \in Jobs |-> link[j] = "broken"] = [j \in Jobs |-> FALSE]
    <2>1. \A j \in Jobs : (link[j] = "broken") = FALSE
      BY <1>1, Zenon
    <2> QED  BY <2>1, Zenon
  <1>3. /\ [j \in Jobs |-> Right(j)] = [j \in Jobs |-> 0]
        /\ [j \in Jobs |-> Len(out[j]) - Right(j)] = [j \in Jobs |-> 0]
    BY <1>1
  <1> QED  BY <1>2, <1>3, Zenon DEF Promise!Init

\* The operations keep the promise of RemoteSpec: right answers first, others
\* only in place of the rest and only after the stream has broken.
THEOREM KeepsPromise == Spec => ImplementsPromise
  <1>1. OInv => RightInv /\ IInv
    <2> SUFFICES ASSUME OInv PROVE RightInv /\ IInv
      OBVIOUS
    <2>1. TypeOK /\ IInv /\ \A j \in Jobs : out[j] \in Seq(Message)
      BY Typed DEF OInv, IInv
    <2>2. \A j \in Jobs : Len(out[j]) \in Nat
      BY ONLY <2>1
    <2> QED  BY <2>1, <2>2, RightThere, OrderIsKept DEF RightInv
  <1>2. RemoteInit /\ RightInv => Promise!Init
    BY InitPromise
  <1>3. IInv /\ RightInv /\ RightInv' /\ [Next]_vars => [Promise!Next]_(Promise!specVars)
    BY StepPromise
  <1> QED  BY <1>1, <1>2, <1>3, OrderHolds, PTL DEF Spec, ImplementsPromise, Promise!Spec
================================================================================
