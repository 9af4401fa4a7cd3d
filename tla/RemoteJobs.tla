------------------------------ MODULE RemoteJobs ------------------------------
(***************************************************************************)
(* Operations under RPC: CompressWithGrpc, UncompressWithGrpc and          *)
(* SymEncodeWithGrpc on the threads of the pool, each with a stream to a   *)
(* handler of CCompressService, CUncompressService or CCryptoService, in   *)
(* the process that Server starts.  The client looks at the result of no   *)
(* Write, Read or Finish.  A stream may break at any time, and breaks if   *)
(* the server stops; or the other side is lost without a word, and then    *)
(* the client waits, for no call has a deadline and no channel a           *)
(* keepalive.                                                              *)
(*                                                                         *)
(* A message or block is a sequence of marks: <<b>> is block b of a file,  *)
(* <<-b>> only the first part of it, <<0>> a key; <<>> is empty.           *)
(***************************************************************************)
EXTENDS Server

CONSTANTS
    Jobs,
    Kinds,          \* operations the application asks for
    Lengths,        \* how many blocks a file has
    Dense,          \* blocks that are full and do not get smaller
    Keys,           \* keys the application gives: "word" or "empty"
    Faults,         \* what may fail: "archive", "in", "out", "throw"
    BlockSize,      \* CCustomParamManager::GetBuffSize under RPC
    SourceLimit,    \* what s_compress and s_crypto take at once
    CompressedLimit \* what s_uncompress takes at once, and a little more

ASSUME RemoteAssumption ==
    /\ Kinds \subseteq {"compress", "uncompress", "encode", "decode"}
    /\ Lengths \subseteq Nat /\ Dense \subseteq Nat
    /\ Keys \subseteq {"word", "empty"}
    /\ Faults \subseteq {"archive", "in", "out", "throw"}
    /\ BlockSize \in Nat /\ SourceLimit \in Nat /\ CompressedLimit \in Nat
    /\ BlockSize <= SourceLimit /\ BlockSize < CompressedLimit

VARIABLES
    channel,    \* m_stChannel of CGRPCManager is set
    job,        \* local variables of the operations
    out,        \* answers written to each job's output
    link,       \* state of each job's stream
    up, down,   \* messages in the stream, to the handler and from it
    hand,       \* local variables of the handlers
    ended       \* the client's process has ended

remoteVars == <<channel, job, out, link, up, down, hand, ended>>
vars == <<serverVars, remoteVars>>

Message == Seq(Int)
Blocks(n) == [i \in 1..n |-> <<i>>]

NoFile == [ext |-> "none", body |-> <<>>, key |-> "empty"]
Plain == [ext |-> "plain", body |-> <<>>, key |-> "empty"]
Directory == [ext |-> "directory", body |-> <<>>, key |-> "empty"]

Crypto(j) == job[j].kind \in {"encode", "decode"}
ServiceOf(j) == IF Crypto(j) THEN "crypto" ELSE job[j].kind

NoHandler(st) == [st |-> st, key |-> <<>>, acc |-> <<>>]

RemoteInit ==
    /\ ServerInit
    /\ channel = FALSE
    /\ job = [j \in Jobs |-> [pc |-> "idle", kind |-> "none", file |-> NoFile, src |-> <<>>,
                              key |-> "empty", read |-> 0, resp |-> <<>>,
                              opened |-> FALSE, err |-> "none"]]
    /\ out = [j \in Jobs |-> <<>>]
    /\ link = [j \in Jobs |-> "none"]
    /\ up = [j \in Jobs |-> <<>>]
    /\ down = [j \in Jobs |-> <<>>]
    /\ hand = [j \in Jobs |-> NoHandler("none")]
    /\ ended = FALSE

At(j, pc) == job[j].pc = pc
Done(j) == At(j, "done")
Live(j) == link[j] \in {"open", "half"}

\* The file a finished job has made, with the extension in its header.
Made(j) ==
    [ext |-> IF job[j].kind = "compress" THEN ".zb" ELSE ".spc",
     body |-> out[j], key |-> job[j].key]
Files ==
    {Plain, Directory} \cup
    {Made(j) : j \in {k \in Jobs : Done(k) /\ job[k].opened
                                      /\ job[k].kind \in {"compress", "encode"}}}

-------------------------------------------------------------------------------
(* Before the stream *)

\* Compressed files carry no key.
KeysFor(kind) == IF kind \in {"encode", "decode"} THEN Keys ELSE {"empty"}

\* The application asks for an operation.  A single file that is a .zb file is
\* not compressed again; otherwise the archive is made, and Archive's error is
\* kept.  A directory cannot be decompressed.
Begin(j, kind, f, n, key) ==
    /\ At(j, "idle")
    /\ kind = "uncompress" \/ f # Directory
    /\ \E err \in {"none"} \cup (IF kind = "compress" THEN Faults \cap {"archive"} ELSE {}) :
        LET refused == \/ kind = "compress" /\ f.ext = ".zb"
                       \/ kind = "uncompress" /\ f = Directory
        IN  job' = [job EXCEPT ![j] =
                [@ EXCEPT !.pc = IF refused THEN "done" ELSE "open",
                          !.kind = kind, !.file = f, !.key = key,
                          !.src = IF kind = "uncompress" THEN f.body ELSE Blocks(n),
                          !.err = IF refused THEN "refused" ELSE err]]
    /\ UNCHANGED <<serverVars, channel, out, link, up, down, hand>>

\* GetChannel, which returns at once if there is a channel; another thread may
\* come between the test and the assignment.
SeeNoChannel(j) ==
    /\ At(j, "open")
    /\ ~channel
    /\ job' = [job EXCEPT ![j].pc = "create"]
    /\ UNCHANGED <<serverVars, channel, out, link, up, down, hand>>

CreateChannel(j) ==
    /\ At(j, "create")
    /\ channel' = TRUE
    /\ job' = [job EXCEPT ![j].pc = "open"]
    /\ UNCHANGED <<serverVars, out, link, up, down, hand>>

\* The stub starts the call; if no such service is there the stream is broken.
Call(j) ==
    IF Offers(ServiceOf(j))
    THEN /\ link' = [link EXCEPT ![j] = "open"]
         /\ hand' = [hand EXCEPT ![j].st = "running"]
    ELSE /\ link' = [link EXCEPT ![j] = "broken"]
         /\ UNCHANGED hand

\* The stream goes out of scope: the call is cancelled.
Abandon(j) == link' = [link EXCEPT ![j] = "broken"] /\ UNCHANGED hand

\* How an operation ends: a decompression is dearchived, of which the only error
\* is that the temporary file is not there; temporary files are removed and
\* m_onFinished is called.  Where that throws, see Throws.
Ended(r, err) ==
    [r EXCEPT !.pc = "done", !.resp = <<>>,
              !.err = IF r.kind = "uncompress" /\ err = "none" /\ ~r.opened
                      THEN "in open" ELSE err]

\* A file that does not open is noticed if it is the archive, not if it is the
\* output.
OpenCompress(j) ==
    /\ At(j, "open") /\ channel
    /\ job[j].kind = "compress"
    /\ \E opened \in {TRUE} \cup (IF "out" \in Faults THEN {FALSE} ELSE {}) :
        \/ /\ job' = [job EXCEPT ![j].pc = "send", ![j].opened = opened]
           /\ Call(j)
        \/ /\ "in" \in Faults
           /\ job' = [job EXCEPT ![j] = [Ended(@, "in open") EXCEPT !.opened = opened]]
           /\ Abandon(j)
    /\ UNCHANGED <<serverVars, channel, out, up, down>>

\* The header is examined after the call has been started.
OpenUncompress(j) ==
    /\ At(j, "open") /\ channel
    /\ job[j].kind = "uncompress"
    /\ \/ /\ job[j].file.ext = ".zb"
          /\ \E opened \in {TRUE} \cup (IF "out" \in Faults THEN {FALSE} ELSE {}) :
                job' = [job EXCEPT ![j].pc = "send", ![j].opened = opened]
          /\ Call(j)
       \/ /\ job[j].file.ext # ".zb"
          /\ job' = [job EXCEPT ![j] = Ended(@, "bad header")]
          /\ Abandon(j)
    /\ UNCHANGED <<serverVars, channel, out, up, down>>

\* Faulty form: the error of Parse is returned as it is.
CryptoErrorRaw(j) ==
    IF job[j].kind = "decode" /\ job[j].file.ext # ".spc" THEN "bad sign" ELSE "none"

\* A .spc file is not encoded again; only a .spc file is decoded, and only with
\* the key in its header.
CryptoError(j) ==
    LET f == job[j].file
    IN  CASE job[j].kind = "encode" /\ f.ext = ".spc" -> "refused"
          [] job[j].kind = "decode" /\ f.ext # ".spc" -> "bad header"
          [] job[j].kind = "decode" /\ f.ext = ".spc" /\ f.key # job[j].key -> "bad key"
          [] OTHER -> "none"

OpenCrypto(j) ==
    /\ At(j, "open") /\ channel
    /\ Crypto(j)
    /\ \/ /\ CryptoError(j) # "none"
          /\ job' = [job EXCEPT ![j] = Ended(@, CryptoError(j))]
          /\ UNCHANGED <<link, hand>>
       \/ /\ CryptoError(j) = "none"
          /\ "out" \in Faults
          /\ job' = [job EXCEPT ![j] = Ended(@, "out open")]
          /\ UNCHANGED <<link, hand>>
       \/ /\ CryptoError(j) = "none"
          /\ job' = [job EXCEPT ![j].pc = "key", ![j].opened = TRUE]
          /\ Call(j)
    /\ UNCHANGED <<serverVars, channel, out, up, down>>

-------------------------------------------------------------------------------
(* The stream, from the client's side *)

Write(j, m) == up' = IF Live(j) THEN [up EXCEPT ![j] = Append(@, m)] ELSE up

\* Faulty form: waits for an answer whatever happens.
ReadableOnly(j) == down[j] # <<>>

\* Read waits for an answer; when there can be none it returns with the
\* message object as it was.
Readable(j) == down[j] # <<>> \/ link[j] = "broken" \/ hand[j].st \in {"ok", "cancelled"}
ReadInto(j) == IF down[j] # <<>> THEN Head(down[j]) ELSE job[j].resp
Consume(j) == down' = [down EXCEPT ![j] = IF @ # <<>> THEN Tail(@) ELSE @]

KeyMessage(j) == IF job[j].key = "empty" THEN <<>> ELSE <<0>>

SendKey(j) ==
    /\ At(j, "key")
    /\ Write(j, KeyMessage(j))
    /\ job' = [job EXCEPT ![j].pc = "key sent"]
    /\ UNCHANGED <<serverVars, channel, out, link, down, hand>>

\* Faulty form: the answer to the key is not read.
ReceiveKeyNot(j) ==
    /\ At(j, "key sent")
    /\ job' = [job EXCEPT ![j].pc = "send"]
    /\ UNCHANGED <<serverVars, channel, out, link, up, down, hand>>

\* The answer to the key is read and cleared.
ReceiveKey(j) ==
    /\ At(j, "key sent")
    /\ Readable(j)
    /\ Consume(j)
    /\ job' = [job EXCEPT ![j].pc = "send", ![j].resp = <<>>]
    /\ UNCHANGED <<serverVars, channel, out, link, up, hand>>

\* Faulty form: the response is never cleared.
SendBlockUncleared(j) ==
    /\ At(j, "send")
    /\ job[j].read < Len(job[j].src)
    /\ Write(j, job[j].src[job[j].read + 1])
    /\ job' = [job EXCEPT ![j].pc = "sent", ![j].read = @ + 1]
    /\ UNCHANGED <<serverVars, channel, out, link, down, hand>>

\* CompressWithGrpc clears its response before every block; the others do not.
SendBlock(j) ==
    /\ At(j, "send")
    /\ job[j].read < Len(job[j].src)
    /\ Write(j, job[j].src[job[j].read + 1])
    /\ job' = [job EXCEPT ![j].pc = "sent", ![j].read = @ + 1,
                          ![j].resp = IF job[j].kind = "compress" THEN <<>> ELSE @]
    /\ UNCHANGED <<serverVars, channel, out, link, down, hand>>

\* Faulty form: a block without an answer gets no record.
ReceiveAnswerIfAny(j) ==
    /\ At(j, "sent")
    /\ Readable(j)
    /\ Consume(j)
    /\ job' = [job EXCEPT ![j].pc = "send", ![j].resp = ReadInto(j)]
    /\ out' = IF job[j].opened /\ down[j] # <<>>
              THEN [out EXCEPT ![j] = Append(@, ReadInto(j))] ELSE out
    /\ UNCHANGED <<serverVars, channel, link, up, hand>>

\* What Read has left in the response is written, whether it failed or not.
ReceiveAnswer(j) ==
    /\ At(j, "sent")
    /\ Readable(j)
    /\ Consume(j)
    /\ job' = [job EXCEPT ![j].pc = "send", ![j].resp = ReadInto(j)]
    /\ out' = IF job[j].opened THEN [out EXCEPT ![j] = Append(@, ReadInto(j))] ELSE out
    /\ UNCHANGED <<serverVars, channel, link, up, hand>>

\* Faulty form: the last block is taken for the end of the file.
WritesDoneEarly(j) ==
    /\ At(j, "send")
    /\ job[j].read + 1 >= Len(job[j].src)
    /\ job' = [job EXCEPT ![j].pc = "finish"]
    /\ link' = [link EXCEPT ![j] = IF @ = "open" THEN "half" ELSE @]
    /\ UNCHANGED <<serverVars, channel, out, up, down, hand>>

\* peek has found the end of the file.
WritesDone(j) ==
    /\ At(j, "send")
    /\ job[j].read = Len(job[j].src)
    /\ job' = [job EXCEPT ![j].pc = "finish"]
    /\ link' = [link EXCEPT ![j] = IF @ = "open" THEN "half" ELSE @]
    /\ UNCHANGED <<serverVars, channel, out, up, down, hand>>

StatusKnown(j) == link[j] = "broken" \/ hand[j].st \in {"ok", "cancelled"}

\* Finish waits for the handler's status, which is only printed.
Finish(j) ==
    /\ At(j, "finish")
    /\ StatusKnown(j)
    /\ job' = [job EXCEPT ![j] = Ended(@, @.err)]
    /\ link' = [link EXCEPT ![j] = IF @ = "half" THEN "closed" ELSE @]
    /\ UNCHANGED <<serverVars, channel, out, up, down, hand>>

\* What Dearchive gets is no archive: answers are missing, or there more than once,
\* or were so when the file was compressed.
Damaged(j) == out[j] # Blocks(Len(out[j]))

\* Calls of the file system throw: before the stream, and at the end when the
\* temporary file is removed; and Dearchive throws where it makes directories, of
\* which a damaged archive may name any.  Nothing catches it: the temporary file
\* stays and m_onFinished is not called.  On a thread of the pool it ends the
\* process.
Throws(j) ==
    /\ ~Crypto(j)
    /\ \/ At(j, "open") /\ "throw" \in Faults
       \/ /\ At(j, "finish") /\ StatusKnown(j)
          /\ \/ "throw" \in Faults
             \/ job[j].kind = "uncompress" /\ job[j].opened /\ Damaged(j)
    /\ \/ /\ job' = [job EXCEPT ![j].pc = "thrown"]
          /\ link' = [link EXCEPT ![j] = IF @ = "half" THEN "closed" ELSE @]
          /\ UNCHANGED ended
       \/ ended' = TRUE /\ UNCHANGED <<job, link>>
    /\ UNCHANGED <<serverVars, channel, out, up, down, hand>>

-------------------------------------------------------------------------------
(* The stream, from the server's side *)

\* What s_compress may answer: the output buffer is as large as the largest
\* source, which is too little if that does not get smaller; the length is
\* passed as an int where zlib takes a longer type, so that what it finds there
\* may also be enough.
Compressed(m) == IF \E b \in Dense : m = <<b>> THEN {m, <<-m[1]>>} ELSE {m}

\* Faulty form: every message is taken for the key.
KeyAfterLast(j, m) == m

\* The key s_crypto goes by: the first message that is not empty.
KeyAfter(j, m) == IF hand[j].key = <<>> THEN m ELSE hand[j].key

\* Whether the handler refuses a message and so ends the call.
Refuses(j) == IF job[j].kind = "uncompress" THEN BlockSize >= CompressedLimit
                                            ELSE BlockSize > SourceLimit

\* One round of a handler's loop.  s_crypto encodes every message, the key too,
\* and answers with all it has encoded so far.
Serve(j) ==
    /\ Live(j)
    /\ hand[j].st = "running"
    /\ up[j] # <<>>
    /\ up' = [up EXCEPT ![j] = Tail(@)]
    /\ LET m == Head(up[j])
       IN  \/ /\ Refuses(j)
              /\ hand' = [hand EXCEPT ![j] = NoHandler("cancelled")]
              /\ UNCHANGED down
           \/ /\ ~Refuses(j)
              /\ Crypto(j)
              /\ hand' = [hand EXCEPT ![j].key = KeyAfter(j, m), ![j].acc = @ \o m]
              /\ down' = [down EXCEPT ![j] = Append(@, hand[j].acc \o m)]
           \/ /\ ~Refuses(j)
              /\ ~Crypto(j)
              /\ \E a \in (IF job[j].kind = "compress" THEN Compressed(m) ELSE {m}) :
                    down' = [down EXCEPT ![j] = Append(@, a)]
              /\ UNCHANGED hand
    /\ UNCHANGED <<serverVars, channel, job, out, link>>

\* Read fails after WritesDone, and the handler returns OK.
HandlerReturns(j) ==
    /\ link[j] = "half"
    /\ hand[j].st = "running"
    /\ up[j] = <<>>
    /\ hand' = [hand EXCEPT ![j] = NoHandler("ok")]
    /\ UNCHANGED <<serverVars, channel, job, out, link, up, down>>

\* A stream breaks: what was on its way is lost, or an answer still arrives.
\* The handler's next Read fails, and it returns.
BreakStream(j) ==
    /\ Live(j) \/ link[j] = "silent"
    /\ link' = [link EXCEPT ![j] = "broken"]
    /\ up' = [up EXCEPT ![j] = <<>>]
    /\ \E rest \in {down[j], <<>>} : down' = [down EXCEPT ![j] = rest]
    /\ hand' = [hand EXCEPT ![j] = NoHandler("ok")]
    /\ UNCHANGED <<serverVars, channel, job, out>>

\* The server's host, or the way to it, is lost and the client is not told.
FallSilent(j) ==
    /\ Live(j)
    /\ link' = [link EXCEPT ![j] = "silent"]
    /\ up' = [up EXCEPT ![j] = <<>>]
    /\ down' = [down EXCEPT ![j] = <<>>]
    /\ hand' = [hand EXCEPT ![j] = NoHandler("none")]
    /\ UNCHANGED <<serverVars, channel, job, out>>

StopServer ==
    /\ ServerStops
    /\ link' = [j \in Jobs |-> IF Live(j) THEN "broken" ELSE link[j]]
    /\ up' = [j \in Jobs |-> <<>>]
    /\ down' = [j \in Jobs |-> IF Live(j) THEN <<>> ELSE down[j]]
    /\ hand' = [j \in Jobs |-> IF Live(j) THEN NoHandler("ok") ELSE hand[j]]
    /\ UNCHANGED <<channel, job, out>>

-------------------------------------------------------------------------------
ClientStep(j) ==
    /\ \/ SeeNoChannel(j) \/ CreateChannel(j)
       \/ OpenCompress(j) \/ OpenUncompress(j) \/ OpenCrypto(j)
       \/ SendKey(j) \/ ReceiveKey(j) \/ SendBlock(j) \/ ReceiveAnswer(j)
       \/ WritesDone(j) \/ Finish(j)
    /\ ~ended
    /\ UNCHANGED ended

HandlerStep(j) ==
    /\ Serve(j) \/ HandlerReturns(j)
    /\ ~ended
    /\ UNCHANGED ended

\* When the client's process has ended there is nothing left to follow.
Next ==
    /\ ~ended
    /\ \/ /\ ServerStarts \/ \E dir \in LibDirs : Launch(dir)
          /\ UNCHANGED remoteVars
       \/ StopServer /\ UNCHANGED ended
       \/ \E j \in Jobs :
            \/ ClientStep(j) \/ HandlerStep(j) \/ Throws(j)
            \/ (BreakStream(j) \/ FallSilent(j)) /\ UNCHANGED ended
            \/ /\ \E kind \in Kinds, f \in Files, n \in Lengths :
                     \E key \in KeysFor(kind) : Begin(j, kind, f, n, key)
               /\ UNCHANGED ended

\* Pool threads and handler threads are scheduled; a stream that does not
\* deliver breaks or falls silent.  Nothing is assumed of the application or of
\* the server's operator.
Fairness == \A j \in Jobs : WF_vars(ClientStep(j)) /\ WF_vars(HandlerStep(j))

Spec == RemoteInit /\ [][Next]_vars /\ Fairness

-------------------------------------------------------------------------------
(* Properties *)

Errors == {"none", "refused", "archive", "bad header", "bad key", "in open", "out open"}

TypeOK ==
    /\ server \in {"down", "loading", "serving"}
    /\ channel \in BOOLEAN
    /\ job \in [Jobs ->
          [pc : {"idle", "open", "create", "key", "key sent", "send", "sent",
                 "finish", "done", "thrown"},
           kind : Kinds \cup {"none"}, key : Keys \cup {"empty"}, read : Nat,
           file : [ext : {"none", "plain", "directory", ".zb", ".spc"},
                   body : Seq(Message), key : Keys \cup {"empty"}],
           src : Seq(Message), resp : Message,
           opened : BOOLEAN, err : Errors]]
    /\ out \in [Jobs -> Seq(Message)]
    /\ link \in [Jobs -> {"none", "open", "half", "closed", "broken", "silent"}]
    /\ up \in [Jobs -> Seq(Message)] /\ down \in [Jobs -> Seq(Message)]
    /\ hand \in [Jobs -> [st : {"none", "running", "ok", "cancelled"},
                          key : Message, acc : Message]]
    /\ ended \in BOOLEAN

\* A call uses the three services that the libraries of the server offer: a
\* process that serves has registered each of them once, so that with one library
\* it serves all three, and with none or two libraries it never serves.
ServesAll ==
    server = "serving" => builder = <<"compress", "uncompress", "crypto">>

\* A client and its handler take turns: there is at most one message between
\* them, and none while the client is not waiting for an answer.
TakesTurns ==
    \A j \in Jobs :
        /\ Len(up[j]) + Len(down[j]) <= 1
        /\ job[j].pc \notin {"key sent", "sent"} => up[j] \o down[j] = <<>>

\* What the handler answers to block i of a job if nothing is lost or mixed up;
\* that s_crypto begins with the key and repeats all blocks before is how it is.
RightAnswers(j, i) ==
    CASE job[j].kind = "compress" -> Compressed(job[j].src[i])
      [] job[j].kind = "uncompress" -> {job[j].src[i]}
      [] OTHER -> {KeyMessage(j) \o [k \in 1..i |-> k]}

RightUpTo(j, k) == \A i \in 1..k : out[j][i] \in RightAnswers(j, i)
Right(j) == CHOOSE k \in 0..Len(out[j]) :
                RightUpTo(j, k) /\ \A i \in 0..Len(out[j]) : RightUpTo(j, i) => i <= k

\* What is written for a block to which no answer came: nothing if the response
\* was cleared, and otherwise the previous answer once more.
Filler(j, k) == IF job[j].kind = "compress" \/ k = 0 THEN <<>> ELSE out[j][k]

\* The output holds the right answers in order, none lost, doubled or mixed up;
\* only after the stream has broken others follow, which are no answers at all
\* but what the response object was left with.
AnswersInOrder ==
    \A j \in Jobs :
        /\ Right(j) < Len(out[j]) => link[j] = "broken"
        /\ \A i \in (Right(j) + 1)..Len(out[j]) : out[j][i] = Filler(j, Right(j))

\* An operation that has ended has sent every block and written one answer for
\* each, so that the records of a .zb file stay aligned even if the stream broke.
OneAnswerEach ==
    \A j \in Jobs :
        Done(j) /\ job[j].opened /\ job[j].err \in {"none", "archive"}
            => Len(out[j]) = Len(job[j].src)

\* A file compressed and then decompressed remotely comes back whole and in
\* order, if neither stream broke and every block gets smaller.
RoundTrip ==
    \A j, k \in Jobs :
        /\ Done(j) /\ job[j].kind = "uncompress" /\ job[j].opened /\ link[j] = "closed"
        /\ job[k].kind = "compress" /\ job[k].opened /\ link[k] = "closed"
        /\ job[j].file = Made(k)
        /\ \A i \in 1..Len(job[k].src) : i \notin Dense
        => out[j] = job[k].src

\* The handler of s_crypto never takes data for the key, unless the key is empty.
KeyIsNoData ==
    \A j \in Jobs : Crypto(j) /\ job[j].key # "empty" => hand[j].key \in {<<>>, <<0>>}

\* An operation that was begun ends, whatever becomes of its stream: no Read or
\* Finish waits for a message that does not come, unless the other side is lost
\* without a word; and it ends with m_onFinished unless the file system throws.
EveryCallEnds ==
    \A j \in Jobs :
        (~At(j, "idle")) ~> (Done(j) \/ At(j, "thrown") \/ ended \/ link[j] = "silent")

\* The operations keep the promise about their answers.
Promise == INSTANCE RemoteSpec WITH
    broken <- [j \in Jobs |-> link[j] = "broken"],
    right <- [j \in Jobs |-> Right(j)],
    wrong <- [j \in Jobs |-> Len(out[j]) - Right(j)]

ImplementsPromise == Promise!Spec
===============================================================================
