# fileutil in TLA+

This directory holds TLA+ models of the file utility library in `src/` (archive,
compress, encode, with synchronous, asynchronous and remote variants), TLC
configurations that check them on small instances, and TLAPS proofs of the most
important invariants for every value of the constants. Line numbers of every
modelled definition are in `PROJECT.json` under `map`.

## The system

| Part | State it keeps | Operations | Talks to |
|---|---|---|---|
| Thread pool (`src/ThreadPool.h`) | `io_service`, thread group, work guard | `Init`, `Post`, `JoinAll`, destructor | the `io_service` of boost |
| Asynchronous SDK (`FileUtilSdk.cpp`, `*Async.cpp`, `FileUtilBase::Execute`) | utility objects, each with one callback slot | `CreateFactory`, `Create...`, `Execute`, `WaitAsync`, `ReleaseUtil` | posts handlers that hold `this` and a reference to the caller's string; calls `m_onFinished` |
| Archiving (`FileUtilBase.cpp`) | the archive stream | `Archive`, `Dearchive` and the `...OneFileOrDir` they call, `RebuildPath` | files of the user; parameters |
| Compression (`FileUtil4Zlib.cpp`) | temporary files, threads | `Compress`, `CompressWithMT`, `CompressFileWithZlib`, `CutFileIntoPieces`, `CombainFiles`, `GetTmpMiddleFile` | archiving, header, parameters, zlib |
| Decompression (`FileUtil4Zlib.cpp`) | temporary file | `Uncompress`, `UncompressFileWithZlib` | header, zlib, archiving |
| Header (`FileUtilHead.cpp`) | 384 bytes before every output | `Attach`, `Parse`, `GetData` | MD5, version |
| Symmetric encoding (`SymCrypto.cpp`) | two streams, the key | `SymEncode` | header, callback |
| Parameters (`CustomParamManager.h`) | core count, buffer size | `Set`, `GetCpuCore`, `GetBuffSize` | read again by every step of every operation |
| Generators and versions | two singletons | `Create...`, version check of the input | header; the pool, by the asynchronous one's constructor |
| Remote operations (`...WithGrpc`, `service/`, `GRPCManager.cpp`, `server/cambrian.cpp`) | a channel; a stream per call | client streams, service handlers, start and stop of the server | gRPC |
| Configuration (`GlobalConfig.cpp`) | six fields | `Read` | read by parameters and remote operations |
| MD5, error tables, build files | none | | |

What is hard: handlers run on pool threads in any order and share callback
slots and strings with the application; a callback may start more work or
delete its object while somebody waits; several jobs work in one temporary
directory, and to one output if their inputs have one stem; each job starts
threads of its own whose results must come out in order; parameters may change
between two reads; any file operation may fail or throw, and most results are not
looked at and most exceptions not caught; the reader of an archive has nothing to
synchronise on. The full list, each with its line, is under `hazards`.

What makes each part correct:

- pool: no operation posted in time is left behind, the wait ends and means what
  its comment says;
- SDK: a callback reports the operation it was given for, and comes for every one
  that was posted in time; no handler uses a deleted object; an operation writes the
  file it named;
- compression: success means a whole output, in order; no temporary file is left by
  a job that returns; failures are reported; every job returns, or throws;
- archiving: what is announced is what is written and what is read; an entry that
  was not disturbed comes out as it went in;
- decompression: what a job reported as compressed comes back whole and in order;
  nothing is left behind;
- header and encoding: decoding undoes encoding; only the right password opens a
  file, and whoever has it is not refused;
- remote operations: answers in order, none lost or taken for another; an operation
  ends whatever becomes of the server, unless its host is lost without a word; a
  server that serves offers all services.

## Modules

| Module | Models | Role |
|---|---|---|
| `AsyncOps` | the promise of `WaitAsync` | abstract specification |
| `ThreadPool` | `CThreadPool` and the `io_service` behind it | component |
| `AsyncSdk` | the SDK on top of the pool; EXTENDS `ThreadPool` and conjoins its actions | composition |
| `CompressSpec` | what a compression promises its caller | abstract specification |
| `CompressJobs` | `Compress` with all that it calls, several jobs | component |
| `UncompressJobs` | `Uncompress` on the outputs of these jobs; EXTENDS `CompressJobs` | composition |
| `FileBlocks` | the copying loops for one file, on counts | algorithm as a state machine |
| `ArchiveStream` | `Archive` and `Dearchive`, a stream of headers and bytes | component |
| `SymCrypto` | `SymEncode`, the file header, `CreateDecoder` | component |
| `Server` | the server program and `CreateServices` | component |
| `RemoteSpec` | what a remote operation promises about its answers | abstract specification |
| `RemoteJobs` | the operations under RPC, the streams and the three handlers; EXTENDS `Server` | composition |
| `ThreadPool_proofs`, `AsyncSdk_proofs`, `FileBlocks_proofs`, `ArchiveStream_proofs`, `CompressJobs_proofs`, `UncompressJobs_proofs`, `SymCrypto_proofs`, `RemoteJobs_proofs` | | proofs |
| `MC...` | | model values and sets for TLC |

An operator whose comment begins with "Faulty form" is not part of a model. It
says how a plausible mistake in the code would look, and stands before the
definition it would replace; `mutants` in `PROJECT.json` lists which property
each of them breaks.

### ThreadPool

`guard` is `m_pWorkGurad`, `thread` the thread group, `queue` and `stopped` the
state of the `io_service`, `current` what each thread runs; `owner` is where the
application thread is (in `JoinAll`, in the destructor, or free). `InitPool`,
`Post`, `JoinAll`/`JoinReturn` and `Destroy`/`DestroyReturn` are the methods;
those that block are two actions. `Take`, `Finish` and `Leave` are external: an
`io_service` stops when its last piece of work goes away, and once stopped it
hands out nothing until `reset`, which no code calls. `CallbackPost` is a `Post`
on a pool thread. `early` and `joined` are history variables: the operations
posted before the service stopped, and whether a wait that found threads has
returned.

### AsyncSdk

`util` is the life of each object, `onFinished` its callback slot, `call` what a
handler is bound to, `outString` the caller's strings, `target` the path an
operation opened, `told` the callbacks made. A handler is `Start`, `Prepare` (the
path goes into the caller's string), `OpenOutput` (the string is read again),
`Notify`, `Return`; an operation that fails early or names no output goes from
`Start` to `Notify`. Handlers do not throw here: an uncaught exception on a pool
thread would end the process, and with it every other operation. `CallbackExecute` and `CallbackRelease` are what callbacks
may do. The client is free within rules, and `Misuse` lets it break one: executing
on an object that is busy, or sharing an output string. The client in
`test/test.cpp` breaks the second.

### CompressJobs and UncompressJobs

Every job is the sequence: check, archive, prepare, dispatch; then either one
compressor or `CompressWithMT` (cut, start, join, combine, clean), then remove and
notify. `job` holds the local variables, `comp` one record for each thread in
`CompressFileWithZlib`, `files` the shared directory, `param` the parameters. An
archive is a sequence of units and a compressed file a sequence of blocks, so
that order, loss and duplication are visible and contents are not.

`PrepareCompress` makes the output's path of the stem of the input, or of the
directory above several inputs. `input[j].name` is what it comes to: jobs that got
the same name write to one file. An output is emptied by whoever opens it, and if
another job is still writing to it, that job goes on at its own place in the file
(`Opened`); what follows is garbled. `Own(j)` says that no other job has the path
of `j`; what is promised of outputs is promised to such jobs, and has to hold next
to others that share theirs. The client asks to uncompress only the former.

`Faults` says what may go wrong in a run:

| Fault | What happens | Where the code notices |
|---|---|---|
| `archive` | an input is lost, read in part, or one write fails | sometimes: the error of an entry is overwritten by the next one's, an unreadable file makes none |
| `prepare` | the path cannot be composed; the output has none | not at all |
| `temp`, `out` | a temporary file, or the output, does not open | in `CompressFileWithZlib`, `UncompressFileWithZlib` and `Dearchive`, not in `Archive`, `CutFileIntoPieces` and `CombainFiles` |
| `block` | zlib refuses a block | on one thread; with several the error is dropped |
| `write` | a write fails, and all later ones to the stream | nowhere |
| `throw` | a call of the file system throws | nowhere, except in `CutFileIntoPieces` and `PrepareCompress` |
| `dense` | a block gets longer by compressing it | not at all: it is written behind a thread's buffer |
| `dearchive` | some of what is restored cannot be written | nowhere |

`job[j].made` is what `Archive` has made, which need not be the inputs
(`Archived(j)`): `Spoilt` leaves out the first unit, the last one or puts something
else in place of the last. `bad` marks a stream that has failed, after which the
loop goes on and writes nothing more; what a failed write leaves may end within a
block (`Torn`). An exception leaves the job where it is (`thrown`): nothing is
removed and no callback made; on a thread of the pool it ends the process
(`ended`), and so may the assertion in `CompressWithMT` (which fails if the core
count has fallen to one since it was last read) and anything read or written behind
a buffer. `Set` may change the buffer size between two calls of `GetBuffSize`
(`MayResize`): `Archive`, `CatStream` and `Dearchive` allocate a buffer of one size
and use it with another, which spoils what they copy, or ends the process. When
`Set` makes a buffer smaller while a block is being compressed, the block fails or
not, as zlib will.

The clock is abstract: the times one thread reads are all different, two threads
of a job may read the same one, two jobs never do (see the hazards).

`UncompressJobs` adds one reader for each job's output. It may be asked for at any
time: before the job has ended it finds any part of what is written
(`BlocksFound`), or a block of which only a part is there. A block is uncompressed
into the buffer size configured then; one that is larger than the buffers that were
allocated at the beginning (`TooLarge`) is read behind them, which fails or ends the
process. `Dearchive` restores what it is given, or spoils it unnoticed; `given` and
`restored` keep the two apart. It may throw, and then the temporary file stays and
no callback is made. `found` records whether the job had ended when the client
asked.

### FileBlocks and ArchiveStream

`FileBlocks` has the arithmetic: `pos`, `packed`, `left` (`dwCnt`), `restored`,
with the 32-bit counts as `Uint32`. `ArchiveStream` has the structure: tokens for
headers and bytes, files that change size while they are read (`Change`), entries
that are unreadable, unreachable, gone, of another or an unknown type, and a reader that
has only the announced sizes to go by. `SkipOther` covers a special file inside a
directory, which resets the error, and one given as input, which does not;
`SkipUnknown` is the exception that `ArchiveOneFileOrDir` catches, `ExistsThrows` one
that nobody does. The number of reads is computed in a `double`, which is exact for
files below 2^53 bytes; larger ones are left out.

### SymCrypto

A character is a set of bits, so that XOR is the symmetric difference, and the
empty set is the character that ends a string. `Attach` is what the header makes
of a password: the signature covers the whole encoded password, the array only
what comes before its first zero, and the end of one that fills its array falls
on the signature. `Prepare` is `Parse` and `GetData`, `OpenOut` the output and its
header, `CodeBlock` a round of the loop. A source shorter than a header leaves the
header's memory as it was (`parsed`) and the stream failed (`eof`). The client
encodes when nothing else runs and decodes one file at a time, even one that is
still being encoded; it may give an encoded file as input again, decode plain
files, and set the buffer size between operations. `found` records who had
encoded the source when a decoding was asked for.

### Server and RemoteJobs

`Server` is the launch of `cambrian` step by step: the files of the library
directory and one below it, a library at a time, `BuildAndStart`, and the end of
the process. `CreateServices` hands out one pool that all libraries fill, so a
second copy of the library registers the first copy's services again, and there
is no server; nor is there one without any library. `RunServer` then calls `Wait`
on it and the process dies.

In `RemoteJobs` an operation is: the channel (found missing and made, by two
threads perhaps), the files it opens, the call, for the encoder the key and its
answer, then a `Write` and a `Read` for each block, `WritesDone` and `Finish`. The
client looks at no result of these, so that `ReceiveAnswer` writes whatever `Read`
has left in the response. `Serve` is a round of the handlers' loops. `link` is the
state of a stream: `BreakStream` and `StopServer` lose what is on its way, and after
`FallSilent` the client hears nothing any more and waits, since no call has a deadline
and the channel no keepalive. gRPC is external: a call to a service that is not
there is a broken stream, messages of one stream stay in order, and a stream that
does not deliver breaks or falls silent. `Throws` is an exception of the file
system, before the stream or at the end, and also what `Dearchive` may do with an
archive in which answers are missing or repeated (`Damaged`): the caller gets it, or
the client's process ends (`ended`).

## Runs

| Run | Question | Bounds | Result |
|---|---|---|---|
| `thread_pool` | does the pool keep the promise of the first wait? | 2 threads, 3 operations | holds |
| `every_join` | ... and of every wait, as `FileUtilSdk.h:18` says? | same | violated |
| `sdk` | own callbacks that always come, live objects, own outputs, promise of `WaitAsync` | 2 threads, 2 operations, 2 objects, 2 strings, rules kept | holds |
| `sdk_share` | ... if the client shares a string as `test.cpp` does? | same, 1 string | violated |
| `compress` | is the output of a successful job whole, and can it be uncompressed at any time? | archives of 0, 1, 2, 3, 5 units, 1 to 3 threads, buffers 3 and 4 (2 threads: also 2), all kinds of input, no fault; and 2 jobs of 2 threads with archives of 2 and 3 units, to one output or to two | holds |
| `compress_faults` | do compressing and uncompressing clean up and end, and tell the truth, when things fail? | one job, archives of 1 and 3 units, 1 core with buffers 2 and 3 or 2 cores with buffer 2, all nine faults, at most two of them that leave a trace and exceptions besides (`FewFail`), `Set` between the steps that read the parameters; a complete output is uncompressed | holds |
| `compress_failures` | are failures reported? | archive of 2 units, 2 cores, zlib may refuse a block | violated |
| `file_blocks` | are announced, written and read counts equal? | sizes 0 to 13, buffers 1 to 5, `Word` above all counts | holds |
| `archive` | what survives files that change? | trees of 2 and 3 entries, buffer 2, files up to 5 | holds |
| `remote` | order and number of answers, round trip, services, end of every call | 2 operations of all kinds, files of 2 and 3 blocks of which the third does not get smaller, 5 library directories, any number of launches and of streams that break or fall silent, exceptions, files that do not open | holds |
| `crypt` | who can decode, and what comes back? | 3 operations, passwords of 0 to 4 characters for an array of 3, header of 2 characters, plain files of 1 and 5, foreign headers, buffers 2 and 3, one `Set` | holds |
| `crypt_short` | does decoding with the password always restore the contents? | same | violated |

What the less obvious properties say. `Uncompressible` and `RestoresInOrder`:
what a job reported comes back, and an uncompression that started too early brings
back a part from the beginning. `SingleThreadWhole`: whatever failed or was set, a
success on one thread means that the output holds what `Archive` has made; that
this is the whole archive only `ImplementsPromise` says, where nothing fails.
`RestoresAllBlocks`: whatever failed or was set, `Dearchive` is given every block of
a complete output or an error is reported. Both except a write that failed, which
the code does not look for. `NothingLeft` and `EveryOperationEnds` cover both
directions: an operation returns and has removed its temporary files, or has thrown,
or the process has ended. `OnlyChangesUnsettle`: a file that changes before it is
measured or after it was copied does no harm to the archive. `AnswersInOrder` and
the refinement of `RemoteSpec`: right answers first, and others only after the
stream has broken. `OneAnswerEach`: one record for each block even then, so that
the file stays readable block by block. `RightKeyOnly` and `NotRefused`: passwords
that the array truncates or that meet their own end once encoded are refused to
everybody, never accepted in part. `Restores` and `RestoresPrefix` state the round
trip with the two conditions the code needs: both sources at least as long as a
header, and a buffer that was not changed or is a multiple of the password.

Other values of the constants show more of the same disagreements, without runs of
their own: `Misuse = {"reuses busy object"}` violates `OwnCallback`;
`Faults = {"archive"}` and `Faults = {"out"}` with several threads violate
`FailuresReported`; two jobs with one name violate `SingleThreadWhole` without its
condition `Own(j)`; `Word = 4` violates `PackedWhole`.

Known behaviours that are in the models and that no run singles out:

- an entry that cannot be read or reached while archiving may be lost without an
  error (`SkipUnreadable`, `Unreachable`, `ArchiveInputs`);
- jobs whose inputs have one stem (`a.txt` and `a.cpp`) or one parent directory
  write to one output in one directory: the later one replaces it, and two at a
  time garble it (`Opened`);
- exceptions leave temporary files and no callback, and on a pool thread end the
  process (`Throws`, `ReaderThrows`);
- a write that fails goes unnoticed (`WrittenInPart`);
- the assertion on the core count fails if `Set` lowers it in the middle of a
  compression, and buffers are overrun if it changes their size (`ProcessEnds`,
  `ReaderEndsProcess`);
- a remote operation whose server's host is lost waits for ever (`FallSilent`);
- `s_crypto` encodes the key as well and answers with everything it has encoded so
  far, so that what a remote encoding writes is not what `SymEncode` writes without
  RPC.

And some that are below what the models tell apart: `szSource[readBytes] = '\0'`
(`FileUtil4Zlib.cpp:530`) writes one character behind a full buffer; `CombainFiles`
(`FileUtilBase.cpp:438`, `444`) opens its files in text mode, which changes nothing
where lines end with one character and destroys compressed data on Windows; the
buffers of `CompressFileWithZlib` and `UncompressFileWithZlib` are never freed, since
the pointers that would be are shadowed.

Why the bounds are enough. Two threads and three operations give the pool every
overlap of a running handler, a queued one and one being posted, with a wait at any
point. Two operations are enough for the SDK, because its hazards are about pairs:
two operations that share an object, a string or a thread, one started inside the
callback of the other, one that a wait misses. The archives of `compress` include
the empty one, fewer units than threads, equally many, one with a remainder, and
pieces both larger and smaller than a thread's share of the buffer. Two jobs meet in
the clock, the directory and the output, at every step of both (`OneAtATime` leaves
out only that they are uncompressed meanwhile). With faults, an archive of three
units on two threads gives pieces of different length, and on one thread a full
block and a short one; two failures are enough for one to hide the other. `Set` is
left out (`FewFail`) where nothing reads the parameters before it is called again. The sizes
of `file_blocks` pass every multiple of every buffer, with up to thirteen reads. An
archive of three entries has one before, one at and one after a disturbed file,
and files of less than, exactly and more than one buffer. Two remote operations
meet in the channel and in the server, and the second may use the first one's
output; a break is possible before, between and after two blocks, and what was
compressed may be decompressed with two blocks that get smaller or a third that
does not. The two are alike, so that `Asked` has the first asked for first; and it
has the file of three blocks compressed before anything else is begun. In `crypt`, three
operations are an encoding, its decoding, and another encoding or a decoding with
another password; the six passwords are one of each kind (empty, shorter than the array,
containing its own end, filling the array, exceeding it), and `Asked` leaves out
only orders of names and third operations on inputs that are refused anyway.

Deadlock is not checked: in every model the system may stop, because the client
need not call again, a job has ended, or the process has exited. That nothing
stops too early is stated by the liveness properties.

Fairness. Each pool thread and each thread of a job is scheduled (weak fairness
of its next step, whatever that is); `join_all` returns when its threads have
left; handlers return; a failed assertion ends the process. Nothing is assumed of
exceptions, nor of buffers that are overrun: they need not happen. The application
owes nothing, callbacks need not post, and `Set` need not be called. An uncompression that was asked for is carried on by its
thread (`UFairness`). In `RemoteJobs` the pool threads (`ClientStep`) and the
handlers (`HandlerStep`) are scheduled; nothing is assumed of the server's
operator, and no stream need break or fall silent. `FileBlocks` is one sequential loop with weak
fairness of its step. `ArchiveStream` and `SymCrypto` state no liveness and have no
fairness.

What the violation runs show is listed under `findings`, each with the line that
promises something else.

## Proofs

All safety invariants and action properties that a passing run checks are proved
for every value of the constants, and so are the four refinements. Most rest on an
inductive invariant of the module (`IInv`); where a second one is added it is
proved under the first. The assumptions on the constants are the named
`...Assumption` of each module, which TLC evaluates on every run.

`ThreadPool_proofs`, for any non-empty set of threads and any set of operations
(`PoolAssumption`). The inductive invariant `PoolIInv` is

- `PoolTypeOK`, and `EarlyNotStranded`, as checked;
- `RunsOnce`, what boost's queue provides: a handler is queued once, or held by one
  thread, or finished. It is no property of this program and is used only here;
- `ThreadsInv`: a thread that is not up executes nothing, and one has left only if
  the service stopped;
- `PostedInv`: operations are posted to threads that exist, and those of `early`
  are queued, running or done until the process is gone;
- `StopInv`: while the process is not exiting, the service stops only inside a
  `JoinAll` that finds threads, and until the first of these has returned a stopped
  service has nothing queued or running.

`EarlyNotStranded` is not inductive without `PostedInv`, which accounts for the
operations a stopping service leaves, and `FirstJoinDrains` needs `StopInv`, which
distinguishes the first wait from later ones. From `PoolIInv` follow
`PoolTypeCorrect`, `PoolEarlyNotStranded`, the action property
`PoolFirstJoinDrains`, and `PoolImplementsAsyncOps`: every step of the pool maps to
a step or a stutter of `AsyncOps`.

`AsyncSdk_proofs` adds any set of objects and of strings (`SdkAssumption`) and a
client that keeps the rules (`RulesKept`, that is `Misuse = {}`). A step of the SDK
is a step of the pool or leaves the pool alone (`SdkStepIsPoolStep`), so `PoolIInv`
holds of it too (`SdkKeepsPool`), and the induction for `SdkIInv` may use it before
and after every step. `SdkIInv` adds to `SdkTypeOK`, `OwnCallback` and `OwnOutput`

- `PhaseInv` and `CallInv`, which tie a thread's phase, the pool's books and the
  callbacks made to each other: an operation has called back exactly in the second
  half of its handler and after it;
- `SlotInv`: the callback slot of an object holds the operation that is outstanding
  on it (`OwnCallback` says nothing of an operation that has yet to call back);
- `StringsApart` and `StringInv`: outstanding operations name different strings, and
  from `Prepare` to `OpenOutput` a string holds the path of its operation (this is
  what `OwnOutput` needs from one step to the next);
- `LiveInv`: the object of a handler at work, or of one that may still be taken, is
  alive and no wait has given it up. Without its second half an object could be
  released while its handler is queued; `waited` may be trusted because a wait that
  returns finds every thread gone (`ExitedFacts`).

It gives `SdkTypeCorrect`, `SdkOwnCallback`, `SdkNoUseAfterRelease`, `SdkOwnOutput`
and, with `EarlyNotStranded`, `SdkImplements`: the SDK implements `AsyncOps` with the
callback, not the end of the handler, as the completion of an operation.

`FileBlocks_proofs`, for any sets of sizes and buffers and any word size whose
range holds the counts (`FitsWord`): `IInv` says how many bytes have been restored
as a function of `left`, with a case for the rounds after the short read; the
remaining conjuncts tie `packed` to `pos`. The four safety properties follow. The
arithmetic of rounding up is in the lemmas before it.

`ArchiveStream_proofs`, for any trees, sizes, changes of size and buffer
(`StreamAssumption`). `PrefixIntact` and `OnlyChangesUnsettle` speak of counts of
bytes in a stream that has been written by many steps, and of a reader that has
only announced sizes to go by; by themselves they say nothing of where a header
is. `IInv` says that there are a number of segments, their entries `P` and their
places `off` such that

- `Places`: segments follow each other without a gap, those of earlier entries
  first, one for each entry that has been begun;
- `Segments`: each is the header of its entry and then bytes 1, 2, 3 ... of its
  file;
- `LastInv`: the file being archived is the last one;
- `SizeInv`: a file that never changed was measured as it was, and one that has the
  size it was measured with was copied so;
- `ReadInv`: as long as the headers of the first segments tell the truth (`Calm`),
  the reader stands at the beginning of a segment, or is past them all with each
  entry restored as it was. The number of segments it has passed is the length of
  `restored`, so that one unfaithful header is enough to lose everything after it
  and nothing before.

`Invariance`, `TypeCorrect`, `ChangesUnsettle` and `IntactPrefix` are the theorems.

`CompressJobs_proofs`, for any jobs, sizes, kinds, settings and faults
(`JobsAssumption`), with outputs shared in any way and `Set` called at any time: `IInv`
has for each job

- `LocalInv`: what belongs to several threads is as it was declared until
  `CompressWithMT` counts the cores, so that the pieces and results of a job are
  never more than the cores it counted, whatever `Set` does to the count; and
  results are combined in an output that has a name;
- `ThreadInv`: a thread has no result file yet, is its job's only thread, or its
  result file bears its number.

`ResultsApart` alone is not inductive: it does not say why the file that a thread
opens next is none of those already open. With `ThreadInv` it follows whatever
times the threads have read, since numbers differ. `TypeCorrect` and `FilesApart`
are these theorems.

`FInv`, under `IInv`, is about files, and still about every fault and every `Set`:

- `Stage` and `Crew`: which temporary files and which threads a job has at each
  point, and that they bear a time read by one of its own threads;
- `Places`: a temporary file that exists is one its job is going to remove; an
  output that no other job has begins with a header from the moment it exists;
- `Progress`: what a thread has written is, uncompressed, what it has read, and all
  of it if it ended without an error; if nobody else writes there (`Mine`) and no
  write has failed;
- `Whole`: the temporary archive holds what `Archive` has made, and then so does the
  output of one thread that has returned without an error.

`WholeOnOneThread` (`SingleThreadWhole`) follows from it. `Progress` alone is not
inductive: another job could write to the file that is read, were it not for
`Places`, which ties every temporary name to one job; `NothingLeft` needs the same
conjunct. Exceptions and the end of the process change no file and no local
variable, and nothing follows them in that job.

`BInv`, under both and `Undisturbed` (no faults, no `Set`: with either of them the
promise is broken, as the run `compress_failures` shows): no time is read twice by
a thread (`ClockInv`), so the pieces of a job, which one thread names, do not
overwrite each other (`CalmPieces`); every piece is its part of the archive; every
block fits the buffer and none is torn (`CalmThread`); an output of its own is the
archive up to the beginning of the piece that is joined next (`CalmOutput`).
`Promised` is the refinement of `CompressSpec`: each step of a job with its own
output appends to it, reports, or maps to a stutter, and every step of the others
is a stutter of it.
`Promise!Next` needs `FInv` before and after the step, since the output is a fold
over blocks; the lemmas on joining files (`JoinsValues` and those before it) say
what the fold does to one more block.

`UncompressJobs_proofs` EXTENDS these. A step of a reader writes to its own
temporary file and to nothing of a job (`Aside`), so that `IInv`, `FInv` and `BInv`
hold next to readers, and with them `TypesNextToReaders`,
`FilesApartNextToReaders`, `WholeNextToReaders` and `PromisedNextToReaders`. In the
other direction a reader is not disturbed by a job whose output only grows
(`Grows`, `ReaderStays`). `RInv` says for each reader that its output is its job's own, that
what it has written, or given to `Dearchive`, are the units of the first `pos` blocks
of the output unless a write has failed, that `pos` is within the output, and that a
reader that found its job done ends at the last block. `AllBlocks`
(`RestoresAllBlocks`) and `NoneLeft` (`NothingLeft`) hold with every fault and every
`Set`. `InOrder` (`RestoresInOrder`) and `CanUncompress` (`Uncompressible`) need
`Undisturbed` and `BInv`: blocks that fit the buffer, which nobody has made smaller
since it was allocated, and an output that is always a prefix of the archive.

`SymCrypto_proofs`, for any passwords, key of the library, sizes of header, array
and buffers, and inputs that are files and carry no operation's stamp
(`CryptoAssumption`). Lemmas first: `CodedTwice` (encoding twice with one key is
the identity), `AttachedKey` (a header made by `Attach` that is valid gives back the
whole password) and `AttachedValid` (for a password that the header can hold it is
valid). `IInv` is

- `TypeOK` and `ShapeInv`, which records keep their fields;
- `HeadsInv`: every header in a file, in memory or in an operation that bears an
  operation's stamp is what `Attach` makes of that operation's password, and that
  operation will not change it; without the part about memory nothing could be said
  of files that are too short;
- `OutInv`: encoders and decoders write to different names, and a decoder that has
  a name has found a valid header with its own password;
- `FoundInv`: from the moment it was asked for, the source of a decoding stays what
  it was, since nobody encodes meanwhile.

`RightKeyOnly` follows from `HeadsInv`, `OutInv` and `AttachedKey`; `NotRefused` is
the last part of `FoundInv`, which needs `AttachedValid` in `Prepare`.

For the contents there is a second invariant under `IInv`, `CInv` with `TracesInv`:

- `OneEach`: one encoder and one decoder at a time, as the client keeps it;
- `PlacesInv`: what is encoded is the input, to one name, and from there it is
  decoded;
- `EncodedInv`: what has been encoded is character for character the input combined
  with `Pad`, the character of the key that falls on each place when the key starts
  anew with every buffer; while the loop runs its length is a multiple of the
  buffer, and at the end that of the input;
- `DecodedInv`: what has been decoded is the input, character for character, under
  the same alignment;
- `TracesInv`: whoever has written a header has an output.

`Restores` and `RestoresPrefix` are not inductive, because they speak of operations
that have ended. The alignment is needed because a block that began elsewhere would
meet another character of the key. `Set` keeps it only if every size is a multiple
of the key's length, so that the contents are claimed under `Good`, the condition
that both properties state: the size was never set, or all sizes are such
multiples. `DecodedInv` claims the contents for a decoding of one encoding, or of
several with the same password, which is how a file that is encoded anew while it is
decoded gives back a beginning. `WholeRestored` and `BeginningRestored` are the theorems.

`RemoteJobs_proofs`, for any operations, kinds, lengths, keys, faults and library
directories, provided that a block is no larger than what the handlers take
(`RemoteAssumption`). `IInv` adds to `TypeOK`

- `ServerInv`: what is registered are the three services once for one library, and
  some of them twice from the second on, and nothing of it survives the process;
- `StageInv`: the stage of an operation and the state of its stream belong together;
- `TurnInv`: messages are in the stream only while the client waits, and exactly
  one while the stream is there;
- `CountInv`: how many answers have been written at each stage, opened or not;
- `KeyInv`: from its first answer on the handler has the key;
- `AnswerInv`: while nothing is lost, what is on its way or written are the right
  answers.

`TakesTurns` alone is not inductive: that the stream is empty when the client
writes needs `StageInv`, and `KeyIsNoData` needs to know that the key is the
first message of all. That the handlers never refuse a message of these clients
follows from `RemoteAssumption` and is part of the invariant. From `IInv` follow type
correctness, `ServesAll`, `TakesTurns`, `KeyIsNoData`, `OneAnswerEach` and `RoundTrip`.

`OInv` adds what `AnswersInOrder` needs, which says what is in the file and nothing
of what comes next: the response object holds the last answer unless the client
cleared it (`RespInv`), `s_crypto` has gathered exactly what it was sent
(`GatherInv`), an answer on its way is the right one even when the stream breaks
behind it (`NextInv`), and the output is some right answers followed by copies of
what was left in the response, the latter only when the stream has broken and
nothing is to come (`SplitInv`). `Answers` is `AnswersInOrder`; `KeepsPromise` is the
refinement of `RemoteSpec`. Its mapping chooses the greatest number of right
answers; the lemmas before it show that there is one (`RightThere`) and what becomes
of it when one more answer is written.

How the proofs deal with data. Contents are compared place by place where the
model allows it, so that a step is an argument about the places it adds
(`SymCrypto`, `ArchiveStream`). Where a definition folds over a sequence
(`FlattenSeq` in `CompressJobs`) it is a recursive function, of which the provers
know nothing before it is shown to exist. The library's induction theorems take an
operator as a parameter, which no installed prover can instantiate;
`NatSetInduction` is the same for a set of numbers and follows from the least
element that a well-founded order has (`WFMin`). With it `JoinThere` shows that the
function exists, and `FlattenAppend` and `FlattenConcat` what one more block or file
adds. The greatest number of right answers in `RemoteJobs` comes from `WFMin` too
(`GreatestThere`).

Only model-checked: the liveness properties (`JoinTerminates`, `CallsBack`,
`EveryOperationEnds`, `EveryCallEnds`, `Ends`), since fairness and ENABLED are beyond
the prover. The abstract specifications state safety only, so that their refinements
are proved entirely. The four violations are counterexamples and stay with TLC.

## Not modelled

- `GlobalConfig`: one read of a JSON file when a factory is created. The modules take
  RPC as on or off while operations run; a second factory that reads another
  configuration in the middle of an operation is listed as a hazard.
- `RebuildPath`, the paths stored in the archive and the names in `FileHead`: text.
- MD5 and zlib: pure functions that TLC could compare only with themselves. The
  signature is the tuple of what is signed.
- Two encodings at a time, `Set` during an encoding, and a remote uncompression of
  what was compressed with larger blocks: the code then overruns buffers or mixes
  files, and what follows is not defined.
- Plain files that happen to look like headers, and passwords of more than one
  buffer.
- In remote operations the temporary files, which are those of `CompressJobs`, shared
  outputs, writes that fail, and the status of `Finish`, which is only printed; the
  data race on the channel's `shared_ptr`.
- A buffer smaller than the number of threads; what is left of a buffer that was
  overrun where the process goes on, beyond what `Spoilt` says.
- What an output holds to which two jobs write: the model says that it is not to be
  read (`Torn`), and the client does not uncompress it.
- `ArchiveStream` with writes that fail, and outputs of `Dearchive` that do not open;
  `CompressJobs` has both in `Spoilt`.
- The wording of messages and logs, build scripts, and what the process does when
  memory or threads run out.

What is left that would add something: the paths of directories in `ArchiveStream`.
