----------------------------- MODULE CompressJobs -----------------------------
(***************************************************************************)
(* CFileUtil4Zlib::Compress without RPC: every job archives its inputs     *)
(* into a temporary file and compresses that file block by block, on its   *)
(* own thread or, with more than one core, in pieces on one thread each.   *)
(* Jobs run at the same time on the threads of the pool and share the      *)
(* directory of temporary files, the clock that names them, and the        *)
(* parameters of CCustomParamManager.                                      *)
(*                                                                         *)
(* An archive is a sequence of units, unit k of job j being <<j, k>>; a    *)
(* compressed file is a sequence of blocks, each the sequence of units it  *)
(* was compressed from, and its header is written as an empty block.  A    *)
(* block is never longer than the units it was compressed from, except     *)
(* that blocks may be "dense"; a file that is written in part ends between *)
(* two blocks or within one.  There is memory for every buffer.            *)
(***************************************************************************)
EXTENDS Integers, SequencesExt

CONSTANTS
    Jobs,
    Names,          \* output paths that the inputs may lead to
    Sizes,          \* possible sizes of an archive, in units
    Kinds,          \* possible inputs: "plain", "packed" (a .zb file), "short", "missing"
    Settings,       \* values of <core count, buffer size> given to Set
    MaySet,         \* the application calls Set while jobs run
    Faults          \* what may fail, see the uses; "dense" is no failure but data
                    \* that zlib makes longer

ASSUME JobsAssumption ==
    /\ Sizes \subseteq Nat
    /\ Kinds \subseteq {"plain", "packed", "short", "missing"}
    /\ \A s \in Settings : s.cores \in Nat \ {0} /\ s.buff \in Nat /\ s.buff >= s.cores
    /\ MaySet \in BOOLEAN
    /\ Faults \subseteq {"archive", "prepare", "temp", "out", "block", "write", "throw",
                        "dense", "dearchive"}

VARIABLES
    param,      \* CCustomParamManager
    files,      \* contents of the files that exist, by name
    ticks,      \* <<thread, time>>: the times each thread has read
    input,      \* kind, archive size and name of each job's input
    job,        \* the local variables of Compress and CompressWithMT
    comp,       \* the threads of each job in CompressFileWithZlib
    thrown,     \* jobs whose caller got an exception
    ended       \* the process has ended

vars == <<param, files, ticks, input, job, comp, thrown, ended>>

NoPath == [kind |-> "no path", time |-> <<>>, seq |-> 0]

\* PrepareCompress makes the output's name from the stem of the input, or from
\* the directory above several inputs: other inputs may lead to the same path.
OutPath(j) == [kind |-> "out", time |-> <<input[j].name>>, seq |-> 0]
Own(j) == \A k \in Jobs \ {j} : OutPath(k) # OutPath(j)

Header == <<>>
Garbled == <<>>         \* in place of a unit: bytes that are no unit of any job
Torn == <<Garbled>>     \* a block of which only the first part is there

Units(j, lo, hi) == [k \in 1..(hi - lo) |-> <<j, lo + k>>]
Archived(j) == Units(j, 0, input[j].size)

Exists(f) == f \in DOMAIN files
Content(f) == IF Exists(f) THEN files[f] ELSE <<>>
Written(f, content) == [g \in DOMAIN files \cup {f} |-> IF g = f THEN content ELSE files[g]]
Without(names) == Restrict(files, DOMAIN files \ names)

MinOf(a, b) == IF a < b THEN a ELSE b

\* The buffer size may change, and change back, between two calls of
\* GetBuffSize.
MayResize == MaySet /\ \E s, t \in Settings : s.buff # t.buff

\* What is left of content if an input cannot be read, a write fails on the way,
\* or one buffer is copied as if it had another size.
Spoilt(content) ==
    IF content = <<>> THEN {}
    ELSE {Front(content), Tail(content), Append(Front(content), Garbled)}

\* The results of writing blocks at the end of content to a stream that fails
\* while it does (or has failed before): the code never looks.
WrittenInPart(content, bad, blocks) ==
    LET whole == {content \o SubSeq(blocks, 1, k) : k \in 0..(Len(blocks) - 1)}
    IN  IF bad THEN {content} ELSE whole \cup {Append(w, Torn) : w \in whole}

-------------------------------------------------------------------------------
(* Names of temporary files: GetTmpMiddleFile *)

\* A thread never reads the same time twice, but another thread of its job may
\* read it too.  Times are compared for equality only, so the n-th time read by
\* a thread is <<thread, n>> unless it coincides with one read by a sibling.
TimesOf(th) == {p[2] : p \in {q \in ticks : q[1] = th}}

SiblingTimes(th) == {p[2] : p \in {q \in ticks : q[1][1] = th[1]}}

Now(th) ==
    (SiblingTimes(th) \ TimesOf(th)) \cup {<<th, Cardinality(TimesOf(th))>>}

\* Faulty forms: the thread number is left out, or taken whatever it is.
TmpNameShared(kind, time, threadID) == [kind |-> kind, time |-> time, seq |-> 0]
TmpNameAny(kind, time, threadID) == [kind |-> kind, time |-> time, seq |-> threadID]

\* The thread number is part of a result's name only if it is positive.
TmpName(kind, time, threadID) ==
    [kind |-> kind, time |-> time, seq |-> IF threadID > 0 THEN threadID ELSE 0]

Main(j) == <<j, -1>>

-------------------------------------------------------------------------------
(* How work is shared out among n threads *)

\* CutFileIntoPieces: first unit (from 0) of piece i, for i in 0..n, of a file
\* of total units.
PieceStart(total, n, i) == IF i = n THEN total ELSE i * (total \div n)

\* CompressWithMT: the buffer of thread i.
ThreadBuff(buff, n, i) ==
    IF i = n - 1 THEN buff - (buff \div n) * (n - 1) ELSE buff \div n

-------------------------------------------------------------------------------
Init ==
    /\ param \in Settings
    /\ files = <<>>
    /\ ticks = {}
    /\ input \in [Jobs -> [kind : Kinds, size : Sizes, name : Names]]
    /\ job = [j \in Jobs |-> [pc |-> "check", err |-> "none", made |-> <<>>,
                              arch |-> NoPath, out |-> NoPath, n |-> 0, pieces |-> <<>>,
                              joined |-> 0, bad |-> FALSE]]
    /\ comp = [j \in Jobs |-> <<>>]
    /\ thrown = {}
    /\ ended = FALSE

At(j, pc) == job[j].pc = pc
Goto(j, pc) == job' = [job EXCEPT ![j].pc = pc]

\* CCustomParamManager::Set, by the application thread at any time.
Set(s) ==
    /\ MaySet
    /\ param # s
    /\ param' = s
    /\ UNCHANGED <<files, ticks, input, job, comp>>

-------------------------------------------------------------------------------
(* Execute, and Compress *)

\* Execute ends the operation itself if an input does not exist.
InputMissing(j) ==
    /\ At(j, "check")
    /\ input[j].kind = "missing"
    /\ job' = [job EXCEPT ![j].pc = "notify", ![j].err = "no input"]
    /\ UNCHANGED <<param, files, ticks, input, comp>>

\* A single regular file that already is a .zb file is refused.  If the file
\* is shorter than a header, the header examined is partly uninitialized.
CheckInput(j) ==
    /\ At(j, "check")
    /\ \/ /\ input[j].kind \in {"packed", "short"}
          /\ job' = [job EXCEPT ![j].pc = "notify", ![j].err = "repeat"]
       \/ /\ input[j].kind \in {"plain", "short"}
          /\ Goto(j, "archive")
    /\ UNCHANGED <<param, files, ticks, input, comp>>

\* Archive (entry by entry in ArchiveStream and FileBlocks), of which the caller
\* learns little: the error of an entry is overwritten by the next one, an input
\* that cannot be opened or a write that fails makes none at all, nor does it if
\* the temporary file cannot be created; and a buffer that changes its size while
\* an entry is copied spoils it silently.
ArchiveInputs(j) ==
    /\ At(j, "archive")
    /\ \E t \in Now(Main(j)) :
        LET name == TmpName("compress_tmp", t, -1)
            Ends(err, content) ==
                job' = [job EXCEPT ![j].pc = "prepare", ![j].arch = name,
                                   ![j].err = err, ![j].made = content]
        IN  /\ ticks' = ticks \cup {<<Main(j), t>>}
            /\ \/ files' = Written(name, Archived(j)) /\ Ends("none", Archived(j))
               \/ /\ "archive" \in Faults \/ MayResize
                  /\ \E content \in Spoilt(Archived(j)), err \in {"none", "archive"} :
                        files' = Written(name, content) /\ Ends(err, content)
               \/ "temp" \in Faults /\ UNCHANGED files /\ Ends("none", <<>>)
    /\ UNCHANGED <<param, input, comp>>

\* PrepareCompress composes the output path; it catches its exceptions, and
\* the path is then what it was.
PrepareCompress(j) ==
    /\ At(j, "prepare")
    /\ \/ job' = [job EXCEPT ![j].pc = "dispatch", ![j].out = OutPath(j)]
       \/ "prepare" \in Faults /\ Goto(j, "dispatch")
    /\ UNCHANGED <<param, files, ticks, input, comp>>

Compressor(src, dst, buff) ==
    [st |-> "open", src |-> src, dst |-> dst, buff |-> buff, pos |-> 0, err |-> "none",
     bad |-> FALSE]

Dispatch(j) ==
    /\ At(j, "dispatch")
    /\ \/ param.cores > 1 /\ Goto(j, "mt") /\ UNCHANGED comp
       \/ /\ param.cores = 1
          /\ Goto(j, "single")
          /\ comp' = [comp EXCEPT ![j] =
                [i \in {0} |-> Compressor(job[j].arch, job[j].out, param.buff)]]
    /\ UNCHANGED <<param, files, ticks, input>>

\* Faulty form: keeps the result of Archive.
SingleReturnsUnheard(j) ==
    /\ At(j, "single")
    /\ comp[j][0].st = "closed"
    /\ Goto(j, "remove")
    /\ UNCHANGED <<param, files, ticks, input, comp>>

\* The single compression has returned; its error replaces Archive's.
SingleReturns(j) ==
    /\ At(j, "single")
    /\ comp[j][0].st = "closed"
    /\ job' = [job EXCEPT ![j].pc = "remove", ![j].err = comp[j][0].err]
    /\ UNCHANGED <<param, files, ticks, input, comp>>

RemoveArchive(j) ==
    /\ At(j, "remove")
    /\ files' = Without({job[j].arch})
    /\ Goto(j, "notify")
    /\ UNCHANGED <<param, ticks, input, comp>>

\* m_onFinished(nError), and the same nError is returned.
Notify(j) ==
    /\ At(j, "notify")
    /\ Goto(j, "done")
    /\ UNCHANGED <<param, files, ticks, input, comp>>

-------------------------------------------------------------------------------
(* CompressWithMT *)

\* The core count is read again, and asserted to be more than 1.
StartMT(j) ==
    /\ At(j, "mt")
    /\ param.cores > 1
    /\ job' = [job EXCEPT ![j].pc = "cut", ![j].n = param.cores]
    /\ UNCHANGED <<param, files, ticks, input, comp>>

\* The loop of CutFileIntoPieces ends: all pieces are there, or the archive is
\* read to its end (one that cannot be opened counts as empty).
NoMorePieces(j) ==
    LET total == Len(Content(job[j].arch))
        cut   == Len(job[j].pieces)
    IN  cut = job[j].n \/ PieceStart(total, job[j].n, cut) >= total

\* One round of the loop in CutFileIntoPieces.  A piece is written byte by byte,
\* and none after a write has failed.
CutPiece(j) ==
    /\ At(j, "cut")
    /\ ~NoMorePieces(j)
    /\ \E t \in Now(Main(j)) :
        LET name    == TmpName("mt_split", t, -1)
            content == files[job[j].arch]
            First(i) == PieceStart(Len(content), job[j].n, i)
            i       == Len(job[j].pieces)
        IN  /\ ticks' = ticks \cup {<<Main(j), t>>}
            /\ job' = [job EXCEPT ![j].pieces = Append(@, name)]
            /\ \/ files' = Written(name, SubSeq(content, First(i) + 1, First(i + 1)))
               \/ /\ "write" \in Faults
                  /\ \E last \in First(i)..(First(i + 1) - 1) :
                        files' = Written(name, SubSeq(content, First(i) + 1, last))
               \/ "temp" \in Faults /\ UNCHANGED files
    /\ UNCHANGED <<param, input, comp>>

\* Threads start only if there is a piece for each; whatever error cutting
\* returned has by then been replaced.  An exception ends the loop early.
StartThreads(j) ==
    /\ At(j, "cut")
    /\ NoMorePieces(j) \/ "throw" \in Faults
    /\ \/ /\ Len(job[j].pieces) # job[j].n
          /\ job' = [job EXCEPT ![j].pc = "clean", ![j].err = "mismatch"]
          /\ UNCHANGED comp
       \/ /\ Len(job[j].pieces) = job[j].n
          /\ job' = [job EXCEPT ![j].pc = "join", ![j].err = "none"]
          /\ comp' = [comp EXCEPT ![j] =
                [i \in 0..(job[j].n - 1) |->
                    Compressor(job[j].pieces[i + 1], NoPath,
                               ThreadBuff(param.buff, job[j].n, i))]]
    /\ UNCHANGED <<param, files, ticks, input>>

AllClosed(j) == \A i \in DOMAIN comp[j] : comp[j][i].st = "closed"

\* The output is open for writing, by CombainFiles or on one thread.
BeingWritten(j) ==
    \/ At(j, "combine")
    \/ At(j, "single") /\ comp[j][0].st = "loop"

\* An output that is opened is emptied and gets its header.  If another job is
\* writing to it, that job goes on at its own place in the file, and what follows
\* the header is not to be read any more.
Opened(j) ==
    IF \E k \in Jobs \ {j} : OutPath(k) = OutPath(j) /\ BeingWritten(k)
    THEN <<Header, Torn>> ELSE <<Header>>

\* join_all, then CombainFiles opens the output and writes the header; it does
\* not look whether the output opened.
OpenCombined(j) ==
    /\ At(j, "join")
    /\ AllClosed(j)
    /\ \/ /\ job[j].out # NoPath
          /\ files' = Written(job[j].out, Opened(j))
          /\ Goto(j, "combine")
       \/ /\ job[j].out = NoPath \/ "out" \in Faults
          /\ UNCHANGED files
          /\ Goto(j, "clean")
    /\ UNCHANGED <<param, ticks, input, comp>>

\* One round of the loop of CombainFiles: the results are appended in the order
\* of the threads; one that does not exist adds nothing.
AppendResult(j) ==
    /\ At(j, "combine")
    /\ job[j].joined < job[j].n
    /\ LET sofar  == Content(job[j].out)
           result == Content(comp[j][job[j].joined].dst)
       IN  \/ /\ ~job[j].bad
              /\ files' = Written(job[j].out, sofar \o result)
              /\ job' = [job EXCEPT ![j].joined = @ + 1]
           \/ /\ "write" \in Faults
              /\ \E content \in WrittenInPart(sofar, job[j].bad, result) :
                    files' = Written(job[j].out, content)
              /\ job' = [job EXCEPT ![j].joined = @ + 1, ![j].bad = TRUE]
    /\ UNCHANGED <<param, ticks, input, comp>>

\* Faulty form: the result of the last thread is forgotten.
CloseCombinedEarly(j) ==
    /\ At(j, "combine")
    /\ job[j].joined = job[j].n - 1
    /\ Goto(j, "clean")
    /\ UNCHANGED <<param, files, ticks, input, comp>>

CloseCombined(j) ==
    /\ At(j, "combine")
    /\ job[j].joined = job[j].n
    /\ Goto(j, "clean")
    /\ UNCHANGED <<param, files, ticks, input, comp>>

\* The intermediate files are removed, however the loop was left.
CleanUp(j) ==
    /\ At(j, "clean")
    /\ files' = Without(ToSet(job[j].pieces) \cup {comp[j][i].dst : i \in DOMAIN comp[j]})
    /\ Goto(j, "remove")
    /\ UNCHANGED <<param, ticks, input, comp>>

-------------------------------------------------------------------------------
(* CompressFileWithZlib on thread i of job j, alone (bMT = false) or after     *)
(* CompressAFile has named its result.                                         *)

Multi(j) == At(j, "join")
Open(j, i) ==
    LET c == comp[j][i]
        Opens(dst) ==
            \/ /\ ~Exists(c.src)
               /\ comp' = [comp EXCEPT ![j][i].dst = dst, ![j][i].st = "closed",
                                       ![j][i].err = "in open"]
               /\ UNCHANGED files
            \/ /\ Exists(c.src)
               /\ dst = NoPath \/ (IF Multi(j) THEN "temp" ELSE "out") \in Faults
               /\ comp' = [comp EXCEPT ![j][i].dst = dst, ![j][i].st = "closed",
                                       ![j][i].err = "out open"]
               /\ UNCHANGED files
            \/ /\ Exists(c.src)
               /\ dst # NoPath
               /\ comp' = [comp EXCEPT ![j][i].dst = dst, ![j][i].st = "loop"]
               /\ files' = Written(dst, IF Multi(j) THEN <<>> ELSE Opened(j))
    IN  /\ c.st = "open"
        /\ \/ ~Multi(j) /\ Opens(c.dst) /\ UNCHANGED ticks
           \/ /\ Multi(j)
              /\ \E t \in Now(<<j, i>>) :
                    /\ ticks' = ticks \cup {<<<<j, i>>, t>>}
                    /\ Opens(TmpName("mt_result", t, i))
        /\ UNCHANGED <<param, input, job>>

\* One round of the loop: read at most a buffer, compress, append.  compress2
\* is told the buffer size that is configured now (as an int, where it takes a
\* longer type, so that it may find more); nobody looks whether the write went
\* through.
CompressBlock(j, i) ==
    LET c     == comp[j][i]
        next  == MinOf(c.pos + c.buff, Len(files[c.src]))
        block == SubSeq(files[c.src], c.pos + 1, next)
    IN  /\ c.st = "loop"
        /\ c.pos < Len(files[c.src])
        /\ \/ /\ ~c.bad
              /\ files' = Written(c.dst, Append(Content(c.dst), block))
              /\ comp' = [comp EXCEPT ![j][i].pos = next]
           \/ /\ "write" \in Faults
              /\ \E content \in WrittenInPart(Content(c.dst), c.bad, <<block>>) :
                    files' = Written(c.dst, content)
              /\ comp' = [comp EXCEPT ![j][i].pos = next, ![j][i].bad = TRUE]
           \/ /\ "block" \in Faults \/ next - c.pos > param.buff
              /\ comp' = [comp EXCEPT ![j][i].st = "closed", ![j][i].err = "zlib"]
              /\ UNCHANGED files
        /\ UNCHANGED <<param, ticks, input, job>>

Close(j, i) ==
    LET c == comp[j][i]
    IN  /\ c.st = "loop"
        /\ c.pos >= Len(files[c.src])
        /\ comp' = [comp EXCEPT ![j][i].st = "closed"]
        /\ UNCHANGED <<param, files, ticks, input, job>>

-------------------------------------------------------------------------------
(* Exceptions, and the end of the process *)

\* Uncaught: Execute and Compress ask for files and their kinds, Archive asks
\* whether each input exists (of the last ones when the archive has been begun),
\* GetTmpMiddleFile for the directory of temporary files, and removing a file may
\* throw, the first one as well as any other.
Throwing(j) ==
    /\ "throw" \in Faults
    /\ \/ job[j].pc \in {"check", "archive", "clean", "remove"}
       \/ At(j, "prepare") /\ job[j].made # Archived(j)

\* The caller of Compress gets the exception.
Throws(j) ==
    /\ Throwing(j)
    /\ thrown' = thrown \cup {j}
    /\ UNCHANGED <<param, files, ticks, input, job, comp, ended>>

\* Larger blocks than the thread's buffer has room for are written behind it.
Overruns(j, i) ==
    /\ comp[j][i].st = "loop"
    /\ "dense" \in Faults
    /\ comp[j][i].buff < param.buff

\* The process may end: by the assertion of CompressWithMT, behind a buffer that
\* Archive or CatStream has allocated before Set, or behind that of a thread, and
\* by an exception that has no caller, on a thread of the pool or of the job.
ProcessEnds(j) ==
    /\ \/ At(j, "mt") /\ param.cores = 1
       \/ MayResize /\ job[j].pc \in {"archive", "combine"}
       \/ Throwing(j)
       \/ \E i \in DOMAIN comp[j] :
            \/ Overruns(j, i)
            \/ "throw" \in Faults /\ Multi(j) /\ comp[j][i].st = "open"
    /\ ended' = TRUE
    /\ UNCHANGED <<param, files, ticks, input, job, comp, thrown>>

-------------------------------------------------------------------------------
JobStep(j) ==
    /\ ~ended
    /\ j \notin thrown
    /\ \/ InputMissing(j) \/ CheckInput(j) \/ ArchiveInputs(j) \/ PrepareCompress(j)
       \/ Dispatch(j) \/ SingleReturns(j) \/ RemoveArchive(j) \/ Notify(j)
       \/ StartMT(j) \/ CutPiece(j) \/ StartThreads(j)
       \/ OpenCombined(j) \/ AppendResult(j) \/ CloseCombined(j) \/ CleanUp(j)
    /\ UNCHANGED <<thrown, ended>>

ThreadStep(j, i) ==
    /\ ~ended
    /\ Open(j, i) \/ CompressBlock(j, i) \/ Close(j, i)
    /\ UNCHANGED <<thrown, ended>>

JobFails(j) ==
    /\ ~ended
    /\ j \notin thrown
    /\ Throws(j) \/ ProcessEnds(j)

Next ==
    \/ ~ended /\ (\E s \in Settings : Set(s)) /\ UNCHANGED <<thrown, ended>>
    \/ \E j \in Jobs : JobStep(j) \/ JobFails(j) \/ \E i \in DOMAIN comp[j] : ThreadStep(j, i)

\* Each thread is scheduled, and a failed assertion ends the process; nothing is
\* assumed of Set, of exceptions or of buffers that are overrun.
ThreadNumbers == 0..(Max({s.cores : s \in Settings}) - 1)

Fairness ==
    \A j \in Jobs :
        /\ WF_vars(JobStep(j) \/ (At(j, "mt") /\ JobFails(j)))
        /\ \A i \in ThreadNumbers : WF_vars(i \in DOMAIN comp[j] /\ ThreadStep(j, i))

Spec == Init /\ [][Next]_vars /\ Fairness

-------------------------------------------------------------------------------
(* Properties *)

Errors == {"none", "no input", "repeat", "archive", "mismatch", "in open", "out open", "zlib"}

TypeOK ==
    /\ param \in Settings
    /\ \A f \in DOMAIN files :
        /\ f.kind \in {"out", "compress_tmp", "mt_split", "mt_result", "uncompress_tmp"}
        /\ f.seq \in Nat
    /\ \A p \in ticks : p[1][1] \in Jobs
    /\ input \in [Jobs -> [kind : Kinds, size : Sizes, name : Names]]
    /\ thrown \subseteq Jobs
    /\ ended \in BOOLEAN
    /\ \A j \in Jobs :
        /\ job[j].err \in Errors
        /\ job[j].out \in {NoPath, OutPath(j)}
        /\ Len(job[j].pieces) <= job[j].n
        /\ job[j].joined \in 0..job[j].n
        /\ \A i \in DOMAIN comp[j] :
            /\ comp[j][i].st \in {"open", "loop", "closed"}
            /\ comp[j][i].buff \in Nat
            /\ comp[j][i].err \in Errors

Done(j) == At(j, "done")
Reports(j, err) == Done(j) /\ job[j].err = err

\* A file that holds a compressed archive from beginning to end.
Holds(f, archive) ==
    /\ Exists(f)
    /\ files[f] # <<>>
    /\ Head(files[f]) = Header
    /\ FlattenSeq(files[f]) = archive

\* On one thread success means that the output holds what Archive has made, even
\* if anything fails or Set is called, except that a write may fail unnoticed;
\* and provided that no other job writes to the same output.
SingleThreadWhole ==
    \A j \in Jobs :
        /\ Reports(j, "none")
        /\ job[j].pieces = <<>>
        /\ Own(j)
        /\ ~comp[j][0].bad
        => Holds(job[j].out, job[j].made)

\* Threads of a job never write to one result file, even if they read the same
\* time: the thread number is in the name.
ResultsApart ==
    \A j \in Jobs : \A i, k \in DOMAIN comp[j] :
        i # k /\ comp[j][i].dst = comp[j][k].dst => comp[j][i].dst = NoPath

\* The job implements the promise made to its caller, if its output is its own:
\* jobs that share one do not disturb those that do not.
OutputOf(j) ==
    CASE ~Own(j) \/ ~Exists(OutPath(j)) -> "none"
      [] Own(j) /\ Holds(OutPath(j), Archived(j)) -> "whole"
      [] OTHER -> "partial"

Promise == INSTANCE CompressSpec WITH
    report <- [j \in Jobs |-> IF ~Own(j) \/ ~Done(j) THEN "pending"
                              ELSE IF job[j].err = "none" THEN "ok" ELSE "error"],
    output <- [j \in Jobs |-> OutputOf(j)]

ImplementsPromise == Promise!Spec

-------------------------------------------------------------------------------
(* What comments say, and the code does not do *)

\* common/Errors.h has an error for an input that vanishes while it is archived,
\* for a zlib failure and for an output that cannot be opened.  Compress replaces
\* the first by the result of the compression, a thread of CompressWithMT drops
\* the second, and CombainFiles does not look for the third.
FailuresReported ==
    \A j \in Jobs : Reports(j, "none") =>
        /\ job[j].made = Archived(j)
        /\ \A i \in DOMAIN comp[j] : comp[j][i].err = "none"
        /\ Exists(job[j].out)
===============================================================================
