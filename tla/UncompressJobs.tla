---------------------------- MODULE UncompressJobs ----------------------------
(***************************************************************************)
(* CFileUtil4Zlib::Uncompress without RPC, next to the jobs of             *)
(* CompressJobs: the output of a job is uncompressed block by block into a *)
(* temporary file, from which the inputs are restored.  A client may ask   *)
(* for that at any time, whether or not the job has ended, and may set     *)
(* other parameters in between; but it does not ask for an output to which *)
(* several jobs write.                                                     *)
(***************************************************************************)
EXTENDS CompressJobs

VARIABLES reader    \* the uncompression of each job's output

allVars == <<vars, reader>>

UInit ==
    /\ Init
    /\ reader = [j \in Jobs |-> [pc |-> "idle", found |-> FALSE, buff |-> 0, pos |-> 0,
                                 bad |-> FALSE, err |-> "none", given |-> <<>>,
                                 restored |-> <<>>]]

Ready(j, pc) == reader[j].pc = pc
UnarchivePath(j) == [kind |-> "uncompress_tmp", time |-> <<Main(j), 0>>, seq |-> 0]

\* How many of the output's blocks, the header counted, a reader finds that has
\* read pos of them.
BlocksFound(j, pos) ==
    LET length == Len(Content(OutPath(j)))
    IN  IF BeingWritten(j) THEN pos..length ELSE {length}

Fails(j, err) == reader' = [reader EXCEPT ![j].pc = "remove", ![j].err = err]

\* CreateUncompresser, which makes no object before it finds a header, and
\* Execute.
AskUncompress(j) ==
    /\ Ready(j, "idle")
    /\ Own(j)
    /\ \E found \in BlocksFound(j, 0) : found > 0
    /\ reader' = [reader EXCEPT ![j].pc = "open", ![j].found = Done(j)]
    /\ UNCHANGED vars

\* UncompressFileWithZlib up to its loop; the buffers are allocated.
OpenBlocks(j) ==
    /\ Ready(j, "open")
    /\ \/ "temp" \in Faults /\ Fails(j, "out open") /\ UNCHANGED files
       \/ /\ reader' = [reader EXCEPT ![j].pc = "loop", ![j].pos = 1,
                                       ![j].buff = param.buff]
          /\ files' = Written(UnarchivePath(j), <<>>)
    /\ UNCHANGED <<param, ticks, input, job, comp>>

\* Faulty form: does not look what uncompress returned.
UncompressBlockUnheard(j) ==
    LET next  == reader[j].pos + 1
        block == files[OutPath(j)][next]
    IN  /\ Ready(j, "loop")
        /\ next <= Len(Content(OutPath(j)))
        /\ files' = Written(UnarchivePath(j),
                       files[UnarchivePath(j)] \o SubSeq(block, 1, MinOf(param.buff, Len(block))))
        /\ reader' = [reader EXCEPT ![j].pos = next]
        /\ UNCHANGED <<param, ticks, input, job, comp>>

\* Faulty form: there must be room for more than the block.
UncompressBlockTight(j) ==
    LET next == reader[j].pos + 1
    IN  /\ Ready(j, "loop")
        /\ next <= Len(Content(OutPath(j)))
        /\ Len(files[OutPath(j)][next]) >= param.buff
        /\ Fails(j, "zlib")
        /\ UNCHANGED <<param, files, ticks, input, job, comp>>

\* A block may not fit into the buffers allocated at the beginning: it is read
\* behind them.
TooLarge(j, block) == Len(block) > reader[j].buff

\* One round of the loop.  A block is uncompressed into as much as the buffer
\* size that is configured now (or more, see CompressBlock), and only if all of
\* it is found; nobody looks whether the write went through.
UncompressBlock(j) ==
    /\ Ready(j, "loop")
    /\ \/ \E found \in BlocksFound(j, reader[j].pos) :
            LET next  == reader[j].pos + 1
                block == files[OutPath(j)][next]
                sofar == files[UnarchivePath(j)]
            IN  /\ next <= found
                /\ \/ /\ block # Torn
                      /\ ~reader[j].bad
                      /\ files' = Written(UnarchivePath(j), sofar \o block)
                      /\ reader' = [reader EXCEPT ![j].pos = next]
                   \/ /\ block # Torn
                      /\ "write" \in Faults
                      /\ \E written \in {sofar \o SubSeq(block, 1, k) : k \in 0..(Len(block) - 1)} :
                            files' = Written(UnarchivePath(j),
                                             IF reader[j].bad THEN sofar ELSE written)
                      /\ reader' = [reader EXCEPT ![j].pos = next, ![j].bad = TRUE]
                   \/ /\ block = Torn \/ Len(block) > param.buff \/ TooLarge(j, block)
                      /\ Fails(j, "zlib")
                      /\ UNCHANGED files
       \/ BeingWritten(j) /\ Fails(j, "zlib") /\ UNCHANGED files
    /\ UNCHANGED <<param, ticks, input, job, comp>>

\* Faulty form: the last block is taken for the end.
BlocksEndEarly(j) ==
    /\ Ready(j, "loop")
    /\ \E found \in BlocksFound(j, reader[j].pos) : found <= reader[j].pos + 1
    /\ reader' = [reader EXCEPT ![j].pc = "dearchive"]
    /\ UNCHANGED <<param, files, ticks, input, job, comp>>

\* Faulty form: waits to be beyond the end.
BlocksEndBeyond(j) ==
    /\ Ready(j, "loop")
    /\ \E found \in BlocksFound(j, reader[j].pos) : found < reader[j].pos
    /\ reader' = [reader EXCEPT ![j].pc = "dearchive"]
    /\ UNCHANGED <<param, files, ticks, input, job, comp>>

\* The end of the file.
BlocksEnd(j) ==
    /\ Ready(j, "loop")
    /\ \E found \in BlocksFound(j, reader[j].pos) : found <= reader[j].pos
    /\ reader' = [reader EXCEPT ![j].pc = "dearchive"]
    /\ UNCHANGED <<param, files, ticks, input, job, comp>>

\* Dearchive, which restores what the temporary file holds, and does not notice
\* what it cannot write or what a buffer that changes its size spoils.  Its only
\* error is that it cannot read the temporary file.
Dearchive(j) ==
    LET given == files[UnarchivePath(j)]
        Ends(restored, err) ==
            reader' = [reader EXCEPT ![j].pc = "remove", ![j].err = err,
                                     ![j].given = given, ![j].restored = restored]
    IN  /\ Ready(j, "dearchive")
        /\ \/ Ends(given, "none")
           \/ /\ "dearchive" \in Faults \/ MayResize
              /\ \E restored \in Spoilt(given) : Ends(restored, "none")
           \/ "temp" \in Faults /\ Ends(<<>>, "in open")
        /\ UNCHANGED <<param, files, ticks, input, job, comp>>

\* Faulty form: the temporary file is removed only after success.
RemoveUnarchivedIfRestored(j) ==
    /\ Ready(j, "remove")
    /\ files' = IF reader[j].err = "none" THEN Without({UnarchivePath(j)}) ELSE files
    /\ reader' = [reader EXCEPT ![j].pc = "done"]
    /\ UNCHANGED <<param, ticks, input, job, comp>>

\* The temporary file is removed and the callback made.
RemoveUnarchived(j) ==
    /\ Ready(j, "remove")
    /\ files' = Without({UnarchivePath(j)})
    /\ reader' = [reader EXCEPT ![j].pc = "done"]
    /\ UNCHANGED <<param, ticks, input, job, comp>>

\* Uncaught: UncompressFileWithZlib asks for the kind of its input, Dearchive makes
\* directories, and removing the temporary file may throw.  The caller gets the
\* exception and m_onFinished is not called.
ReaderThrowing(j) ==
    /\ "throw" \in Faults
    /\ reader[j].pc \in {"open", "dearchive", "remove"}

ReaderThrows(j) ==
    /\ ReaderThrowing(j)
    /\ reader' = [reader EXCEPT ![j].pc = "thrown"]
    /\ UNCHANGED vars

\* The process may end: by an exception that has no caller, on a thread of the
\* pool, and behind a buffer that is too small now, of UncompressFileWithZlib or
\* of Dearchive.
ReaderEndsProcess(j) ==
    /\ \/ ReaderThrowing(j)
       \/ MayResize /\ Ready(j, "dearchive")
       \/ /\ Ready(j, "loop")
          /\ \E found \in BlocksFound(j, reader[j].pos) :
                /\ reader[j].pos < found
                /\ TooLarge(j, files[OutPath(j)][reader[j].pos + 1])
    /\ ended' = TRUE
    /\ UNCHANGED <<param, files, ticks, input, job, comp, thrown, reader>>

ReaderStep(j) ==
    /\ ~ended
    /\ \/ OpenBlocks(j) \/ UncompressBlock(j) \/ BlocksEnd(j) \/ Dearchive(j)
       \/ RemoveUnarchived(j)
    /\ UNCHANGED <<thrown, ended>>

UNext ==
    \/ Next /\ UNCHANGED reader
    \/ /\ ~ended
       /\ \E j \in Jobs :
            AskUncompress(j) \/ ReaderStep(j) \/ ReaderThrows(j) \/ ReaderEndsProcess(j)

\* A client need not ask; what it asked for is carried on by its thread.
UFairness ==
    /\ Fairness
    /\ \A j \in Jobs : WF_allVars(ReaderStep(j))

USpec == UInit /\ [][UNext]_allVars /\ UFairness

-------------------------------------------------------------------------------
(* Properties *)

Restored(j) == Ready(j, "done") /\ reader[j].err = "none"

\* What comes back is a part of the archive from its beginning, and if the job had
\* reported success before, all of it.
RestoresInOrder ==
    \A j \in Jobs :
        Restored(j) =>
            /\ IsPrefix(reader[j].restored, Archived(j))
            /\ reader[j].found /\ job[j].err = "none" => reader[j].restored = Archived(j)

\* What a job has compressed and reported as success can be uncompressed, as long
\* as nobody sets other parameters.
Uncompressible ==
    \A j \in Jobs :
        Ready(j, "done") /\ reader[j].found /\ job[j].err = "none" => Restored(j)

\* Whatever failed, and whatever was set meanwhile, Dearchive gets the blocks of an
\* output that was complete, all and in order, or an error is reported; except that
\* a write to the temporary file may fail unnoticed.
RestoresAllBlocks ==
    \A j \in Jobs :
        Restored(j) /\ reader[j].found /\ ~reader[j].bad
            => reader[j].given = FlattenSeq(Content(OutPath(j)))

\* Whatever failed, a job or an uncompression that has returned, other than by an
\* exception, leaves no temporary file behind.
NothingLeft ==
    /\ \A f \in DOMAIN files :
        f.kind \in {"compress_tmp", "mt_split", "mt_result"} => ~Done(f.time[1][1])
    /\ \A j \in Jobs : Ready(j, "done") => ~Exists(UnarchivePath(j))

\* Every job, and every uncompression that was asked for, returns to its caller,
\* whatever failed, unless the process has ended; and unless an exception got out
\* of it, it has called back.
EveryOperationEnds ==
    \A j \in Jobs :
        /\ <>(Done(j) \/ j \in thrown \/ ended)
        /\ Ready(j, "open") ~> (reader[j].pc \in {"done", "thrown"} \/ ended)
===============================================================================
