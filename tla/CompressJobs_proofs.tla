-------------------------- MODULE CompressJobs_proofs --------------------------
(***************************************************************************)
(* For any number of jobs, threads and units and any times the threads     *)
(* read.  Whatever fails and whenever Set is called: the state keeps its   *)
(* types, the threads of a job write to files of their own, and success on *)
(* one thread means that the whole archive was written.  Where nothing     *)
(* fails and nobody calls Set: a job on any number of threads implements   *)
(* CompressSpec.                                                           *)
(***************************************************************************)
EXTENDS CompressJobs, SequenceTheorems, WellFoundedInduction, FiniteSetTheorems, TLAPS

-------------------------------------------------------------------------------
(* The inductive invariant *)

\* A name that GetTmpMiddleFile or PrepareCompress composes.
Named(f) ==
    /\ f.kind \in {"out", "compress_tmp", "mt_split", "mt_result", "uncompress_tmp"}
    /\ f.seq \in Nat

JobFields == {"pc", "err", "made", "arch", "out", "n", "pieces", "joined", "bad"}
ThreadFields == {"st", "src", "dst", "buff", "pos", "err", "bad"}

\* The local variables of a job; what belongs to several threads is as it began
\* until they are dispatched, and results are combined in an output.
LocalInv(j) ==
    /\ DOMAIN job[j] = JobFields
    /\ job[j].err \in Errors
    /\ job[j].out \in {NoPath, OutPath(j)}
    /\ job[j].n \in Nat
    /\ \E S : job[j].pieces \in Seq(S)
    /\ Len(job[j].pieces) <= job[j].n
    /\ job[j].joined \in 0..job[j].n
    /\ job[j].pc \in {"check", "archive", "prepare", "dispatch", "mt"} =>
          job[j].pieces = <<>> /\ job[j].joined = 0
    /\ job[j].pc = "combine" => job[j].out # NoPath

\* Thread i writes to no file yet, or is alone, or its file bears its number.
ThreadInv(j, i) ==
    LET c == comp[j][i]
    IN  /\ i \in Nat
        /\ DOMAIN c = ThreadFields
        /\ c.st \in {"open", "loop", "closed"}
        /\ c.buff \in Nat
        /\ c.err \in Errors
        /\ c.dst = NoPath \/ Named(c.dst)
        /\ c.st = "loop" => c.dst # NoPath
        /\ c.dst = NoPath \/ DOMAIN comp[j] = {0} \/ c.dst.seq = i

JobInv(j) ==
    /\ LocalInv(j)
    /\ \A i \in DOMAIN comp[j] : ThreadInv(j, i)
    /\ job[j].pc = "single" => 0 \in DOMAIN comp[j]

IInv ==
    /\ param \in Settings
    /\ \A f \in DOMAIN files : Named(f)
    /\ \A p \in ticks : p[1][1] \in Jobs
    /\ input \in [Jobs -> [kind : Kinds, size : Sizes, name : Names]]
    /\ DOMAIN job = Jobs /\ DOMAIN comp = Jobs
    /\ \A j \in Jobs : JobInv(j)

-------------------------------------------------------------------------------
(* Operators *)

\* What has no path has no name.
LEMMA NoPathUnnamed == ~Named(NoPath)
  BY DEF Named, NoPath

\* An output has one, and so has every temporary file.
LEMMA NamesOK ==
    /\ \A j : Named(OutPath(j))
    /\ \A t, kind, k :
          /\ kind \in {"compress_tmp", "mt_split", "mt_result"} /\ k \in Int =>
                Named(TmpName(kind, t, k))
          /\ k \in Nat => TmpName(kind, t, k).seq = k
  <1>1. \A j : Named(OutPath(j))
    BY DEF Named, OutPath
  <1>2. ASSUME NEW t, NEW kind \in {"compress_tmp", "mt_split", "mt_result"}, NEW k \in Int
        PROVE  Named(TmpName(kind, t, k))
    <2>1. TmpName(kind, t, k).kind = kind
      BY DEF TmpName
    <2>2. TmpName(kind, t, k).seq = IF k > 0 THEN k ELSE 0
      BY DEF TmpName
    <2> QED  BY <2>1, <2>2 DEF Named
  <1>3. ASSUME NEW t, NEW kind, NEW k \in Nat
        PROVE  TmpName(kind, t, k).seq = k
    BY DEF TmpName
  <1> QED  BY <1>1, <1>2, <1>3

\* A file that is written has a name.
LEMMA WrittenNamed ==
    ASSUME \A f \in DOMAIN files : Named(f), NEW g, NEW content, Named(g),
           files' = Written(g, content)
    PROVE  \A f \in DOMAIN files' : Named(f)
  BY DEF Written

\* Removing files leaves the others as they are.
LEMMA WithoutNamed ==
    ASSUME \A f \in DOMAIN files : Named(f), NEW gone, files' = Without(gone)
    PROVE  \A f \in DOMAIN files' : Named(f)
  BY DEF Without, Restrict

\* The share of a thread in the buffer is a size.
LEMMA ShareIsSize ==
    ASSUME NEW buff \in Nat, NEW n \in Nat \ {0}, NEW i
    PROVE  ThreadBuff(buff, n, i) \in Nat
  <1> DEFINE q == buff \div n
             r == buff % n
             m == q * n
  <1>1. q \in Nat /\ r \in Nat /\ m \in Nat /\ buff = m + r
    BY DEF q, r, m
  <1>2. q * (n - 1) = m - q
    BY <1>1
  <1> HIDE DEF q, r, m
  <1>3. buff - (m - q) \in Nat
    BY <1>1
  <1>4. ThreadBuff(buff, n, i) \in {buff - q * (n - 1), q}
    BY DEF ThreadBuff, q
  <1> QED  BY <1>1, <1>2, <1>3, <1>4

\* A step of one job, or of one of its threads.
LEMMA StepOf ==
    ASSUME IInv, NEW j \in Jobs, UNCHANGED <<param, input>>,
           \A f \in DOMAIN files' : Named(f),
           \A p \in ticks' : p[1][1] \in Jobs,
           DOMAIN job' = Jobs, DOMAIN comp' = Jobs,
           \A k \in Jobs \ {j} : job'[k] = job[k] /\ comp'[k] = comp[k],
           JobInv(j)'
    PROVE  IInv'
  <1>1. ASSUME NEW k \in Jobs \ {j}
        PROVE  JobInv(k)'
    <2>1. job'[k] = job[k] /\ comp'[k] = comp[k] /\ input' = input
      OBVIOUS
    <2>2. JobInv(k)
      BY DEF IInv
    <2>3. LocalInv(k)'
      BY ONLY <2>1, <2>2 DEF JobInv, LocalInv, OutPath
    <2>4. \A i \in DOMAIN comp'[k] : ThreadInv(k, i)'
      BY ONLY <2>1, <2>2 DEF JobInv, ThreadInv
    <2> QED  BY ONLY <2>1, <2>2, <2>3, <2>4 DEF JobInv
  <1>2. \A k \in Jobs : JobInv(k)'
    BY <1>1
  <1> QED  BY <1>2 DEF IInv

Early == {"check", "archive", "prepare", "dispatch", "mt"}

\* A step of a job that leaves its numbers and pieces alone.
LEMMA LocalStays ==
    ASSUME NEW j \in Jobs, LocalInv(j), input' = input, DOMAIN job'[j] = JobFields,
           job'[j].n = job[j].n, job'[j].pieces = job[j].pieces, job'[j].joined = job[j].joined,
           job'[j].err \in Errors, job'[j].out \in {NoPath, OutPath(j)},
           job'[j].pc \in Early => job[j].pc \in Early,
           job'[j].pc = "combine" => job'[j].out # NoPath
    PROVE  LocalInv(j)'
  BY DEF LocalInv, Early, OutPath

\* A step that leaves a job's threads alone, and does not wait for one.
LEMMA ThreadsStay ==
    ASSUME NEW j \in Jobs, JobInv(j), comp' = comp, LocalInv(j)',
           job'[j].pc = "single" => job[j].pc = "single"
    PROVE  JobInv(j)'
  <1>1. \A i \in DOMAIN comp'[j] : ThreadInv(j, i)'
    BY DEF JobInv, ThreadInv
  <1> QED  BY <1>1 DEF JobInv

\* Together: a step of a job that is no step of a thread.
LEMMA QuietStep ==
    ASSUME IInv, NEW j \in Jobs, UNCHANGED <<param, input, comp>>,
           \A f \in DOMAIN files' : Named(f),
           \A p \in ticks' : p[1][1] \in Jobs,
           DOMAIN job' = Jobs, \A k \in Jobs \ {j} : job'[k] = job[k],
           DOMAIN job'[j] = JobFields,
           job'[j].n = job[j].n, job'[j].pieces = job[j].pieces, job'[j].joined = job[j].joined,
           job'[j].err \in Errors, job'[j].out \in {NoPath, OutPath(j)},
           job'[j].pc \in Early => job[j].pc \in Early,
           job'[j].pc = "combine" => job'[j].out # NoPath,
           job'[j].pc = "single" => job[j].pc = "single"
    PROVE  IInv'
  <1>1. JobInv(j) /\ LocalInv(j) /\ DOMAIN comp' = Jobs
        /\ \A k \in Jobs \ {j} : comp'[k] = comp[k]
    BY DEF IInv, JobInv
  <1>2. LocalInv(j)'
    BY <1>1, LocalStays
  <1>3. JobInv(j)'
    BY <1>1, <1>2, ThreadsStay
  <1> QED  BY <1>1, <1>3, StepOf

\* Goto, which most of them are.
LEMMA GotoStep ==
    ASSUME IInv, NEW j \in Jobs, NEW pc, Goto(j, pc), UNCHANGED <<param, input, comp, ticks>>,
           \A f \in DOMAIN files' : Named(f),
           pc \in Early => job[j].pc \in Early,
           pc = "combine" => job[j].out # NoPath,
           pc # "single"
    PROVE  IInv'
  <1>1. /\ DOMAIN job = Jobs /\ DOMAIN job[j] = JobFields /\ job[j].err \in Errors
        /\ job[j].out \in {NoPath, OutPath(j)}
        /\ \A p \in ticks : p[1][1] \in Jobs
    BY DEF IInv, JobInv, LocalInv
  <1>2. DOMAIN job' = Jobs /\ \A k \in Jobs \ {j} : job'[k] = job[k]
    BY <1>1 DEF Goto
  <1>3. /\ DOMAIN job'[j] = JobFields /\ job'[j].pc = pc
        /\ job'[j].n = job[j].n /\ job'[j].pieces = job[j].pieces
        /\ job'[j].joined = job[j].joined /\ job'[j].err = job[j].err
        /\ job'[j].out = job[j].out
    BY <1>1 DEF Goto, JobFields
  <1> QED  BY <1>1, <1>2, <1>3, QuietStep

-------------------------------------------------------------------------------
(* The job in turn *)

\* InputMissing and CheckInput.
LEMMA CheckSteps ==
    ASSUME IInv, NEW j \in Jobs, InputMissing(j) \/ CheckInput(j)
    PROVE  IInv'
  <1>1. UNCHANGED <<param, input, comp, ticks, files>> /\ job[j].pc = "check"
    BY DEF InputMissing, CheckInput, At
  <1>2. /\ DOMAIN job = Jobs /\ DOMAIN job[j] = JobFields /\ job[j].err \in Errors
        /\ job[j].out \in {NoPath, OutPath(j)}
        /\ \A f \in DOMAIN files' : Named(f)
        /\ \A p \in ticks' : p[1][1] \in Jobs
    BY <1>1 DEF IInv, JobInv, LocalInv
  <1>3. CASE Goto(j, "archive")
    BY <1>1, <1>2, <1>3, GotoStep DEF Early
  <1>4. ASSUME NEW err \in Errors, job' = [job EXCEPT ![j].pc = "notify", ![j].err = err]
        PROVE  IInv'
    <2>1. DOMAIN job' = Jobs /\ \A k \in Jobs \ {j} : job'[k] = job[k]
      BY <1>2, <1>4
    <2>2. /\ DOMAIN job'[j] = JobFields /\ job'[j].pc = "notify" /\ job'[j].err = err
          /\ job'[j].n = job[j].n /\ job'[j].pieces = job[j].pieces
          /\ job'[j].joined = job[j].joined /\ job'[j].out = job[j].out
      BY <1>2, <1>4 DEF JobFields
    <2>3. "notify" \notin Early
      BY DEF Early
    <2> QED  BY <1>1, <1>2, <1>4, <2>1, <2>2, <2>3, QuietStep
  <1>5. "no input" \in Errors /\ "repeat" \in Errors
    BY DEF Errors
  <1> QED  BY <1>3, <1>4, <1>5 DEF InputMissing, CheckInput

\* ArchiveInputs.
LEMMA ArchiveStep == ASSUME IInv, NEW j \in Jobs, ArchiveInputs(j) PROVE IInv'
  <1>1. job[j].pc = "archive" /\ UNCHANGED <<param, input, comp>>
    BY DEF ArchiveInputs, At
  <1>2. /\ DOMAIN job = Jobs /\ DOMAIN job[j] = JobFields
        /\ job[j].out \in {NoPath, OutPath(j)}
        /\ \A f \in DOMAIN files : Named(f)
        /\ \A p \in ticks : p[1][1] \in Jobs
    BY DEF IInv, JobInv, LocalInv
  <1>3. PICK t, err, made :
            /\ t \in Now(Main(j)) /\ ticks' = ticks \cup {<<Main(j), t>>}
            /\ files' = Written(TmpName("compress_tmp", t, -1), made) \/ files' = files
            /\ err \in {"none", "archive"}
            /\ job' = [job EXCEPT ![j].pc = "prepare",
                                  ![j].arch = TmpName("compress_tmp", t, -1),
                                  ![j].err = err, ![j].made = made]
    BY DEF ArchiveInputs
  <1>5. DOMAIN job' = Jobs /\ \A k \in Jobs \ {j} : job'[k] = job[k]
    BY <1>2, <1>3
  <1>6. /\ DOMAIN job'[j] = JobFields /\ job'[j].pc = "prepare" /\ job'[j].err = err
        /\ job'[j].n = job[j].n /\ job'[j].pieces = job[j].pieces
        /\ job'[j].joined = job[j].joined /\ job'[j].out = job[j].out
    BY <1>2, <1>3 DEF JobFields
  <1>7. \A f \in DOMAIN files' : Named(f)
    BY <1>2, <1>3, NamesOK, WrittenNamed
  <1>8. \A p \in ticks' : p[1][1] \in Jobs
    BY <1>2, <1>3 DEF Main
  <1>9. err \in Errors /\ "archive" \in Early
    BY <1>3 DEF Errors, Early
  <1> QED  BY <1>1, <1>2, <1>5, <1>6, <1>7, <1>8, <1>9, QuietStep

\* PrepareCompress.
LEMMA PrepareStep == ASSUME IInv, NEW j \in Jobs, PrepareCompress(j) PROVE IInv'
  <1>1. job[j].pc = "prepare" /\ UNCHANGED <<param, input, comp, ticks, files>>
    BY DEF PrepareCompress, At
  <1>2. /\ DOMAIN job = Jobs /\ DOMAIN job[j] = JobFields /\ job[j].err \in Errors
        /\ \A f \in DOMAIN files' : Named(f)
        /\ \A p \in ticks' : p[1][1] \in Jobs
    BY <1>1 DEF IInv, JobInv, LocalInv
  <1>3. CASE Goto(j, "dispatch")
    BY <1>1, <1>2, <1>3, GotoStep DEF Early
  <1>4. CASE job' = [job EXCEPT ![j].pc = "dispatch", ![j].out = OutPath(j)]
    <2>1. DOMAIN job' = Jobs /\ \A k \in Jobs \ {j} : job'[k] = job[k]
      BY <1>2, <1>4
    <2>2. /\ DOMAIN job'[j] = JobFields /\ job'[j].pc = "dispatch" /\ job'[j].err = job[j].err
          /\ job'[j].n = job[j].n /\ job'[j].pieces = job[j].pieces
          /\ job'[j].joined = job[j].joined /\ job'[j].out = OutPath(j)
      BY <1>2, <1>4 DEF JobFields
    <2>3. "prepare" \in Early
      BY DEF Early
    <2> QED  BY <1>1, <1>2, <2>1, <2>2, <2>3, QuietStep
  <1> QED  BY <1>3, <1>4 DEF PrepareCompress

\* SingleReturns.
LEMMA SingleReturnsStep == ASSUME IInv, NEW j \in Jobs, SingleReturns(j) PROVE IInv'
  <1>1. job[j].pc = "single" /\ UNCHANGED <<param, input, comp, ticks, files>>
        /\ job' = [job EXCEPT ![j].pc = "remove", ![j].err = comp[j][0].err]
    BY DEF SingleReturns, At
  <1>2. /\ DOMAIN job = Jobs /\ DOMAIN job[j] = JobFields
        /\ job[j].out \in {NoPath, OutPath(j)}
        /\ \A f \in DOMAIN files' : Named(f)
        /\ \A p \in ticks' : p[1][1] \in Jobs
    BY <1>1 DEF IInv, JobInv, LocalInv
  <1>3. comp[j][0].err \in Errors
    BY <1>1 DEF IInv, JobInv, ThreadInv
  <1>4. DOMAIN job' = Jobs /\ \A k \in Jobs \ {j} : job'[k] = job[k]
    BY <1>1, <1>2
  <1>5. /\ DOMAIN job'[j] = JobFields /\ job'[j].pc = "remove" /\ job'[j].err = comp[j][0].err
        /\ job'[j].n = job[j].n /\ job'[j].pieces = job[j].pieces
        /\ job'[j].joined = job[j].joined /\ job'[j].out = job[j].out
    BY <1>1, <1>2 DEF JobFields
  <1>6. "remove" \notin Early
    BY DEF Early
  <1> QED  BY <1>1, <1>2, <1>3, <1>4, <1>5, <1>6, QuietStep

\* RemoveArchive, Notify, CloseCombined and CleanUp.
LEMMA EndSteps ==
    ASSUME IInv, NEW j \in Jobs,
           RemoveArchive(j) \/ Notify(j) \/ CloseCombined(j) \/ CleanUp(j)
    PROVE  IInv'
  <1>1. UNCHANGED <<param, input, comp, ticks>>
        /\ \E pc \in {"notify", "done", "clean", "remove"} : Goto(j, pc)
    BY DEF RemoveArchive, Notify, CloseCombined, CleanUp
  <1>2. \A f \in DOMAIN files' : Named(f)
    <2>1. files' = files \/ \E gone : files' = Without(gone)
      BY DEF RemoveArchive, Notify, CloseCombined, CleanUp
    <2>2. \A f \in DOMAIN files : Named(f)
      BY DEF IInv
    <2> QED  BY <2>1, <2>2, WithoutNamed
  <1> QED  BY <1>1, <1>2, GotoStep DEF Early

\* OpenCombined.
LEMMA OpenCombinedStep == ASSUME IInv, NEW j \in Jobs, OpenCombined(j) PROVE IInv'
  <1>1. UNCHANGED <<param, input, comp, ticks>> /\ job[j].out \in {NoPath, OutPath(j)}
        /\ \A f \in DOMAIN files : Named(f)
    BY DEF OpenCombined, IInv, JobInv, LocalInv
  <1>2. CASE /\ job[j].out # NoPath /\ files' = Written(job[j].out, Opened(j))
             /\ Goto(j, "combine")
    <2>1. \A f \in DOMAIN files' : Named(f)
      BY <1>1, <1>2, NamesOK, WrittenNamed
    <2> QED  BY <1>1, <1>2, <2>1, GotoStep DEF Early
  <1>3. CASE UNCHANGED files /\ Goto(j, "clean")
    BY <1>1, <1>3, GotoStep DEF Early
  <1> QED  BY <1>2, <1>3 DEF OpenCombined

\* AppendResult.
LEMMA AppendStep == ASSUME IInv, NEW j \in Jobs, AppendResult(j) PROVE IInv'
  <1>1. /\ UNCHANGED <<param, input, comp, ticks>> /\ job[j].pc = "combine"
        /\ job[j].joined < job[j].n
        /\ \/ job' = [job EXCEPT ![j].joined = @ + 1]
           \/ job' = [job EXCEPT ![j].joined = @ + 1, ![j].bad = TRUE]
        /\ \E content : files' = Written(job[j].out, content)
    BY DEF AppendResult, At
  <1>2. /\ JobInv(j) /\ LocalInv(j) /\ DOMAIN comp' = Jobs /\ DOMAIN job = Jobs
        /\ \A f \in DOMAIN files : Named(f)
        /\ \A p \in ticks' : p[1][1] \in Jobs
    BY <1>1 DEF IInv, JobInv
  <1>3. /\ DOMAIN job[j] = JobFields /\ job[j].err \in Errors /\ job[j].out = OutPath(j)
        /\ job[j].n \in Nat /\ job[j].joined \in 0..job[j].n
        /\ (\E S : job[j].pieces \in Seq(S)) /\ Len(job[j].pieces) <= job[j].n
    BY <1>1, <1>2 DEF LocalInv
  <1>4. DOMAIN job' = Jobs /\ \A k \in Jobs \ {j} : job'[k] = job[k]
    BY <1>1, <1>2
  <1>5. /\ DOMAIN job'[j] = JobFields /\ job'[j].pc = "combine" /\ job'[j].err = job[j].err
        /\ job'[j].n = job[j].n /\ job'[j].pieces = job[j].pieces
        /\ job'[j].joined = job[j].joined + 1 /\ job'[j].out = job[j].out
    BY <1>1, <1>2, <1>3 DEF JobFields
  <1>6. job'[j].joined \in 0..job'[j].n
    BY <1>1, <1>3, <1>5
  <1>7. OutPath(j) # NoPath /\ OutPath(j)' = OutPath(j)
    BY <1>1, NamesOK, NoPathUnnamed DEF OutPath
  <1>8. LocalInv(j)'
    BY <1>3, <1>5, <1>6, <1>7 DEF LocalInv
  <1>9. JobInv(j)'
    BY <1>1, <1>2, <1>5, <1>8, ThreadsStay
  <1>10. \A f \in DOMAIN files' : Named(f)
    BY <1>1, <1>2, <1>3, NamesOK, WrittenNamed
  <1> QED  BY <1>1, <1>2, <1>4, <1>9, <1>10, StepOf

\* StartMT: what CompressWithMT counts and collects is as it was declared.
LEMMA StartMTStep == ASSUME IInv, NEW j \in Jobs, StartMT(j) PROVE IInv'
  <1>1. /\ UNCHANGED <<param, input, comp, ticks, files>> /\ job[j].pc = "mt"
        /\ job' = [job EXCEPT ![j].pc = "cut", ![j].n = param.cores]
    BY DEF StartMT, At
  <1>2. /\ JobInv(j) /\ LocalInv(j) /\ DOMAIN comp' = Jobs /\ DOMAIN job = Jobs
        /\ \A f \in DOMAIN files' : Named(f)
        /\ \A p \in ticks' : p[1][1] \in Jobs
        /\ param \in Settings
    BY <1>1 DEF IInv, JobInv
  <1>3. /\ DOMAIN job[j] = JobFields /\ job[j].err \in Errors
        /\ job[j].out \in {NoPath, OutPath(j)}
        /\ job[j].pieces = <<>> /\ job[j].joined = 0
    BY <1>1, <1>2 DEF LocalInv
  <1>4. param.cores \in Nat
    BY <1>2, JobsAssumption
  <1>5. DOMAIN job' = Jobs /\ \A k \in Jobs \ {j} : job'[k] = job[k]
    BY <1>1, <1>2
  <1>6. /\ DOMAIN job'[j] = JobFields /\ job'[j].pc = "cut"
        /\ job'[j].err = job[j].err /\ job'[j].n = param.cores /\ job'[j].pieces = <<>>
        /\ job'[j].joined = 0 /\ job'[j].out = job[j].out
    BY <1>1, <1>2, <1>3 DEF JobFields
  <1>7. OutPath(j)' = OutPath(j)
    BY <1>1 DEF OutPath
  <1>8. LocalInv(j)'
    <2>1. <<>> \in Seq({}) /\ Len(<<>>) = 0
      OBVIOUS
    <2> QED  BY <1>3, <1>4, <1>6, <1>7, <2>1 DEF LocalInv
  <1>9. JobInv(j)'
    BY <1>1, <1>2, <1>6, <1>8, ThreadsStay
  <1> QED  BY <1>1, <1>2, <1>5, <1>9, StepOf

\* CutPiece: there is room for one more piece.
LEMMA CutStep == ASSUME IInv, NEW j \in Jobs, CutPiece(j) PROVE IInv'
  <1>1. PICK t \in Now(Main(j)) :
            /\ UNCHANGED <<param, input, comp>> /\ job[j].pc = "cut"
            /\ Len(job[j].pieces) # job[j].n
            /\ ticks' = ticks \cup {<<Main(j), t>>}
            /\ job' = [job EXCEPT ![j].pieces = Append(@, TmpName("mt_split", t, -1))]
            /\ files' = files \/ \E content : files' = Written(TmpName("mt_split", t, -1), content)
    BY DEF CutPiece, NoMorePieces, At
  <1>2. /\ JobInv(j) /\ LocalInv(j) /\ DOMAIN comp' = Jobs /\ DOMAIN job = Jobs
        /\ \A f \in DOMAIN files : Named(f)
        /\ \A p \in ticks : p[1][1] \in Jobs
    BY <1>1 DEF IInv, JobInv
  <1>3. /\ DOMAIN job[j] = JobFields /\ job[j].err \in Errors
        /\ job[j].out \in {NoPath, OutPath(j)}
        /\ job[j].n \in Nat /\ job[j].joined \in 0..job[j].n
        /\ Len(job[j].pieces) <= job[j].n
    BY <1>1, <1>2 DEF LocalInv
  <1>4. DOMAIN job' = Jobs /\ \A k \in Jobs \ {j} : job'[k] = job[k]
    BY <1>1, <1>2
  <1>5. /\ DOMAIN job'[j] = JobFields /\ job'[j].pc = "cut"
        /\ job'[j].err = job[j].err /\ job'[j].n = job[j].n
        /\ job'[j].pieces = Append(job[j].pieces, TmpName("mt_split", t, -1))
        /\ job'[j].joined = job[j].joined /\ job'[j].out = job[j].out
    BY <1>1, <1>2, <1>3 DEF JobFields
  <1>6. /\ \E S : job'[j].pieces \in Seq(S)
        /\ Len(job'[j].pieces) <= job'[j].n
    <2> DEFINE name == TmpName("mt_split", t, -1)
    <2>1. PICK S : job[j].pieces \in Seq(S)
      BY <1>2 DEF LocalInv
    <2> HIDE DEF name
    <2>2. job[j].pieces \in Seq(S \cup {name}) /\ Len(job[j].pieces) \in Nat
      BY <2>1
    <2>3. /\ Append(job[j].pieces, name) \in Seq(S \cup {name})
          /\ Len(Append(job[j].pieces, name)) = Len(job[j].pieces) + 1
      BY <2>2
    <2> QED  BY <1>1, <1>3, <1>5, <2>2, <2>3 DEF name
  <1>7. OutPath(j)' = OutPath(j)
    BY <1>1 DEF OutPath
  <1>8. LocalInv(j)'
    BY <1>3, <1>5, <1>6, <1>7 DEF LocalInv
  <1>9. JobInv(j)'
    BY <1>1, <1>2, <1>5, <1>8, ThreadsStay
  <1>10. \A f \in DOMAIN files' : Named(f)
    BY <1>1, <1>2, NamesOK, WrittenNamed
  <1>11. \A p \in ticks' : p[1][1] \in Jobs
    BY <1>1, <1>2 DEF Main
  <1> QED  BY <1>1, <1>2, <1>4, <1>9, <1>10, <1>11, StepOf

-------------------------------------------------------------------------------
(* Threads *)

\* A thread is dispatched with no result of its own.
LEMMA CompressorInv ==
    ASSUME NEW j \in Jobs, NEW i \in Nat, NEW src, NEW dst, NEW buff \in Nat,
           comp'[j][i] = Compressor(src, dst, buff),
           dst = NoPath \/ (Named(dst) /\ DOMAIN comp'[j] = {0})
    PROVE  ThreadInv(j, i)'
  <1> DEFINE c == Compressor(src, dst, buff)
  <1>1. /\ DOMAIN c = ThreadFields /\ c.st = "open" /\ c.buff = buff /\ c.err = "none"
        /\ c.dst = dst
    BY DEF Compressor, ThreadFields
  <1>2. "none" \in Errors
    BY DEF Errors
  <1> HIDE DEF c
  <1>3. comp'[j][i] = c
    BY DEF c
  <1>4. \A f : Named(f)' <=> Named(f)
    BY DEF Named
  <1>5. NoPath' = NoPath
    BY DEF NoPath
  <1> QED  BY <1>1, <1>2, <1>3, <1>4, <1>5 DEF ThreadInv

\* Dispatch.
LEMMA DispatchStep == ASSUME IInv, NEW j \in Jobs, Dispatch(j) PROVE IInv'
  <1>1. job[j].pc = "dispatch" /\ UNCHANGED <<param, input, ticks, files>>
    BY DEF Dispatch, At
  <1>2. /\ JobInv(j) /\ LocalInv(j) /\ DOMAIN comp = Jobs /\ DOMAIN job = Jobs
        /\ \A f \in DOMAIN files' : Named(f)
        /\ \A p \in ticks' : p[1][1] \in Jobs
        /\ param \in Settings
    BY <1>1 DEF IInv, JobInv
  <1>3. CASE Goto(j, "mt") /\ UNCHANGED comp
    BY <1>1, <1>2, <1>3, GotoStep DEF Early
  <1>4. CASE /\ Goto(j, "single")
             /\ comp' = [comp EXCEPT ![j] =
                   [i \in {0} |-> Compressor(job[j].arch, job[j].out, param.buff)]]
    <2>1. /\ DOMAIN job[j] = JobFields /\ job[j].err \in Errors
          /\ job[j].out \in {NoPath, OutPath(j)}
      BY <1>2 DEF LocalInv
    <2>2. DOMAIN job' = Jobs /\ \A k \in Jobs \ {j} : job'[k] = job[k]
      BY <1>2, <1>4 DEF Goto
    <2>3. /\ DOMAIN job'[j] = JobFields /\ job'[j].pc = "single"
          /\ job'[j].n = job[j].n /\ job'[j].pieces = job[j].pieces
          /\ job'[j].joined = job[j].joined /\ job'[j].err = job[j].err
          /\ job'[j].out = job[j].out
      BY <1>2, <1>4, <2>1 DEF Goto, JobFields
    <2>4. LocalInv(j)'
      BY <1>1, <1>2, <2>1, <2>3, LocalStays DEF Early
    <2>5. /\ DOMAIN comp' = Jobs /\ \A k \in Jobs \ {j} : comp'[k] = comp[k]
          /\ DOMAIN comp'[j] = {0}
          /\ comp'[j][0] = Compressor(job[j].arch, job[j].out, param.buff)
      BY <1>2, <1>4
    <2>6. param.buff \in Nat
      BY <1>2, JobsAssumption
    <2>7. ThreadInv(j, 0)'
      BY <2>1, <2>5, <2>6, NamesOK, CompressorInv
    <2>8. JobInv(j)'
      BY <2>4, <2>5, <2>7 DEF JobInv
    <2> QED  BY <1>1, <1>2, <2>2, <2>5, <2>8, StepOf
  <1> QED  BY <1>3, <1>4 DEF Dispatch

\* StartThreads.
LEMMA StartThreadsStep == ASSUME IInv, NEW j \in Jobs, StartThreads(j) PROVE IInv'
  <1>1. job[j].pc = "cut" /\ UNCHANGED <<param, input, ticks, files>>
    BY DEF StartThreads, At
  <1>2. /\ JobInv(j) /\ LocalInv(j) /\ DOMAIN comp = Jobs /\ DOMAIN job = Jobs
        /\ \A f \in DOMAIN files' : Named(f)
        /\ \A p \in ticks' : p[1][1] \in Jobs
        /\ param \in Settings
    BY <1>1 DEF IInv, JobInv
  <1>3. /\ DOMAIN job[j] = JobFields /\ job[j].out \in {NoPath, OutPath(j)} /\ job[j].n \in Nat
    BY <1>2 DEF LocalInv
  <1>4. "mismatch" \in Errors /\ "none" \in Errors /\ "clean" \notin Early /\ "join" \notin Early
    BY DEF Errors, Early
  <1>5. ASSUME NEW pc \in {"clean", "join"}, NEW err \in Errors,
               job' = [job EXCEPT ![j].pc = pc, ![j].err = err]
        PROVE  /\ DOMAIN job' = Jobs /\ \A k \in Jobs \ {j} : job'[k] = job[k]
               /\ DOMAIN job'[j] = JobFields /\ job'[j].pc = pc /\ job'[j].err = err
               /\ job'[j].n = job[j].n /\ job'[j].pieces = job[j].pieces
               /\ job'[j].joined = job[j].joined /\ job'[j].out = job[j].out
    BY <1>2, <1>3, <1>5 DEF JobFields
  <1>6. CASE job' = [job EXCEPT ![j].pc = "clean", ![j].err = "mismatch"] /\ UNCHANGED comp
    <2>1. /\ DOMAIN job' = Jobs /\ \A k \in Jobs \ {j} : job'[k] = job[k]
          /\ DOMAIN job'[j] = JobFields /\ job'[j].pc = "clean" /\ job'[j].err = "mismatch"
          /\ job'[j].n = job[j].n /\ job'[j].pieces = job[j].pieces
          /\ job'[j].joined = job[j].joined /\ job'[j].out = job[j].out
      BY <1>4, <1>5, <1>6
    <2> QED  BY <1>1, <1>2, <1>3, <1>4, <1>6, <2>1, QuietStep
  <1>7. CASE /\ job' = [job EXCEPT ![j].pc = "join", ![j].err = "none"]
             /\ comp' = [comp EXCEPT ![j] =
                   [i \in 0..(job[j].n - 1) |->
                       Compressor(job[j].pieces[i + 1], NoPath,
                                  ThreadBuff(param.buff, job[j].n, i))]]
    <2>1. /\ DOMAIN job' = Jobs /\ \A k \in Jobs \ {j} : job'[k] = job[k]
          /\ DOMAIN job'[j] = JobFields /\ job'[j].pc = "join" /\ job'[j].err = "none"
          /\ job'[j].n = job[j].n /\ job'[j].pieces = job[j].pieces
          /\ job'[j].joined = job[j].joined /\ job'[j].out = job[j].out
      BY <1>4, <1>5, <1>7
    <2>2. LocalInv(j)'
      BY <1>1, <1>2, <1>3, <1>4, <2>1, LocalStays
    <2>3. /\ DOMAIN comp' = Jobs /\ \A k \in Jobs \ {j} : comp'[k] = comp[k]
          /\ DOMAIN comp'[j] = 0..(job[j].n - 1)
          /\ \A i \in 0..(job[j].n - 1) :
                comp'[j][i] = Compressor(job[j].pieces[i + 1], NoPath,
                                         ThreadBuff(param.buff, job[j].n, i))
      BY <1>2, <1>7
    <2>4. param.buff \in Nat
      BY <1>2, JobsAssumption
    <2>5. ASSUME NEW i \in DOMAIN comp'[j]
          PROVE  ThreadInv(j, i)'
      <3>1. i \in Nat /\ job[j].n \in Nat \ {0}
        BY <1>3, <2>3
      <3>2. ThreadBuff(param.buff, job[j].n, i) \in Nat
        BY <2>4, <3>1, ShareIsSize
      <3> QED  BY <2>3, <3>1, <3>2, CompressorInv
    <2>6. JobInv(j)'
      BY <2>1, <2>2, <2>5 DEF JobInv
    <2> QED  BY <1>1, <1>2, <2>1, <2>3, <2>6, StepOf
  <1> QED  BY <1>6, <1>7 DEF StartThreads

\* A step of thread i leaves the job and the other threads alone.
LEMMA OneThread ==
    ASSUME IInv, NEW j \in Jobs, NEW i \in DOMAIN comp[j], UNCHANGED <<param, input, job>>,
           \A f \in DOMAIN files' : Named(f),
           \A p \in ticks' : p[1][1] \in Jobs,
           DOMAIN comp' = Jobs, \A k \in Jobs \ {j} : comp'[k] = comp[k],
           DOMAIN comp'[j] = DOMAIN comp[j],
           \A k \in DOMAIN comp[j] \ {i} : comp'[j][k] = comp[j][k],
           ThreadInv(j, i)'
    PROVE  IInv'
  <1>1. JobInv(j) /\ LocalInv(j) /\ DOMAIN job' = Jobs /\ \A k \in Jobs : job'[k] = job[k]
    BY DEF IInv, JobInv
  <1>2. LocalInv(j)'
    BY <1>1 DEF LocalInv, OutPath
  <1>3. ASSUME NEW k \in DOMAIN comp[j] \ {i}
        PROVE  ThreadInv(j, k)'
    <2>1. ThreadInv(j, k) /\ comp'[j][k] = comp[j][k] /\ DOMAIN comp'[j] = DOMAIN comp[j]
      BY <1>1 DEF JobInv
    <2> QED  BY ONLY <2>1 DEF ThreadInv, Named, NoPath
  <1>4. \A k \in DOMAIN comp'[j] : ThreadInv(j, k)'
    BY <1>3
  <1>5. JobInv(j)'
    BY <1>1, <1>2, <1>4 DEF JobInv
  <1> QED  BY <1>1, <1>5, StepOf

\* What CompressBlock and Close change of a thread its invariant does not mind.
LEMMA ThreadGoesOn ==
    ASSUME IInv, NEW j \in Jobs, NEW i \in DOMAIN comp[j], NEW c,
           comp' = [comp EXCEPT ![j][i] = c],
           DOMAIN c = ThreadFields, c.st \in {"open", "loop", "closed"}, c.err \in Errors,
           c.buff = comp[j][i].buff,
           c.dst = NoPath \/ Named(c.dst), c.st = "loop" => c.dst # NoPath,
           c.dst = comp[j][i].dst \/ c.dst.seq = i
    PROVE  /\ DOMAIN comp' = Jobs /\ \A k \in Jobs \ {j} : comp'[k] = comp[k]
           /\ DOMAIN comp'[j] = DOMAIN comp[j]
           /\ \A k \in DOMAIN comp[j] \ {i} : comp'[j][k] = comp[j][k]
           /\ ThreadInv(j, i)'
  <1>1. DOMAIN comp = Jobs /\ ThreadInv(j, i)
    BY DEF IInv, JobInv
  <1>2. /\ DOMAIN comp' = Jobs /\ \A k \in Jobs \ {j} : comp'[k] = comp[k]
        /\ DOMAIN comp'[j] = DOMAIN comp[j]
        /\ \A k \in DOMAIN comp[j] \ {i} : comp'[j][k] = comp[j][k]
        /\ comp'[j][i] = c
    BY <1>1
  <1>3. /\ i \in Nat /\ c.buff \in Nat
        /\ c.dst = NoPath \/ DOMAIN comp[j] = {0} \/ c.dst.seq = i
    BY <1>1 DEF ThreadInv
  <1>4. ThreadInv(j, i)'
    BY <1>2, <1>3 DEF ThreadInv, Named, NoPath
  <1> QED  BY <1>2, <1>4

\* Open: the result of a thread among several bears the thread's number.
LEMMA OpenStep == ASSUME IInv, NEW j \in Jobs, NEW i \in DOMAIN comp[j], Open(j, i) PROVE IInv'
  <1> DEFINE c == comp[j][i]
  <1>1. /\ DOMAIN comp = Jobs /\ ThreadInv(j, i)
        /\ \A f \in DOMAIN files : Named(f)
        /\ \A p \in ticks : p[1][1] \in Jobs
    BY DEF IInv, JobInv
  <1>2. i \in Nat /\ DOMAIN c = ThreadFields /\ (c.dst = NoPath \/ Named(c.dst)) /\ c.err \in Errors
    BY <1>1 DEF ThreadInv
  <1>3. UNCHANGED <<param, input, job>> /\ \A p \in ticks' : p[1][1] \in Jobs
    <2>1. /\ UNCHANGED <<param, input, job>>
          /\ ticks' = ticks \/ \E t : ticks' = ticks \cup {<<<<j, i>>, t>>}
      BY DEF Open
    <2>2. ASSUME NEW t, ticks' = ticks \cup {<<<<j, i>>, t>>}
          PROVE  \A p \in ticks' : p[1][1] \in Jobs
      BY <1>1, <2>2
    <2> QED  BY <1>1, <2>1, <2>2
  <1>4. PICK dst :
            /\ dst = c.dst \/ \E t : dst = TmpName("mt_result", t, i)
            /\ \/ /\ \/ comp' = [comp EXCEPT ![j][i].dst = dst, ![j][i].st = "closed",
                                             ![j][i].err = "in open"]
                     \/ comp' = [comp EXCEPT ![j][i].dst = dst, ![j][i].st = "closed",
                                             ![j][i].err = "out open"]
                  /\ UNCHANGED files
               \/ /\ dst # NoPath
                  /\ comp' = [comp EXCEPT ![j][i].dst = dst, ![j][i].st = "loop"]
                  /\ \E content : files' = Written(dst, content)
    BY DEF Open
  <1>5. (dst = NoPath \/ Named(dst)) /\ (dst = c.dst \/ dst.seq = i)
    <2>1. CASE dst = c.dst
      BY <1>2, <2>1
    <2>2. ASSUME NEW t, dst = TmpName("mt_result", t, i)
          PROVE  Named(dst) /\ dst.seq = i
      BY <1>2, <2>2, NamesOK
    <2> QED  BY <1>4, <2>1, <2>2
  <1>6. \A f \in DOMAIN files' : Named(f)
    BY <1>1, <1>4, <1>5, WrittenNamed
  <1>7. PICK st \in {"closed", "loop"}, err \in Errors :
            /\ st = "loop" => dst # NoPath
            /\ comp' = [comp EXCEPT ![j][i] = [c EXCEPT !.dst = dst, !.st = st, !.err = err]]
    <2>1. "in open" \in Errors /\ "out open" \in Errors
      BY DEF Errors
    <2>2. ASSUME NEW err, comp' = [comp EXCEPT ![j][i].dst = dst, ![j][i].st = "closed",
                                               ![j][i].err = err]
          PROVE  comp' = [comp EXCEPT ![j][i] = [c EXCEPT !.dst = dst, !.st = "closed", !.err = err]]
      BY <1>1, <1>2, <2>2 DEF ThreadFields
    <2>3. ASSUME comp' = [comp EXCEPT ![j][i].dst = dst, ![j][i].st = "loop"]
          PROVE  comp' = [comp EXCEPT ![j][i] = [c EXCEPT !.dst = dst, !.st = "loop", !.err = c.err]]
      BY <1>1, <1>2, <2>3 DEF ThreadFields
    <2> QED  BY <1>2, <1>4, <2>1, <2>2, <2>3
  <1> DEFINE d == [c EXCEPT !.dst = dst, !.st = st, !.err = err]
  <1>8. /\ DOMAIN d = ThreadFields /\ d.st = st /\ d.err = err /\ d.dst = dst
        /\ d.buff = c.buff
    BY <1>2 DEF ThreadFields
  <1> HIDE DEF d
  <1>9. comp' = [comp EXCEPT ![j][i] = d]
    BY <1>7 DEF d
  <1>10. /\ DOMAIN comp' = Jobs /\ \A k \in Jobs \ {j} : comp'[k] = comp[k]
         /\ DOMAIN comp'[j] = DOMAIN comp[j]
         /\ \A k \in DOMAIN comp[j] \ {i} : comp'[j][k] = comp[j][k]
         /\ ThreadInv(j, i)'
    BY <1>5, <1>7, <1>8, <1>9, ThreadGoesOn
  <1> QED  BY <1>3, <1>6, <1>10, OneThread

\* CompressBlock and Close: a thread in its loop has a file, and keeps it.
LEMMA LoopStep ==
    ASSUME IInv, NEW j \in Jobs, NEW i \in DOMAIN comp[j], CompressBlock(j, i) \/ Close(j, i)
    PROVE  IInv'
  <1> DEFINE c == comp[j][i]
  <1>1. /\ DOMAIN comp = Jobs /\ ThreadInv(j, i)
        /\ \A f \in DOMAIN files : Named(f)
        /\ \A p \in ticks : p[1][1] \in Jobs
    BY DEF IInv, JobInv
  <1>2. c.st = "loop" /\ UNCHANGED <<param, input, job, ticks>>
    BY DEF CompressBlock, Close
  <1>3. DOMAIN c = ThreadFields /\ c.dst # NoPath /\ Named(c.dst) /\ c.err \in Errors
    BY <1>1, <1>2 DEF ThreadInv
  <1>4. \A f \in DOMAIN files' : Named(f)
    <2>1. files' = files \/ \E content : files' = Written(c.dst, content)
      BY DEF CompressBlock, Close
    <2> QED  BY <1>1, <1>3, <2>1, WrittenNamed
  <1>5. PICK pos, st, err, bad :
            /\ st \in {"loop", "closed"} /\ err \in Errors
            /\ comp' = [comp EXCEPT ![j][i] =
                          [c EXCEPT !.pos = pos, !.st = st, !.err = err, !.bad = bad]]
    <2>1. "zlib" \in Errors
      BY DEF Errors
    <2> DEFINE Becomes(pos, st, err, bad) ==
                 comp' = [comp EXCEPT ![j][i] =
                            [c EXCEPT !.pos = pos, !.st = st, !.err = err, !.bad = bad]]
    <2>2. \/ \E pos : comp' = [comp EXCEPT ![j][i].pos = pos]
          \/ \E pos : comp' = [comp EXCEPT ![j][i].pos = pos, ![j][i].bad = TRUE]
          \/ comp' = [comp EXCEPT ![j][i].st = "closed", ![j][i].err = "zlib"]
          \/ comp' = [comp EXCEPT ![j][i].st = "closed"]
      BY DEF CompressBlock, Close
    <2>3. ASSUME NEW pos, comp' = [comp EXCEPT ![j][i].pos = pos]
          PROVE  Becomes(pos, "loop", c.err, c.bad)
      BY <1>1, <1>2, <1>3, <2>3 DEF ThreadFields
    <2>4. ASSUME comp' = [comp EXCEPT ![j][i].st = "closed", ![j][i].err = "zlib"]
          PROVE  Becomes(c.pos, "closed", "zlib", c.bad)
      BY <1>1, <1>3, <2>4 DEF ThreadFields
    <2>5. ASSUME comp' = [comp EXCEPT ![j][i].st = "closed"]
          PROVE  Becomes(c.pos, "closed", c.err, c.bad)
      BY <1>1, <1>3, <2>5 DEF ThreadFields
    <2>6. ASSUME NEW pos, comp' = [comp EXCEPT ![j][i].pos = pos, ![j][i].bad = TRUE]
          PROVE  Becomes(pos, "loop", c.err, TRUE)
      BY <1>1, <1>2, <1>3, <2>6 DEF ThreadFields
    <2> HIDE DEF Becomes
    <2>7. \E pos, st, err, bad :
            st \in {"loop", "closed"} /\ err \in Errors /\ Becomes(pos, st, err, bad)
      BY <1>3, <2>1, <2>2, <2>3, <2>4, <2>5, <2>6, Zenon
    <2> QED  BY <2>7 DEF Becomes
  <1> DEFINE d == [c EXCEPT !.pos = pos, !.st = st, !.err = err, !.bad = bad]
  <1>6. /\ DOMAIN d = ThreadFields /\ d.st = st /\ d.err = err /\ d.dst = c.dst
        /\ d.buff = c.buff
    BY <1>3 DEF ThreadFields
  <1> HIDE DEF d
  <1>7. comp' = [comp EXCEPT ![j][i] = d]
    BY <1>5 DEF d
  <1>8. /\ DOMAIN comp' = Jobs /\ \A k \in Jobs \ {j} : comp'[k] = comp[k]
        /\ DOMAIN comp'[j] = DOMAIN comp[j]
        /\ \A k \in DOMAIN comp[j] \ {i} : comp'[j][k] = comp[j][k]
        /\ ThreadInv(j, i)'
    BY <1>3, <1>5, <1>6, <1>7, ThreadGoesOn
  <1> QED  BY <1>1, <1>2, <1>4, <1>8, OneThread

-------------------------------------------------------------------------------
(* The specification *)

\* Set leaves the jobs alone.
LEMMA SetStep == ASSUME IInv, NEW s \in Settings, Set(s) PROVE IInv'
  <1>1. UNCHANGED <<files, ticks, input, job, comp>> /\ param' \in Settings
    BY DEF Set
  <1>2. ASSUME NEW j \in Jobs
        PROVE  JobInv(j)'
    <2>1. JobInv(j)
      BY DEF IInv
    <2>2. LocalInv(j)'
      BY ONLY <1>1, <2>1 DEF JobInv, LocalInv, OutPath
    <2>3. \A i \in DOMAIN comp'[j] : ThreadInv(j, i)'
      BY ONLY <1>1, <2>1 DEF JobInv, ThreadInv
    <2> QED  BY ONLY <1>1, <2>1, <2>2, <2>3 DEF JobInv
  <1> QED  BY <1>1, <1>2 DEF IInv

\* It holds at first,
LEMMA InitIInv == ASSUME Init PROVE IInv
  <1>1. /\ param \in Settings /\ files = <<>> /\ ticks = {}
        /\ input \in [Jobs -> [kind : Kinds, size : Sizes, name : Names]]
        /\ DOMAIN job = Jobs /\ DOMAIN comp = Jobs
    BY DEF Init
  <1>2. ASSUME NEW j \in Jobs
        PROVE  JobInv(j)
    <2>1. /\ job[j] = [pc |-> "check", err |-> "none", made |-> <<>>,
                       arch |-> NoPath, out |-> NoPath, n |-> 0, pieces |-> <<>>, joined |-> 0,
                       bad |-> FALSE]
          /\ comp[j] = <<>>
      BY DEF Init
    <2>2. <<>> \in Seq({}) /\ Len(<<>>) = 0 /\ "none" \in Errors
      BY DEF Errors
    <2>3. LocalInv(j)
      BY <2>1, <2>2 DEF LocalInv, JobFields
    <2> QED  BY <2>1, <2>3 DEF JobInv
  <1>3. \A f \in DOMAIN files : Named(f)
    BY <1>1
  <1> QED  BY <1>1, <1>2, <1>3 DEF IInv

\* every step preserves it,
LEMMA StepIInv == ASSUME IInv, [Next]_vars PROVE IInv'
  <1>2. ASSUME NEW s \in Settings, Set(s)
        PROVE  IInv'
    BY <1>2, SetStep
  <1>5. ASSUME UNCHANGED <<param, files, ticks, input, job, comp>>
        PROVE  IInv'
    BY ONLY <1>5, IInv DEF IInv, JobInv, LocalInv, ThreadInv, OutPath
  <1>3. ASSUME NEW j \in Jobs, JobStep(j)
        PROVE  IInv'
    BY <1>3, CheckSteps, ArchiveStep, PrepareStep, DispatchStep, SingleReturnsStep, EndSteps,
       StartMTStep, CutStep, StartThreadsStep, OpenCombinedStep, AppendStep DEF JobStep
  <1>4. ASSUME NEW j \in Jobs, NEW i \in DOMAIN comp[j], ThreadStep(j, i)
        PROVE  IInv'
    BY <1>4, OpenStep, LoopStep DEF ThreadStep
  <1>1. UNCHANGED vars \/ (\E j \in Jobs : JobFails(j)) =>
          UNCHANGED <<param, files, ticks, input, job, comp>>
    BY DEF vars, JobFails, Throws, ProcessEnds
  <1> QED  BY <1>1, <1>2, <1>3, <1>4, <1>5 DEF Next

\* and so it always holds.
LEMMA Inductive == Spec => []IInv
  <1>1. Init => IInv
    BY InitIInv
  <1>2. IInv /\ [Next]_vars => IInv'
    BY StepIInv
  <1> QED  BY <1>1, <1>2, PTL DEF Spec

\* An exception goes to the caller of a job, and a process ends or does not.
EndInv == thrown \subseteq Jobs /\ ended \in BOOLEAN

LEMMA EndHolds == Spec => []EndInv
  <1>1. Init => EndInv
    BY DEF Init, EndInv
  <1>2. EndInv /\ [Next]_vars => EndInv'
    BY DEF EndInv, Next, vars, JobStep, ThreadStep, JobFails, Throws, ProcessEnds
  <1> QED  BY <1>1, <1>2, PTL DEF Spec

\* Each variable's values, from the invariant.
LEMMA TypesFollow == ASSUME IInv, EndInv PROVE TypeOK
  <1>1. \A f \in DOMAIN files :
          /\ f.kind \in {"out", "compress_tmp", "mt_split", "mt_result", "uncompress_tmp"}
          /\ f.seq \in Nat
    BY DEF IInv, Named
  <1>2. ASSUME NEW j \in Jobs
        PROVE  /\ job[j].err \in Errors
               /\ job[j].out \in {NoPath, OutPath(j)}
               /\ Len(job[j].pieces) <= job[j].n
               /\ job[j].joined \in 0..job[j].n
               /\ \A i \in DOMAIN comp[j] :
                     /\ comp[j][i].st \in {"open", "loop", "closed"}
                     /\ comp[j][i].buff \in Nat
                     /\ comp[j][i].err \in Errors
    BY DEF IInv, JobInv, LocalInv, ThreadInv
  <1> QED  BY <1>1, <1>2 DEF IInv, EndInv, TypeOK

\* The state keeps its types: a job never has more pieces or results than the
\* cores it counted when it started, whatever Set does to the count meanwhile.
THEOREM TypeCorrect == Spec => []TypeOK
  BY Inductive, EndHolds, TypesFollow, PTL

\* Two threads that run beside each other have their numbers in the names of
\* their results.
LEMMA ApartFollows == ASSUME IInv PROVE ResultsApart
  <1> SUFFICES ASSUME NEW j \in Jobs, NEW i \in DOMAIN comp[j], NEW k \in DOMAIN comp[j],
                      i # k, comp[j][i].dst = comp[j][k].dst, comp[j][i].dst # NoPath
               PROVE  FALSE
    BY DEF ResultsApart
  <1>1. ThreadInv(j, i) /\ ThreadInv(j, k)
    BY DEF IInv, JobInv
  <1>2. DOMAIN comp[j] # {0}
    OBVIOUS
  <1>3. comp[j][i].dst.seq = i /\ comp[j][k].dst.seq = k
    BY <1>1, <1>2 DEF ThreadInv
  <1> QED  BY <1>3

\* Threads of a job never write to one result file, even when they read the
\* same time of the clock: GetTmpMiddleFile puts the thread's number in the name.
THEOREM FilesApart == Spec => []ResultsApart
  BY Inductive, ApartFollows, PTL

-------------------------------------------------------------------------------
(* Sequences, and the blocks of a file joined *)

\* Concatenation is associative, for sequences of any kind.
Associative(T) == \A a, b, c \in Seq(T) : (a \o b) \o c = a \o (b \o c)

LEMMA Concat3 == \A T : Associative(T)
  <1> SUFFICES ASSUME NEW T, NEW a \in Seq(T), NEW b \in Seq(T), NEW c \in Seq(T)
               PROVE  (a \o b) \o c = a \o (b \o c)
    BY DEF Associative
  <1>1. PICK x, y, z \in Nat : x = Len(a) /\ y = Len(b) /\ z = Len(c)
    OBVIOUS
  <1>c. (a \o b) \in Seq(T) /\ (b \o c) \in Seq(T)
    BY ConcatProperties
  <1>2. PICK p \in Seq(T) : p = a \o b
    BY ONLY <1>c, Zenon
  <1>3. PICK q \in Seq(T) : q = b \o c
    BY ONLY <1>c, Zenon
  <1>d. (p \o c) \in Seq(T) /\ (a \o q) \in Seq(T)
    BY ConcatProperties
  <1>4. PICK u \in Seq(T) : u = p \o c
    BY ONLY <1>d, Zenon
  <1>5. PICK v \in Seq(T) : v = a \o q
    BY ONLY <1>d, Zenon
  <1>6. Len(p) = x + y /\ \A k \in 1..(x + y) : p[k] = IF k <= x THEN a[k] ELSE b[k - x]
    BY ONLY <1>1, <1>2, a \in Seq(T), b \in Seq(T)
  <1>7. Len(q) = y + z /\ \A k \in 1..(y + z) : q[k] = IF k <= y THEN b[k] ELSE c[k - y]
    BY ONLY <1>1, <1>3, b \in Seq(T), c \in Seq(T)
  <1>8. Len(u) = (x + y) + z /\ \A k \in 1..((x + y) + z) : u[k] = IF k <= x + y THEN p[k] ELSE c[k - (x + y)]
    <2>1. PICK w \in Nat : w = x + y /\ w = Len(p)
      BY ONLY <1>6, x \in Nat, y \in Nat
    <2>2. Len(u) = w + z /\ \A k \in 1..(w + z) : u[k] = IF k <= w THEN p[k] ELSE c[k - w]
      <3>1. /\ Len(p \o c) = Len(p) + Len(c)
            /\ \A i \in 1..Len(p) + Len(c) :
                  (p \o c)[i] = IF i <= Len(p) THEN p[i] ELSE c[i - Len(p)]
        BY ONLY p \in Seq(T), c \in Seq(T), ConcatProperties, Zenon
      <3> QED  BY ONLY <1>1, <1>4, <2>1, <3>1
    <2> QED  BY ONLY <2>1, <2>2
  <1>9. Len(v) = x + (y + z) /\ \A k \in 1..(x + (y + z)) : v[k] = IF k <= x THEN a[k] ELSE q[k - x]
    BY ONLY <1>1, <1>5, <1>7, q \in Seq(T), a \in Seq(T), ConcatProperties
  <1>10. ASSUME NEW k \in 1..((x + y) + z)
         PROVE  u[k] = v[k]
    <2> DEFINE U == u[k]
               V == v[k]
               A(i) == a[i]
               B(i) == b[i]
               C(i) == c[i]
    <2>0. k \in Nat /\ 1 <= k /\ k <= x + y + z
      BY ONLY k \in 1..((x + y) + z), x \in Nat, y \in Nat, z \in Nat
    <2>1. CASE k <= x
      <3>1. u[k] = p[k] /\ p[k] = a[k]
        BY ONLY <1>6, <1>8, <2>0, <2>1, x \in Nat, y \in Nat, z \in Nat
      <3>2. v[k] = a[k]
        BY ONLY <1>9, <2>0, <2>1, x \in Nat, y \in Nat, z \in Nat
      <3> QED  BY <3>1, <3>2
    <2>2. CASE k > x /\ k <= x + y
      <3>1. u[k] = p[k] /\ p[k] = b[k - x]
        BY ONLY <1>6, <1>8, <2>0, <2>2, x \in Nat, y \in Nat, z \in Nat
      <3>2. v[k] = q[k - x] /\ q[k - x] = b[k - x]
        BY ONLY <1>7, <1>9, <2>0, <2>2, x \in Nat, y \in Nat, z \in Nat
      <3> QED  BY <3>1, <3>2
    <2>3. CASE k > x + y
      <3>1. u[k] = c[k - (x + y)]
        BY ONLY <1>8, <2>0, <2>3, x \in Nat, y \in Nat, z \in Nat
      <3>2. v[k] = q[k - x] /\ q[k - x] = c[(k - x) - y]
        BY ONLY <1>7, <1>9, <2>0, <2>3, x \in Nat, y \in Nat, z \in Nat
      <3>3. (k - x) - y = k - (x + y)
        BY ONLY <2>0, x \in Nat, y \in Nat, z \in Nat
      <3> QED  BY <3>1, <3>2, <3>3
    <2> QED  BY ONLY <2>0, <2>1, <2>2, <2>3, x \in Nat, y \in Nat, z \in Nat
  <1>11. Len(u) = Len(v)
    BY <1>8, <1>9
  <1>12. u = v
    BY ONLY <1>8, <1>10, <1>11, SeqEqual, u \in Seq(T), v \in Seq(T)
  <1> QED  BY <1>2, <1>3, <1>4, <1>5, <1>12

\* Induction over the natural numbers, for a set of them.
LEMMA NatSetInduction ==
    ASSUME NEW S, 0 \in S, \A n \in Nat : n \in S => n + 1 \in S
    PROVE  Nat \subseteq S
  <1> DEFINE T == Nat \ S
             R == OpToRel(<, Nat)
  <1> SUFFICES ASSUME NEW m \in T PROVE FALSE
    OBVIOUS
  <1>1. IsWellFoundedOn(R, Nat)
    BY NatLessThanWellFounded
  <1>2. \A x, y \in Nat : x < y => <<x, y>> \in R
    BY DEF OpToRel
  <1> HIDE DEF R
  <1>3. PICK n \in T : \A k \in T : <<k, n>> \notin R
    <2> HIDE DEF T
    <2>1. T \subseteq Nat /\ T # {}
      BY DEF T
    <2> QED  BY ONLY <1>1, <2>1, WFMin
  <1>4. n \in Nat /\ n # 0
    OBVIOUS
  <1>5. n - 1 \in Nat /\ n - 1 < n
    BY <1>4
  <1>6. n - 1 \in S
    BY <1>2, <1>3, <1>4, <1>5
  <1>7. (n - 1) + 1 \in S
    BY <1>5, <1>6
  <1> QED  BY <1>4, <1>7

\* f holds the first blocks of s joined, for each number of them.
Joins(s, f) ==
    f = [i \in 1..Len(s) |-> IF i = 1 THEN s[i] ELSE f[i - 1] \o s[i]]

\* There is such a function,
LEMMA JoinThere ==
    ASSUME NEW T, NEW s \in Seq(Seq(T))
    PROVE  \E f : Joins(s, f)
  <1> DEFINE Step(f, i) == IF i = 1 THEN s[i] ELSE f[i - 1] \o s[i]
             S == {n \in Nat : n <= Len(s) =>
                      \E f : f = [i \in 1..n |-> Step(f, i)]}
  <1>0. Len(s) \in Nat
    OBVIOUS
  <1>1. 0 \in S
    <2> DEFINE e == [i \in 1..0 |-> s]
    <2>1. e = [i \in 1..0 |-> Step(e, i)]
      OBVIOUS
    <2> HIDE DEF e, Step
    <2>2. \E f : f = [i \in 1..0 |-> Step(f, i)]
      BY <2>1
    <2> QED  BY <2>2
  <1>2. ASSUME NEW n \in Nat, n \in S
        PROVE  n + 1 \in S
    <2> HIDE DEF Step
    <2> SUFFICES ASSUME n + 1 <= Len(s)
                 PROVE  \E f : f = [i \in 1..(n + 1) |-> Step(f, i)]
      OBVIOUS
    <2>0. n <= Len(s)
      BY <1>0
    <2>1. PICK g : g = [i \in 1..n |-> Step(g, i)]
      BY <1>2, <2>0
    <2> DEFINE h == [i \in 1..(n + 1) |-> IF i = n + 1 THEN Step(g, i) ELSE g[i]]
    <2>2. ASSUME NEW i \in 1..(n + 1)
          PROVE  h[i] = Step(h, i)
      <3>1. h[i] = Step(g, i)
        <4>1. CASE i = n + 1
          BY <4>1
        <4>2. CASE i # n + 1
          <5>1. i \in 1..n
            BY <4>2
          <5>2. g[i] = Step(g, i)
            <6> HIDE DEF h
            <6> QED  BY <2>1, <5>1, Zenon
          <5> QED  BY <4>2, <5>2
        <4> QED  BY <4>1, <4>2
      <3>2. Step(g, i) = Step(h, i)
        <4>1. CASE i = 1
          BY <4>1 DEF Step
        <4>2. CASE i # 1
          <5>1. i - 1 \in 1..(n + 1) /\ i - 1 # n + 1
            BY <4>2
          <5>2. h[i - 1] = g[i - 1]
            BY <5>1
          <5> HIDE DEF h
          <5> QED  BY <4>2, <5>2 DEF Step
        <4> QED  BY <4>1, <4>2
      <3> QED  BY <3>1, <3>2
    <2>3. h = [i \in 1..(n + 1) |-> h[i]]
      OBVIOUS
    <2> HIDE DEF h
    <2>4. h = [i \in 1..(n + 1) |-> Step(h, i)]
      BY <2>2, <2>3, Zenon
    <2> QED  BY <2>4
  <1> HIDE DEF S
  <1>3. Len(s) \in S
    BY <1>0, <1>1, <1>2, NatSetInduction
  <1>4. Len(s) <= Len(s)
    BY <1>0
  <1>5. \E f : f = [i \in 1..Len(s) |-> Step(f, i)]
    BY <1>3, <1>4 DEF S
  <1> QED  BY <1>5 DEF Joins

\* and FlattenSeq goes by one.
LEMMA FlattenJoins ==
    ASSUME NEW T, NEW s \in Seq(Seq(T))
    PROVE  \E f : /\ Joins(s, f)
                  /\ FlattenSeq(s) = IF Len(s) = 0 THEN s ELSE f[Len(s)]
  <1> DEFINE f == CHOOSE f : Joins(s, f)
  <1>1. Joins(s, f)
    BY JoinThere
  <1>2. FlattenSeq(s) = IF Len(s) = 0 THEN s ELSE f[Len(s)]
    BY DEF FlattenSeq, Joins
  <1> QED  BY <1>1, <1>2

\* Block by block.
Chained(s, f) ==
    /\ Len(s) > 0 => f[1] = s[1]
    /\ \A i \in 1..Len(s) : i > 1 => f[i] = f[i - 1] \o s[i]

\* What such a function holds are sequences, and it goes block by block.
LEMMA JoinsValues ==
    ASSUME NEW T, NEW s \in Seq(Seq(T)), NEW f, Joins(s, f)
    PROVE  /\ \A i \in 1..Len(s) : f[i] \in Seq(T)
           /\ Chained(s, f)
  <1>0. Len(s) \in Nat
    OBVIOUS
  <1>1. \A i \in 1..Len(s) : f[i] = IF i = 1 THEN s[i] ELSE f[i - 1] \o s[i]
    BY Zenon DEF Joins
  <1>2. \A i \in 1..Len(s) : s[i] \in Seq(T)
    OBVIOUS
  <1> DEFINE S == {n \in Nat : n \in 1..Len(s) => f[n] \in Seq(T)}
  <1>3. 0 \in S
    OBVIOUS
  <1>4. ASSUME NEW n \in Nat, n \in S
        PROVE  n + 1 \in S
    <2> SUFFICES ASSUME n + 1 \in 1..Len(s) PROVE f[n + 1] \in Seq(T)
      OBVIOUS
    <2>1. CASE n = 0
      BY ONLY <1>1, <1>2, <2>1, n + 1 \in 1..Len(s)
    <2>2. CASE n # 0
      <3>1. n \in 1..Len(s) /\ n + 1 # 1 /\ (n + 1) - 1 = n
        BY <1>0, <2>2
      <3>2. f[n] \in Seq(T) /\ s[n + 1] \in Seq(T)
        BY <1>2, <1>4, <3>1
      <3>3. f[n + 1] = f[n] \o s[n + 1]
        BY <1>1, <3>1
      <3> QED  BY ONLY <3>2, <3>3
    <2> QED  BY <2>1, <2>2
  <1> HIDE DEF S
  <1>5. Nat \subseteq S
    BY <1>3, <1>4, NatSetInduction
  <1>6. \A i \in 1..Len(s) : f[i] \in Seq(T)
    <2>1. \A i \in 1..Len(s) : i \in Nat
      OBVIOUS
    <2> QED  BY <1>5, <2>1 DEF S
  <1>7. Len(s) > 0 => f[1] = s[1]
    BY <1>0, <1>1
  <1>8. \A i \in 1..Len(s) : i > 1 => f[i] = f[i - 1] \o s[i]
    <2>1. \A i \in 1..Len(s) : i > 1 => i # 1
      OBVIOUS
    <2> QED  BY <1>1, <2>1, Zenon
  <1> QED  BY <1>6, <1>7, <1>8 DEF Chained

\* The value of FlattenSeq, and what one more block does to it.
LEMMA FlattenAppend ==
    ASSUME NEW T, NEW s \in Seq(Seq(T)), NEW e \in Seq(T)
    PROVE  /\ FlattenSeq(s) \in Seq(T)
           /\ FlattenSeq(Append(s, e)) = FlattenSeq(s) \o e
  <1>1. PICK f : Joins(s, f) /\ FlattenSeq(s) = IF Len(s) = 0 THEN s ELSE f[Len(s)]
    BY FlattenJoins
  <1> DEFINE t == Append(s, e)
             L == Len(s)
  <1>2. /\ t \in Seq(Seq(T)) /\ Len(t) = L + 1 /\ L \in Nat /\ t[L + 1] = e
        /\ \A i \in 1..L : t[i] = s[i]
    OBVIOUS
  <1> HIDE DEF t
  <1>3. PICK g : Joins(t, g) /\ FlattenSeq(t) = IF Len(t) = 0 THEN t ELSE g[Len(t)]
    BY <1>2, FlattenJoins
  <1>4. /\ \A i \in 1..L : f[i] \in Seq(T)
        /\ L > 0 => f[1] = s[1]
        /\ \A i \in 1..L : i > 1 => f[i] = f[i - 1] \o s[i]
    BY <1>1, JoinsValues DEF L, Chained
  <1>5. /\ Len(t) > 0 => g[1] = t[1]
        /\ \A i \in 1..Len(t) : i > 1 => g[i] = g[i - 1] \o t[i]
    <2>1. Chained(t, g)
      BY ONLY <1>2, <1>3, JoinsValues
    <2> QED  BY ONLY <2>1 DEF Chained
  <1> HIDE DEF L
  <1>6. \A n \in Nat : n \in 1..L => f[n] = g[n]
    <2> DEFINE S == {n \in Nat : n \in 1..L => f[n] = g[n]}
    <2>1. 0 \in S
      OBVIOUS
    <2>2. ASSUME NEW n \in Nat, n \in S
          PROVE  n + 1 \in S
      <3> SUFFICES ASSUME n + 1 \in 1..L PROVE f[n + 1] = g[n + 1]
        OBVIOUS
      <3>1. CASE n = 0
        BY <1>2, <1>4, <1>5, <3>1
      <3>2. CASE n # 0
        <4>1. n \in 1..L /\ n + 1 > 1 /\ (n + 1) - 1 = n /\ n + 1 \in 1..Len(t)
          BY ONLY <1>2, <3>2, n \in Nat, n + 1 \in 1..L
        <4>2. f[n + 1] = f[n] \o s[n + 1] /\ g[n + 1] = g[n] \o t[n + 1]
          BY <1>4, <1>5, <4>1
        <4>3. f[n] = g[n] /\ s[n + 1] = t[n + 1]
          BY <1>2, <2>2, <4>1
        <4> QED  BY ONLY <4>2, <4>3
      <3> QED  BY <3>1, <3>2
    <2> HIDE DEF S
    <2>3. Nat \subseteq S
      BY <2>1, <2>2, NatSetInduction
    <2> QED  BY <2>3 DEF S
  <1>7. FlattenSeq(t) = g[L + 1]
    BY ONLY <1>2, <1>3
  <1>8. CASE L = 0
    <2>1. s = <<>>
      BY <1>8 DEF L
    <2>2. g[1] = e
      BY ONLY <1>2, <1>5, <1>8
    <2>3. FlattenSeq(s) = <<>>
      BY <1>1, <1>8, <2>1 DEF L
    <2>4. <<>> \o e = e
      OBVIOUS
    <2> QED  BY <1>7, <1>8, <2>2, <2>3, <2>4 DEF t
  <1>9. CASE L # 0
    <2>1. L \in 1..L /\ L + 1 > 1 /\ L + 1 \in 1..Len(t) /\ (L + 1) - 1 = L
      BY ONLY <1>2, <1>9
    <2>2. FlattenSeq(s) = f[L]
      BY <1>1, <1>9 DEF L
    <2>3. g[L + 1] = g[L] \o t[L + 1] /\ g[L] = f[L] /\ f[L] \in Seq(T)
      BY <1>2, <1>4, <1>5, <1>6, <2>1
    <2> QED  BY <1>2, <1>7, <2>2, <2>3 DEF t
  <1> QED  BY <1>8, <1>9

\* No block and one block.
LEMMA FlattenShort ==
    /\ FlattenSeq(<<>>) = <<>>
    /\ \A T : \A e \in Seq(T) : FlattenSeq(<<e>>) = e
  <1>1. FlattenSeq(<<>>) = <<>>
    BY DEF FlattenSeq
  <1>2. ASSUME NEW T, NEW e \in Seq(T)
        PROVE  FlattenSeq(<<e>>) = e
    <2>1. <<>> \in Seq(Seq(T)) /\ Append(<<>>, e) = <<e>> /\ <<>> \o e = e
      OBVIOUS
    <2>2. FlattenSeq(Append(<<>>, e)) = FlattenSeq(<<>>) \o e
      BY <2>1, FlattenAppend
    <2> QED  BY <1>1, <2>1, <2>2
  <1> QED  BY <1>1, <1>2

\* Two files behind each other.
LEMMA FlattenConcat ==
    ASSUME NEW T, NEW s \in Seq(Seq(T)), NEW t \in Seq(Seq(T))
    PROVE  FlattenSeq(s \o t) = FlattenSeq(s) \o FlattenSeq(t)
  <1> DEFINE Joined(n) == FlattenSeq(s \o SubSeq(t, 1, n))
                             = FlattenSeq(s) \o FlattenSeq(SubSeq(t, 1, n))
             S == {n \in Nat : n <= Len(t) => Joined(n)}
  <1>0. Len(t) \in Nat /\ FlattenSeq(s) \in Seq(T)
    <2>1. <<>> \in Seq(T)
      OBVIOUS
    <2>2. FlattenSeq(s) \in Seq(T)
      BY <2>1, FlattenAppend
    <2> QED  BY <2>2
  <1>1. 0 \in S
    <2>1. SubSeq(t, 1, 0) = <<>>
      OBVIOUS
    <2>2. s \o <<>> = s
      OBVIOUS
    <2>3. FlattenSeq(s) \o <<>> = FlattenSeq(s)
      BY <1>0
    <2> QED  BY <2>1, <2>2, <2>3, FlattenShort
  <1>2. ASSUME NEW n \in Nat, n \in S
        PROVE  n + 1 \in S
    <2> SUFFICES ASSUME n + 1 <= Len(t) PROVE Joined(n + 1)
      OBVIOUS
    <2> DEFINE p == SubSeq(t, 1, n)
               e == t[n + 1]
    <2>1. n <= Len(t) /\ n + 1 \in 1..Len(t)
      BY <1>0
    <2>2. p \in Seq(Seq(T)) /\ e \in Seq(T)
      BY <2>1
    <2>3. SubSeq(t, 1, n + 1) = Append(p, e)
      BY <2>1
    <2>4. Joined(n)
      BY <1>2, <2>1
    <2>5. FlattenSeq(s \o p) = FlattenSeq(s) \o FlattenSeq(p)
      BY <2>4
    <2> HIDE DEF p, e
    <2>6. s \o Append(p, e) = Append(s \o p, e) /\ s \o p \in Seq(Seq(T))
      BY ONLY <2>2, s \in Seq(Seq(T))
    <2>7. FlattenSeq(Append(s \o p, e)) = FlattenSeq(s \o p) \o e
      BY <2>2, <2>6, FlattenAppend
    <2>8. FlattenSeq(Append(p, e)) = FlattenSeq(p) \o e /\ FlattenSeq(p) \in Seq(T)
      BY <2>2, FlattenAppend
    <2>9. (FlattenSeq(s) \o FlattenSeq(p)) \o e = FlattenSeq(s) \o (FlattenSeq(p) \o e)
      <3>1. PICK a, b \in Seq(T) : a = FlattenSeq(s) /\ b = FlattenSeq(p)
        BY <1>0, <2>8
      <3>2. (a \o b) \o e = a \o (b \o e)
        <4>1. e \in Seq(T)
          BY <2>2
        <4>2. Associative(T)
          BY ONLY Concat3, Zenon
        <4> QED  BY ONLY <4>1, <4>2, a \in Seq(T), b \in Seq(T) DEF Associative
      <3> QED  BY <3>1, <3>2
    <2> QED  BY <2>3, <2>5, <2>6, <2>7, <2>8, <2>9
  <1> HIDE DEF S, Joined
  <1>3. Len(t) \in S
    BY <1>0, <1>1, <1>2, NatSetInduction
  <1>4. Len(t) <= Len(t)
    BY <1>0
  <1>5. Joined(Len(t))
    BY <1>3, <1>4 DEF S
  <1>6. SubSeq(t, 1, Len(t)) = t
    BY <1>0
  <1> QED  BY <1>5, <1>6 DEF Joined
-------------------------------------------------------------------------------
(* The files of the jobs: the inductive invariant *)

\* A unit of an archive.
Unit == (Jobs \X Nat) \cup {Garbled}

\* The files a job writes: its output, and temporary ones that bear its time.
Temporary == {"compress_tmp", "mt_split", "mt_result"}
OfJob(f, j) == f.time[1][1] = j
Belongs(f, j) == f = OutPath(j) \/ (f.kind \in Temporary /\ OfJob(f, j))

\* Those that no other job writes: an output may be that of several jobs.
Kept(f, j) == Belongs(f, j) /\ (f = OutPath(j) => Own(j))

\* How far a job must have come for files of each kind.
HasArchive == {"prepare", "dispatch", "mt", "single", "cut", "join", "combine", "clean",
               "remove"}
HasPieces == {"cut", "join", "combine", "clean"}
HasResults == {"join", "combine", "clean"}
HasOutput == {"single", "combine", "clean", "remove", "notify", "done"}

\* What a job knows of its temporary files: a job on one thread has no pieces,
\* and one that started several has a piece for each.
Stage(j) ==
    /\ job[j].pc \in HasArchive => job[j].arch.kind = "compress_tmp" /\ OfJob(job[j].arch, j)
    /\ \A i \in 1..Len(job[j].pieces) :
          job[j].pieces[i].kind = "mt_split" /\ OfJob(job[j].pieces[i], j)
    /\ job[j].pc \in {"cut", "join", "combine"} => job[j].n > 1
    /\ job[j].pc \in {"join", "combine"} => Len(job[j].pieces) = job[j].n
    /\ job[j].pc = "clean" /\ job[j].err = "none" => job[j].pieces # <<>>
    /\ job[j].pc = "single" => job[j].pieces = <<>>

\* Which threads a job has, and what they read and write.
Crew(j) ==
    /\ job[j].pc \in {"check", "archive", "prepare", "dispatch", "mt", "cut"} =>
          DOMAIN comp[j] = {}
    /\ job[j].pc = "single" =>
          /\ DOMAIN comp[j] = {0}
          /\ comp[j][0].src = job[j].arch
          /\ comp[j][0].dst = job[j].out
    /\ job[j].pc \in {"join", "combine"} =>
          /\ DOMAIN comp[j] = 0..(job[j].n - 1)
          /\ \A i \in DOMAIN comp[j] : comp[j][i].src = job[j].pieces[i + 1]
    /\ job[j].pc \in HasResults =>
          \A i \in DOMAIN comp[j] :
              \/ comp[j][i].dst = NoPath
              \/ /\ comp[j][i].st # "open"
                 /\ comp[j][i].dst.kind = "mt_result"
                 /\ OfJob(comp[j][i].dst, j)
                 /\ comp[j][i].dst.seq = i
    /\ job[j].pc \notin {"single", "join"} =>
          \A i \in DOMAIN comp[j] : comp[j][i].st = "closed"

\* The temporary files of a job that exist are those it will remove, and an output
\* of its own has a header from the moment it exists.
Places(j) ==
    \A f \in DOMAIN files :
        /\ f.kind = "compress_tmp" /\ OfJob(f, j) => job[j].pc \in HasArchive /\ f = job[j].arch
        /\ f.kind = "mt_split" /\ OfJob(f, j) =>
              job[j].pc \in HasPieces /\ \E i \in 1..Len(job[j].pieces) : f = job[j].pieces[i]
        /\ f.kind = "mt_result" /\ OfJob(f, j) =>
              job[j].pc \in HasResults /\ \E i \in DOMAIN comp[j] : f = comp[j][i].dst
        /\ f = OutPath(j) /\ Own(j) =>
              /\ job[j].pc \in HasOutput
              /\ job[j].pc = "single" => comp[j][0].st # "open"
              /\ files[f] # <<>>
              /\ files[f][1] = Header

\* What a thread writes no other job writes; a result is never shared.
Mine(j) == job[j].pc = "single" => Own(j)

\* A thread has compressed what it has read, and all of it if nothing failed; its
\* file holds it if every write went through.
Progress(j, i) ==
    LET c == comp[j][i]
    IN  /\ c.st = "open" => c.pos = 0
        /\ job[j].pc \in {"single", "join"} /\ c.st = "loop" =>
              /\ Exists(c.src)
              /\ c.pos \in 0..Len(files[c.src])
              /\ Mine(j) => Exists(c.dst)
              /\ Mine(j) /\ ~c.bad => FlattenSeq(files[c.dst]) = SubSeq(files[c.src], 1, c.pos)
        /\ job[j].pc \in {"single", "join", "combine"} /\ c.st = "closed" /\ c.err = "none" =>
              /\ Exists(c.src)
              /\ Mine(j) => Exists(c.dst)
              /\ Mine(j) /\ ~c.bad => FlattenSeq(files[c.dst]) = files[c.src]

\* A job that one thread has compressed, without an error that anybody sees.
Returned(j) ==
    /\ job[j].pc \in {"clean", "remove", "notify", "done"}
    /\ job[j].err = "none" /\ job[j].pieces = <<>> /\ ~comp[j][0].bad

\* The temporary file holds what Archive has made, and then so does an output of
\* its own; results are combined in a file that exists.
Whole(j) ==
    /\ job[j].pc \in HasArchive /\ Exists(job[j].arch) => files[job[j].arch] = job[j].made
    /\ Own(j) /\ Returned(j) => Holds(job[j].out, job[j].made)
    /\ Own(j) /\ job[j].pc = "combine" => Exists(OutPath(j))

JobFiles(j) ==
    Stage(j) /\ Crew(j) /\ Places(j) /\ (\A i \in DOMAIN comp[j] : Progress(j, i)) /\ Whole(j)

\* What files of each kind hold.
ContentOK(f) ==
    /\ f.kind \in Temporary => f.time[1][1] \in Jobs
    /\ files[f] \in IF f.kind \in {"out", "mt_result"} THEN Seq(Seq(Unit)) ELSE Seq(Unit)

FInv ==
    /\ \A p \in ticks : p[2][1][1] = p[1][1]
    /\ \A f \in DOMAIN files : ContentOK(f)
    /\ \A j \in Jobs : JobFiles(j)

-------------------------------------------------------------------------------
(* What a step does to files *)

\* The step leaves this file alone.
SameFile(f) ==
    /\ f \in DOMAIN files' <=> f \in DOMAIN files
    /\ f \in DOMAIN files => files'[f] = files[f]

\* Writing changes one file,
LEMMA WriteKeeps ==
    ASSUME NEW g, NEW content, files' = Written(g, content)
    PROVE  /\ DOMAIN files' = DOMAIN files \cup {g}
           /\ files'[g] = content
           /\ \A f : f # g => SameFile(f)
  BY DEF Written, SameFile

\* removing those that are removed,
LEMMA RemoveKeeps ==
    ASSUME NEW gone, files' = Without(gone)
    PROVE  /\ DOMAIN files' = DOMAIN files \ gone
           /\ \A f : f \notin gone => SameFile(f)
  BY DEF Without, Restrict, SameFile

\* and no file that one job keeps belongs to another.
LEMMA BelongsOnce ==
    ASSUME NEW f, NEW j \in Jobs, NEW k \in Jobs, Belongs(f, j), Kept(f, k)
    PROVE  j = k
  <1>1. OutPath(j).kind = "out" /\ OutPath(k).kind = "out" /\ "out" \notin Temporary
    BY DEF OutPath, Temporary
  <1>2. CASE f.kind = "out"
    <2>1. f = OutPath(j) /\ f = OutPath(k) /\ Own(k)
      BY <1>1, <1>2 DEF Belongs, Kept
    <2> QED  BY <2>1 DEF Own
  <1>3. CASE f.kind # "out"
    BY <1>1, <1>3 DEF Belongs, Kept, OfJob
  <1> QED  BY <1>2, <1>3

\* Who writes where does not change.
LEMMA SameOwn ==
    ASSUME NEW j, input' = input
    PROVE  (Own(j)' <=> Own(j)) /\ OutPath(j)' = OutPath(j)
  BY DEF Own, OutPath

\* What a job or a thread with files knows belongs to it.
LEMMA ThreadFiles ==
    ASSUME NEW j \in Jobs, JobInv(j), Stage(j), Crew(j), NEW i \in DOMAIN comp[j],
           job[j].pc \in {"single", "join", "combine"}
    PROVE  /\ Belongs(comp[j][i].src, j) /\ Kept(comp[j][i].src, j)
           /\ comp[j][i].src.kind \in {"compress_tmp", "mt_split"}
           /\ comp[j][i].dst = NoPath \/ Belongs(comp[j][i].dst, j)
           /\ Mine(j) => comp[j][i].dst = NoPath \/ Kept(comp[j][i].dst, j)
           /\ comp[j][i].dst = NoPath \/ comp[j][i].dst.kind = IF job[j].pc = "single" THEN "out" ELSE "mt_result"
           /\ comp[j][i].st = "loop" => comp[j][i].dst # NoPath
  <1>1. job[j].out \in {NoPath, OutPath(j)} /\ OutPath(j).kind = "out"
    BY DEF JobInv, LocalInv, OutPath
  <1>2. comp[j][i].st = "loop" => comp[j][i].dst # NoPath
    BY DEF JobInv, ThreadInv
  <1>3. CASE job[j].pc = "single"
    <2>1. i = 0 /\ comp[j][i].src = job[j].arch /\ comp[j][i].dst = job[j].out
      BY <1>3 DEF Crew
    <2>2. job[j].arch.kind = "compress_tmp" /\ OfJob(job[j].arch, j)
      BY <1>3 DEF Stage, HasArchive
    <2> QED  BY <1>1, <1>2, <1>3, <2>1, <2>2 DEF Belongs, Kept, Mine, Temporary
  <1>4. CASE job[j].pc \in {"join", "combine"}
    <2>1. /\ i \in 0..(job[j].n - 1) /\ comp[j][i].src = job[j].pieces[i + 1]
          /\ Len(job[j].pieces) = job[j].n
      BY <1>4 DEF Crew, Stage
    <2>2. job[j].n \in Nat
      BY DEF JobInv, LocalInv
    <2>3. i + 1 \in 1..Len(job[j].pieces)
      BY <2>1, <2>2
    <2>4. comp[j][i].src.kind = "mt_split" /\ OfJob(comp[j][i].src, j)
      BY <2>1, <2>3 DEF Stage
    <2>5. comp[j][i].dst = NoPath \/ (comp[j][i].dst.kind = "mt_result" /\ OfJob(comp[j][i].dst, j))
      BY <1>4 DEF Crew, HasResults
    <2> QED  BY <1>1, <1>2, <1>4, <2>4, <2>5 DEF Belongs, Kept, Temporary
  <1> QED  BY <1>3, <1>4

\* What no job touches stays as it is said to be.
LEMMA OthersStay ==
    ASSUME IInv, NEW k \in Jobs, JobFiles(k), input' = input,
           job'[k] = job[k], comp'[k] = comp[k],
           \A f : Kept(f, k) => SameFile(f)
    PROVE  JobFiles(k)'
  <1>1. JobInv(k) /\ Stage(k) /\ Crew(k) /\ Places(k) /\ Whole(k)
        /\ \A i \in DOMAIN comp[k] : Progress(k, i)
    BY DEF IInv, JobFiles
  <1>2. Stage(k)'
    BY ONLY <1>1, job'[k] = job[k] DEF Stage, OfJob
  <1>3. Crew(k)'
    <2>1. PICK a, c : a = job[k] /\ a = job'[k] /\ c = comp[k] /\ c = comp'[k]
      OBVIOUS
    <2>2. NoPath' = NoPath
      BY DEF NoPath
    <2> QED  BY ONLY <1>1, <2>1, <2>2 DEF Crew, OfJob
  <1>4. Places(k)'
    <2>1. OutPath(k)' = OutPath(k) /\ Header' = Header /\ (Own(k)' <=> Own(k))
      BY SameOwn DEF Header
    <2>2. ASSUME NEW f \in DOMAIN files', Kept(f, k)
          PROVE  f \in DOMAIN files /\ files'[f] = files[f]
      BY <2>2 DEF SameFile
    <2>3. ASSUME NEW f \in DOMAIN files'
          PROVE  /\ f.kind \in Temporary /\ OfJob(f, k) => Kept(f, k)
                 /\ f = OutPath(k) /\ Own(k) => Kept(f, k)
      BY DEF Belongs, Kept, Temporary, OutPath
    <2> QED  BY ONLY <1>1, <2>1, <2>2, <2>3, job'[k] = job[k], comp'[k] = comp[k]
               DEF Places, OfJob, Temporary
  <1>5. ASSUME NEW i \in DOMAIN comp'[k]
        PROVE  Progress(k, i)'
    <2>1. i \in DOMAIN comp[k] /\ Progress(k, i) /\ NoPath \notin DOMAIN files
      BY <1>1, NoPathUnnamed DEF IInv
    <2>2. PICK c : c = comp[k][i] /\ c = comp'[k][i]
      BY <2>1
    <2>3. CASE job[k].pc \in {"single", "join", "combine"}
      <3>1. SameFile(c.src) /\ (Mine(k) => c.dst = NoPath \/ SameFile(c.dst))
        BY <1>1, <2>1, <2>2, <2>3, ThreadFiles
      <3>2. Exists(c.src) => c.src \in DOMAIN files' /\ files'[c.src] = files[c.src]
        BY <3>1 DEF SameFile, Exists
      <3>3. Mine(k) /\ Exists(c.dst) => c.dst \in DOMAIN files' /\ files'[c.dst] = files[c.dst]
        BY <2>1, <3>1 DEF SameFile, Exists
      <3>4. Mine(k)' <=> Mine(k)
        BY SameOwn DEF Mine
      <3> QED  BY ONLY <2>1, <2>2, <3>2, <3>3, <3>4, job'[k] = job[k] DEF Progress, Exists
    <2>4. CASE job[k].pc \notin {"single", "join", "combine"}
      BY ONLY <2>1, <2>2, <2>4, job'[k] = job[k] DEF Progress
    <2> QED  BY <2>3, <2>4
  <1>6. Whole(k)'
    <2>1. job[k].out \in {NoPath, OutPath(k)} /\ NoPath \notin DOMAIN files
      BY <1>1, NoPathUnnamed DEF JobInv, LocalInv, IInv
    <2>2. job[k].pc \in HasArchive => SameFile(job[k].arch)
      BY <1>1 DEF Stage, Belongs, Kept, Temporary, OutPath
    <2>3. OutPath(k)' = OutPath(k) /\ (Own(k)' <=> Own(k))
      BY SameOwn
    <2>4. Own(k) => SameFile(OutPath(k))
      BY DEF Belongs, Kept
    <2>5. PICK out, made : out = job[k].out /\ made = job[k].made
      OBVIOUS
    <2>6. Own(k) /\ Holds(out, made) => Holds(out, made)'
      BY ONLY <2>1, <2>4, <2>5 DEF Holds, SameFile, Exists, Header
    <2>7. Own(k) /\ Returned(k) => Holds(out, made)'
      BY <1>1, <2>5, <2>6 DEF Whole
    <2>8. (Returned(k)' <=> Returned(k)) /\ out = job'[k].out /\ made = job'[k].made
      BY ONLY <2>5, job'[k] = job[k], comp'[k] = comp[k] DEF Returned
    <2>9. (Own(k) /\ Returned(k))' => Holds(job[k].out, job[k].made)'
      BY ONLY <2>3, <2>7, <2>8 DEF Holds, Exists
    <2> QED  BY ONLY <1>1, <2>2, <2>3, <2>4, <2>9, job'[k] = job[k]
               DEF Whole, SameFile, Exists, HasArchive
  <1> QED  BY <1>2, <1>3, <1>4, <1>5, <1>6 DEF JobFiles

\* A step of one job.
LEMMA FilesStepOf ==
    ASSUME IInv, FInv, NEW j \in Jobs, input' = input,
           \A k \in Jobs \ {j} : job'[k] = job[k] /\ comp'[k] = comp[k],
           \A f : SameFile(f) \/ Belongs(f, j),
           \A p \in ticks' : p[2][1][1] = p[1][1],
           \A f \in DOMAIN files' : ContentOK(f)',
           JobFiles(j)'
    PROVE  FInv'
  <1>1. ASSUME NEW k \in Jobs \ {j}
        PROVE  JobFiles(k)'
    <2>1. \A f : Kept(f, k) => SameFile(f)
      BY BelongsOnce
    <2>2. job'[k] = job[k] /\ comp'[k] = comp[k] /\ JobFiles(k)
      BY DEF FInv
    <2> QED  BY <2>1, <2>2, OthersStay
  <1> QED  BY <1>1 DEF FInv
-------------------------------------------------------------------------------
(* What a step of a job leaves as it was *)

Busy == {"single", "join", "combine"}

\* Files stay where they belong when the job goes on to where it needs them.
LEMMA PlacesStay ==
    ASSUME NEW j \in Jobs, Places(j), input' = input, \A f : Belongs(f, j) => SameFile(f),
           job'[j].arch = job[j].arch, job'[j].pieces = job[j].pieces,
           job[j].pc \in HasResults \cup {"single"} => comp'[j] = comp[j],
           job[j].pc \in HasArchive => job'[j].pc \in HasArchive,
           job[j].pc \in HasPieces => job'[j].pc \in HasPieces,
           job[j].pc \in HasResults => job'[j].pc \in HasResults,
           job[j].pc \in HasOutput => job'[j].pc \in HasOutput,
           job'[j].pc = "single" => job[j].pc = "single" \/ job[j].pc \notin HasOutput
    PROVE  Places(j)'
  <1>1. OutPath(j)' = OutPath(j) /\ Header' = Header /\ (Own(j)' <=> Own(j))
    BY SameOwn DEF Header
  <1>2. ASSUME NEW f \in DOMAIN files', Belongs(f, j)
        PROVE  f \in DOMAIN files /\ files'[f] = files[f]
    BY <1>2 DEF SameFile
  <1>3. ASSUME NEW f \in DOMAIN files', f.kind = "compress_tmp", OfJob(f, j)
        PROVE  job'[j].pc \in HasArchive /\ f = job'[j].arch
    <2>1. f \in DOMAIN files
      BY <1>2, <1>3 DEF Belongs, Temporary
    <2> QED  BY <1>3, <2>1 DEF Places
  <1>4. ASSUME NEW f \in DOMAIN files', f.kind = "mt_split", OfJob(f, j)
        PROVE  job'[j].pc \in HasPieces /\ \E i \in 1..Len(job'[j].pieces) : f = job'[j].pieces[i]
    <2>1. f \in DOMAIN files
      BY <1>2, <1>4 DEF Belongs, Temporary
    <2> QED  BY <1>4, <2>1 DEF Places
  <1>5. ASSUME NEW f \in DOMAIN files', f.kind = "mt_result", OfJob(f, j)
        PROVE  job'[j].pc \in HasResults /\ \E i \in DOMAIN comp'[j] : f = comp'[j][i].dst
    <2>1. f \in DOMAIN files
      BY <1>2, <1>5 DEF Belongs, Temporary
    <2>2. job[j].pc \in HasResults /\ \E i \in DOMAIN comp[j] : f = comp[j][i].dst
      BY <1>5, <2>1 DEF Places
    <2>3. comp'[j] = comp[j]
      BY <2>2
    <2> QED  BY ONLY <2>2, <2>3, job[j].pc \in HasResults => job'[j].pc \in HasResults
  <1>6. ASSUME NEW f \in DOMAIN files', f = OutPath(j), Own(j)
        PROVE  /\ job'[j].pc \in HasOutput
               /\ job'[j].pc = "single" => comp'[j][0].st # "open"
               /\ files'[f] # <<>>
               /\ files'[f][1] = Header
    <2>1. f \in DOMAIN files /\ files'[f] = files[f]
      BY <1>2, <1>6 DEF Belongs
    <2>2. job[j].pc \in HasOutput /\ (job[j].pc = "single" => comp[j][0].st # "open")
          /\ files[f] # <<>> /\ files[f][1] = Header
      BY <1>6, <2>1 DEF Places
    <2>3. job'[j].pc = "single" => job[j].pc = "single" /\ comp'[j] = comp[j]
      BY <2>2
    <2> QED  BY <2>1, <2>2, <2>3
  <1>7. \A f : OfJob(f, j)' <=> OfJob(f, j)
    BY DEF OfJob
  <1> QED  BY <1>1, <1>3, <1>4, <1>5, <1>6, <1>7 DEF Places

\* Threads have done what they have done.
LEMMA ProgressStays ==
    ASSUME NEW j \in Jobs, \A i \in DOMAIN comp[j] : Progress(j, i), comp'[j] = comp[j],
           input' = input, NoPath \notin DOMAIN files,
           job[j].pc \in Busy =>
               \A i \in DOMAIN comp[j] :
                   /\ SameFile(comp[j][i].src)
                   /\ comp[j][i].dst = NoPath \/ SameFile(comp[j][i].dst),
           job'[j].pc \in Busy =>
               job'[j].pc = job[j].pc \/ (job[j].pc = "join" /\ job'[j].pc = "combine")
    PROVE  \A i \in DOMAIN comp'[j] : Progress(j, i)'
  <1> SUFFICES ASSUME NEW i \in DOMAIN comp[j] PROVE Progress(j, i)'
    OBVIOUS
  <1>1. Progress(j, i)
    OBVIOUS
  <1>2. PICK c : c = comp[j][i] /\ c = comp'[j][i]
    OBVIOUS
  <1>3. CASE job'[j].pc \in Busy
    <2>1. job[j].pc \in Busy
      BY <1>3 DEF Busy
    <2>2. SameFile(c.src) /\ (c.dst = NoPath \/ SameFile(c.dst))
      BY <1>2, <2>1
    <2>3. Exists(c.src) => c.src \in DOMAIN files' /\ files'[c.src] = files[c.src]
      BY <2>2 DEF SameFile, Exists
    <2>4. Exists(c.dst) => c.dst \in DOMAIN files' /\ files'[c.dst] = files[c.dst]
      BY <2>2 DEF SameFile, Exists
    <2>5. job'[j].pc = job[j].pc \/ (job[j].pc = "join" /\ job'[j].pc = "combine")
      BY <1>3
    <2>6. Mine(j)' => Mine(j)
      BY <2>5, SameOwn DEF Mine
    <2> QED  BY ONLY <1>1, <1>2, <2>3, <2>4, <2>5, <2>6 DEF Progress, Exists
  <1>4. CASE job'[j].pc \notin Busy
    BY ONLY <1>1, <1>2, <1>4 DEF Progress, Busy
  <1> QED  BY <1>3, <1>4

\* The archive stays as it is, and so does what was made of it.
LEMMA WholeStays ==
    ASSUME NEW j \in Jobs, Whole(j), input' = input, comp'[j] = comp[j], job'[j].pc # "combine",
           job'[j].pc \in HasArchive => job[j].pc \in HasArchive /\ SameFile(job[j].arch),
           job[j].out = NoPath \/ SameFile(job[j].out), NoPath \notin DOMAIN files,
           job'[j].arch = job[j].arch, job'[j].made = job[j].made,
           job'[j].pc \in {"clean", "remove", "notify", "done"} /\ job'[j].err = "none"
               /\ job'[j].pieces = <<>> =>
               /\ job[j].pc \in {"clean", "remove", "notify", "done"} /\ job[j].err = "none"
               /\ job[j].pieces = <<>> /\ job'[j].out = job[j].out
    PROVE  Whole(j)'
  <1>1. PICK a, out, made : a = job[j].arch /\ out = job[j].out /\ made = job[j].made
    OBVIOUS
  <1>2. Own(j)' <=> Own(j)
    BY SameOwn
  <1>3. (job[j].pc \in HasArchive /\ Exists(job[j].arch))' => files'[job'[j].arch] = job'[j].made
    <2>1. job'[j].arch = a /\ job'[j].made = made
      BY <1>1
    <2>2. job[j].pc \in HasArchive /\ a \in DOMAIN files => files[a] = made
      BY <1>1 DEF Whole, Exists
    <2>3. job'[j].pc \in HasArchive => SameFile(a) /\ job[j].pc \in HasArchive
      BY <1>1
    <2> QED  BY ONLY <2>1, <2>2, <2>3 DEF SameFile, Exists
  <1>4. Holds(out, made) => Holds(out, made)'
    BY ONLY <1>1, job[j].out = NoPath \/ SameFile(job[j].out), NoPath \notin DOMAIN files
       DEF Holds, SameFile, Exists, Header
  <1>5. ASSUME Own(j)', Returned(j)'
        PROVE  Holds(job[j].out, job[j].made)'
    <2>1. Returned(j) /\ job'[j].out = job[j].out
      BY <1>5 DEF Returned
    <2>2. Holds(out, made)
      BY <1>1, <1>2, <1>5, <2>1 DEF Whole
    <2>3. out = job'[j].out /\ made = job'[j].made
      BY <1>1, <2>1
    <2> QED  BY ONLY <1>4, <2>2, <2>3 DEF Holds, Exists
  <1> QED  BY ONLY <1>3, <1>5, job'[j].pc # "combine" DEF Whole

\* Together: a step of a job that writes and removes nothing.
LEMMA QuietFiles ==
    ASSUME IInv, FInv, NEW j \in Jobs, UNCHANGED <<files, ticks, input, comp>>,
           \A k \in Jobs \ {j} : job'[k] = job[k],
           Stage(j)', Crew(j)', Whole(j)',
           job'[j].arch = job[j].arch, job'[j].pieces = job[j].pieces,
           job[j].pc \in HasArchive => job'[j].pc \in HasArchive,
           job[j].pc \in HasPieces => job'[j].pc \in HasPieces,
           job[j].pc \in HasResults => job'[j].pc \in HasResults,
           job[j].pc \in HasOutput => job'[j].pc \in HasOutput,
           job'[j].pc = "single" => job[j].pc = "single" \/ job[j].pc \notin HasOutput,
           job'[j].pc \in Busy =>
               job'[j].pc = job[j].pc \/ (job[j].pc = "join" /\ job'[j].pc = "combine")
    PROVE  FInv'
  <1>1. Places(j) /\ \A i \in DOMAIN comp[j] : Progress(j, i)
    BY DEF FInv, JobFiles
  <1>2. (\A f : SameFile(f)) /\ NoPath \notin DOMAIN files
    BY NoPathUnnamed DEF SameFile, IInv
  <1>3. Places(j)'
    BY <1>1, <1>2, PlacesStay
  <1>4. \A i \in DOMAIN comp'[j] : Progress(j, i)'
    BY <1>1, <1>2, ProgressStays
  <1>5. JobFiles(j)'
    BY <1>3, <1>4 DEF JobFiles
  <1>6. \A f \in DOMAIN files' : ContentOK(f)'
    BY DEF FInv, ContentOK
  <1>7. \A p \in ticks' : p[2][1][1] = p[1][1]
    BY DEF FInv
  <1>8. \A k \in Jobs \ {j} : job'[k] = job[k] /\ comp'[k] = comp[k]
    OBVIOUS
  <1>9. input' = input /\ \A f : SameFile(f) \/ Belongs(f, j)
    BY <1>2
  <1> QED  BY ONLY IInv, FInv, j \in Jobs, <1>5, <1>6, <1>7, <1>8, <1>9, FilesStepOf
-------------------------------------------------------------------------------
(* Steps of a job that write nothing *)

\* What is known of a job at any time.
LEMMA JobKnown ==
    ASSUME IInv, FInv, NEW j \in Jobs
    PROVE  /\ DOMAIN job = Jobs /\ DOMAIN job[j] = JobFields
           /\ DOMAIN comp = Jobs
           /\ JobInv(j) /\ LocalInv(j)
           /\ Stage(j) /\ Crew(j) /\ Places(j) /\ Whole(j)
           /\ \A i \in DOMAIN comp[j] : Progress(j, i)
           /\ NoPath \notin DOMAIN files
           /\ job[j].out \in {NoPath, OutPath(j)}
  BY NoPathUnnamed DEF IInv, FInv, JobFiles, JobInv, LocalInv

\* InputMissing and CheckInput.
LEMMA CheckFiles ==
    ASSUME IInv, FInv, NEW j \in Jobs, InputMissing(j) \/ CheckInput(j)
    PROVE  FInv'
  <1>1. UNCHANGED <<files, ticks, input, comp>> /\ job[j].pc = "check"
    BY DEF InputMissing, CheckInput, At
  <1>2. DOMAIN job = Jobs /\ DOMAIN job[j] = JobFields /\ Stage(j) /\ Crew(j)
    BY JobKnown
  <1>3. \A k \in Jobs \ {j} : job'[k] = job[k]
    BY <1>2 DEF InputMissing, CheckInput, Goto
  <1>4. /\ job'[j].pc = "archive" \/ (job'[j].pc = "notify" /\ job'[j].err # "none")
        /\ job'[j].arch = job[j].arch /\ job'[j].pieces = job[j].pieces /\ job'[j].n = job[j].n
    BY <1>2 DEF InputMissing, CheckInput, Goto, JobFields
  <1>5. Stage(j)'
    BY ONLY <1>2, <1>4 DEF Stage, OfJob, HasArchive
  <1>6. Crew(j)'
    BY ONLY <1>1, <1>2, <1>4 DEF Crew, HasResults
  <1>7. Whole(j)'
    BY ONLY <1>4 DEF Whole, Returned, HasArchive
  <1>8. /\ job[j].pc \notin HasArchive \cup HasPieces \cup HasResults \cup HasOutput
        /\ job'[j].pc # "single" /\ job'[j].pc \notin Busy
    BY <1>1, <1>4 DEF HasArchive, HasPieces, HasResults, HasOutput, Busy
  <1> QED  BY <1>1, <1>3, <1>4, <1>5, <1>6, <1>7, <1>8, QuietFiles

\* PrepareCompress.
LEMMA PrepareFiles == ASSUME IInv, FInv, NEW j \in Jobs, PrepareCompress(j) PROVE FInv'
  <1>1. UNCHANGED <<files, ticks, input, comp>> /\ job[j].pc = "prepare"
    BY DEF PrepareCompress, At
  <1>2. DOMAIN job = Jobs /\ DOMAIN job[j] = JobFields /\ Stage(j) /\ Crew(j) /\ Whole(j)
    BY JobKnown
  <1>3. \A k \in Jobs \ {j} : job'[k] = job[k]
    BY <1>2 DEF PrepareCompress, Goto
  <1>4. /\ job'[j].pc = "dispatch"
        /\ job'[j].arch = job[j].arch /\ job'[j].pieces = job[j].pieces /\ job'[j].n = job[j].n
        /\ job'[j].made = job[j].made
    BY <1>2 DEF PrepareCompress, Goto, JobFields
  <1>5. Stage(j)'
    BY ONLY <1>1, <1>2, <1>4 DEF Stage, OfJob, HasArchive
  <1>6. Crew(j)'
    BY ONLY <1>1, <1>2, <1>4 DEF Crew, HasResults
  <1>7. Whole(j)'
    <2>1. \A f : SameFile(f)
      BY <1>1 DEF SameFile
    <2> QED  BY <1>1, <1>2, <1>4, <2>1, JobKnown, WholeStays DEF HasArchive
  <1>8. /\ job[j].pc \notin HasPieces \cup HasResults \cup HasOutput
        /\ job'[j].pc # "single" /\ job'[j].pc \notin Busy /\ job'[j].pc \in HasArchive
    BY <1>1, <1>4 DEF HasArchive, HasPieces, HasResults, HasOutput, Busy
  <1> QED  BY <1>1, <1>3, <1>4, <1>5, <1>6, <1>7, <1>8, QuietFiles

\* StartMT.
LEMMA StartMTFiles == ASSUME IInv, FInv, NEW j \in Jobs, StartMT(j) PROVE FInv'
  <1>1. UNCHANGED <<files, ticks, input, comp>> /\ job[j].pc = "mt"
    BY DEF StartMT, At
  <1>2. /\ DOMAIN job = Jobs /\ DOMAIN job[j] = JobFields /\ Stage(j) /\ Crew(j) /\ Whole(j)
        /\ LocalInv(j)
    BY JobKnown
  <1>3. \A k \in Jobs \ {j} : job'[k] = job[k]
    BY <1>2 DEF StartMT
  <1>4. /\ job'[j].pc = "cut" /\ job'[j].n > 1
        /\ job'[j].arch = job[j].arch /\ job'[j].pieces = job[j].pieces
        /\ job'[j].made = job[j].made
    BY <1>2 DEF StartMT, JobFields
  <1>5. Stage(j)'
    BY ONLY <1>1, <1>2, <1>4 DEF Stage, OfJob, HasArchive
  <1>6. Crew(j)'
    BY ONLY <1>1, <1>2, <1>4 DEF Crew, HasResults
  <1>7. Whole(j)'
    <2>1. \A f : SameFile(f)
      BY <1>1 DEF SameFile
    <2> QED  BY <1>1, <1>2, <1>4, <2>1, JobKnown, WholeStays DEF HasArchive
  <1>8. /\ job[j].pc \notin HasPieces \cup HasResults \cup HasOutput
        /\ job'[j].pc # "single" /\ job'[j].pc \notin Busy /\ job'[j].pc \in HasArchive
    BY <1>1, <1>4 DEF HasArchive, HasPieces, HasResults, HasOutput, Busy
  <1> QED  BY <1>1, <1>3, <1>4, <1>5, <1>6, <1>7, <1>8, QuietFiles

\* CloseCombined, and OpenCombined if it cannot open the output.
LEMMA ToCleanFiles ==
    ASSUME IInv, FInv, NEW j \in Jobs, UNCHANGED <<files, ticks, input, comp>>,
           job[j].pc \in {"join", "combine"}, AllClosed(j), Goto(j, "clean")
    PROVE  FInv'
  <1>2. /\ DOMAIN job = Jobs /\ DOMAIN job[j] = JobFields /\ Stage(j) /\ Crew(j) /\ Whole(j)
        /\ LocalInv(j)
    BY JobKnown
  <1>3. \A k \in Jobs \ {j} : job'[k] = job[k]
    BY <1>2 DEF Goto
  <1>4. /\ job'[j].pc = "clean" /\ job'[j].out = job[j].out /\ job'[j].err = job[j].err
        /\ job'[j].arch = job[j].arch /\ job'[j].pieces = job[j].pieces
        /\ job'[j].made = job[j].made /\ job'[j].n = job[j].n
    BY <1>2 DEF Goto, JobFields
  <1>a. job[j].pieces # <<>>
    BY <1>2 DEF Stage
  <1>5. Stage(j)'
    BY ONLY <1>2, <1>4, <1>a, job[j].pc \in {"join", "combine"} DEF Stage, OfJob, HasArchive
  <1>6. Crew(j)'
    <2>1. PICK c : c = comp[j] /\ c = comp'[j]
      OBVIOUS
    <2>2. NoPath' = NoPath /\ AllClosed(j)
      BY DEF NoPath
    <2> QED  BY ONLY <1>2, <1>4, <2>1, <2>2, job[j].pc \in {"join", "combine"}
               DEF Crew, HasResults, AllClosed, OfJob
  <1>7. Whole(j)'
    <2>1. \A f : SameFile(f)
      BY DEF SameFile
    <2> QED  BY <1>2, <1>4, <1>a, <2>1, JobKnown, WholeStays DEF HasArchive
  <1>8. /\ job'[j].pc \in HasPieces /\ job'[j].pc \in HasResults /\ job'[j].pc \in HasOutput
        /\ job'[j].pc # "single" /\ job'[j].pc \notin Busy /\ job'[j].pc \in HasArchive
    BY <1>4 DEF HasArchive, HasPieces, HasResults, HasOutput, Busy
  <1> QED  BY <1>3, <1>4, <1>5, <1>6, <1>7, <1>8, QuietFiles

\* Notify.
LEMMA NotifyFiles == ASSUME IInv, FInv, NEW j \in Jobs, Notify(j) PROVE FInv'
  <1>1. UNCHANGED <<files, ticks, input, comp>> /\ job[j].pc = "notify"
    BY DEF Notify, At
  <1>2. /\ DOMAIN job = Jobs /\ DOMAIN job[j] = JobFields /\ Stage(j) /\ Crew(j) /\ Whole(j)
        /\ LocalInv(j)
    BY JobKnown
  <1>3. \A k \in Jobs \ {j} : job'[k] = job[k]
    BY <1>2 DEF Notify, Goto
  <1>4. /\ job'[j].pc = "done" /\ job'[j].out = job[j].out /\ job'[j].err = job[j].err
        /\ job'[j].arch = job[j].arch /\ job'[j].pieces = job[j].pieces
        /\ job'[j].made = job[j].made /\ job'[j].n = job[j].n
    BY <1>2 DEF Notify, Goto, JobFields
  <1>5. Stage(j)'
    BY ONLY <1>1, <1>2, <1>4 DEF Stage, OfJob, HasArchive
  <1>6. Crew(j)'
    <2>1. PICK c : c = comp[j] /\ c = comp'[j]
      BY <1>1
    <2> QED  BY ONLY <1>1, <1>2, <1>4, <2>1 DEF Crew, HasResults
  <1>7. Whole(j)'
    <2>1. \A f : SameFile(f)
      BY <1>1 DEF SameFile
    <2> QED  BY <1>1, <1>2, <1>4, <2>1, JobKnown, WholeStays DEF HasArchive
  <1>8. /\ job[j].pc \notin HasPieces \cup HasResults \cup HasArchive
        /\ job'[j].pc # "single" /\ job'[j].pc \notin Busy /\ job'[j].pc \in HasOutput
    BY <1>1, <1>4 DEF HasArchive, HasPieces, HasResults, HasOutput, Busy
  <1> QED  BY <1>1, <1>3, <1>4, <1>5, <1>6, <1>7, <1>8, QuietFiles
\* SingleReturns: what the thread reports is about the whole archive.
LEMMA SingleReturnsFiles == ASSUME IInv, FInv, NEW j \in Jobs, SingleReturns(j) PROVE FInv'
  <1>1. UNCHANGED <<files, ticks, input, comp>> /\ job[j].pc = "single"
        /\ comp[j][0].st = "closed"
    BY DEF SingleReturns, At
  <1>2. /\ DOMAIN job = Jobs /\ DOMAIN job[j] = JobFields /\ Stage(j) /\ Crew(j) /\ Whole(j)
        /\ LocalInv(j) /\ Places(j) /\ \A i \in DOMAIN comp[j] : Progress(j, i)
    BY JobKnown
  <1>3. \A k \in Jobs \ {j} : job'[k] = job[k]
    BY <1>2 DEF SingleReturns
  <1>4. /\ job'[j].pc = "remove" /\ job'[j].out = job[j].out /\ job'[j].err = comp[j][0].err
        /\ job'[j].arch = job[j].arch /\ job'[j].pieces = job[j].pieces
        /\ job'[j].made = job[j].made /\ job'[j].n = job[j].n
    BY <1>2 DEF SingleReturns, JobFields
  <1>a. /\ DOMAIN comp[j] = {0} /\ comp[j][0].src = job[j].arch /\ comp[j][0].dst = job[j].out
    BY <1>1, <1>2 DEF Crew
  <1>5. Stage(j)'
    BY ONLY <1>1, <1>2, <1>4 DEF Stage, OfJob, HasArchive
  <1>6. Crew(j)'
    <2>1. PICK c : c = comp[j] /\ c = comp'[j]
      BY <1>1
    <2> QED  BY ONLY <1>1, <1>2, <1>4, <1>a, <2>1 DEF Crew, HasResults
  <1>7. Whole(j)'
    <2>1. ASSUME Own(j), comp[j][0].err = "none", ~comp[j][0].bad
          PROVE  Holds(job[j].out, job[j].made)
      <3>1. /\ Exists(job[j].arch) /\ Exists(job[j].out)
            /\ FlattenSeq(files[job[j].out]) = files[job[j].arch]
        <4>1. Progress(j, 0)
          BY <1>2, <1>a
        <4>2. Mine(j)
          BY <2>1 DEF Mine
        <4> QED  BY ONLY <4>1, <4>2, <1>1, <1>a, <2>1 DEF Progress
      <3>2. files[job[j].arch] = job[j].made
        BY <1>1, <1>2, <3>1 DEF Whole, HasArchive
      <3>3. job[j].out = OutPath(j) /\ job[j].out \in DOMAIN files
        BY <3>1, JobKnown DEF Exists
      <3>4. files[job[j].out] # <<>> /\ files[job[j].out][1] = Header
        BY <1>2, <2>1, <3>3 DEF Places
      <3>5. files[job[j].out] \in Seq(Seq(Unit))
        <4>1. ContentOK(OutPath(j)) /\ OutPath(j).kind = "out"
          BY <3>3 DEF FInv, OutPath
        <4> QED  BY <3>3, <4>1 DEF ContentOK
      <3>6. Head(files[job[j].out]) = files[job[j].out][1]
        BY <3>4, <3>5
      <3> QED  BY <3>1, <3>2, <3>4, <3>6 DEF Holds
    <2>2. PICK o, m, a : o = job[j].out /\ o = job'[j].out /\ m = job[j].made /\ m = job'[j].made
                         /\ a = job[j].arch /\ a = job'[j].arch
      BY <1>4
    <2>3. Holds(o, m) => Holds(o, m)'
      BY <1>1 DEF Holds, Exists, Header
    <2>4. (Own(j) /\ Returned(j))' => Holds(o, m)'
      <3>1. (Own(j) /\ Returned(j))' => Own(j) /\ comp[j][0].err = "none" /\ ~comp[j][0].bad
        BY <1>1, <1>4, SameOwn DEF Returned
      <3> QED  BY <2>1, <2>2, <2>3, <3>1
    <2>5. Exists(a)' => files'[a] = m
      BY <1>1, <1>2, <2>2 DEF Whole, HasArchive, Exists
    <2> QED  BY ONLY <1>4, <2>2, <2>4, <2>5 DEF Whole, Holds, Exists
  <1>8. /\ job[j].pc \notin HasPieces \cup HasResults
        /\ job'[j].pc # "single" /\ job'[j].pc \notin Busy /\ job'[j].pc \in HasOutput
        /\ job'[j].pc \in HasArchive
    BY <1>1, <1>4 DEF HasArchive, HasPieces, HasResults, HasOutput, Busy
  <1> QED  BY <1>1, <1>3, <1>4, <1>5, <1>6, <1>7, <1>8, QuietFiles

\* Threads are dispatched before they have touched a file.
LEMMA StartFiles ==
    ASSUME IInv, FInv, NEW j \in Jobs, UNCHANGED <<files, ticks, input>>,
           \A k \in Jobs \ {j} : job'[k] = job[k] /\ comp'[k] = comp[k],
           Stage(j)', Crew(j)',
           job'[j].arch = job[j].arch, job'[j].pieces = job[j].pieces,
           job'[j].made = job[j].made,
           \/ job[j].pc = "dispatch" /\ job'[j].pc = "single"
           \/ job[j].pc = "cut" /\ job'[j].pc = "join",
           \A i \in DOMAIN comp'[j] : comp'[j][i].st = "open" /\ comp'[j][i].pos = 0
    PROVE  FInv'
  <1>1. Places(j) /\ Whole(j)
    BY DEF FInv, JobFiles
  <1>2. (\A f : SameFile(f)) /\ NoPath \notin DOMAIN files
    BY NoPathUnnamed DEF SameFile, IInv
  <1>3. Places(j)'
    <2>1. /\ job[j].pc \notin HasResults \cup {"single"} \cup HasOutput
          /\ job'[j].pc \in HasArchive
          /\ job[j].pc \in HasPieces => job'[j].pc \in HasPieces
      BY DEF HasResults, HasOutput, HasArchive, HasPieces
    <2> QED  BY <1>1, <1>2, <2>1, PlacesStay
  <1>4. \A i \in DOMAIN comp'[j] : Progress(j, i)'
    BY DEF Progress
  <1>5. Whole(j)'
    <2>1. PICK a : a = job[j].arch /\ a = job'[j].arch
      OBVIOUS
    <2>2. Exists(a) => files[a] = job[j].made
      BY <1>1, <2>1 DEF Whole, HasArchive
    <2>3. Exists(a)' => files'[a] = job'[j].made
      BY <2>2 DEF Exists
    <2>4. job'[j].pc \in {"single", "join"}
      OBVIOUS
    <2> QED  BY ONLY <2>1, <2>3, <2>4 DEF Whole, Returned, Exists
  <1>6. JobFiles(j)'
    BY <1>3, <1>4, <1>5 DEF JobFiles
  <1>7. \A f \in DOMAIN files' : ContentOK(f)'
    BY DEF FInv, ContentOK
  <1>8. \A p \in ticks' : p[2][1][1] = p[1][1]
    BY DEF FInv
  <1>9. input' = input /\ \A f : SameFile(f) \/ Belongs(f, j)
    BY <1>2
  <1> QED  BY ONLY IInv, FInv, j \in Jobs, <1>6, <1>7, <1>8, <1>9, FilesStepOf,
                   \A k \in Jobs \ {j} : job'[k] = job[k] /\ comp'[k] = comp[k]

\* Dispatch.
LEMMA DispatchFiles == ASSUME IInv, FInv, NEW j \in Jobs, Dispatch(j) PROVE FInv'
  <1>1. UNCHANGED <<files, ticks, input>> /\ job[j].pc = "dispatch"
    BY DEF Dispatch, At
  <1>2. /\ DOMAIN job = Jobs /\ DOMAIN job[j] = JobFields /\ Stage(j) /\ Crew(j) /\ Whole(j)
        /\ LocalInv(j) /\ DOMAIN comp = Jobs
    BY JobKnown
  <1>3. \A k \in Jobs \ {j} : job'[k] = job[k] /\ comp'[k] = comp[k]
    BY <1>2 DEF Dispatch, Goto
  <1>4. /\ job'[j].arch = job[j].arch /\ job'[j].pieces = job[j].pieces /\ job'[j].n = job[j].n
        /\ job'[j].made = job[j].made /\ job'[j].out = job[j].out
        /\ job'[j].err = job[j].err
        /\ \/ job'[j].pc = "mt" /\ comp' = comp
           \/ /\ job'[j].pc = "single" /\ DOMAIN comp'[j] = {0}
              /\ comp'[j][0] = Compressor(job[j].arch, job[j].out, param.buff)
    BY <1>2 DEF Dispatch, Goto, JobFields
  <1>5. Stage(j)'
    <2>1. job[j].pieces = <<>>
      BY <1>1, <1>2 DEF LocalInv
    <2>2. job'[j].pc \in {"mt", "single"}
      BY <1>4
    <2> QED  BY ONLY <1>1, <1>2, <1>4, <2>1, <2>2 DEF Stage, OfJob, HasArchive
  <1>6. CASE job'[j].pc = "mt" /\ comp' = comp
    <2>1. Crew(j)'
      BY ONLY <1>1, <1>2, <1>6 DEF Crew, HasResults
    <2>2. Whole(j)'
      <3>1. \A f : SameFile(f)
        BY <1>1 DEF SameFile
      <3> QED  BY <1>1, <1>2, <1>4, <1>6, <3>1, JobKnown, WholeStays DEF HasArchive
    <2>3. /\ job[j].pc \notin HasPieces \cup HasResults \cup HasOutput
          /\ job'[j].pc # "single" /\ job'[j].pc \notin Busy /\ job'[j].pc \in HasArchive
      BY <1>1, <1>6 DEF HasArchive, HasPieces, HasResults, HasOutput, Busy
    <2> QED  BY <1>1, <1>3, <1>4, <1>5, <1>6, <2>1, <2>2, <2>3, QuietFiles
  <1>7. CASE /\ job'[j].pc = "single" /\ DOMAIN comp'[j] = {0}
             /\ comp'[j][0] = Compressor(job[j].arch, job[j].out, param.buff)
    <2>1. /\ comp'[j][0].src = job[j].arch /\ comp'[j][0].dst = job[j].out
          /\ comp'[j][0].st = "open" /\ comp'[j][0].pos = 0
      BY <1>7 DEF Compressor
    <2>2. Crew(j)'
      BY ONLY <1>4, <1>7, <2>1 DEF Crew, HasResults
    <2>3. \A i \in DOMAIN comp'[j] : comp'[j][i].st = "open" /\ comp'[j][i].pos = 0
      BY <1>7, <2>1
    <2> QED  BY <1>1, <1>3, <1>4, <1>5, <1>7, <2>2, <2>3, StartFiles
  <1> QED  BY <1>4, <1>6, <1>7

\* StartThreads.
LEMMA StartThreadsFiles == ASSUME IInv, FInv, NEW j \in Jobs, StartThreads(j) PROVE FInv'
  <1>1. UNCHANGED <<files, ticks, input>> /\ job[j].pc = "cut"
    BY DEF StartThreads, At
  <1>2. /\ DOMAIN job = Jobs /\ DOMAIN job[j] = JobFields /\ Stage(j) /\ Crew(j) /\ Whole(j)
        /\ LocalInv(j) /\ DOMAIN comp = Jobs
    BY JobKnown
  <1>3. \A k \in Jobs \ {j} : job'[k] = job[k] /\ comp'[k] = comp[k]
    BY <1>2 DEF StartThreads
  <1>4. /\ job'[j].arch = job[j].arch /\ job'[j].pieces = job[j].pieces /\ job'[j].n = job[j].n
        /\ job'[j].made = job[j].made /\ job'[j].out = job[j].out
        /\ \/ job'[j].pc = "clean" /\ job'[j].err = "mismatch" /\ comp' = comp
           \/ /\ job'[j].pc = "join" /\ Len(job[j].pieces) = job[j].n
              /\ comp'[j] = [i \in 0..(job[j].n - 1) |->
                    Compressor(job[j].pieces[i + 1], NoPath,
                               ThreadBuff(param.buff, job[j].n, i))]
    <2>1. CASE job' = [job EXCEPT ![j].pc = "clean", ![j].err = "mismatch"] /\ comp' = comp
      BY <1>2, <2>1 DEF JobFields
    <2>2. CASE /\ Len(job[j].pieces) = job[j].n
               /\ job' = [job EXCEPT ![j].pc = "join", ![j].err = "none"]
               /\ comp' = [comp EXCEPT ![j] =
                     [i \in 0..(job[j].n - 1) |->
                         Compressor(job[j].pieces[i + 1], NoPath,
                                    ThreadBuff(param.buff, job[j].n, i))]]
      <3>1. comp'[j] = [i \in 0..(job[j].n - 1) |->
                           Compressor(job[j].pieces[i + 1], NoPath,
                                      ThreadBuff(param.buff, job[j].n, i))]
        BY <1>2, <2>2
      <3>2. /\ job'[j].pc = "join" /\ job'[j].out = job[j].out
            /\ job'[j].arch = job[j].arch /\ job'[j].pieces = job[j].pieces
            /\ job'[j].n = job[j].n /\ job'[j].made = job[j].made
        BY <1>2, <2>2 DEF JobFields
      <3> QED  BY <2>2, <3>1, <3>2
    <2> QED  BY <2>1, <2>2 DEF StartThreads
  <1>5. Stage(j)'
    <2>1. \/ job'[j].pc = "clean" /\ job'[j].err = "mismatch"
          \/ job'[j].pc = "join" /\ Len(job[j].pieces) = job[j].n
      BY <1>4
    <2> QED  BY ONLY <1>1, <1>2, <1>4, <2>1 DEF Stage, OfJob, HasArchive
  <1>6. CASE job'[j].pc = "clean" /\ job'[j].err = "mismatch" /\ comp' = comp
    <2>1. Crew(j)'
      BY ONLY <1>1, <1>2, <1>6 DEF Crew, HasResults
    <2>2. Whole(j)'
      <3>1. \A f : SameFile(f)
        BY <1>1 DEF SameFile
      <3> QED  BY <1>1, <1>2, <1>4, <1>6, <3>1, JobKnown, WholeStays DEF HasArchive
    <2>3. /\ job[j].pc \notin HasResults \cup HasOutput
          /\ job'[j].pc # "single" /\ job'[j].pc \notin Busy /\ job'[j].pc \in HasArchive
          /\ job'[j].pc \in HasPieces
      BY <1>1, <1>6 DEF HasArchive, HasPieces, HasResults, HasOutput, Busy
    <2> QED  BY <1>1, <1>3, <1>4, <1>5, <1>6, <2>1, <2>2, <2>3, QuietFiles
  <1>7. CASE /\ job'[j].pc = "join" /\ Len(job[j].pieces) = job[j].n
             /\ comp'[j] = [i \in 0..(job[j].n - 1) |->
                    Compressor(job[j].pieces[i + 1], NoPath,
                               ThreadBuff(param.buff, job[j].n, i))]
    <2>1. DOMAIN comp'[j] = 0..(job[j].n - 1)
      BY <1>7
    <2>2. \A i \in DOMAIN comp'[j] :
            /\ comp'[j][i].src = job[j].pieces[i + 1] /\ comp'[j][i].dst = NoPath
            /\ comp'[j][i].st = "open" /\ comp'[j][i].pos = 0
      BY <1>7 DEF Compressor
    <2>3. NoPath' = NoPath
      BY DEF NoPath
    <2>4. Crew(j)'
      BY ONLY <1>4, <1>7, <2>1, <2>2, <2>3 DEF Crew, HasResults
    <2> QED  BY <1>1, <1>3, <1>4, <1>5, <1>7, <2>2, <2>4, StartFiles
  <1> QED  BY <1>4, <1>6, <1>7
-------------------------------------------------------------------------------
(* Steps of a job that write or remove files *)

\* Units are units.
LEMMA UnitsOK ==
    ASSUME NEW j \in Jobs, NEW lo \in Nat, NEW hi \in Nat, lo <= hi
    PROVE  Units(j, lo, hi) \in Seq(Unit) /\ Len(Units(j, lo, hi)) = hi - lo
  <1>1. hi - lo \in Nat /\ \A k \in 1..(hi - lo) : lo + k \in Nat
    OBVIOUS
  <1>2. \A k \in 1..(hi - lo) : <<j, lo + k>> \in Unit
    BY <1>1 DEF Unit
  <1> QED  BY <1>1, <1>2 DEF Units

\* An archive is a sequence of units of its job.
LEMMA ArchivedOK ==
    ASSUME IInv, NEW j \in Jobs
    PROVE  /\ input[j].size \in Nat
           /\ Archived(j) \in Seq(Unit)
           /\ Len(Archived(j)) = input[j].size
  <1>1. input[j].size \in Nat
    BY JobsAssumption DEF IInv
  <1>2. 0 \in Nat /\ 0 <= input[j].size /\ input[j].size - 0 = input[j].size
    BY <1>1
  <1> QED  BY <1>1, <1>2, UnitsOK DEF Archived

\* What is spoilt consists of units, and of bytes that are none.
LEMMA SpoiltOK ==
    ASSUME NEW c \in Seq(Unit), NEW content \in Spoilt(c)
    PROVE  content \in Seq(Unit)
  <1>1. Garbled \in Unit
    BY DEF Unit
  <1>2. c # <<>> /\ content \in {Front(c), Tail(c), Append(Front(c), Garbled)}
    BY DEF Spoilt
  <1>3. Front(c) \in Seq(Unit)
    <2>1. Len(c) \in Nat \ {0}
      BY <1>2
    <2>2. Front(c) = SubSeq(c, 1, Len(c) - 1)
      BY DEF Front
    <2> QED  BY <2>1, <2>2
  <1>4. Tail(c) \in Seq(Unit)
    BY <1>2
  <1> HIDE DEF Garbled
  <1>5. Append(Front(c), Garbled) \in Seq(Unit)
    BY <1>1, <1>3
  <1> QED  BY <1>2, <1>3, <1>4, <1>5

\* A file written in part holds blocks, of which the last may be torn.
LEMMA PartOK ==
    ASSUME NEW c \in Seq(Seq(Unit)), NEW blocks \in Seq(Seq(Unit)), NEW bad,
           NEW content \in WrittenInPart(c, bad, blocks)
    PROVE  /\ content \in Seq(Seq(Unit))
           /\ c # <<>> => content # <<>> /\ content[1] = c[1]
  <1>1. PICK torn \in Seq(Unit) : torn = Torn
    <2>1. Torn \in Seq(Unit)
      BY DEF Torn, Unit
    <2> QED  BY <2>1
  <1>2. CASE content = c
    BY <1>2
  <1> DEFINE Part(k) == c \o SubSeq(blocks, 1, k)
  <1>3. ASSUME NEW k \in 0..(Len(blocks) - 1)
        PROVE  /\ Part(k) \in Seq(Seq(Unit)) /\ Len(Part(k)) \in Nat
               /\ c # <<>> => Len(Part(k)) # 0 /\ Part(k)[1] = c[1]
    <2>1. PICK S : S = Seq(Unit)
      OBVIOUS
    <2>2. PICK x : x = SubSeq(blocks, 1, k)
      OBVIOUS
    <2>3. x \in Seq(S) /\ c \in Seq(S)
      BY <2>1, <2>2
    <2> HIDE DEF Part
    <2>4. /\ Part(k) \in Seq(S) /\ Len(Part(k)) = Len(c) + Len(x)
          /\ \A i \in 1..Len(c) : Part(k)[i] = c[i]
      BY ONLY <2>2, <2>3, ConcatProperties DEF Part
    <2>5. Len(c) \in Nat /\ Len(x) \in Nat /\ (c # <<>> => Len(c) # 0)
      BY ONLY <2>3
    <2>6. c # <<>> => 1 \in 1..Len(c) /\ Len(Part(k)) # 0
      BY ONLY <2>4, <2>5
    <2> QED  BY ONLY <2>1, <2>4, <2>5, <2>6
  <1> HIDE DEF Part
  <1>4. ASSUME NEW k \in 0..(Len(blocks) - 1),
               content = Part(k) \/ content = Append(Part(k), torn)
        PROVE  /\ content \in Seq(Seq(Unit))
               /\ c # <<>> => content # <<>> /\ content[1] = c[1]
    <2>1. PICK p : p = Part(k)
      OBVIOUS
    <2>2. p \in Seq(Seq(Unit)) /\ (c # <<>> => Len(p) # 0 /\ p[1] = c[1])
      BY <1>3, <2>1
    <2>3. PICK q : q = Append(p, torn)
      OBVIOUS
    <2>4. /\ q \in Seq(Seq(Unit)) /\ Len(q) = Len(p) + 1 /\ Len(p) \in Nat
          /\ \A i \in 1..Len(p) : q[i] = p[i]
      BY ONLY <2>2, <2>3, torn \in Seq(Unit)
    <2>5. c # <<>> => 1 \in 1..Len(p) /\ Len(q) # 0
      BY ONLY <2>2, <2>4
    <2>6. c # <<>> => /\ p # <<>> /\ p[1] = c[1]
                      /\ q # <<>> /\ q[1] = c[1]
      BY ONLY <2>2, <2>4, <2>5
    <2>7. content = p \/ content = q
      BY <1>4, <2>1, <2>3
    <2> QED  BY ONLY <2>2, <2>4, <2>6, <2>7
  <1>5. \/ content = c
        \/ \E k \in 0..(Len(blocks) - 1) :
               content = Part(k) \/ content = Append(Part(k), torn)
    <2>1. CASE bad
      BY <2>1 DEF WrittenInPart
    <2>2. CASE ~bad
      BY <1>1, <2>2 DEF WrittenInPart, Part
    <2> QED  BY <2>1, <2>2
  <1> QED  BY <1>2, <1>4, <1>5

\* The time a thread reads is one of its job.
LEMMA TimeOfJob ==
    ASSUME FInv, NEW th, NEW t \in Now(th), ticks' = ticks \cup {<<th, t>>}
    PROVE  t[1][1] = th[1] /\ \A p \in ticks' : p[2][1][1] = p[1][1]
  <1>1. \A p \in ticks : p[2][1][1] = p[1][1]
    BY DEF FInv
  <1>2. t[1][1] = th[1]
    <2>1. CASE t \in SiblingTimes(th)
      BY <1>1, <2>1 DEF SiblingTimes
    <2>2. CASE t = <<th, Cardinality(TimesOf(th))>>
      BY <2>2
    <2> QED  BY <2>1, <2>2 DEF Now
  <1> QED  BY <1>1, <1>2

\* Writing and removing keep to what files hold.
LEMMA WriteContent ==
    ASSUME FInv, NEW g, NEW content, files' = Written(g, content),
           g.kind \in Temporary => g.time[1][1] \in Jobs,
           content \in IF g.kind \in {"out", "mt_result"} THEN Seq(Seq(Unit)) ELSE Seq(Unit)
    PROVE  \A f \in DOMAIN files' : ContentOK(f)'
  <1>1. ASSUME NEW f \in DOMAIN files'
        PROVE  ContentOK(f)'
    <2>1. CASE f = g
      <3>1. files'[f] = content
        BY <2>1, WriteKeeps
      <3> QED  BY <2>1, <3>1 DEF ContentOK
    <2>2. CASE f # g
      <3>1. f \in DOMAIN files /\ files'[f] = files[f]
        BY <2>2, WriteKeeps DEF SameFile
      <3> QED  BY <3>1 DEF ContentOK, FInv
    <2> QED  BY <2>1, <2>2
  <1> QED  BY <1>1

\* What a file holds when others have been removed.
LEMMA RemoveContent ==
    ASSUME FInv, NEW gone, files' = Without(gone)
    PROVE  \A f \in DOMAIN files' : ContentOK(f)'
  <1>1. ASSUME NEW f \in DOMAIN files'
        PROVE  f \in DOMAIN files /\ files'[f] = files[f]
    BY RemoveKeeps DEF SameFile
  <1> QED  BY <1>1 DEF ContentOK, FInv

\* ArchiveInputs.
LEMMA ArchiveFiles == ASSUME IInv, FInv, NEW j \in Jobs, ArchiveInputs(j) PROVE FInv'
  <1>1. PICK t, name :
            /\ t \in Now(Main(j))
            /\ name = TmpName("compress_tmp", t, -1)
            /\ ticks' = ticks \cup {<<Main(j), t>>}
            /\ \E err, made :
                  /\ files' = Written(name, made) \/ files' = files
                  /\ made \in {Archived(j), <<>>} \cup Spoilt(Archived(j))
                  /\ job' = [job EXCEPT ![j].pc = "prepare", ![j].arch = name,
                                        ![j].err = err, ![j].made = made]
    BY DEF ArchiveInputs
  <1>2. UNCHANGED <<param, input, comp>> /\ job[j].pc = "archive"
    BY DEF ArchiveInputs, At
  <1>3. /\ DOMAIN job = Jobs /\ DOMAIN job[j] = JobFields /\ Stage(j) /\ Crew(j) /\ Places(j)
        /\ NoPath \notin DOMAIN files
    BY JobKnown
  <1>b. PICK err, made :
            /\ files' = Written(name, made) \/ files' = files
            /\ made \in {Archived(j), <<>>} \cup Spoilt(Archived(j))
            /\ job' = [job EXCEPT ![j].pc = "prepare", ![j].arch = name,
                                  ![j].err = err, ![j].made = made]
    BY <1>1
  <1>4. /\ \A k \in Jobs \ {j} : job'[k] = job[k]
        /\ job'[j].pc = "prepare" /\ job'[j].arch = name /\ job'[j].pieces = job[j].pieces
        /\ job'[j].n = job[j].n /\ job'[j].made = made
    BY <1>3, <1>b DEF JobFields
  <1>5. name.kind = "compress_tmp" /\ OfJob(name, j)
    <2>1. t[1][1] = j
      BY <1>1, TimeOfJob DEF Main
    <2> QED  BY <1>1, <2>1 DEF TmpName, OfJob
  <1>6. \A f : f # name => SameFile(f)
    BY ONLY <1>b, WriteKeeps DEF SameFile
  <1>7. \A f \in DOMAIN files : ~Kept(f, j)
    BY <1>2, <1>3 DEF Places, Belongs, Kept, Temporary, HasArchive, HasPieces, HasResults, HasOutput
  <1>8. Stage(j)'
    BY ONLY <1>2, <1>3, <1>4, <1>5 DEF Stage, OfJob
  <1>9. Crew(j)'
    BY ONLY <1>2, <1>3, <1>4 DEF Crew, HasResults
  <1>10. Places(j)'
    <2>1. \A f \in DOMAIN files' : Kept(f, j) => f = name
      BY <1>6, <1>7 DEF SameFile
    <2>2. /\ \A f : f.kind \in Temporary /\ OfJob(f, j) => Kept(f, j)
          /\ Own(j) => Kept(OutPath(j), j)
          /\ OutPath(j)' = OutPath(j) /\ (Own(j)' <=> Own(j)) /\ OutPath(j).kind = "out"
      BY <1>2, SameOwn DEF Belongs, Kept, OutPath, Temporary
    <2>3. "prepare" \in HasArchive
      BY DEF HasArchive
    <2> QED  BY ONLY <1>4, <1>5, <2>1, <2>2, <2>3 DEF Places, Temporary, OfJob
  <1>11. \A i \in DOMAIN comp'[j] : Progress(j, i)'
    BY ONLY <1>2, <1>3 DEF Crew
  <1>12. Whole(j)'
    <2>2. name \notin DOMAIN files
      BY <1>5, <1>7 DEF Belongs, Kept, Temporary, OutPath
    <2>3. name \in DOMAIN files' => files'[name] = made
      <3>1. CASE files' = files
        BY <2>2, <3>1
      <3>2. CASE files' = Written(name, made)
        BY <3>2, WriteKeeps
      <3> QED  BY <1>b, <3>1, <3>2
    <2> QED  BY ONLY <1>4, <2>3 DEF Whole, Returned, Exists
  <1>13. JobFiles(j)'
    BY <1>8, <1>9, <1>10, <1>11, <1>12 DEF JobFiles
  <1>14. \A f \in DOMAIN files' : ContentOK(f)'
    <2>1. Archived(j) \in Seq(Unit)
      BY ArchivedOK
    <2>2. made \in Seq(Unit)
      <3>1. <<>> \in Seq(Unit)
        OBVIOUS
      <3> QED  BY <1>b, <2>1, <3>1, SpoiltOK
    <2>3. name.time[1][1] \in Jobs
      BY <1>5 DEF OfJob
    <2>4. CASE files' = files
      BY <2>4 DEF FInv, ContentOK
    <2> QED  BY <1>b, <1>5, <2>2, <2>3, <2>4, WriteContent
  <1>15. \A p \in ticks' : p[2][1][1] = p[1][1]
    BY <1>1, TimeOfJob
  <1>16. \A f : SameFile(f) \/ Belongs(f, j)
    BY <1>5, <1>6 DEF Belongs, Temporary
  <1>17. input' = input /\ \A k \in Jobs \ {j} : job'[k] = job[k] /\ comp'[k] = comp[k]
    BY <1>2, <1>4
  <1> QED  BY ONLY IInv, FInv, j \in Jobs, <1>13, <1>14, <1>15, <1>16, <1>17, FilesStepOf

\* RemoveArchive.
LEMMA RemoveFiles == ASSUME IInv, FInv, NEW j \in Jobs, RemoveArchive(j) PROVE FInv'
  <1>1. /\ UNCHANGED <<ticks, input, comp>> /\ job[j].pc = "remove"
        /\ files' = Without({job[j].arch})
    BY DEF RemoveArchive, At
  <1>2. /\ DOMAIN job = Jobs /\ DOMAIN job[j] = JobFields /\ Stage(j) /\ Crew(j) /\ Places(j)
        /\ Whole(j) /\ NoPath \notin DOMAIN files /\ job[j].out \in {NoPath, OutPath(j)}
        /\ \A i \in DOMAIN comp[j] : Progress(j, i)
    BY JobKnown
  <1>3. /\ \A k \in Jobs \ {j} : job'[k] = job[k]
        /\ job'[j].pc = "notify" /\ job'[j].arch = job[j].arch /\ job'[j].pieces = job[j].pieces
        /\ job'[j].n = job[j].n /\ job'[j].out = job[j].out /\ job'[j].err = job[j].err
        /\ job'[j].made = job[j].made
    BY <1>2 DEF RemoveArchive, Goto, JobFields
  <1>4. job[j].arch.kind = "compress_tmp" /\ OfJob(job[j].arch, j)
    BY <1>1, <1>2 DEF Stage, HasArchive
  <1>5. DOMAIN files' = DOMAIN files \ {job[j].arch} /\ \A f : f # job[j].arch => SameFile(f)
    BY <1>1, RemoveKeeps
  <1>6. SameFile(OutPath(j))
    BY <1>4, <1>5 DEF OutPath
  <1>7. Stage(j)'
    BY ONLY <1>1, <1>2, <1>3 DEF Stage, OfJob, HasArchive
  <1>8. Crew(j)'
    BY ONLY <1>1, <1>2, <1>3 DEF Crew, HasResults
  <1>9. Places(j)'
    <2>1. ASSUME NEW f \in DOMAIN files', f.kind \in Temporary, OfJob(f, j)
          PROVE  FALSE
      <3>1. f \in DOMAIN files /\ f # job[j].arch
        BY <1>5
      <3> QED  BY <1>1, <1>2, <2>1, <3>1 DEF Places, Temporary, HasPieces, HasResults
    <2>2. Own(j) /\ OutPath(j) \in DOMAIN files' =>
            files'[OutPath(j)] # <<>> /\ files'[OutPath(j)][1] = Header
      BY <1>2, <1>6 DEF Places, SameFile
    <2>3. /\ OutPath(j)' = OutPath(j) /\ (Own(j)' <=> Own(j)) /\ Header' = Header
          /\ "notify" \in HasOutput
      BY <1>1, SameOwn DEF Header, HasOutput
    <2> QED  BY ONLY <1>3, <2>1, <2>2, <2>3 DEF Places, Temporary, OfJob
  <1>10. \A i \in DOMAIN comp'[j] : Progress(j, i)'
    <2>1. job[j].pc \notin Busy /\ job'[j].pc \notin Busy
      BY <1>1, <1>3 DEF Busy
    <2> QED  BY <1>1, <1>2, <2>1, ProgressStays
  <1>11. Whole(j)'
    <2>1. job[j].out = NoPath \/ SameFile(job[j].out)
      BY <1>2, <1>6
    <2> QED  BY <1>1, <1>2, <1>3, <2>1, WholeStays DEF HasArchive
  <1>12. JobFiles(j)'
    BY <1>7, <1>8, <1>9, <1>10, <1>11 DEF JobFiles
  <1>13. \A f \in DOMAIN files' : ContentOK(f)'
    BY <1>1, RemoveContent
  <1>14. \A f : SameFile(f) \/ Belongs(f, j)
    BY <1>4, <1>5 DEF Belongs, Temporary
  <1>15. input' = input /\ (\A p \in ticks' : p[2][1][1] = p[1][1])
         /\ \A k \in Jobs \ {j} : job'[k] = job[k] /\ comp'[k] = comp[k]
    BY <1>1, <1>3 DEF FInv
  <1> QED  BY ONLY IInv, FInv, j \in Jobs, <1>12, <1>13, <1>14, <1>15, FilesStepOf
\* Pieces lie behind each other within the file and reach its end.
LEMMA PieceStarts ==
    ASSUME NEW total \in Nat, NEW n \in Nat \ {0}, NEW i \in 0..(n - 1)
    PROVE  /\ PieceStart(total, n, i) \in Nat
           /\ PieceStart(total, n, i + 1) \in Nat
           /\ PieceStart(total, n, i) <= PieceStart(total, n, i + 1)
           /\ PieceStart(total, n, i + 1) <= total
           /\ PieceStart(total, n, 0) = 0
           /\ PieceStart(total, n, n) = total
  <1>1. PICK q \in Nat : q = total \div n /\ n * q <= total
    OBVIOUS
  <1>2. i \in Nat /\ i # n /\ i + 1 \in Nat /\ i + 1 <= n /\ n \in Nat /\ 0 # n
    OBVIOUS
  <1>3. PICK a \in Nat : a = i * q
    BY <1>2
  <1>4. (i + 1) * q = a + q
    BY <1>2, <1>3
  <1>5. PICK d \in Nat : n = (i + 1) + d
    <2>1. n - (i + 1) \in Nat /\ n = (i + 1) + (n - (i + 1))
      BY <1>2
    <2> QED  BY <2>1
  <1>6. n * q = (i + 1) * q + d * q /\ d * q \in Nat
    BY <1>2, <1>5
  <1>7. a + q <= total
    BY ONLY <1>1, <1>4, <1>6, a \in Nat, q \in Nat, n * q \in Nat, total \in Nat
  <1>8. PieceStart(total, n, i) = a /\ 0 * q = 0
    BY <1>1, <1>2, <1>3 DEF PieceStart
  <1>9. PieceStart(total, n, i + 1) \in {total, a + q}
    BY <1>1, <1>2, <1>4 DEF PieceStart
  <1>10. PieceStart(total, n, 0) = 0 /\ PieceStart(total, n, n) = total
    BY <1>1, <1>2, <1>8 DEF PieceStart
  <1> QED  BY ONLY <1>7, <1>8, <1>9, <1>10, a \in Nat, q \in Nat, total \in Nat

\* CutPiece.
LEMMA CutFiles == ASSUME IInv, FInv, NEW j \in Jobs, CutPiece(j) PROVE FInv'
  <1> DEFINE First(i) == PieceStart(Len(files[job[j].arch]), job[j].n, i)
             cuts == Len(job[j].pieces)
  <1>0. \E t \in Now(Main(j)) :
          LET name == TmpName("mt_split", t, -1)
          IN  /\ ticks' = ticks \cup {<<Main(j), t>>}
              /\ \/ files' = Written(name, SubSeq(files[job[j].arch], First(cuts) + 1, First(cuts + 1)))
                 \/ \E last \in First(cuts)..(First(cuts + 1) - 1) :
                        files' = Written(name, SubSeq(files[job[j].arch], First(cuts) + 1, last))
                 \/ files' = files
              /\ job' = [job EXCEPT ![j].pieces = Append(@, name)]
    BY DEF CutPiece
  <1> HIDE DEF First, cuts
  <1>1. PICK t, name, content, last :
            /\ t \in Now(Main(j))
            /\ name = TmpName("mt_split", t, -1)
            /\ ticks' = ticks \cup {<<Main(j), t>>}
            /\ last = First(cuts + 1) \/ last \in First(cuts)..(First(cuts + 1) - 1)
            /\ content = SubSeq(files[job[j].arch], First(cuts) + 1, last)
            /\ files' = Written(name, content) \/ files' = files
            /\ job' = [job EXCEPT ![j].pieces = Append(@, name)]
    BY <1>0
  <1>2. UNCHANGED <<param, input, comp>> /\ job[j].pc = "cut" /\ ~NoMorePieces(j)
    BY DEF CutPiece, At
  <1>3. /\ DOMAIN job = Jobs /\ DOMAIN job[j] = JobFields /\ Stage(j) /\ Crew(j) /\ Places(j)
        /\ Whole(j) /\ NoPath \notin DOMAIN files /\ LocalInv(j)
    BY JobKnown
  <1>4. /\ \A k \in Jobs \ {j} : job'[k] = job[k]
        /\ job'[j].pc = "cut" /\ job'[j].arch = job[j].arch
        /\ job'[j].pieces = Append(job[j].pieces, name)
        /\ job'[j].n = job[j].n /\ job'[j].made = job[j].made
    BY <1>1, <1>2, <1>3 DEF JobFields
  <1>5. name.kind = "mt_split" /\ OfJob(name, j)
    <2>1. t[1][1] = j
      BY <1>1, TimeOfJob DEF Main
    <2> QED  BY <1>1, <2>1 DEF TmpName, OfJob
  <1>6. (\A f : f # name => SameFile(f)) /\ DOMAIN files' \subseteq DOMAIN files \cup {name}
    BY <1>1, WriteKeeps DEF SameFile
  <1>7. PICK L, old : L \in Nat /\ old = job[j].pieces /\ L = Len(old)
            /\ Len(Append(old, name)) = L + 1 /\ Append(old, name)[L + 1] = name
            /\ \A i \in 1..L : Append(old, name)[i] = old[i]
    <2>1. PICK S : job[j].pieces \in Seq(S)
      BY <1>3 DEF LocalInv
    <2>2. PICK old \in Seq(S \cup {name}) : old = job[j].pieces
      BY <2>1
    <2>3. Len(old) \in Nat /\ Len(Append(old, name)) = Len(old) + 1
          /\ Append(old, name)[Len(old) + 1] = name
          /\ \A i \in 1..Len(old) : Append(old, name)[i] = old[i]
      BY ONLY old \in Seq(S \cup {name})
    <2>4. PICK L : L = Len(old)
      OBVIOUS
    <2> QED  BY ONLY <2>2, <2>3, <2>4
  <1>8. Stage(j)'
    <2>1. ASSUME NEW i \in 1..(L + 1)
          PROVE  job'[j].pieces[i].kind = "mt_split" /\ OfJob(job'[j].pieces[i], j)
      <3>1. CASE i \in 1..L
        BY <1>3, <1>4, <1>7, <3>1 DEF Stage
      <3>2. CASE i = L + 1
        BY <1>4, <1>5, <1>7, <3>2
      <3> QED  BY <1>7, <3>1, <3>2
    <2>2. Len(job'[j].pieces) = L + 1
      BY <1>4, <1>7
    <2> QED  BY ONLY <1>2, <1>3, <1>4, <2>1, <2>2 DEF Stage, OfJob, HasArchive
  <1>9. Crew(j)'
    BY ONLY <1>2, <1>3, <1>4 DEF Crew, HasResults
  <1>10. Places(j)'
    <2>1. ASSUME NEW f \in DOMAIN files', f.kind = "mt_split", OfJob(f, j)
          PROVE  \E i \in 1..Len(job'[j].pieces) : f = job'[j].pieces[i]
      <3>1. CASE f = name
        BY <1>4, <1>7, <3>1
      <3>2. CASE f # name
        <4>1. f \in DOMAIN files
          BY <1>6, <3>2
        <4>2. PICK i \in 1..L : f = old[i]
          BY <1>3, <1>7, <2>1, <4>1 DEF Places
        <4>3. i \in 1..(L + 1)
          BY <1>7
        <4> QED  BY <1>4, <1>7, <4>2, <4>3
      <3> QED  BY <3>1, <3>2
    <2>2. ASSUME NEW f \in DOMAIN files', f.kind # "mt_split"
          PROVE  f \in DOMAIN files
      BY <1>5, <1>6, <2>2
    <2>3. /\ "cut" \in HasPieces /\ "cut" \in HasArchive /\ "cut" \notin HasResults
          /\ "cut" \notin HasOutput /\ OutPath(j).kind = "out" /\ OutPath(j)' = OutPath(j)
          /\ (Own(j)' <=> Own(j))
      BY <1>2, SameOwn DEF HasPieces, HasArchive, HasResults, HasOutput, OutPath
    <2> QED  BY ONLY <1>2, <1>3, <1>4, <2>1, <2>2, <2>3 DEF Places, OfJob
  <1>11. \A i \in DOMAIN comp'[j] : Progress(j, i)'
    BY ONLY <1>2, <1>3 DEF Crew
  <1>a. job[j].arch.kind = "compress_tmp" /\ OfJob(job[j].arch, j)
    BY <1>2, <1>3 DEF Stage, HasArchive
  <1>12. Whole(j)'
    <2>1. SameFile(job[j].arch)
      BY <1>5, <1>6, <1>a
    <2>2. PICK a : a = job[j].arch /\ a = job'[j].arch
      BY <1>4
    <2>3. a \in DOMAIN files => files[a] = job[j].made
      BY <1>2, <1>3, <2>2 DEF Whole, HasArchive, Exists
    <2> QED  BY ONLY <1>4, <2>1, <2>2, <2>3 DEF Whole, Returned, Exists, SameFile
  <1>13. JobFiles(j)'
    BY <1>8, <1>9, <1>10, <1>11, <1>12 DEF JobFiles
  <1>14. content \in Seq(Unit)
    <2> DEFINE whole == Content(job[j].arch)
    <2>1. /\ job[j].n \in Nat \ {0} /\ L <= job[j].n
      BY <1>2, <1>3, <1>7 DEF LocalInv, Stage
    <2>2. whole \in Seq(Unit)
      <3>1. job[j].arch \in DOMAIN files => files[job[j].arch] \in Seq(Unit)
        BY <1>a DEF FInv, ContentOK
      <3>2. <<>> \in Seq(Unit)
        OBVIOUS
      <3> QED  BY <3>1, <3>2 DEF Content, Exists
    <2>3. Len(whole) \in Nat
      BY ONLY <2>2
    <2>4. L # job[j].n /\ ~(PieceStart(Len(whole), job[j].n, L) >= Len(whole))
      BY <1>2, <1>7 DEF NoMorePieces
    <2>5. L \in 0..(job[j].n - 1)
      BY <1>7, <2>1, <2>4
    <2>6. /\ PieceStart(Len(whole), job[j].n, L) \in Nat
          /\ PieceStart(Len(whole), job[j].n, L + 1) \in Nat
          /\ PieceStart(Len(whole), job[j].n, L) <= PieceStart(Len(whole), job[j].n, L + 1)
          /\ PieceStart(Len(whole), job[j].n, L + 1) <= Len(whole)
      BY <2>1, <2>3, <2>5, PieceStarts
    <2>7. job[j].arch \in DOMAIN files
      <3>1. ~(PieceStart(0, job[j].n, L) >= 0) => FALSE
        BY <2>1, <2>5, PieceStarts
      <3>2. Len(<<>>) = 0
        OBVIOUS
      <3> QED  BY <2>4, <3>1, <3>2 DEF Content, Exists
    <2>8. whole = files[job[j].arch]
      BY <2>7 DEF Content, Exists
    <2> HIDE DEF whole
    <2>9. PICK lo, hi \in Nat : lo = PieceStart(Len(whole), job[j].n, L)
                                /\ hi = PieceStart(Len(whole), job[j].n, L + 1)
      BY <2>6
    <2>10. lo = First(cuts) /\ hi = First(cuts + 1)
      BY <1>7, <2>8, <2>9 DEF First, cuts
    <2>11. content = SubSeq(whole, lo + 1, last) /\ (last = hi \/ last \in lo..(hi - 1))
      BY <1>1, <2>8, <2>10
    <2>12. last \in Nat /\ last <= hi /\ lo <= hi /\ hi <= Len(whole)
      BY ONLY <2>6, <2>9, <2>11, lo \in Nat, hi \in Nat, <2>3
    <2> QED  BY ONLY <2>2, <2>11, <2>12, lo \in Nat, hi \in Nat
  <1>15. \A f \in DOMAIN files' : ContentOK(f)'
    <2>1. CASE files' = files
      BY <2>1 DEF FInv, ContentOK
    <2>2. name.time[1][1] \in Jobs
      BY <1>5 DEF OfJob
    <2> QED  BY <1>1, <1>5, <1>14, <2>1, <2>2, WriteContent
  <1>16. \A f : SameFile(f) \/ Belongs(f, j)
    BY <1>5, <1>6 DEF Belongs, Temporary
  <1>17. input' = input /\ (\A p \in ticks' : p[2][1][1] = p[1][1])
         /\ \A k \in Jobs \ {j} : job'[k] = job[k] /\ comp'[k] = comp[k]
    BY <1>1, <1>2, <1>4, TimeOfJob
  <1> QED  BY ONLY IInv, FInv, j \in Jobs, <1>13, <1>15, <1>16, <1>17, FilesStepOf
\* A step of a job that only writes its output, while or before it combines.
LEMMA CombineFiles ==
    ASSUME IInv, FInv, NEW j \in Jobs, UNCHANGED <<ticks, input, comp>>,
           job[j].pc \in {"join", "combine"}, AllClosed(j),
           \A k \in Jobs \ {j} : job'[k] = job[k],
           job'[j].pc = "combine", job'[j].arch = job[j].arch, job'[j].pieces = job[j].pieces,
           job'[j].n = job[j].n, job'[j].made = job[j].made,
           NEW content \in Seq(Seq(Unit)), Own(j) => content # <<>> /\ content[1] = Header,
           files' = Written(OutPath(j), content)
    PROVE  FInv'
  <1>2. /\ Stage(j) /\ Crew(j) /\ Places(j) /\ JobInv(j)
        /\ Whole(j) /\ NoPath \notin DOMAIN files
        /\ \A i \in DOMAIN comp[j] : Progress(j, i)
    BY JobKnown
  <1>3. /\ DOMAIN files' = DOMAIN files \cup {OutPath(j)} /\ files'[OutPath(j)] = content
        /\ \A f : f # OutPath(j) => SameFile(f)
    BY WriteKeeps
  <1>4. OutPath(j).kind = "out" /\ OutPath(j)' = OutPath(j) /\ (Own(j)' <=> Own(j))
    BY SameOwn DEF OutPath
  <1>5. Stage(j)'
    BY ONLY <1>2, job[j].pc \in {"join", "combine"}, job'[j].pc = "combine",
       job'[j].arch = job[j].arch, job'[j].pieces = job[j].pieces, job'[j].n = job[j].n
       DEF Stage, OfJob, HasArchive
  <1>6. Crew(j)'
    <2>1. PICK c, p, n : c = comp[j] /\ c = comp'[j] /\ p = job[j].pieces /\ p = job'[j].pieces
                         /\ n = job[j].n /\ n = job'[j].n
      OBVIOUS
    <2>2. NoPath' = NoPath
      BY DEF NoPath
    <2>3. AllClosed(j)
      OBVIOUS
    <2> QED  BY ONLY <1>2, <2>1, <2>2, <2>3, job[j].pc \in {"join", "combine"}, job'[j].pc = "combine"
               DEF Crew, HasResults, AllClosed, OfJob
  <1>7. Places(j)'
    <2>1. ASSUME NEW f \in DOMAIN files', f # OutPath(j)
          PROVE  f \in DOMAIN files
      BY <1>3, <2>1
    <2>2. /\ "combine" \in HasArchive /\ "combine" \in HasPieces /\ "combine" \in HasResults
          /\ "combine" \in HasOutput /\ Header' = Header
      BY DEF HasArchive, HasPieces, HasResults, HasOutput, Header
    <2>3. PICK c : c = comp[j] /\ c = comp'[j]
      OBVIOUS
    <2>4. Own(j) => content # <<>> /\ content[1] = Header
      OBVIOUS
    <2> QED  BY ONLY <1>2, <1>3, <1>4, <2>1, <2>2, <2>3, <2>4, job'[j].pc = "combine",
                     job'[j].arch = job[j].arch, job'[j].pieces = job[j].pieces
               DEF Places, OfJob
  <1>8. \A i \in DOMAIN comp'[j] : Progress(j, i)'
    <2>1. ASSUME NEW i \in DOMAIN comp[j]
          PROVE  SameFile(comp[j][i].src) /\ (comp[j][i].dst = NoPath \/ SameFile(comp[j][i].dst))
      <3>1. /\ comp[j][i].src.kind \in {"compress_tmp", "mt_split"}
            /\ comp[j][i].dst = NoPath \/ comp[j][i].dst.kind = "mt_result"
        BY <1>2, ThreadFiles
      <3> QED  BY <1>3, <1>4, <3>1
    <2>2. job'[j].pc = job[j].pc \/ (job[j].pc = "join" /\ job'[j].pc = "combine")
      OBVIOUS
    <2> QED  BY <1>2, <2>1, <2>2, ProgressStays
  <1>9. Whole(j)'
    <2>1. SameFile(job[j].arch)
      BY <1>2, <1>3, <1>4 DEF Stage, HasArchive
    <2>2. PICK a : a = job[j].arch /\ a = job'[j].arch
      OBVIOUS
    <2>3. a \in DOMAIN files => files[a] = job[j].made
      BY <1>2, <2>2 DEF Whole, HasArchive, Exists
    <2> QED  BY ONLY <1>3, <1>4, <2>1, <2>2, <2>3, job'[j].pc = "combine",
                     job'[j].made = job[j].made DEF Whole, Returned, Exists, SameFile
  <1>10. JobFiles(j)'
    BY <1>5, <1>6, <1>7, <1>8, <1>9 DEF JobFiles
  <1>11. \A f \in DOMAIN files' : ContentOK(f)'
    <2>1. OutPath(j).kind \notin Temporary
      BY <1>4 DEF Temporary
    <2> QED  BY <1>4, <2>1, WriteContent
  <1>12. \A f : SameFile(f) \/ Belongs(f, j)
    BY <1>3 DEF Belongs
  <1>13. input' = input /\ (\A p \in ticks' : p[2][1][1] = p[1][1])
         /\ \A k \in Jobs \ {j} : job'[k] = job[k] /\ comp'[k] = comp[k]
    BY DEF FInv
  <1> QED  BY ONLY IInv, FInv, j \in Jobs, <1>10, <1>11, <1>12, <1>13, FilesStepOf

\* An output that is opened holds the header, and nothing else if it is the job's own.
LEMMA OpenedOK ==
    ASSUME NEW j \in Jobs
    PROVE  /\ Opened(j) \in Seq(Seq(Unit))
           /\ Opened(j) # <<>> /\ Opened(j)[1] = Header
           /\ Own(j) => Opened(j) = <<Header>>
  <1>1. Header \in Seq(Unit) /\ Torn \in Seq(Unit)
    BY DEF Header, Torn, Unit
  <1>2. Own(j) => Opened(j) = <<Header>>
    BY DEF Own, Opened
  <1>3. Opened(j) \in {<<Header>>, <<Header, Torn>>}
    BY DEF Opened
  <1> HIDE DEF Header, Torn
  <1>4. PICK h \in Seq(Unit), t \in Seq(Unit) : h = Header /\ t = Torn
    BY <1>1
  <1>5. /\ <<h>> \in Seq(Seq(Unit)) /\ <<h>> # <<>> /\ <<h>>[1] = h
        /\ <<h, t>> \in Seq(Seq(Unit)) /\ <<h, t>> # <<>> /\ <<h, t>>[1] = h
    OBVIOUS
  <1>6. Opened(j) \in {<<h>>, <<h, t>>}
    BY <1>3, <1>4
  <1> QED  BY <1>2, <1>4, <1>5, <1>6

\* OpenCombined.
LEMMA OpenCombinedFiles == ASSUME IInv, FInv, NEW j \in Jobs, OpenCombined(j) PROVE FInv'
  <1>1. UNCHANGED <<ticks, input, comp>> /\ job[j].pc = "join" /\ AllClosed(j)
    BY DEF OpenCombined, At
  <1>2. /\ DOMAIN job = Jobs /\ DOMAIN job[j] = JobFields /\ job[j].out \in {NoPath, OutPath(j)}
    BY JobKnown
  <1>3. CASE /\ job[j].out # NoPath /\ files' = Written(job[j].out, Opened(j))
             /\ Goto(j, "combine")
    <2>1. /\ \A k \in Jobs \ {j} : job'[k] = job[k]
          /\ job'[j].pc = "combine" /\ job'[j].arch = job[j].arch
          /\ job'[j].pieces = job[j].pieces
          /\ job'[j].n = job[j].n /\ job'[j].made = job[j].made
      BY <1>2, <1>3 DEF Goto, JobFields
    <2>2. files' = Written(OutPath(j), Opened(j))
      BY <1>2, <1>3
    <2> QED  BY <1>1, <2>1, <2>2, OpenedOK, CombineFiles
  <1>4. CASE UNCHANGED files /\ Goto(j, "clean")
    BY <1>1, <1>4, ToCleanFiles
  <1> QED  BY <1>3, <1>4 DEF OpenCombined

\* AppendResult.
LEMMA AppendFiles == ASSUME IInv, FInv, NEW j \in Jobs, AppendResult(j) PROVE FInv'
  <1> DEFINE sofar == Content(job[j].out)
             result == Content(comp[j][job[j].joined].dst)
  <1>1. /\ UNCHANGED <<ticks, input, comp>> /\ job[j].pc = "combine"
        /\ job[j].joined < job[j].n
        /\ \/ /\ files' = Written(job[j].out, sofar \o result)
              /\ job' = [job EXCEPT ![j].joined = @ + 1]
           \/ /\ \E content \in WrittenInPart(sofar, job[j].bad, result) :
                    files' = Written(job[j].out, content)
              /\ job' = [job EXCEPT ![j].joined = @ + 1, ![j].bad = TRUE]
    BY DEF AppendResult, At
  <1> HIDE DEF sofar, result
  <1>2. /\ DOMAIN job = Jobs /\ DOMAIN job[j] = JobFields /\ LocalInv(j) /\ JobInv(j)
        /\ Stage(j) /\ Crew(j) /\ Whole(j) /\ Places(j)
    BY JobKnown
  <1>3. /\ \A k \in Jobs \ {j} : job'[k] = job[k]
        /\ job'[j].pc = "combine" /\ job'[j].arch = job[j].arch
        /\ job'[j].pieces = job[j].pieces
        /\ job'[j].n = job[j].n /\ job'[j].made = job[j].made
    BY <1>1, <1>2 DEF JobFields
  <1>4. job[j].out = OutPath(j) /\ (Own(j) => OutPath(j) \in DOMAIN files)
    BY <1>1, <1>2 DEF LocalInv, Whole, Exists
  <1>5. PICK old \in Seq(Seq(Unit)) : old = sofar /\ (Own(j) => old # <<>> /\ old[1] = Header)
    <2>1. OutPath(j) \in DOMAIN files => files[OutPath(j)] \in Seq(Seq(Unit))
      BY DEF FInv, ContentOK, OutPath
    <2>2. Own(j) => files[OutPath(j)] # <<>> /\ files[OutPath(j)][1] = Header
      BY <1>2, <1>4 DEF Places
    <2>3. <<>> \in Seq(Seq(Unit))
      OBVIOUS
    <2> QED  BY <1>4, <2>1, <2>2, <2>3 DEF sofar, Content, Exists
  <1>6. PICK more \in Seq(Seq(Unit)) : more = result
    <2>1. job[j].joined \in DOMAIN comp[j]
      BY <1>1, <1>2 DEF Crew, LocalInv
    <2>2. \/ comp[j][job[j].joined].dst = NoPath
          \/ comp[j][job[j].joined].dst.kind = "mt_result"
      BY <1>1, <1>2, <2>1 DEF Crew, HasResults
    <2>3. NoPath \notin DOMAIN files /\ <<>> \in Seq(Seq(Unit))
      BY JobKnown
    <2> QED  BY <2>2, <2>3 DEF result, Content, Exists, FInv, ContentOK
  <1>7. PICK new \in Seq(Seq(Unit)) :
            /\ files' = Written(OutPath(j), new)
            /\ old # <<>> => new # <<>> /\ new[1] = old[1]
    <2>1. CASE files' = Written(job[j].out, sofar \o result)
      <3>1. old \o more \in Seq(Seq(Unit)) /\ Len(old \o more) = Len(old) + Len(more)
            /\ Len(old) \in Nat /\ Len(more) \in Nat
        BY ConcatProperties
      <3>2. PICK new : new = old \o more
        OBVIOUS
      <3>3. ASSUME old # <<>>
            PROVE  new # <<>> /\ new[1] = old[1]
        <4>1. Len(old) # 0
          BY <3>3
        <4>2. Len(new) # 0
          BY ONLY <3>1, <3>2, <4>1
        <4>3. new[1] = old[1]
          BY <3>1, <3>2, <4>1, ConcatProperties
        <4> QED  BY <4>2, <4>3
      <3> QED  BY <1>4, <1>5, <1>6, <2>1, <3>1, <3>2, <3>3
    <2>2. ASSUME NEW content \in WrittenInPart(sofar, job[j].bad, result),
                 files' = Written(job[j].out, content)
          PROVE  /\ content \in Seq(Seq(Unit)) /\ files' = Written(OutPath(j), content)
                 /\ old # <<>> => content # <<>> /\ content[1] = old[1]
      <3>1. content \in WrittenInPart(old, job[j].bad, more)
        BY <1>5, <1>6
      <3>2. /\ content \in Seq(Seq(Unit))
            /\ old # <<>> => content # <<>> /\ content[1] = old[1]
        BY <3>1, PartOK
      <3> QED  BY <1>4, <2>2, <3>2
    <2> QED  BY <1>1, <2>1, <2>2
  <1>8. Own(j) => new # <<>> /\ new[1] = Header
    BY <1>5, <1>7
  <1>9. AllClosed(j)
    BY <1>1, <1>2 DEF Crew, AllClosed
  <1> QED  BY <1>1, <1>3, <1>7, <1>8, <1>9, CombineFiles

\* CloseCombined.
LEMMA CloseCombinedFiles == ASSUME IInv, FInv, NEW j \in Jobs, CloseCombined(j) PROVE FInv'
  <1>1. /\ UNCHANGED <<files, ticks, input, comp>> /\ job[j].pc = "combine" /\ Goto(j, "clean")
    BY DEF CloseCombined, At
  <1>2. AllClosed(j)
    BY <1>1, JobKnown DEF Crew, AllClosed
  <1> QED  BY <1>1, <1>2, ToCleanFiles

\* CleanUp: every piece and every result that exists is among those removed.
LEMMA CleanUpFiles == ASSUME IInv, FInv, NEW j \in Jobs, CleanUp(j) PROVE FInv'
  <1>1. PICK gone :
            /\ gone = ToSet(job[j].pieces) \cup {comp[j][i].dst : i \in DOMAIN comp[j]}
            /\ UNCHANGED <<ticks, input, comp>> /\ job[j].pc = "clean"
            /\ files' = Without(gone)
    BY DEF CleanUp, At
  <1>2. /\ DOMAIN job = Jobs /\ DOMAIN job[j] = JobFields /\ Stage(j) /\ Crew(j) /\ Places(j)
        /\ Whole(j) /\ NoPath \notin DOMAIN files /\ job[j].out \in {NoPath, OutPath(j)}
        /\ LocalInv(j) /\ \A i \in DOMAIN comp[j] : Progress(j, i)
    BY JobKnown
  <1>3. /\ \A k \in Jobs \ {j} : job'[k] = job[k]
        /\ job'[j].pc = "remove" /\ job'[j].arch = job[j].arch /\ job'[j].pieces = job[j].pieces
        /\ job'[j].n = job[j].n /\ job'[j].out = job[j].out /\ job'[j].err = job[j].err
        /\ job'[j].made = job[j].made
    BY <1>2 DEF CleanUp, Goto, JobFields
  <1>4. DOMAIN files' = DOMAIN files \ gone /\ \A f : f \notin gone => SameFile(f)
    BY <1>1, RemoveKeeps
  <1>5. \A g \in ToSet(job[j].pieces) : g.kind = "mt_split" /\ OfJob(g, j)
    <2>1. PICK S : job[j].pieces \in Seq(S)
      BY <1>2 DEF LocalInv
    <2>2. DOMAIN job[j].pieces = 1..Len(job[j].pieces)
      BY <2>1
    <2> QED  BY <1>2, <2>2 DEF Stage, ToSet
  <1>6. \A g \in gone : g = NoPath \/ (g.kind \in {"mt_split", "mt_result"} /\ OfJob(g, j))
    <2>1. \A i \in DOMAIN comp[j] :
              comp[j][i].dst = NoPath
                  \/ (comp[j][i].dst.kind = "mt_result" /\ OfJob(comp[j][i].dst, j))
      BY <1>1, <1>2 DEF Crew, HasResults
    <2> QED  BY <1>1, <1>5, <2>1
  <1>7. SameFile(NoPath)
    BY <1>2, <1>4 DEF SameFile
  <1>a. SameFile(OutPath(j)) /\ SameFile(job[j].arch)
    <2>1. OutPath(j).kind = "out"
      BY DEF OutPath
    <2>2. job[j].arch.kind = "compress_tmp"
      BY <1>1, <1>2 DEF Stage, HasArchive
    <2> QED  BY <1>4, <1>6, <1>7, <2>1, <2>2
  <1>8. Stage(j)'
    BY ONLY <1>1, <1>2, <1>3 DEF Stage, OfJob, HasArchive
  <1>9. Crew(j)'
    <2>1. PICK c : c = comp[j] /\ c = comp'[j]
      BY <1>1
    <2> QED  BY ONLY <1>1, <1>2, <1>3, <2>1 DEF Crew, HasResults
  <1>10. Places(j)'
    <2>1. ASSUME NEW f \in DOMAIN files', f.kind \in {"mt_split", "mt_result"}, OfJob(f, j)
          PROVE  FALSE
      <3>1. f \in DOMAIN files /\ f \notin gone
        BY <1>4
      <3>2. \/ \E i \in 1..Len(job[j].pieces) : f = job[j].pieces[i]
            \/ \E i \in DOMAIN comp[j] : f = comp[j][i].dst
        BY <1>2, <2>1, <3>1 DEF Places
      <3>3. PICK S : job[j].pieces \in Seq(S)
        BY <1>2 DEF LocalInv
      <3>4. \A i \in 1..Len(job[j].pieces) : job[j].pieces[i] \in ToSet(job[j].pieces)
        BY <3>3 DEF ToSet
      <3> QED  BY <1>1, <3>1, <3>2, <3>4
    <2>2. ASSUME NEW f \in DOMAIN files', f.kind = "compress_tmp", OfJob(f, j)
          PROVE  f = job[j].arch
      BY <1>2, <1>4, <2>2 DEF Places
    <2>3. Own(j) /\ OutPath(j) \in DOMAIN files' =>
            files'[OutPath(j)] # <<>> /\ files'[OutPath(j)][1] = Header
      BY <1>2, <1>a DEF Places, SameFile
    <2>4. /\ OutPath(j)' = OutPath(j) /\ (Own(j)' <=> Own(j)) /\ Header' = Header
          /\ "remove" \in HasOutput /\ "remove" \in HasArchive
      BY <1>1, SameOwn DEF Header, HasOutput, HasArchive
    <2> QED  BY ONLY <1>3, <2>1, <2>2, <2>3, <2>4 DEF Places, OfJob
  <1>11. \A i \in DOMAIN comp'[j] : Progress(j, i)'
    <2>1. job[j].pc \notin Busy /\ job'[j].pc \notin Busy
      BY <1>1, <1>3 DEF Busy
    <2> QED  BY <1>1, <1>2, <2>1, ProgressStays
  <1>12. Whole(j)'
    <2>1. job[j].out = NoPath \/ SameFile(job[j].out)
      BY <1>2, <1>a
    <2> QED  BY <1>1, <1>2, <1>3, <1>a, <2>1, WholeStays DEF HasArchive
  <1>13. JobFiles(j)'
    BY <1>8, <1>9, <1>10, <1>11, <1>12 DEF JobFiles
  <1>14. \A f \in DOMAIN files' : ContentOK(f)'
    BY <1>1, RemoveContent
  <1>15. \A f : SameFile(f) \/ Belongs(f, j)
    BY <1>4, <1>6, <1>7 DEF Belongs, Temporary
  <1>16. input' = input /\ (\A p \in ticks' : p[2][1][1] = p[1][1])
         /\ \A k \in Jobs \ {j} : job'[k] = job[k] /\ comp'[k] = comp[k]
    BY <1>1, <1>3 DEF FInv
  <1> QED  BY ONLY IInv, FInv, j \in Jobs, <1>13, <1>14, <1>15, <1>16, FilesStepOf
-------------------------------------------------------------------------------
(* Steps of a thread *)

\* Only a job that waits for threads has one that is at work.
LEMMA ThreadKnown ==
    ASSUME IInv, FInv, NEW j \in Jobs, NEW i \in DOMAIN comp[j], comp[j][i].st # "closed"
    PROVE  /\ job[j].pc \in {"single", "join"}
           /\ job[j].pc = "single" => i = 0 /\ DOMAIN comp[j] = {0}
           /\ DOMAIN comp[j][i] = ThreadFields /\ ThreadInv(j, i)
           /\ Progress(j, i)
           /\ Belongs(comp[j][i].src, j)
           /\ comp[j][i].src.kind \in {"compress_tmp", "mt_split"}
           /\ comp[j][i].dst = NoPath \/ Belongs(comp[j][i].dst, j)
           /\ comp[j][i].st = "loop" => comp[j][i].dst # NoPath
  <1>1. JobInv(j) /\ Stage(j) /\ Crew(j) /\ Progress(j, i)
    BY JobKnown
  <1>2. job[j].pc \in {"single", "join"}
    BY <1>1 DEF Crew
  <1>3. job[j].pc = "single" => i = 0 /\ DOMAIN comp[j] = {0}
    BY <1>1 DEF Crew
  <1>4. DOMAIN comp[j][i] = ThreadFields /\ ThreadInv(j, i)
    BY <1>1 DEF JobInv, ThreadInv
  <1> QED  BY <1>1, <1>2, <1>3, <1>4, ThreadFiles

\* A thread leaves the others of its job alone, and their files.
LEMMA ThreadStepFiles ==
    ASSUME IInv, FInv, NEW j \in Jobs, NEW i \in DOMAIN comp[j], comp[j][i].st # "closed",
           UNCHANGED <<input, job>>,
           \A k \in Jobs \ {j} : comp'[k] = comp[k],
           DOMAIN comp'[j] = DOMAIN comp[j],
           \A k \in DOMAIN comp[j] \ {i} : comp'[j][k] = comp[j][k],
           \A p \in ticks' : p[2][1][1] = p[1][1],
           \A f \in DOMAIN files' : ContentOK(f)',
           NEW d, d = comp'[j][i],
           d.src = comp[j][i].src, d.st # "open",
           comp[j][i].dst = NoPath \/ d.dst = comp[j][i].dst,
           job[j].pc = "single" => d.dst = comp[j][i].dst,
           job[j].pc = "join" =>
               d.dst = NoPath \/ (d.dst.kind = "mt_result" /\ OfJob(d.dst, j) /\ d.dst.seq = i),
           \A f : f # d.dst \/ d.dst = NoPath => SameFile(f),
           Own(j) /\ d.dst = OutPath(j) /\ d.dst \in DOMAIN files' =>
               files'[d.dst] # <<>> /\ files'[d.dst][1] = Header,
           Progress(j, i)'
    PROVE  FInv'
  <1>1. /\ JobInv(j) /\ Stage(j) /\ Crew(j) /\ Places(j) /\ Whole(j) /\ NoPath \notin DOMAIN files
        /\ job[j].out \in {NoPath, OutPath(j)}
        /\ \A k \in DOMAIN comp[j] : Progress(j, k)
    BY JobKnown
  <1>2. /\ job[j].pc \in {"single", "join"}
        /\ job[j].pc = "single" => i = 0 /\ DOMAIN comp[j] = {0}
        /\ comp[j][i].dst = NoPath \/ Belongs(comp[j][i].dst, j)
    BY ThreadKnown
  <1>3. /\ OutPath(j).kind = "out" /\ OutPath(j)' = OutPath(j) /\ (Own(j)' <=> Own(j))
        /\ NoPath' = NoPath /\ Header' = Header
    BY SameOwn DEF OutPath, NoPath, Header
  <1>4. d.dst = NoPath \/ Belongs(d.dst, j)
    BY <1>2 DEF Belongs, Temporary
  <1>5. Stage(j)'
    BY ONLY <1>1, job' = job DEF Stage, OfJob
  <1>6. Crew(j)'
    <2>1. CASE job[j].pc = "single"
      <3>1. DOMAIN comp'[j] = {0} /\ d = comp'[j][0] /\ d.src = job[j].arch /\ d.dst = job[j].out
        BY <1>1, <1>2, <2>1 DEF Crew
      <3> QED  BY ONLY <2>1, <3>1, job' = job DEF Crew, HasResults
    <2>2. CASE job[j].pc = "join"
      <3>1. \A k \in DOMAIN comp[j] : comp'[j][k].src = comp[j][k].src
        OBVIOUS
      <3>2. \A k \in DOMAIN comp[j] :
                \/ comp'[j][k].dst = NoPath
                \/ /\ comp'[j][k].st # "open"
                   /\ comp'[j][k].dst.kind = "mt_result"
                   /\ OfJob(comp'[j][k].dst, j)
                   /\ comp'[j][k].dst.seq = k
        BY <1>1, <2>2 DEF Crew, HasResults
      <3>3. DOMAIN comp[j] = 0..(job[j].n - 1)
            /\ \A k \in DOMAIN comp[j] : comp[j][k].src = job[j].pieces[k + 1]
        BY <1>1, <2>2 DEF Crew
      <3> QED  BY ONLY <1>3, <2>2, <3>1, <3>2, <3>3, job' = job, DOMAIN comp'[j] = DOMAIN comp[j]
                 DEF Crew, HasResults, OfJob
    <2> QED  BY <1>2, <2>1, <2>2
  <1>7. Places(j)'
    <2>1. ASSUME NEW f \in DOMAIN files', f # d.dst
          PROVE  f \in DOMAIN files /\ files'[f] = files[f]
      BY <2>1 DEF SameFile
    <2>2. ASSUME NEW f \in DOMAIN files', f.kind = "compress_tmp", OfJob(f, j)
          PROVE  job[j].pc \in HasArchive /\ f = job[j].arch
      <3>1. f # d.dst
        <4>1. d.dst.kind # "compress_tmp" \/ d.dst = NoPath
          BY <1>1, <1>2, <1>3 DEF Crew
        <4>2. NoPath.kind # "compress_tmp"
          BY DEF NoPath
        <4> QED  BY <2>2, <4>1, <4>2
      <3> QED  BY <1>1, <2>1, <2>2, <3>1 DEF Places
    <2>3. ASSUME NEW f \in DOMAIN files', f.kind = "mt_split", OfJob(f, j)
          PROVE  job[j].pc \in HasPieces /\ \E k \in 1..Len(job[j].pieces) : f = job[j].pieces[k]
      <3>1. f # d.dst
        <4>1. d.dst.kind # "mt_split" \/ d.dst = NoPath
          BY <1>1, <1>2, <1>3 DEF Crew
        <4>2. NoPath.kind # "mt_split"
          BY DEF NoPath
        <4> QED  BY <2>3, <4>1, <4>2
      <3> QED  BY <1>1, <2>1, <2>3, <3>1 DEF Places
    <2>4. ASSUME NEW f \in DOMAIN files', f.kind = "mt_result", OfJob(f, j)
          PROVE  job[j].pc \in HasResults /\ \E k \in DOMAIN comp'[j] : f = comp'[j][k].dst
      <3>1. CASE f = d.dst
        <4>1. NoPath.kind # "mt_result"
          BY DEF NoPath
        <4>2. job[j].pc = "join"
          BY <1>1, <1>2, <1>3, <2>4, <3>1, <4>1 DEF Crew
        <4> QED  BY <3>1, <4>2 DEF HasResults
      <3>2. CASE f # d.dst
        <4>1. f \in DOMAIN files
          BY <2>1, <3>2
        <4>2. job[j].pc \in HasResults /\ \E k \in DOMAIN comp[j] : f = comp[j][k].dst
          BY <1>1, <2>4, <4>1 DEF Places
        <4>3. PICK k \in DOMAIN comp[j] : f = comp[j][k].dst
          BY <4>2
        <4>4. k # i
          BY <1>1, <3>2, <4>1, <4>3
        <4> QED  BY <4>2, <4>3, <4>4
      <3> QED  BY <3>1, <3>2
    <2>5. ASSUME OutPath(j) \in DOMAIN files', Own(j)
          PROVE  /\ job[j].pc \in HasOutput
                 /\ job[j].pc = "single" => comp'[j][0].st # "open"
                 /\ files'[OutPath(j)] # <<>> /\ files'[OutPath(j)][1] = Header
      <3>1. job[j].pc = "single" => comp'[j][0].st # "open"
        BY <1>2
      <3>2. CASE OutPath(j) = d.dst
        <4>1. job[j].pc = "single"
          <5>1. NoPath.kind = "no path"
            BY DEF NoPath
          <5>2. d.dst # NoPath /\ d.dst.kind # "mt_result"
            BY <1>3, <3>2, <5>1
          <5> QED  BY <1>2, <5>2
        <4> QED  BY <2>5, <3>1, <3>2, <4>1 DEF HasOutput
      <3>3. CASE OutPath(j) # d.dst
        BY <1>1, <2>1, <2>5, <3>1, <3>3 DEF Places
      <3> QED  BY <3>2, <3>3
    <2> QED  BY ONLY <1>3, <2>2, <2>3, <2>4, <2>5, job' = job DEF Places, OfJob
  <1>8. ASSUME NEW k \in DOMAIN comp'[j]
        PROVE  Progress(j, k)'
    <2>1. CASE k # i
      <3>1. /\ job[j].pc = "join" /\ Progress(j, k)
            /\ comp'[j][k] = comp[j][k] /\ k \in DOMAIN comp[j]
        BY <1>1, <1>2, <2>1
      <3>2. PICK c : c = comp[j][k] /\ c = comp'[j][k]
        BY <3>1
      <3>3. c.src.kind \in {"compress_tmp", "mt_split"} /\ NoPath.kind = "no path"
        BY <1>1, <3>1, <3>2, ThreadFiles DEF NoPath
      <3>4. c.dst = NoPath \/ c.dst.seq = k
        BY <1>1, <3>1, <3>2 DEF Crew, HasResults
      <3>5. SameFile(c.src) /\ (c.dst = NoPath \/ SameFile(c.dst))
        BY <2>1, <3>1, <3>3, <3>4
      <3>6. Exists(c.src) => c.src \in DOMAIN files' /\ files'[c.src] = files[c.src]
        BY <3>5 DEF SameFile, Exists
      <3>7. Exists(c.dst) => c.dst \in DOMAIN files' /\ files'[c.dst] = files[c.dst]
        BY <1>1, <3>5 DEF SameFile, Exists
      <3> QED  BY ONLY <3>1, <3>2, <3>6, <3>7, job' = job DEF Progress, Mine, Exists
    <2> QED  BY <2>1
  <1>9. Whole(j)'
    <2>1. SameFile(job[j].arch)
      <3>1. job[j].arch.kind = "compress_tmp"
        BY <1>1, <1>2 DEF Stage, HasArchive
      <3>2. d.dst = NoPath \/ d.dst.kind # "compress_tmp"
        BY <1>1, <1>2, <1>3 DEF Crew
      <3> QED  BY <3>1, <3>2
    <2> QED  BY ONLY <1>1, <1>2, <2>1, job' = job DEF Whole, Returned, SameFile, Exists
  <1>10. JobFiles(j)'
    BY <1>5, <1>6, <1>7, <1>8, <1>9 DEF JobFiles
  <1>11. \A f : SameFile(f) \/ Belongs(f, j)
    BY <1>4
  <1>12. input' = input /\ \A k \in Jobs \ {j} : job'[k] = job[k] /\ comp'[k] = comp[k]
    OBVIOUS
  <1>13. (\A p \in ticks' : p[2][1][1] = p[1][1]) /\ \A f \in DOMAIN files' : ContentOK(f)'
    OBVIOUS
  <1> QED  BY ONLY IInv, FInv, j \in Jobs, <1>10, <1>11, <1>12, <1>13, FilesStepOf
\* Open: a file that has just been opened holds nothing but the header.
LEMMA OpenFiles == ASSUME IInv, FInv, NEW j \in Jobs, NEW i \in DOMAIN comp[j], Open(j, i) PROVE FInv'
  <1> DEFINE c == comp[j][i]
  <1>1. c.st = "open" /\ UNCHANGED <<input, job>>
    BY DEF Open
  <1>2. /\ job[j].pc \in {"single", "join"}
        /\ job[j].pc = "single" => i = 0 /\ DOMAIN comp[j] = {0}
        /\ DOMAIN c = ThreadFields /\ ThreadInv(j, i) /\ Progress(j, i)
        /\ Belongs(c.src, j) /\ c.src.kind \in {"compress_tmp", "mt_split"}
    BY <1>1, ThreadKnown
  <1>3. DOMAIN comp = Jobs /\ Stage(j) /\ Crew(j) /\ job[j].out \in {NoPath, OutPath(j)}
    BY JobKnown
  <1>4. PICK dst :
          /\ \/ ~Multi(j) /\ dst = c.dst /\ ticks' = ticks
             \/ /\ Multi(j)
                /\ \E t \in Now(<<j, i>>) :
                      ticks' = ticks \cup {<<<<j, i>>, t>>} /\ dst = TmpName("mt_result", t, i)
          /\ \/ /\ files' = files
                /\ \/ comp' = [comp EXCEPT ![j][i].dst = dst, ![j][i].st = "closed",
                                           ![j][i].err = "in open"]
                   \/ comp' = [comp EXCEPT ![j][i].dst = dst, ![j][i].st = "closed",
                                           ![j][i].err = "out open"]
             \/ /\ Exists(c.src) /\ dst # NoPath
                /\ comp' = [comp EXCEPT ![j][i].dst = dst, ![j][i].st = "loop"]
                /\ files' = Written(dst, IF Multi(j) THEN <<>> ELSE Opened(j))
    BY DEF Open
  <1>5. (\A p \in ticks' : p[2][1][1] = p[1][1])
        /\ (Multi(j) => dst.kind = "mt_result" /\ OfJob(dst, j) /\ dst.seq = i)
    <2>1. CASE ~Multi(j)
      BY <1>4, <2>1 DEF FInv
    <2>2. ASSUME NEW t \in Now(<<j, i>>), ticks' = ticks \cup {<<<<j, i>>, t>>},
                 dst = TmpName("mt_result", t, i)
          PROVE  (\A p \in ticks' : p[2][1][1] = p[1][1])
                 /\ dst.kind = "mt_result" /\ OfJob(dst, j) /\ dst.seq = i
      <3>1. (\A p \in ticks' : p[2][1][1] = p[1][1]) /\ t[1][1] = j
        BY <2>2, TimeOfJob
      <3>2. dst.kind = "mt_result" /\ OfJob(dst, j)
        BY <2>2, <3>1 DEF TmpName, OfJob
      <3>3. i \in Nat
        BY <1>2 DEF ThreadInv
      <3> QED  BY <2>2, <3>1, <3>2, <3>3, NamesOK
    <2> QED  BY <1>4, <2>1, <2>2
  <1>6. Multi(j) <=> job[j].pc = "join"
    BY DEF Multi, At
  <1>7. job[j].pc = "single" => dst = c.dst /\ dst = job[j].out
    BY <1>2, <1>3, <1>4, <1>6 DEF Crew
  <1>8. c.dst = NoPath \/ dst = c.dst
    <2>1. job[j].pc = "join" => c.dst = NoPath
      BY <1>1, <1>3 DEF Crew, HasResults
    <2> QED  BY <1>2, <1>7, <2>1
  <1>9. PICK d :
          /\ d = comp'[j][i] /\ d.src = c.src /\ d.dst = dst
          /\ \/ files' = files /\ d.st = "closed" /\ d.err # "none"
             \/ /\ Exists(c.src) /\ dst # NoPath /\ d.st = "loop" /\ d.pos = c.pos
                /\ files' = Written(dst, IF Multi(j) THEN <<>> ELSE Opened(j))
          /\ \A k \in Jobs \ {j} : comp'[k] = comp[k]
          /\ DOMAIN comp'[j] = DOMAIN comp[j]
          /\ \A k \in DOMAIN comp[j] \ {i} : comp'[j][k] = comp[j][k]
    <2>1. ASSUME NEW err, err # "none",
                 comp' = [comp EXCEPT ![j][i].dst = dst, ![j][i].st = "closed", ![j][i].err = err]
          PROVE  /\ comp'[j][i].src = c.src /\ comp'[j][i].dst = dst
                 /\ comp'[j][i].st = "closed" /\ comp'[j][i].err # "none"
                 /\ \A k \in Jobs \ {j} : comp'[k] = comp[k]
                 /\ DOMAIN comp'[j] = DOMAIN comp[j]
                 /\ \A k \in DOMAIN comp[j] \ {i} : comp'[j][k] = comp[j][k]
      BY <1>2, <1>3, <2>1 DEF ThreadFields
    <2>2. ASSUME comp' = [comp EXCEPT ![j][i].dst = dst, ![j][i].st = "loop"]
          PROVE  /\ comp'[j][i].src = c.src /\ comp'[j][i].dst = dst
                 /\ comp'[j][i].st = "loop" /\ comp'[j][i].pos = c.pos
                 /\ \A k \in Jobs \ {j} : comp'[k] = comp[k]
                 /\ DOMAIN comp'[j] = DOMAIN comp[j]
                 /\ \A k \in DOMAIN comp[j] \ {i} : comp'[j][k] = comp[j][k]
      BY <1>2, <1>3, <2>2 DEF ThreadFields
    <2>3. "in open" # "none" /\ "out open" # "none"
      OBVIOUS
    <2>4. CASE files' = files
      BY <1>4, <2>1, <2>2, <2>3, <2>4
    <2>5. CASE files' # files
      BY <1>4, <2>2, <2>5
    <2> QED  BY <2>4, <2>5
  <1>10. NoPath \notin DOMAIN files /\ NoPath.kind = "no path" /\ OutPath(j).kind = "out"
    BY JobKnown DEF NoPath, OutPath
  <1>11. CASE files' = files /\ d.st = "closed" /\ d.err # "none"
    <2>1. \A f : SameFile(f)
      BY <1>11 DEF SameFile
    <2>2. Progress(j, i)'
      BY ONLY <1>9, <1>11 DEF Progress
    <2>3. \A f \in DOMAIN files' : ContentOK(f)'
      BY <1>11 DEF FInv, ContentOK
    <2>4. Own(j) /\ d.dst = OutPath(j) /\ d.dst \in DOMAIN files' =>
              files'[d.dst] # <<>> /\ files'[d.dst][1] = Header
      BY <1>11, JobKnown DEF Places
    <2>5. d.st # "open" /\ c.st # "closed"
      BY <1>1, <1>11
    <2> QED  BY <1>1, <1>5, <1>6, <1>7, <1>8, <1>9, <2>1, <2>2, <2>3, <2>4, <2>5, ThreadStepFiles
  <1>12. CASE /\ Exists(c.src) /\ dst # NoPath /\ d.st = "loop" /\ d.pos = c.pos
              /\ files' = Written(dst, IF Multi(j) THEN <<>> ELSE Opened(j))
    <2>1. PICK content \in Seq(Seq(Unit)) :
              /\ content = IF Multi(j) THEN <<>> ELSE Opened(j)
              /\ Mine(j) => FlattenSeq(content) = <<>>
              /\ ~Multi(j) => content # <<>> /\ content[1] = Header
      <3>1. <<>> \in Seq(Seq(Unit)) /\ Header \in Seq(Unit) /\ Header = <<>>
        BY DEF Header
      <3>2. FlattenSeq(<<Header>>) = <<>> /\ FlattenSeq(<<>>) = <<>>
        BY <3>1, FlattenShort
      <3>3. Mine(j) => Multi(j) \/ Own(j)
        BY <1>2, <1>6 DEF Mine
      <3> QED  BY <3>1, <3>2, <3>3, OpenedOK
    <2>2. /\ DOMAIN files' = DOMAIN files \cup {dst} /\ files'[dst] = content
          /\ \A f : f # dst => SameFile(f)
      BY <1>12, <2>1, WriteKeeps
    <2>3. dst.kind \in {"out", "mt_result"} /\ (dst.kind \in Temporary => dst.time[1][1] \in Jobs)
      <3>1. CASE job[j].pc = "single"
        BY <1>3, <1>7, <1>10, <1>12, <3>1 DEF Temporary
      <3>2. CASE job[j].pc = "join"
        BY <1>5, <1>6, <3>2 DEF OfJob
      <3> QED  BY <1>2, <3>1, <3>2
    <2>4. \A f \in DOMAIN files' : ContentOK(f)'
      BY <1>12, <2>1, <2>3, WriteContent
    <2>5. c.src # dst
      BY <1>2, <2>3
    <2>6. /\ c.src \in DOMAIN files /\ c.src \in DOMAIN files' /\ files'[c.src] = files[c.src]
          /\ files[c.src] \in Seq(Unit)
      <3>1. c.src \in DOMAIN files
        BY <1>12 DEF Exists
      <3>2. files[c.src] \in Seq(Unit)
        BY <1>2, <3>1 DEF FInv, ContentOK
      <3> QED  BY <2>2, <2>5, <3>1, <3>2 DEF SameFile
    <2>7. Progress(j, i)'
      <3>1. d.pos = 0
        BY <1>1, <1>2, <1>12 DEF Progress
      <3>2. Len(files[c.src]) \in Nat /\ SubSeq(files[c.src], 1, 0) = <<>>
        BY <2>6
      <3>3. 0 \in 0..Len(files[c.src])
        BY <3>2
      <3>4. Mine(j)' <=> Mine(j)
        BY <1>1, SameOwn DEF Mine
      <3> QED  BY ONLY <1>9, <1>12, <2>1, <2>2, <2>6, <3>1, <3>2, <3>3, <3>4 DEF Progress, Exists
    <2>8. Own(j) /\ d.dst = OutPath(j) /\ d.dst \in DOMAIN files' =>
              files'[d.dst] # <<>> /\ files'[d.dst][1] = Header
      BY <1>2, <1>5, <1>6, <1>9, <1>10, <2>1, <2>2
    <2>9. d.st # "open" /\ c.st # "closed"
      BY <1>1, <1>12
    <2> QED  BY <1>1, <1>5, <1>6, <1>7, <1>8, <1>9, <1>12, <2>2, <2>4, <2>7, <2>8, <2>9, ThreadStepFiles
  <1> QED  BY <1>9, <1>11, <1>12
\* What a block adds to the units that were read.
BlockAdded(src, blocks, buff, next, block) ==
    /\ next \in 0..Len(src)
    /\ block \in Seq(Unit)
    /\ Len(block) <= buff
    /\ Append(blocks, block) \in Seq(Seq(Unit))
    /\ FlattenSeq(Append(blocks, block)) = SubSeq(src, 1, next)
    /\ blocks # <<>> => Append(blocks, block) # <<>> /\ Append(blocks, block)[1] = blocks[1]

\* CompressBlock reads on where the units read before end, at most a buffer.
LEMMA OneBlock ==
    ASSUME NEW src \in Seq(Unit), NEW blocks \in Seq(Seq(Unit)), NEW pos \in 0..Len(src),
           NEW buff \in Nat, FlattenSeq(blocks) = SubSeq(src, 1, pos),
           NEW next, NEW block,
           next = MinOf(pos + buff, Len(src)) /\ block = SubSeq(src, pos + 1, next)
    PROVE  BlockAdded(src, blocks, buff, next, block)
  <1>1. Len(src) \in Nat
    OBVIOUS
  <1>2. next \in 0..Len(src) /\ pos <= next /\ next <= pos + buff
    BY <1>1 DEF MinOf
  <1>3. block \in Seq(Unit) /\ Len(block) = next - pos
    BY <1>1, <1>2
  <1>4. FlattenSeq(Append(blocks, block)) = FlattenSeq(blocks) \o block
    BY <1>3, FlattenAppend
  <1>5. SubSeq(src, 1, pos) \o block = SubSeq(src, 1, next)
    <2>1. 1 \in 1..Len(src) + 1 /\ pos \in (1 - 1)..Len(src) /\ next \in pos..Len(src)
      BY ONLY <1>1, <1>2, pos \in 0..Len(src)
    <2>2. SubSeq(src, 1, pos) \o SubSeq(src, pos + 1, next) = SubSeq(src, 1, next)
      BY ONLY <2>1, src \in Seq(Unit), ConcatAdjacentSubSeq, Zenon
    <2> QED  BY ONLY <2>2, block = SubSeq(src, pos + 1, next)
  <1>6. Append(blocks, block) \in Seq(Seq(Unit))
    BY <1>3
  <1>7. blocks # <<>> => Append(blocks, block) # <<>> /\ Append(blocks, block)[1] = blocks[1]
    <2>1. PICK x \in Seq(Seq(Unit)) : x = Append(blocks, block)
      BY <1>6
    <2>2. Len(blocks) \in Nat /\ (blocks # <<>> => Len(blocks) > 0)
      OBVIOUS
    <2>3. Len(x) = Len(blocks) + 1 /\ \A k \in 1..Len(blocks) : x[k] = blocks[k]
      BY <1>3, <2>1
    <2>4. x # <<>>
      BY <2>2, <2>3
    <2>5. blocks # <<>> => 1 \in 1..Len(blocks)
      BY ONLY <2>2
    <2> QED  BY ONLY <2>1, <2>3, <2>4, <2>5
  <1>8. Len(block) <= buff
    BY ONLY <1>2, <1>3, pos \in 0..Len(src), <1>1, buff \in Nat
  <1>9. FlattenSeq(Append(blocks, block)) = SubSeq(src, 1, next)
    BY <1>4, <1>5, Zenon
  <1> QED  BY ONLY <1>2, <1>3, <1>6, <1>7, <1>8, <1>9 DEF BlockAdded

\* CompressBlock and Close.
LEMMA LoopFiles ==
    ASSUME IInv, FInv, NEW j \in Jobs, NEW i \in DOMAIN comp[j], CompressBlock(j, i) \/ Close(j, i)
    PROVE  FInv'
  <1> DEFINE c == comp[j][i]
             next == MinOf(c.pos + c.buff, Len(files[c.src]))
             block == SubSeq(files[c.src], c.pos + 1, next)
             old == Content(c.dst)
  <1>1. c.st = "loop" /\ UNCHANGED <<input, job, ticks>>
    BY DEF CompressBlock, Close
  <1>2. /\ job[j].pc \in {"single", "join"}
        /\ DOMAIN c = ThreadFields /\ ThreadInv(j, i) /\ Progress(j, i)
        /\ c.src.kind \in {"compress_tmp", "mt_split"}
        /\ Belongs(c.dst, j) /\ c.dst # NoPath
    BY <1>1, ThreadKnown
  <1>3. DOMAIN comp = Jobs /\ Stage(j) /\ Crew(j) /\ job[j].out \in {NoPath, OutPath(j)}
        /\ Places(j)
    BY JobKnown
  <1>4. PICK d :
          /\ d = comp'[j][i] /\ d.src = c.src /\ d.dst = c.dst
          /\ \/ /\ files' = Written(c.dst, Append(old, block))
                /\ d.pos = next /\ d.st = "loop" /\ d.bad = c.bad
             \/ /\ \E content \in WrittenInPart(old, c.bad, <<block>>) :
                      files' = Written(c.dst, content)
                /\ d.pos = next /\ d.st = "loop" /\ d.bad = TRUE
             \/ files' = files /\ d.st = "closed" /\ d.err # "none"
             \/ /\ files' = files /\ d.st = "closed" /\ d.pos = c.pos /\ d.bad = c.bad
                /\ c.pos >= Len(files[c.src])
          /\ \A k \in Jobs \ {j} : comp'[k] = comp[k]
          /\ DOMAIN comp'[j] = DOMAIN comp[j]
          /\ \A k \in DOMAIN comp[j] \ {i} : comp'[j][k] = comp[j][k]
    <2> DEFINE Rest == /\ \A k \in Jobs \ {j} : comp'[k] = comp[k]
                       /\ DOMAIN comp'[j] = DOMAIN comp[j]
                       /\ \A k \in DOMAIN comp[j] \ {i} : comp'[j][k] = comp[j][k]
                       /\ comp'[j][i].src = c.src /\ comp'[j][i].dst = c.dst
    <2>1. CASE /\ files' = Written(c.dst, Append(old, block))
               /\ comp' = [comp EXCEPT ![j][i].pos = next]
      <3> HIDE DEF next, block, old
      <3>1. Rest /\ comp'[j][i].pos = next /\ comp'[j][i].st = "loop" /\ comp'[j][i].bad = c.bad
        BY <1>1, <1>2, <1>3, <2>1 DEF ThreadFields
      <3> QED  BY <2>1, <3>1
    <2>2. CASE /\ \E content \in WrittenInPart(old, c.bad, <<block>>) :
                     files' = Written(c.dst, content)
               /\ comp' = [comp EXCEPT ![j][i].pos = next, ![j][i].bad = TRUE]
      <3> HIDE DEF next, block, old
      <3>1. Rest /\ comp'[j][i].pos = next /\ comp'[j][i].st = "loop" /\ comp'[j][i].bad = TRUE
        BY <1>1, <1>2, <1>3, <2>2 DEF ThreadFields
      <3> QED  BY <2>2, <3>1
    <2>3. CASE /\ files' = files
               /\ comp' = [comp EXCEPT ![j][i].st = "closed", ![j][i].err = "zlib"]
      <3>1. Rest /\ comp'[j][i].err = "zlib" /\ comp'[j][i].st = "closed"
        BY <1>1, <1>2, <1>3, <2>3 DEF ThreadFields
      <3> QED  BY <2>3, <3>1
    <2>4. CASE /\ files' = files /\ c.pos >= Len(files[c.src])
               /\ comp' = [comp EXCEPT ![j][i].st = "closed"]
      <3>1. Rest /\ comp'[j][i].pos = c.pos /\ comp'[j][i].st = "closed" /\ comp'[j][i].bad = c.bad
        BY <1>1, <1>2, <1>3, <2>4 DEF ThreadFields
      <3> QED  BY <2>4, <3>1
    <2> QED  BY <2>1, <2>2, <2>3, <2>4 DEF CompressBlock, Close
  <1>5. /\ c.src \in DOMAIN files /\ c.pos \in 0..Len(files[c.src])
        /\ Mine(j) => c.dst \in DOMAIN files
        /\ Mine(j) /\ ~c.bad => FlattenSeq(files[c.dst]) = SubSeq(files[c.src], 1, c.pos)
    BY <1>1, <1>2 DEF Progress, Exists
  <1>6. NoPath \notin DOMAIN files /\ NoPath.kind = "no path" /\ OutPath(j).kind = "out"
    BY JobKnown DEF NoPath, OutPath
  <1>7. /\ job[j].pc = "join" => c.dst.kind = "mt_result" /\ OfJob(c.dst, j) /\ c.dst.seq = i
        /\ job[j].pc = "single" => c.dst = OutPath(j)
    BY <1>2, <1>3 DEF Crew, HasResults
  <1>8. /\ files[c.src] \in Seq(Unit) /\ old \in Seq(Seq(Unit))
        /\ c.dst \in DOMAIN files => old = files[c.dst]
    <2>1. <<>> \in Seq(Seq(Unit))
      OBVIOUS
    <2> QED  BY <1>2, <1>5, <1>6, <1>7, <2>1 DEF FInv, ContentOK, Content, Exists
  <1>9. Own(j) /\ c.dst = OutPath(j) => c.dst \in DOMAIN files /\ old # <<>> /\ old[1] = Header
    <2>1. Own(j) /\ c.dst = OutPath(j) => c.dst \in DOMAIN files
      BY <1>5 DEF Mine
    <2> QED  BY <1>3, <1>8, <2>1 DEF Places
  <1>a. Mine(j)' <=> Mine(j)
    BY <1>1, SameOwn DEF Mine
  <1>b. /\ d.dst = comp[j][i].dst /\ d.src = comp[j][i].src /\ d = comp'[j][i]
        /\ comp[j][i].st # "closed"
        /\ UNCHANGED <<input, job>>
        /\ \A k \in Jobs \ {j} : comp'[k] = comp[k]
        /\ DOMAIN comp'[j] = DOMAIN comp[j]
        /\ \A k \in DOMAIN comp[j] \ {i} : comp'[j][k] = comp[j][k]
    BY ONLY <1>1, <1>4
  <1>c. \A p \in ticks' : p[2][1][1] = p[1][1]
    BY <1>1 DEF FInv
  <1>d. job[j].pc = "join" => d.dst.kind = "mt_result" /\ OfJob(d.dst, j) /\ d.dst.seq = i
    BY ONLY <1>7, <1>b
  <1>e. /\ next \in 0..Len(files[c.src]) /\ block \in Seq(Unit)
        /\ Mine(j) /\ ~c.bad =>
              FlattenSeq(Append(old, block)) = SubSeq(files[c.src], 1, next)
    <2>1. c.buff \in Nat
      BY <1>2 DEF ThreadInv
    <2>2. PICK s, b, p, w : s = files[c.src] /\ b = old /\ p = c.pos /\ w = c.buff
      OBVIOUS
    <2>3. PICK n : n = MinOf(p + w, Len(s))
      OBVIOUS
    <2>4. PICK k : k = SubSeq(s, p + 1, n)
      OBVIOUS
    <2>5. next = n /\ block = k
      BY ONLY <2>2, <2>3, <2>4
    <2>6. s \in Seq(Unit) /\ b \in Seq(Seq(Unit)) /\ p \in 0..Len(s) /\ w \in Nat
      BY ONLY <1>5, <1>8, <2>1, <2>2
    <2>7. n \in 0..Len(s) /\ k \in Seq(Unit)
      <3>1. Len(s) \in Nat
        BY ONLY <2>6
      <3>2. n \in 0..Len(s)
        BY ONLY <2>3, <2>6, <3>1 DEF MinOf
      <3> QED  BY ONLY <2>4, <2>6, <3>1, <3>2
    <2>8. ASSUME Mine(j), ~c.bad
          PROVE  FlattenSeq(Append(b, k)) = SubSeq(s, 1, n)
      <3>1. FlattenSeq(b) = SubSeq(s, 1, p)
        BY ONLY <1>5, <1>8, <2>2, <2>8
      <3>2. BlockAdded(s, b, w, n, k)
        BY ONLY <2>3, <2>4, <2>6, <3>1, OneBlock
      <3> QED  BY ONLY <3>2 DEF BlockAdded
    <2> HIDE DEF next, block
    <2> QED  BY ONLY <2>2, <2>5, <2>7, <2>8
  <1> HIDE DEF next, block
  <1>10. ASSUME NEW new \in Seq(Seq(Unit)), files' = Written(c.dst, new), d.pos = next,
                d.st = "loop", old # <<>> => new # <<>> /\ new[1] = old[1],
                Mine(j) /\ ~d.bad => FlattenSeq(new) = SubSeq(files[c.src], 1, next)
         PROVE  FInv'
    <2>1. /\ DOMAIN files' = DOMAIN files \cup {c.dst} /\ files'[c.dst] = new
          /\ \A f : f # c.dst => SameFile(f)
      BY <1>10, WriteKeeps
    <2>2. \A f \in DOMAIN files' : ContentOK(f)'
      <3>1. c.dst.kind \in {"out", "mt_result"} /\ (c.dst.kind \in Temporary => c.dst.time[1][1] \in Jobs)
        BY <1>2, <1>6, <1>7 DEF Temporary, OfJob
      <3> QED  BY <1>10, <3>1, WriteContent
    <2>3. c.src # c.dst
      BY <1>2, <1>6, <1>7
    <2>4. c.src \in DOMAIN files' /\ files'[c.src] = files[c.src]
      BY <1>5, <2>1, <2>3 DEF SameFile
    <2>5. Progress(j, i)'
      <3>1. d = comp'[j][i] /\ d.src = c.src /\ d.dst = c.dst /\ d.st = "loop" /\ d.pos = next
        BY <1>b, <1>10
      <3>2. d.src \in DOMAIN files' /\ d.dst \in DOMAIN files' /\ d.pos \in 0..Len(files'[d.src])
        BY ONLY <1>e, <2>1, <2>4, <3>1
      <3>3. Mine(j)' /\ ~d.bad => FlattenSeq(files'[d.dst]) = SubSeq(files'[d.src], 1, d.pos)
        BY ONLY <1>10, <1>a, <2>1, <2>4, <3>1
      <3> HIDE DEF c
      <3> QED  BY ONLY <3>1, <3>2, <3>3 DEF Progress, Exists
    <2>6. Own(j) /\ d.dst = OutPath(j) /\ d.dst \in DOMAIN files' =>
              files'[d.dst] # <<>> /\ files'[d.dst][1] = Header
      BY <1>4, <1>9, <1>10, <2>1
    <2>7. d.st # "open"
      BY <1>10
    <2>8. \A f : f # d.dst \/ d.dst = NoPath => SameFile(f)
      BY <1>2, <1>b, <2>1
    <2> HIDE DEF c, old
    <2> QED  BY <1>b, <1>c, <1>d, <2>2, <2>5, <2>6, <2>7, <2>8, ThreadStepFiles
  <1>11. CASE /\ files' = Written(c.dst, Append(old, block))
              /\ d.pos = next /\ d.st = "loop" /\ d.bad = c.bad
    <2>1. PICK b \in Seq(Seq(Unit)), k \in Seq(Unit) : b = old /\ k = block
      BY <1>8, <1>e
    <2>2. PICK new : new = Append(b, k)
      OBVIOUS
    <2>3. new \in Seq(Seq(Unit)) /\ Len(new) = Len(b) + 1 /\ Len(b) \in Nat
          /\ \A m \in 1..Len(b) : new[m] = b[m]
      BY <2>2
    <2>4. b # <<>> => new # <<>> /\ new[1] = b[1]
      <3>1. b # <<>> => 1 \in 1..Len(b)
        BY <2>3
      <3>2. Len(new) # 0
        BY <2>3
      <3> QED  BY <2>3, <3>1, <3>2
    <2>5. Mine(j) /\ ~d.bad => FlattenSeq(new) = SubSeq(files[c.src], 1, next)
      BY <1>11, <1>e, <2>1, <2>2
    <2> HIDE DEF c, old
    <2> QED  BY <1>10, <1>11, <2>1, <2>2, <2>3, <2>4, <2>5
  <1>12. ASSUME NEW new \in WrittenInPart(old, c.bad, <<block>>), files' = Written(c.dst, new),
                d.pos = next, d.st = "loop", d.bad = TRUE
         PROVE  FInv'
    <2>1. PICK b \in Seq(Seq(Unit)), k \in Seq(Unit) : b = old /\ k = block
      BY <1>8, <1>e
    <2>2. <<k>> \in Seq(Seq(Unit))
      OBVIOUS
    <2>3. new \in Seq(Seq(Unit)) /\ (b # <<>> => new # <<>> /\ new[1] = b[1])
      <3>1. PICK bad : bad = c.bad
        OBVIOUS
      <3>2. PICK ks \in Seq(Seq(Unit)) : ks = <<k>>
        BY <2>2
      <3>3. new \in WrittenInPart(b, bad, ks)
        BY <1>12, <2>1, <3>1, <3>2
      <3>4. b \in Seq(Seq(Unit)) /\ ks \in Seq(Seq(Unit))
        OBVIOUS
      <3> QED  BY ONLY <3>3, <3>4, PartOK
    <2> HIDE DEF c, old
    <2> QED  BY <1>10, <1>12, <2>1, <2>3
  <1>13. CASE /\ files' = files /\ d.st = "closed"
              /\ \/ d.err # "none"
                 \/ d.pos = c.pos /\ c.pos >= Len(files[c.src]) /\ d.bad = c.bad
    <2>1. \A f : SameFile(f)
      BY <1>13 DEF SameFile
    <2>2. d.err = "none" /\ Mine(j) /\ ~d.bad => FlattenSeq(files[c.dst]) = files[c.src]
      <3>1. Len(files[c.src]) \in Nat
        BY ONLY <1>8
      <3>2. d.err = "none" => c.pos = Len(files[c.src]) /\ d.bad = c.bad
        BY <1>5, <1>13, <3>1
      <3>3. SubSeq(files[c.src], 1, Len(files[c.src])) = files[c.src]
        BY <1>8
      <3> QED  BY <1>5, <3>2, <3>3
    <2>3. Progress(j, i)'
      BY ONLY <1>4, <1>5, <1>13, <1>a, <2>2 DEF Progress, Exists
    <2>4. \A f \in DOMAIN files' : ContentOK(f)'
      BY <1>13 DEF FInv, ContentOK
    <2>5. Own(j) /\ d.dst = OutPath(j) /\ d.dst \in DOMAIN files' =>
              files'[d.dst] # <<>> /\ files'[d.dst][1] = Header
      BY <1>4, <1>8, <1>9, <1>13
    <2>6. d.st # "open"
      BY <1>13
    <2> HIDE DEF c, old
    <2> QED  BY <1>b, <1>c, <1>d, <2>1, <2>3, <2>4, <2>5, <2>6, ThreadStepFiles
  <1> QED  BY <1>4, <1>11, <1>12, <1>13

-------------------------------------------------------------------------------
(* The files of the jobs, in every behaviour *)

\* It holds before any job has begun,
LEMMA InitFInv == ASSUME Init PROVE FInv
  <1>1. files = <<>> /\ ticks = {}
    BY DEF Init
  <1>2. DOMAIN files = {}
    BY <1>1
  <1>3. ASSUME NEW j \in Jobs
        PROVE  JobFiles(j)
    <2>1. /\ job[j] = [pc |-> "check", err |-> "none", made |-> <<>>,
                       arch |-> NoPath, out |-> NoPath, n |-> 0, pieces |-> <<>>, joined |-> 0,
                       bad |-> FALSE]
          /\ comp[j] = <<>>
      BY <1>3 DEF Init
    <2>2. job[j].pc = "check" /\ Len(job[j].pieces) = 0 /\ DOMAIN comp[j] = {}
      BY <2>1
    <2> QED  BY <1>2, <2>2
             DEF JobFiles, Stage, Crew, Places, Whole, Returned, HasArchive, HasResults
  <1> QED  BY <1>1, <1>2, <1>3 DEF FInv

\* Set changes no file.
LEMMA SetFiles == ASSUME IInv, FInv, NEW s, Set(s) PROVE FInv'
  <1>1. UNCHANGED <<files, ticks, input, job, comp>>
    BY DEF Set
  <1>2. \A f : SameFile(f)
    BY <1>1 DEF SameFile
  <1>3. ASSUME NEW j \in Jobs
        PROVE  JobFiles(j)'
    BY <1>1, <1>2, OthersStay DEF FInv
  <1> QED  BY <1>1, <1>3 DEF FInv, ContentOK

\* and every step preserves it, whatever fails.
LEMMA StepFInv == ASSUME IInv, FInv, [Next]_vars PROVE FInv'
  <1>1. CASE UNCHANGED <<files, ticks, input, job, comp>>
    <2>1. \A f : SameFile(f)
      BY <1>1 DEF SameFile
    <2>2. ASSUME NEW j \in Jobs
          PROVE  JobFiles(j)'
      BY <1>1, <2>1, OthersStay DEF FInv
    <2> QED  BY <1>1, <2>2 DEF FInv, ContentOK
  <1>2. ASSUME NEW s \in Settings, Set(s)
        PROVE  FInv'
    BY <1>2, SetFiles
  <1>3. ASSUME NEW j \in Jobs, JobStep(j)
        PROVE  FInv'
    BY <1>3, CheckFiles, ArchiveFiles, PrepareFiles, DispatchFiles, SingleReturnsFiles,
       RemoveFiles, NotifyFiles, StartMTFiles, CutFiles, StartThreadsFiles, OpenCombinedFiles,
       AppendFiles, CloseCombinedFiles, CleanUpFiles DEF JobStep
  <1>4. ASSUME NEW j \in Jobs, NEW i \in DOMAIN comp[j], ThreadStep(j, i)
        PROVE  FInv'
    BY <1>4, OpenFiles, LoopFiles DEF ThreadStep
  <1>5. UNCHANGED vars \/ (\E j \in Jobs : JobFails(j)) =>
          UNCHANGED <<files, ticks, input, job, comp>>
    BY DEF vars, JobFails, Throws, ProcessEnds
  <1> QED  BY <1>1, <1>2, <1>3, <1>4, <1>5 DEF Next

\* A job on one thread that reports success, from the invariant.
LEMMA WholeFollows == ASSUME FInv PROVE SingleThreadWhole
  <1> SUFFICES ASSUME NEW j \in Jobs, Reports(j, "none"), job[j].pieces = <<>>, Own(j),
                      ~comp[j][0].bad
               PROVE  Holds(job[j].out, job[j].made)
    BY DEF SingleThreadWhole
  <1>1. Whole(j) /\ job[j].pc = "done" /\ job[j].err = "none"
    BY DEF FInv, JobFiles, Reports, Done, At
  <1> QED  BY <1>1 DEF Whole, Returned

\* Whatever fails and whatever is set meanwhile, a job on one thread that reports
\* success, and whose writes went through, has compressed all that Archive made,
\* unless another job writes to the same output: the error of a block or of a file
\* that does not open is returned by CompressFileWithZlib.  What Archive made may
\* be short of an input.
THEOREM WholeOnOneThread == Spec => []SingleThreadWhole
  <1>1. Init => IInv /\ FInv
    BY InitIInv, InitFInv
  <1>2. IInv /\ FInv /\ [Next]_vars => IInv' /\ FInv'
    BY StepIInv, StepFInv
  <1> QED  BY <1>1, <1>2, WholeFollows, PTL DEF Spec

-------------------------------------------------------------------------------
(* What a step of a job or of its threads leaves to the others *)

\* An output of its own is never written from its beginning again: blocks are
\* appended.
Grows(j) ==
    Own(j) /\ OutPath(j) \in DOMAIN files =>
        /\ OutPath(j) \in DOMAIN files'
        /\ \E more \in Seq(Seq(Unit)) : files'[OutPath(j)] = files[OutPath(j)] \o more

FilesFrame(j) == (\A f : SameFile(f) \/ Belongs(f, j)) /\ Grows(j)

Frame(j) ==
    /\ UNCHANGED input
    /\ ticks \subseteq ticks'
    /\ \A k \in Jobs \ {j} : job'[k] = job[k] /\ comp'[k] = comp[k]
    /\ FilesFrame(j)

\* An output that stays as it is has not lost anything.
LEMMA SameGrows ==
    ASSUME FInv, NEW j \in Jobs, SameFile(OutPath(j))
    PROVE  Grows(j)
  <1> SUFFICES ASSUME OutPath(j) \in DOMAIN files
               PROVE  /\ OutPath(j) \in DOMAIN files'
                      /\ \E more \in Seq(Seq(Unit)) : files'[OutPath(j)] = files[OutPath(j)] \o more
    BY DEF Grows
  <1>1. files[OutPath(j)] \in Seq(Seq(Unit))
    BY DEF FInv, ContentOK, OutPath
  <1>2. PICK s \in Seq(Seq(Unit)) : s = files[OutPath(j)]
    BY <1>1
  <1>3. <<>> \in Seq(Seq(Unit)) /\ s \o <<>> = s
    OBVIOUS
  <1>4. OutPath(j) \in DOMAIN files' /\ files'[OutPath(j)] = s
    BY <1>2 DEF SameFile
  <1>5. files'[OutPath(j)] = files[OutPath(j)] \o <<>>
    BY ONLY <1>2, <1>3, <1>4
  <1> QED  BY <1>3, <1>4, <1>5

\* Nothing is written,
LEMMA SameFrame == ASSUME FInv, NEW j \in Jobs, files' = files PROVE FilesFrame(j)
  BY SameGrows DEF SameFile, FilesFrame

\* or one of the job's temporary files, or its output for the first time,
LEMMA WriteFrame ==
    ASSUME FInv, NEW j \in Jobs, NEW g, NEW content, files' = Written(g, content),
           Belongs(g, j), g = OutPath(j) /\ Own(j) => g \notin DOMAIN files
    PROVE  FilesFrame(j)
  <1>1. \A f : f # g => SameFile(f)
    BY WriteKeeps
  <1>2. CASE g = OutPath(j)
    BY <1>1, <1>2 DEF Grows, FilesFrame
  <1>3. CASE g # OutPath(j)
    BY <1>1, <1>3, SameGrows DEF FilesFrame
  <1> QED  BY <1>2, <1>3

\* or more of the output,
LEMMA MoreFrame ==
    ASSUME NEW j \in Jobs, NEW more \in Seq(Seq(Unit)),
           files' = Written(OutPath(j), Content(OutPath(j)) \o more)
    PROVE  FilesFrame(j)
  <1>1. /\ \A f : f # OutPath(j) => SameFile(f)
        /\ OutPath(j) \in DOMAIN files' /\ files'[OutPath(j)] = Content(OutPath(j)) \o more
    BY WriteKeeps
  <1>2. OutPath(j) \in DOMAIN files => Content(OutPath(j)) = files[OutPath(j)]
    BY DEF Content, Exists
  <1> QED  BY <1>1, <1>2 DEF FilesFrame, Grows, Belongs

\* What is written in part is more, too,
More(c, content) == \E more \in Seq(Seq(Unit)) : content = c \o more

LEMMA PartIsMore ==
    ASSUME NEW c \in Seq(Seq(Unit)), NEW blocks \in Seq(Seq(Unit)), NEW bad,
           NEW content \in WrittenInPart(c, bad, blocks)
    PROVE  More(c, content)
  <1> USE DEF More
  <1>1. CASE content = c
    <2>1. <<>> \in Seq(Seq(Unit)) /\ c \o <<>> = c
      OBVIOUS
    <2> QED  BY <1>1, <2>1
  <1>2. ASSUME NEW k \in 0..(Len(blocks) - 1),
               \/ content = c \o SubSeq(blocks, 1, k)
               \/ content = Append(c \o SubSeq(blocks, 1, k), Torn)
        PROVE  \E more \in Seq(Seq(Unit)) : content = c \o more
    <2>1. PICK x : x = SubSeq(blocks, 1, k)
      OBVIOUS
    <2>2. x \in Seq(Seq(Unit))
      BY <2>1
    <2>3. Torn \in Seq(Unit)
      BY DEF Torn, Unit
    <2>4. PICK torn \in Seq(Unit) : torn = Torn
      BY <2>3
    <2>5. c \o Append(x, torn) = Append(c \o x, torn) /\ Append(x, torn) \in Seq(Seq(Unit))
      BY ONLY <2>2, c \in Seq(Seq(Unit)), torn \in Seq(Unit)
    <2>6. content = c \o x \/ content = c \o Append(x, torn)
      BY <1>2, <2>1, <2>4, <2>5
    <2> QED  BY ONLY <2>2, <2>5, <2>6
  <1>3. \/ content = c
        \/ \E k \in 0..(Len(blocks) - 1) :
              \/ content = c \o SubSeq(blocks, 1, k)
              \/ content = Append(c \o SubSeq(blocks, 1, k), Torn)
    <2>1. CASE bad
      BY <2>1 DEF WrittenInPart
    <2>2. CASE ~bad
      BY <2>2 DEF WrittenInPart
    <2> QED  BY <2>1, <2>2
  <1> QED  BY <1>1, <1>2, <1>3

\* and what a file holds is blocks, or nothing.
LEMMA ContentBlocks ==
    ASSUME FInv, NEW f, f \in DOMAIN files => f.kind \in {"out", "mt_result"}
    PROVE  Content(f) \in Seq(Seq(Unit))
  <1>1. <<>> \in Seq(Seq(Unit))
    OBVIOUS
  <1> QED  BY <1>1 DEF Content, Exists, FInv, ContentOK

\* or temporary files are removed.
LEMMA RemoveFrame ==
    ASSUME IInv, FInv, NEW j \in Jobs, NEW gone, files' = Without(gone),
           \A g \in gone : g = NoPath \/ (g.kind \in Temporary /\ OfJob(g, j))
    PROVE  FilesFrame(j)
  <1>1. DOMAIN files' = DOMAIN files \ gone /\ \A f : f \notin gone => SameFile(f)
    BY RemoveKeeps
  <1>2. NoPath \notin DOMAIN files
    BY NoPathUnnamed DEF IInv
  <1>3. SameFile(NoPath)
    BY <1>1, <1>2 DEF SameFile
  <1>4. OutPath(j) \notin gone
    BY DEF OutPath, NoPath, Temporary
  <1> QED  BY <1>1, <1>3, <1>4, SameGrows DEF FilesFrame, Belongs

\* A name composed at a time that a thread of the job has read is one of the job.
LEMMA NameOfJob ==
    ASSUME FInv, NEW j, NEW i, NEW t \in Now(<<j, i>>), ticks' = ticks \cup {<<<<j, i>>, t>>},
           NEW kind \in Temporary, NEW k
    PROVE  /\ TmpName(kind, t, k).kind = kind
           /\ OfJob(TmpName(kind, t, k), j)
           /\ Belongs(TmpName(kind, t, k), j)
           /\ TmpName(kind, t, k) # OutPath(j)
           /\ TmpName(kind, t, k).time = t
  <1>1. t[1][1] = j
    BY TimeOfJob
  <1> QED  BY <1>1 DEF TmpName, OfJob, Belongs, OutPath, Temporary

\* Appending one block.
LEMMA AppendOne ==
    ASSUME NEW T, NEW b \in Seq(T), NEW e \in T
    PROVE  <<e>> \in Seq(T) /\ Append(b, e) = b \o <<e>>
  OBVIOUS

\* The steps of a job,
LEMMA JobFrame ==
    ASSUME IInv, FInv, NEW j \in Jobs, JobStep(j)
    PROVE  Frame(j) /\ UNCHANGED param /\ ~Done(j)
  <1>1. /\ DOMAIN job = Jobs /\ DOMAIN comp = Jobs /\ DOMAIN job[j] = JobFields
        /\ NoPath \notin DOMAIN files /\ job[j].out \in {NoPath, OutPath(j)}
        /\ Stage(j) /\ Crew(j) /\ Places(j) /\ LocalInv(j) /\ Whole(j)
    BY JobKnown
  <1>2. UNCHANGED <<param, input>> /\ ~Done(j)
    BY DEF JobStep, InputMissing, CheckInput, ArchiveInputs, PrepareCompress, Dispatch,
           SingleReturns, RemoveArchive, Notify, StartMT, CutPiece, StartThreads,
           OpenCombined, AppendResult, CloseCombined, CleanUp, At, Done
  <1>3. ticks \subseteq ticks'
    BY DEF JobStep, InputMissing, CheckInput, ArchiveInputs, PrepareCompress, Dispatch,
           SingleReturns, RemoveArchive, Notify, StartMT, CutPiece, StartThreads,
           OpenCombined, AppendResult, CloseCombined, CleanUp
  <1>4. ASSUME NEW k \in Jobs \ {j}
        PROVE  job'[k] = job[k] /\ comp'[k] = comp[k]
    BY <1>1 DEF JobStep, InputMissing, CheckInput, ArchiveInputs, PrepareCompress, Dispatch,
           SingleReturns, RemoveArchive, Notify, StartMT, CutPiece, StartThreads,
           OpenCombined, AppendResult, CloseCombined, CleanUp, Goto
  <1>5. FilesFrame(j)
    <2>1. CASE InputMissing(j) \/ CheckInput(j) \/ PrepareCompress(j) \/ Dispatch(j)
               \/ SingleReturns(j) \/ Notify(j) \/ StartMT(j) \/ StartThreads(j)
               \/ CloseCombined(j)
      <3>1. files' = files
        BY <2>1 DEF InputMissing, CheckInput, PrepareCompress, Dispatch, SingleReturns,
           Notify, StartMT, StartThreads, CloseCombined
      <3> QED  BY <3>1, SameFrame
    <2>2. CASE ArchiveInputs(j)
      <3>1. PICK t, name, content :
                /\ t \in Now(Main(j))
                /\ name = TmpName("compress_tmp", t, -1)
                /\ ticks' = ticks \cup {<<Main(j), t>>}
                /\ files' = files \/ files' = Written(name, content)
        BY <2>2 DEF ArchiveInputs
      <3>2. Belongs(name, j) /\ name # OutPath(j)
        BY <3>1, NameOfJob DEF Main, Temporary
      <3> QED  BY <3>1, <3>2, SameFrame, WriteFrame
    <2>3. CASE CutPiece(j)
      <3>1. PICK t, name, content :
                /\ t \in Now(Main(j))
                /\ name = TmpName("mt_split", t, -1)
                /\ ticks' = ticks \cup {<<Main(j), t>>}
                /\ files' = files \/ files' = Written(name, content)
        BY <2>3 DEF CutPiece
      <3>2. Belongs(name, j) /\ name # OutPath(j)
        BY <3>1, NameOfJob DEF Main, Temporary
      <3> QED  BY <3>1, <3>2, SameFrame, WriteFrame
    <2>4. CASE RemoveArchive(j)
      <3>1. files' = Without({job[j].arch}) /\ job[j].pc = "remove"
        BY <2>4 DEF RemoveArchive, At
      <3>2. job[j].arch.kind \in Temporary /\ OfJob(job[j].arch, j)
        BY <1>1, <3>1 DEF Stage, HasArchive, Temporary
      <3> QED  BY <3>1, <3>2, RemoveFrame
    <2>5. CASE CleanUp(j)
      <3>1. /\ files' = Without(ToSet(job[j].pieces) \cup {comp[j][i].dst : i \in DOMAIN comp[j]})
            /\ job[j].pc = "clean"
        BY <2>5 DEF CleanUp, At
      <3>2. \A g \in ToSet(job[j].pieces) : g.kind \in Temporary /\ OfJob(g, j)
        <4>1. PICK S : job[j].pieces \in Seq(S)
          BY <1>1 DEF LocalInv
        <4>2. DOMAIN job[j].pieces = 1..Len(job[j].pieces)
          BY <4>1
        <4> QED  BY <1>1, <4>2 DEF Stage, ToSet, Temporary
      <3>3. \A i \in DOMAIN comp[j] :
                comp[j][i].dst = NoPath
                    \/ (comp[j][i].dst.kind \in Temporary /\ OfJob(comp[j][i].dst, j))
        BY <1>1, <3>1 DEF Crew, HasResults, Temporary
      <3> QED  BY <3>1, <3>2, <3>3, RemoveFrame
    <2>6. CASE OpenCombined(j)
      <3>1. job[j].pc = "join"
            /\ (files' = files
                \/ (job[j].out # NoPath /\ files' = Written(job[j].out, Opened(j))))
        BY <2>6 DEF OpenCombined, At
      <3>2. Own(j) => OutPath(j) \notin DOMAIN files
        BY <1>1, <3>1 DEF Places, HasOutput
      <3>3. Belongs(OutPath(j), j)
        BY DEF Belongs
      <3> QED  BY <1>1, <3>1, <3>2, <3>3, SameFrame, WriteFrame
    <2>7. CASE AppendResult(j)
      <3> DEFINE sofar == Content(job[j].out)
                 result == Content(comp[j][job[j].joined].dst)
      <3>1. /\ job[j].pc = "combine" /\ job[j].joined < job[j].n
            /\ \/ files' = Written(job[j].out, sofar \o result)
               \/ \E content \in WrittenInPart(sofar, job[j].bad, result) :
                     files' = Written(job[j].out, content)
        BY <2>7 DEF AppendResult, At
      <3>2. job[j].out = OutPath(j)
        BY <1>1, <3>1 DEF LocalInv
      <3>3. result \in Seq(Seq(Unit)) /\ sofar \in Seq(Seq(Unit))
        <4>1. job[j].joined \in DOMAIN comp[j]
          BY <1>1, <3>1 DEF Crew, LocalInv
        <4>2. \/ comp[j][job[j].joined].dst = NoPath
              \/ comp[j][job[j].joined].dst.kind = "mt_result"
          BY <1>1, <3>1, <4>1 DEF Crew, HasResults
        <4>3. job[j].out.kind = "out"
          BY <3>2 DEF OutPath
        <4> QED  BY <1>1, <4>2, <4>3, ContentBlocks
      <3>4. \E more \in Seq(Seq(Unit)) : files' = Written(OutPath(j), Content(OutPath(j)) \o more)
        <4> HIDE DEF sofar, result
        <4>1. PICK bad : bad = job[j].bad
          OBVIOUS
        <4>2. CASE files' = Written(job[j].out, sofar \o result)
          BY <3>2, <3>3, <4>2 DEF sofar
        <4>3. ASSUME NEW content \in WrittenInPart(sofar, bad, result),
                     files' = Written(job[j].out, content)
              PROVE  \E more \in Seq(Seq(Unit)) :
                        files' = Written(OutPath(j), Content(OutPath(j)) \o more)
          <5>1. PICK s, ks : s = sofar /\ ks = result
            OBVIOUS
          <5>2. s \in Seq(Seq(Unit)) /\ ks \in Seq(Seq(Unit)) /\ content \in WrittenInPart(s, bad, ks)
            BY ONLY <3>3, <4>1, <4>3, <5>1
          <5>3. PICK more \in Seq(Seq(Unit)) : content = s \o more
            <6>1. More(s, content)
              BY ONLY <5>2, PartIsMore
            <6> QED  BY ONLY <6>1 DEF More
          <5> QED  BY <3>2, <4>3, <5>1, <5>3 DEF sofar
        <4> QED  BY <3>1, <4>1, <4>2, <4>3
      <3> QED  BY <3>4, MoreFrame
    <2> QED  BY <2>1, <2>2, <2>3, <2>4, <2>5, <2>6, <2>7 DEF JobStep
  <1> QED  BY <1>2, <1>3, <1>4, <1>5 DEF Frame

\* and those of its threads.
LEMMA ThreadFrame ==
    ASSUME IInv, FInv, NEW j \in Jobs, NEW i \in DOMAIN comp[j], ThreadStep(j, i)
    PROVE  Frame(j) /\ UNCHANGED param /\ ~Done(j)
  <1> DEFINE c == comp[j][i]
  <1>1. comp[j][i].st # "closed" /\ UNCHANGED <<param, input, job>>
    BY DEF ThreadStep, Open, CompressBlock, Close
  <1>2. /\ job[j].pc \in {"single", "join"} /\ ThreadInv(j, i) /\ Progress(j, i)
        /\ job[j].pc = "single" => i = 0
        /\ c.src.kind \in {"compress_tmp", "mt_split"}
        /\ c.dst = NoPath \/ Belongs(c.dst, j)
        /\ c.st = "loop" => c.dst # NoPath
    BY <1>1, ThreadKnown
  <1>3. /\ DOMAIN comp = Jobs /\ Crew(j) /\ Places(j) /\ job[j].out \in {NoPath, OutPath(j)}
        /\ NoPath \notin DOMAIN files
    BY JobKnown
  <1>4. \A k \in Jobs \ {j} : comp'[k] = comp[k]
    BY <1>3 DEF ThreadStep, Open, CompressBlock, Close
  <1>5. ticks \subseteq ticks'
    BY DEF ThreadStep, Open, CompressBlock, Close
  <1>6. FilesFrame(j)
    <2>1. CASE Open(j, i)
      <3>1. PICK dst, content :
              /\ files' = files \/ (dst # NoPath /\ files' = Written(dst, content))
              /\ \/ ~Multi(j) /\ dst = c.dst
                 \/ /\ Multi(j)
                    /\ \E t \in Now(<<j, i>>) :
                          ticks' = ticks \cup {<<<<j, i>>, t>>} /\ dst = TmpName("mt_result", t, i)
        BY <2>1 DEF Open
      <3>2. CASE ~Multi(j) /\ dst = c.dst /\ dst # NoPath
        <4>1. job[j].pc = "single" /\ c.st = "open" /\ i = 0
          BY <1>2, <2>1, <3>2 DEF Multi, At, Open
        <4>2. Own(j) => OutPath(j) \notin DOMAIN files
          BY <1>3, <4>1 DEF Places
        <4> QED  BY <1>2, <3>1, <3>2, <4>2, SameFrame, WriteFrame
      <3>3. ASSUME NEW t \in Now(<<j, i>>), ticks' = ticks \cup {<<<<j, i>>, t>>},
                   dst = TmpName("mt_result", t, i)
            PROVE  FilesFrame(j)
        <4>1. Belongs(dst, j) /\ dst # OutPath(j)
          BY <3>3, NameOfJob DEF Temporary
        <4> QED  BY <3>1, <4>1, SameFrame, WriteFrame
      <3> QED  BY <3>1, <3>2, <3>3, SameFrame
    <2>2. CASE CompressBlock(j, i)
      <3>1. PICK block, content :
              /\ \/ files' = files
                 \/ /\ files' = Written(c.dst, content)
                    /\ \/ content = Append(Content(c.dst), block)
                       \/ content \in WrittenInPart(Content(c.dst), c.bad, <<block>>)
              /\ block = SubSeq(files[c.src], c.pos + 1,
                                MinOf(c.pos + c.buff, Len(files[c.src])))
              /\ c.st = "loop"
        BY <2>2 DEF CompressBlock
      <3>2. CASE files' = Written(c.dst, content) /\ files' # files
        <4>1. CASE c.dst # OutPath(j)
          BY <1>2, <3>1, <3>2, <4>1, WriteFrame
        <4>2. CASE c.dst = OutPath(j)
          <5>1. c.src \in DOMAIN files /\ c.pos \in 0..Len(files[c.src]) /\ c.buff \in Nat
            BY <1>2, <3>1 DEF Progress, Exists, ThreadInv
          <5>2. files[c.src] \in Seq(Unit) /\ Content(c.dst) \in Seq(Seq(Unit))
            <6>1. ContentOK(c.src)
              BY ONLY <5>1, FInv DEF FInv
            <6>2. c.dst.kind = "out"
              BY <4>2 DEF OutPath
            <6>3. c.src.kind \notin {"out", "mt_result"}
              BY <1>2
            <6>4. Content(c.dst) \in Seq(Seq(Unit))
              BY <6>2, ContentBlocks
            <6> QED  BY ONLY <6>1, <6>3, <6>4 DEF ContentOK
          <5>3. PICK s, b, p, w : s = files[c.src] /\ b = Content(c.dst) /\ p = c.pos /\ w = c.buff
            OBVIOUS
          <5>4. PICK n : n = MinOf(p + w, Len(s))
            OBVIOUS
          <5>5. s \in Seq(Unit) /\ p \in 0..Len(s) /\ w \in Nat /\ Len(s) \in Nat
            BY ONLY <5>1, <5>2, <5>3
          <5>6. n \in 0..Len(s)
            BY ONLY <5>4, <5>5 DEF MinOf
          <5>7. SubSeq(s, p + 1, n) \in Seq(Unit)
            BY ONLY <5>5, <5>6
          <5>8. block \in Seq(Unit)
            BY ONLY <3>1, <5>3, <5>4, <5>7
          <5>9. Append(b, block) = b \o <<block>> /\ <<block>> \in Seq(Seq(Unit))
            <6>1. PICK T : T = Seq(Unit)
              OBVIOUS
            <6>2. b \in Seq(T) /\ block \in T
              BY ONLY <5>2, <5>3, <5>8, <6>1
            <6>3. <<block>> \in Seq(T) /\ Append(b, block) = b \o <<block>>
              BY ONLY <6>2, AppendOne
            <6> QED  BY ONLY <6>1, <6>3
          <5>a. PICK more \in Seq(Seq(Unit)) : content = b \o more
            <6>1. CASE content = Append(b, block)
              BY <5>9, <6>1
            <6>2. CASE content \in WrittenInPart(b, c.bad, <<block>>)
              <7>1. PICK bad, ks : bad = c.bad /\ ks = <<block>>
                OBVIOUS
              <7>2. b \in Seq(Seq(Unit)) /\ ks \in Seq(Seq(Unit))
                BY ONLY <5>2, <5>3, <5>9, <7>1
              <7>3. content \in WrittenInPart(b, bad, ks)
                BY ONLY <6>2, <7>1
              <7>4. More(b, content)
                BY ONLY <7>2, <7>3, PartIsMore
              <7> QED  BY ONLY <7>4 DEF More
            <6>3. content = Append(b, block) \/ content \in WrittenInPart(b, c.bad, <<block>>)
              BY <3>1, <3>2, <5>3
            <6> QED  BY <6>1, <6>2, <6>3
          <5>b. files' = Written(OutPath(j), Content(OutPath(j)) \o more)
            BY ONLY <3>2, <4>2, <5>3, <5>a
          <5> QED  BY <5>b, MoreFrame
        <4> QED  BY <4>1, <4>2
      <3> QED  BY <3>1, <3>2, SameFrame
    <2>3. CASE Close(j, i)
      BY <2>3, SameFrame DEF Close
    <2> QED  BY <2>1, <2>2, <2>3 DEF ThreadStep
  <1>7. ~Done(j)
    BY <1>2 DEF Done, At
  <1> QED  BY <1>1, <1>4, <1>5, <1>6, <1>7 DEF Frame

-------------------------------------------------------------------------------
(* Where nothing fails and nobody calls Set: the inductive invariant *)

Undisturbed == MaySet = FALSE /\ Faults = {}

Cutting == {"cut", "join", "combine"}
Ended == {"clean", "remove", "notify", "done"}

\* The buffer that is configured is large enough for every block of the file, and
\* no block is torn.
Fits(blocks) == \A b \in 1..Len(blocks) : Len(blocks[b]) <= param.buff /\ blocks[b] # Torn

\* The units that thread i, from 0, compresses.
Piece(j, i) ==
    SubSeq(Archived(j), PieceStart(input[j].size, job[j].n, i) + 1,
           PieceStart(input[j].size, job[j].n, i + 1))

CalmArchive(j) ==
    /\ job[j].pc \in HasArchive => Exists(job[j].arch) /\ job[j].made = Archived(j)
    /\ job[j].pc \in HasArchive \ {"prepare"} => job[j].out = OutPath(j)

\* Every piece holds its part of the archive; no time is read twice, so that a
\* piece is not overwritten by the next one.
CalmPieces(j) ==
    job[j].pc \in Cutting =>
        \A i \in 1..Len(job[j].pieces) :
            /\ job[j].pieces[i].time \in TimesOf(Main(j))
            /\ Exists(job[j].pieces[i])
            /\ files[job[j].pieces[i]] = Piece(j, i - 1)

CalmThread(j, i) ==
    LET c == comp[j][i]
    IN  job[j].pc \in Busy =>
            /\ c.err = "none" /\ ~c.bad
            /\ c.buff <= param.buff
            /\ Mine(j) /\ c.st # "open" => Exists(c.dst) /\ Fits(files[c.dst])

\* An output that no other job writes is as whole as the job has come.
CalmOutput(j) ==
    /\ job[j].pc \in {"cut", "join"} => job[j].joined = 0
    /\ Own(j) /\ job[j].pc = "combine" =>
          FlattenSeq(files[OutPath(j)])
              = SubSeq(Archived(j), 1, PieceStart(input[j].size, job[j].n, job[j].joined))
    /\ Own(j) /\ job[j].pc \in Ended /\ job[j].err = "none" => Holds(OutPath(j), Archived(j))
    /\ Own(j) /\ Exists(OutPath(j)) =>
          /\ Fits(files[OutPath(j)])
          /\ IsPrefix(FlattenSeq(files[OutPath(j)]), Archived(j))

Calm(j) ==
    /\ CalmArchive(j)
    /\ CalmPieces(j)
    /\ \A i \in DOMAIN comp[j] : CalmThread(j, i)
    /\ CalmOutput(j)

\* No thread can read again a time that it has read.
ClockInv ==
    /\ \A th : IsFiniteSet(TimesOf(th))
    /\ \A p \in ticks : p[2][2] \in Nat /\ p[2][2] < Cardinality(TimesOf(p[2][1]))

BInv == ClockInv /\ \A j \in Jobs : Calm(j)

-------------------------------------------------------------------------------
(* The clock *)

\* The time that is read is new to the thread.
LEMMA NewTime == ASSUME ClockInv, NEW th, NEW t \in Now(th) PROVE t \notin TimesOf(th)
  <1>1. CASE t = <<th, Cardinality(TimesOf(th))>>
    <2> SUFFICES ASSUME t \in TimesOf(th) PROVE FALSE
      OBVIOUS
    <2>1. PICK p \in ticks : p[1] = th /\ p[2] = t
      BY DEF TimesOf
    <2>2. p[2][1] = th /\ p[2][2] = Cardinality(TimesOf(th))
      BY <1>1, <2>1
    <2>3. p[2][2] \in Nat /\ p[2][2] < Cardinality(TimesOf(th))
      BY <2>1, <2>2 DEF ClockInv
    <2> QED  BY <2>2, <2>3
  <1> QED  BY <1>1 DEF Now

\* Reading the clock: the times of a thread are one more.
LEMMA ClockTicks ==
    ASSUME ClockInv, NEW th, NEW t \in Now(th), ticks' = ticks \cup {<<th, t>>}
    PROVE  ClockInv'
  <1>1. TimesOf(th)' = TimesOf(th) \cup {t} /\ \A h : h # th => TimesOf(h)' = TimesOf(h)
    <2>1. ASSUME NEW h
          PROVE  TimesOf(h)' = TimesOf(h) \cup {p[2] : p \in {q \in {<<th, t>>} : q[1] = h}}
      BY DEF TimesOf
    <2>2. {p[2] : p \in {q \in {<<th, t>>} : q[1] = th}} = {t}
      <3>a. <<th, t>>[1] = th /\ <<th, t>>[2] = t
        OBVIOUS
      <3>1. PICK x : x = <<th, t>> /\ x[1] = th /\ x[2] = t
        BY <3>a, Zenon
      <3>2. {q \in {x} : q[1] = th} = {x}
        BY <3>1
      <3>3. {p[2] : p \in {x}} = {t}
        BY <3>1
      <3> QED  BY <3>1, <3>2, <3>3
    <2>3. \A h : h # th => {p[2] : p \in {q \in {<<th, t>>} : q[1] = h}} = {}
      OBVIOUS
    <2> QED  BY <2>1, <2>2, <2>3
  <1>2. /\ \A h : IsFiniteSet(TimesOf(h))
        /\ \A p \in ticks : p[2][2] \in Nat /\ p[2][2] < Cardinality(TimesOf(p[2][1]))
    BY DEF ClockInv
  <1>3. /\ IsFiniteSet(TimesOf(th) \cup {t})
        /\ Cardinality(TimesOf(th) \cup {t}) = Cardinality(TimesOf(th)) + 1
        /\ \A h : Cardinality(TimesOf(h)) \in Nat
    BY <1>2, NewTime, FS_AddElement, FS_CardinalityType
  <1>4. \A h : IsFiniteSet(TimesOf(h)')
    BY <1>1, <1>2, <1>3
  <1>5. \A h : Cardinality(TimesOf(h)') \in Nat /\ Cardinality(TimesOf(h)) <= Cardinality(TimesOf(h)')
    <2>1. Cardinality(TimesOf(th)') = Cardinality(TimesOf(th)) + 1
      BY <1>1, <1>3
    <2>2. \A h : h # th => Cardinality(TimesOf(h)') = Cardinality(TimesOf(h))
      BY <1>1
    <2>3. \A h : Cardinality(TimesOf(h)) \in Nat
      BY <1>3
    <2> QED  BY ONLY <2>1, <2>2, <2>3
  <1>6. ASSUME NEW p \in ticks
        PROVE  p[2][2] \in Nat /\ p[2][2] < Cardinality(TimesOf(p[2][1])')
    <2>1. p[2][2] \in Nat /\ p[2][2] < Cardinality(TimesOf(p[2][1]))
      BY <1>2
    <2>2. Cardinality(TimesOf(p[2][1])) \in Nat /\ Cardinality(TimesOf(p[2][1])') \in Nat
          /\ Cardinality(TimesOf(p[2][1])) <= Cardinality(TimesOf(p[2][1])')
      BY <1>3, <1>5
    <2> QED  BY <2>1, <2>2
  <1>7. t[2] \in Nat /\ t[2] < Cardinality(TimesOf(t[1])')
    <2>1. CASE t = <<th, Cardinality(TimesOf(th))>>
      <3>1. t[1] = th /\ t[2] = Cardinality(TimesOf(th))
        BY <2>1
      <3>2. Cardinality(TimesOf(th)') = Cardinality(TimesOf(th)) + 1
        BY <1>1, <1>3
      <3> QED  BY <1>3, <3>1, <3>2
    <2>2. CASE t \in SiblingTimes(th)
      <3>1. PICK p \in ticks : p[2] = t
        BY <2>2 DEF SiblingTimes
      <3> QED  BY <1>6, <3>1
    <2> QED  BY <2>1, <2>2 DEF Now
  <1>8. ASSUME NEW p \in ticks'
        PROVE  p[2][2] \in Nat /\ p[2][2] < Cardinality(TimesOf(p[2][1])')
    <2>1. CASE p \in ticks
      BY <1>6, <2>1
    <2>2. CASE p = <<th, t>>
      <3>1. p[2] = t
        BY <2>2
      <3> QED  BY <1>7, <3>1
    <2> QED  BY <2>1, <2>2
  <1> QED  BY <1>4, <1>8 DEF ClockInv

\* Times that were read remain read.
LEMMA TimesKept == ASSUME ticks \subseteq ticks' PROVE \A th : TimesOf(th) \subseteq TimesOf(th)'
  BY DEF TimesOf

-------------------------------------------------------------------------------
(* What stays calm *)

\* The archive, if its file is left alone,
LEMMA CalmArchiveStays ==
    ASSUME NEW j \in Jobs, CalmArchive(j), job'[j].made = job[j].made, input' = input,
           job'[j].pc \in HasArchive =>
               job[j].pc \in HasArchive /\ job'[j].arch = job[j].arch /\ SameFile(job[j].arch),
           job'[j].pc \in HasArchive \ {"prepare"} => job'[j].out = OutPath(j)
    PROVE  CalmArchive(j)'
  <1>1. OutPath(j)' = OutPath(j) /\ Archived(j)' = Archived(j)
    BY DEF OutPath, Archived, Units
  <1>2. job'[j].pc \in HasArchive => job'[j].arch \in DOMAIN files'
    BY DEF CalmArchive, Exists, SameFile
  <1>3. job'[j].pc \in HasArchive => job'[j].made = Archived(j)
    BY DEF CalmArchive
  <1> QED  BY <1>1, <1>2, <1>3 DEF CalmArchive, Exists

\* the pieces, if the ones that are there are,
LEMMA CalmPiecesStay ==
    ASSUME NEW j \in Jobs, CalmPieces(j), input' = input, ticks \subseteq ticks',
           job'[j].pc \in Cutting =>
               /\ job[j].pc \in Cutting
               /\ job'[j].pieces = job[j].pieces /\ job'[j].n = job[j].n
               /\ \A i \in 1..Len(job[j].pieces) : SameFile(job[j].pieces[i])
    PROVE  CalmPieces(j)'
  <1> SUFFICES ASSUME job'[j].pc \in Cutting, NEW i \in 1..Len(job'[j].pieces)
               PROVE  /\ job'[j].pieces[i].time \in TimesOf(Main(j))'
                      /\ job'[j].pieces[i] \in DOMAIN files'
                      /\ files'[job'[j].pieces[i]] = Piece(j, i - 1)'
    BY DEF CalmPieces, Cutting, Exists
  <1>1. PICK p : p = job[j].pieces[i] /\ p = job'[j].pieces[i]
    OBVIOUS
  <1>2. Main(j)' = Main(j) /\ Piece(j, i - 1)' = Piece(j, i - 1)
    BY DEF Main, Piece, Archived, Units, PieceStart
  <1>3. p.time \in TimesOf(Main(j)) /\ p \in DOMAIN files /\ files[p] = Piece(j, i - 1)
        /\ SameFile(p)
    BY <1>1 DEF CalmPieces, Exists
  <1> QED  BY ONLY <1>1, <1>2, <1>3, ticks \subseteq ticks' DEF SameFile, Exists, TimesOf

\* a thread, if its result is,
LEMMA CalmThreadStays ==
    ASSUME NEW j \in Jobs, NEW i, CalmThread(j, i), comp'[j][i] = comp[j][i], param' = param,
           input' = input, NoPath \notin DOMAIN files,
           job'[j].pc \in Busy =>
               /\ job[j].pc \in Busy
               /\ job[j].pc = "single" => job'[j].pc = "single"
               /\ Mine(j) => comp[j][i].dst = NoPath \/ SameFile(comp[j][i].dst)
    PROVE  CalmThread(j, i)'
  <1>1. PICK c : c = comp[j][i] /\ c = comp'[j][i]
    OBVIOUS
  <1>2. CASE job'[j].pc \in Busy
    <2>1. /\ c.err = "none" /\ ~c.bad /\ c.buff <= param.buff
          /\ Mine(j) /\ c.st # "open" => c.dst \in DOMAIN files /\ Fits(files[c.dst])
      BY <1>1, <1>2 DEF CalmThread, Exists
    <2>2. Mine(j) /\ c.dst \in DOMAIN files => c.dst \in DOMAIN files' /\ files'[c.dst] = files[c.dst]
      BY <1>1, <1>2 DEF SameFile
    <2>3. Mine(j)' => Mine(j)
      BY <1>2, SameOwn DEF Mine
    <2>4. Torn' = Torn
      BY DEF Torn, Garbled
    <2> QED  BY ONLY <1>1, <2>1, <2>2, <2>3, <2>4, param' = param DEF CalmThread, Exists, Fits
  <1>3. CASE job'[j].pc \notin Busy
    BY <1>3 DEF CalmThread, Busy
  <1> QED  BY <1>2, <1>3

\* and the output, if no more is combined into it.
LEMMA CalmOutputStays ==
    ASSUME NEW j \in Jobs, CalmOutput(j), UNCHANGED <<param, input>>,
           Own(j) => SameFile(OutPath(j)),
           job'[j].pc \in {"cut", "join"} => job'[j].joined = 0,
           job'[j].pc = "combine" =>
               /\ job[j].pc = "combine" /\ (Own(j) => Exists(OutPath(j)))
               /\ job'[j].n = job[j].n /\ job'[j].joined = job[j].joined,
           Own(j) /\ job'[j].pc \in Ended /\ job'[j].err = "none" =>
               (job[j].pc \in Ended /\ job[j].err = "none") \/ Holds(OutPath(j), Archived(j))
    PROVE  CalmOutput(j)'
  <1>1. PICK f : f = OutPath(j) /\ f = OutPath(j)'
    BY DEF OutPath
  <1>2. PICK a : a = Archived(j) /\ a = Archived(j)'
    BY DEF Archived, Units
  <1>0. Own(j)' <=> Own(j)
    BY SameOwn
  <1>b. job'[j].pc \in {"cut", "join"} => job'[j].joined = 0
    OBVIOUS
  <1>3. CASE Own(j)
    <2>3. /\ f \in DOMAIN files <=> f \in DOMAIN files'
          /\ f \in DOMAIN files => files'[f] = files[f]
      BY <1>1, <1>3 DEF SameFile
    <2>4. f \in DOMAIN files => Fits(files[f]) /\ IsPrefix(FlattenSeq(files[f]), a)
      BY <1>1, <1>2, <1>3 DEF CalmOutput, Exists
    <2>0. Torn' = Torn
      BY DEF Torn, Garbled
    <2>5. Exists(OutPath(j))' => Fits(files[OutPath(j)])' /\ IsPrefix(FlattenSeq(files[OutPath(j)]), Archived(j))'
      BY ONLY <1>1, <1>2, <2>0, <2>3, <2>4, param' = param DEF Fits, Exists
    <2>6. ASSUME job'[j].pc = "combine"
          PROVE  FlattenSeq(files'[f]) = SubSeq(a, 1, PieceStart(input'[j].size, job'[j].n, job'[j].joined))
      BY <1>1, <1>2, <1>3, <2>3, <2>6 DEF CalmOutput, Exists
    <2>7. ASSUME job'[j].pc \in Ended, job'[j].err = "none"
          PROVE  Holds(OutPath(j), Archived(j))'
      <3>1. Holds(f, a)
        BY <1>1, <1>2, <1>3, <2>7 DEF CalmOutput
      <3> QED  BY ONLY <1>1, <1>2, <2>3, <3>1 DEF Holds, Exists, Header
    <2> QED  BY ONLY <1>1, <1>2, <1>b, <2>5, <2>6, <2>7 DEF CalmOutput, Ended, PieceStart
  <1>4. CASE ~Own(j)
    BY ONLY <1>0, <1>4, <1>b DEF CalmOutput
  <1> QED  BY <1>3, <1>4

\* A job that is left alone stays calm.
LEMMA OthersCalm ==
    ASSUME IInv, FInv, NEW k \in Jobs, Calm(k), UNCHANGED <<param, input>>,
           ticks \subseteq ticks', job'[k] = job[k], comp'[k] = comp[k],
           \A f : Kept(f, k) => SameFile(f)
    PROVE  Calm(k)'
  <1>1. JobInv(k) /\ Stage(k) /\ Crew(k) /\ Whole(k) /\ NoPath \notin DOMAIN files
    BY JobKnown
  <1>0. \A f : f.kind \in Temporary /\ OfJob(f, k) => SameFile(f)
    <2>1. OutPath(k).kind \notin Temporary
      BY DEF OutPath, Temporary
    <2> QED  BY <2>1 DEF Kept, Belongs
  <1>2. CalmArchive(k)'
    <2>1. job[k].pc \in HasArchive => SameFile(job[k].arch)
      BY <1>0, <1>1 DEF Stage, Temporary
    <2> QED  BY <2>1, CalmArchiveStays DEF Calm, CalmArchive
  <1>3. CalmPieces(k)'
    <2>1. \A i \in 1..Len(job[k].pieces) : SameFile(job[k].pieces[i])
      BY <1>0, <1>1 DEF Stage, Temporary
    <2> QED  BY <2>1, CalmPiecesStay DEF Calm
  <1>4. ASSUME NEW i \in DOMAIN comp'[k]
        PROVE  CalmThread(k, i)'
    <2>1. i \in DOMAIN comp[k] /\ CalmThread(k, i) /\ comp'[k][i] = comp[k][i]
      BY DEF Calm
    <2>2. job[k].pc \in Busy /\ Mine(k) => comp[k][i].dst = NoPath \/ SameFile(comp[k][i].dst)
      BY <1>1, <2>1, ThreadFiles DEF Busy
    <2> QED  BY <1>1, <2>1, <2>2, CalmThreadStays
  <1>5. CalmOutput(k)'
    <2>1. Own(k) => SameFile(OutPath(k)) /\ (job[k].pc = "combine" => Exists(OutPath(k)))
      BY <1>1 DEF Kept, Belongs, Whole
    <2>2. CalmOutput(k) /\ (job[k].pc \in {"cut", "join"} => job[k].joined = 0)
      BY DEF Calm, CalmOutput
    <2> QED  BY <2>1, <2>2, CalmOutputStays
  <1> QED  BY <1>2, <1>3, <1>4, <1>5 DEF Calm

-------------------------------------------------------------------------------
(* Calm steps of a job that write nothing *)

\* What such a step has to preserve.
LEMMA QuietCalm ==
    ASSUME IInv, FInv, NEW j \in Jobs, Calm(j), UNCHANGED <<param, files, input>>,
           ticks \subseteq ticks', job'[j].made = job[j].made,
           job'[j].pc \in HasArchive => job[j].pc \in HasArchive /\ job'[j].arch = job[j].arch,
           job'[j].pc \in HasArchive \ {"prepare"} => job'[j].out = OutPath(j),
           job'[j].pc \in Cutting =>
               \/ job'[j].pieces = <<>>
               \/ job[j].pc \in Cutting /\ job'[j].pieces = job[j].pieces /\ job'[j].n = job[j].n,
           \A i \in DOMAIN comp'[j] : CalmThread(j, i)',
           job'[j].pc \in {"cut", "join"} => job'[j].joined = 0,
           job'[j].pc = "combine" =>
               /\ job[j].pc = "combine"
               /\ job'[j].n = job[j].n /\ job'[j].joined = job[j].joined,
           Own(j) /\ job'[j].pc \in Ended /\ job'[j].err = "none" =>
               (job[j].pc \in Ended /\ job[j].err = "none") \/ Holds(OutPath(j), Archived(j))
    PROVE  Calm(j)'
  <1>1. Whole(j) /\ CalmArchive(j) /\ CalmPieces(j) /\ CalmOutput(j)
    BY JobKnown DEF Calm
  <1>2. \A f : SameFile(f)
    BY DEF SameFile
  <1>3. CalmArchive(j)'
    BY <1>1, <1>2, CalmArchiveStays
  <1>4. CalmPieces(j)'
    <2>1. CASE job'[j].pc \in Cutting /\ job'[j].pieces = <<>>
      <3>1. Len(job'[j].pieces) = 0
        BY <2>1
      <3> QED  BY <3>1 DEF CalmPieces
    <2>2. CASE ~(job'[j].pc \in Cutting /\ job'[j].pieces = <<>>)
      BY <1>1, <1>2, <2>2, CalmPiecesStay
    <2> QED  BY <2>1, <2>2
  <1>5. CalmOutput(j)'
    <2>1. Own(j) /\ job[j].pc = "combine" => Exists(OutPath(j))
      BY <1>1 DEF Whole
    <2> QED  BY <1>1, <1>2, <2>1, CalmOutputStays
  <1> QED  BY <1>3, <1>4, <1>5 DEF Calm

\* The threads of a job stay calm, if they are as they were.
LEMMA SameThreadsCalm ==
    ASSUME IInv, FInv, NEW j \in Jobs, Calm(j), UNCHANGED <<param, files, input>>,
           comp'[j] = comp[j], job'[j].pc \notin Busy \/ DOMAIN comp[j] = {}
    PROVE  \A i \in DOMAIN comp'[j] : CalmThread(j, i)'
  <1> SUFFICES ASSUME NEW i \in DOMAIN comp[j] PROVE CalmThread(j, i)'
    OBVIOUS
  <1>1. CalmThread(j, i) /\ NoPath \notin DOMAIN files /\ (\A f : SameFile(f))
    BY JobKnown DEF Calm, SameFile
  <1>2. job'[j].pc \notin Busy
    OBVIOUS
  <1> QED  BY <1>1, <1>2, CalmThreadStays

\* InputMissing and CheckInput.
LEMMA CheckCalm ==
    ASSUME IInv, FInv, NEW j \in Jobs, Calm(j), InputMissing(j) \/ CheckInput(j)
    PROVE  Calm(j)'
  <1>1. UNCHANGED <<param, files, ticks, input, comp>>
    BY DEF InputMissing, CheckInput
  <1>2. DOMAIN job = Jobs /\ DOMAIN job[j] = JobFields
    BY JobKnown
  <1>3. /\ job'[j].pc = "archive" \/ (job'[j].pc = "notify" /\ job'[j].err # "none")
        /\ job'[j].made = job[j].made
    BY <1>2 DEF InputMissing, CheckInput, Goto, JobFields
  <1>4. /\ job'[j].pc \notin HasArchive /\ job'[j].pc \notin Cutting /\ job'[j].pc \notin Busy
        /\ job'[j].pc # "combine" /\ ~(job'[j].pc \in Ended /\ job'[j].err = "none")
    BY <1>3 DEF HasArchive, Cutting, Busy, Ended
  <1>5. \A i \in DOMAIN comp'[j] : CalmThread(j, i)'
    BY <1>1, <1>4, SameThreadsCalm
  <1> QED  BY <1>1, <1>3, <1>4, <1>5, QuietCalm

\* PrepareCompress, which does not fail.
LEMMA PrepareCalm ==
    ASSUME Undisturbed, IInv, FInv, NEW j \in Jobs, Calm(j), PrepareCompress(j)
    PROVE  Calm(j)'
  <1>1. UNCHANGED <<param, files, ticks, input, comp>> /\ job[j].pc = "prepare"
    BY DEF PrepareCompress, At
  <1>2. DOMAIN job = Jobs /\ DOMAIN job[j] = JobFields
    BY JobKnown
  <1>3. /\ job'[j].pc = "dispatch" /\ job'[j].out = OutPath(j)
        /\ job'[j].made = job[j].made /\ job'[j].arch = job[j].arch
    BY <1>2 DEF PrepareCompress, JobFields, Undisturbed
  <1>4. /\ "dispatch" \notin Cutting /\ "dispatch" \notin Busy /\ "dispatch" \notin Ended
        /\ "prepare" \in HasArchive
    BY DEF HasArchive, Cutting, Busy, Ended
  <1>5. \A i \in DOMAIN comp'[j] : CalmThread(j, i)'
    BY <1>1, <1>3, <1>4, SameThreadsCalm
  <1> QED  BY <1>1, <1>3, <1>4, <1>5, QuietCalm

\* The result is whole because it is in the invariant of the files.
LEMMA SingleReturnsCalm ==
    ASSUME IInv, FInv, NEW j \in Jobs, Calm(j), SingleReturns(j), FInv'
    PROVE  Calm(j)'
  <1>1. UNCHANGED <<param, files, ticks, input, comp>> /\ job[j].pc = "single"
    BY DEF SingleReturns, At
  <1>2. /\ DOMAIN job = Jobs /\ DOMAIN job[j] = JobFields /\ Stage(j) /\ Crew(j)
        /\ CalmArchive(j)
    BY JobKnown DEF Calm
  <1>3. /\ job'[j].pc = "remove" /\ job'[j].out = job[j].out /\ job'[j].pieces = job[j].pieces
        /\ job'[j].made = job[j].made /\ job'[j].arch = job[j].arch
    BY <1>2 DEF SingleReturns, JobFields
  <1>4. /\ "remove" \notin Cutting /\ "remove" \notin Busy /\ "single" \in HasArchive
        /\ "remove" # "combine" /\ "single" # "prepare"
    BY DEF HasArchive, Cutting, Busy
  <1>5. job[j].out = OutPath(j) /\ job[j].made = Archived(j) /\ job[j].pieces = <<>>
    BY <1>1, <1>2, <1>4 DEF CalmArchive, Stage
  <1>6. Own(j) /\ job'[j].err = "none" => Holds(OutPath(j), Archived(j))
    <2>1. Whole(j)' /\ (Own(j)' <=> Own(j))
      BY <1>1, SameOwn DEF FInv, JobFiles
    <2>2. ~comp'[j][0].bad
      <3>1. CalmThread(j, 0) /\ job[j].pc \in Busy
        BY <1>1, <1>2 DEF Calm, Crew, Busy
      <3> QED  BY <1>1, <3>1 DEF CalmThread
    <2>3. Own(j) /\ job'[j].err = "none" => Holds(job[j].out, job[j].made)'
      BY <1>3, <1>5, <2>1, <2>2 DEF Whole, Returned
    <2>4. PICK f, a : f = job'[j].out /\ f = OutPath(j) /\ a = job'[j].made /\ a = Archived(j)
      BY <1>3, <1>5
    <2>5. Holds(job[j].out, job[j].made)' => Holds(f, a)
      BY ONLY <1>1, <2>4 DEF Holds, Exists, Header
    <2> QED  BY <2>3, <2>4, <2>5
  <1>7. \A i \in DOMAIN comp'[j] : CalmThread(j, i)'
    BY <1>1, <1>3, <1>4, SameThreadsCalm
  <1> QED  BY <1>1, <1>3, <1>4, <1>5, <1>6, <1>7, QuietCalm

\* Notify.
LEMMA NotifyCalm ==
    ASSUME IInv, FInv, NEW j \in Jobs, Calm(j), Notify(j)
    PROVE  Calm(j)'
  <1>1. UNCHANGED <<param, files, ticks, input, comp>> /\ job[j].pc = "notify"
    BY DEF Notify, At
  <1>2. DOMAIN job = Jobs /\ DOMAIN job[j] = JobFields
    BY JobKnown
  <1>3. job'[j].pc = "done" /\ job'[j].err = job[j].err /\ job'[j].made = job[j].made
    BY <1>2 DEF Notify, Goto, JobFields
  <1>4. /\ "done" \notin Cutting /\ "done" \notin Busy /\ "done" \notin HasArchive
        /\ "notify" \in Ended /\ "done" # "combine"
    BY DEF HasArchive, Cutting, Busy, Ended
  <1>5. \A i \in DOMAIN comp'[j] : CalmThread(j, i)'
    BY <1>1, <1>3, <1>4, SameThreadsCalm
  <1> QED  BY <1>1, <1>3, <1>4, <1>5, QuietCalm

\* StartMT: the job has no pieces yet.
LEMMA StartMTCalm ==
    ASSUME IInv, FInv, NEW j \in Jobs, Calm(j), StartMT(j)
    PROVE  Calm(j)'
  <1>1. UNCHANGED <<param, files, ticks, input, comp>> /\ job[j].pc = "mt"
    BY DEF StartMT, At
  <1>2. /\ DOMAIN job = Jobs /\ DOMAIN job[j] = JobFields /\ LocalInv(j) /\ Crew(j)
        /\ CalmArchive(j)
    BY JobKnown DEF Calm
  <1>3. /\ job'[j].pc = "cut" /\ job'[j].out = job[j].out
        /\ job'[j].joined = job[j].joined
        /\ job'[j].pieces = job[j].pieces
        /\ job'[j].made = job[j].made /\ job'[j].arch = job[j].arch
    BY <1>2 DEF StartMT, JobFields
  <1>4. /\ "mt" \in HasArchive /\ "mt" # "prepare" /\ "cut" \notin Busy /\ "cut" \notin Ended
    BY DEF HasArchive, Busy, Ended
  <1>5. job[j].pieces = <<>> /\ job[j].joined = 0 /\ job[j].out = OutPath(j)
    BY <1>1, <1>2, <1>4 DEF LocalInv, CalmArchive
  <1>6. \A i \in DOMAIN comp'[j] : CalmThread(j, i)'
    BY <1>1, <1>3, <1>4, SameThreadsCalm
  <1> QED  BY <1>1, <1>3, <1>4, <1>5, <1>6, QuietCalm

\* All results are combined, and together they are the archive.
LEMMA CloseCombinedCalm ==
    ASSUME IInv, FInv, NEW j \in Jobs, Calm(j), CloseCombined(j)
    PROVE  Calm(j)'
  <1>1. UNCHANGED <<param, files, ticks, input, comp>> /\ job[j].pc = "combine"
        /\ job[j].joined = job[j].n
    BY DEF CloseCombined, At
  <1>2. /\ DOMAIN job = Jobs /\ DOMAIN job[j] = JobFields /\ LocalInv(j) /\ Whole(j) /\ Places(j)
        /\ CalmArchive(j) /\ CalmOutput(j) /\ Stage(j)
    BY JobKnown DEF Calm
  <1>3. /\ job'[j].pc = "clean" /\ job'[j].out = job[j].out
        /\ job'[j].made = job[j].made /\ job'[j].arch = job[j].arch
    BY <1>2 DEF CloseCombined, Goto, JobFields
  <1>4. /\ "combine" \in HasArchive /\ "combine" # "prepare" /\ "clean" \notin Busy
        /\ "clean" \notin Cutting /\ "clean" # "combine"
    BY DEF HasArchive, Busy, Cutting
  <1>5. ASSUME Own(j) PROVE Holds(OutPath(j), Archived(j))
    <2>1. OutPath(j) \in DOMAIN files
      BY <1>1, <1>2, <1>5 DEF Whole, Exists
    <2>2. files[OutPath(j)] # <<>> /\ files[OutPath(j)][1] = Header
      BY <1>2, <1>5, <2>1 DEF Places
    <2>3. FlattenSeq(files[OutPath(j)])
            = SubSeq(Archived(j), 1, PieceStart(input[j].size, job[j].n, job[j].n))
      BY <1>1, <1>2, <1>5 DEF CalmOutput
    <2>4. PieceStart(input[j].size, job[j].n, job[j].n) = input[j].size
      BY DEF PieceStart
    <2>5. Archived(j) \in Seq(Unit) /\ Len(Archived(j)) = input[j].size
      BY ArchivedOK
    <2>6. SubSeq(Archived(j), 1, input[j].size) = Archived(j)
      BY ONLY <2>5
    <2>7. Head(files[OutPath(j)]) = Header
      BY <2>2
    <2> QED  BY <2>1, <2>2, <2>3, <2>4, <2>6, <2>7 DEF Holds, Exists
  <1>6. \A i \in DOMAIN comp'[j] : CalmThread(j, i)'
    BY <1>1, <1>3, <1>4, SameThreadsCalm
  <1>7. job[j].out = OutPath(j)
    BY <1>1, <1>2, <1>4 DEF CalmArchive
  <1> QED  BY <1>1, <1>3, <1>4, <1>5, <1>6, <1>7, QuietCalm

\* No thread has a larger share of the buffer than there is.
LEMMA ShareFits ==
    ASSUME NEW buff \in Nat, NEW n \in Nat \ {0}, NEW i
    PROVE  ThreadBuff(buff, n, i) <= buff
  <1> DEFINE q == buff \div n
             r == buff % n
             m == q * n
  <1>1. q \in Nat /\ r \in Nat /\ m \in Nat /\ buff = m + r
    BY DEF q, r, m
  <1>2. q * (n - 1) = m - q
    BY <1>1
  <1>3. PICK d \in Nat : n = d + 1
    <2>1. n - 1 \in Nat /\ n = (n - 1) + 1
      OBVIOUS
    <2> QED  BY <2>1
  <1>5. ThreadBuff(buff, n, i) \in {buff - q * (n - 1), q}
    BY DEF ThreadBuff, q
  <1>a. m = q * n
    BY DEF m
  <1> HIDE DEF q, r, m
  <1>4. m = q * d + q /\ q * d \in Nat
    BY ONLY <1>a, <1>1, <1>3, d \in Nat
  <1>6. q <= m
    BY ONLY <1>1, <1>4, q \in Nat, m \in Nat
  <1>7. buff - (m - q) <= buff /\ q <= buff
    BY ONLY <1>1, <1>6
  <1> QED  BY ONLY <1>2, <1>5, <1>7

\* Dispatch: the buffer of the only thread is the configured one.
LEMMA DispatchCalm ==
    ASSUME IInv, FInv, NEW j \in Jobs, Calm(j), Dispatch(j)
    PROVE  Calm(j)'
  <1>1. UNCHANGED <<param, files, ticks, input>> /\ job[j].pc = "dispatch"
    BY DEF Dispatch, At
  <1>2. /\ DOMAIN job = Jobs /\ DOMAIN job[j] = JobFields /\ DOMAIN comp = Jobs /\ Crew(j)
        /\ CalmArchive(j)
    BY JobKnown DEF Calm
  <1>3. /\ job'[j].pc \in {"mt", "single"} /\ job'[j].out = job[j].out
        /\ job'[j].made = job[j].made /\ job'[j].arch = job[j].arch
    BY <1>2 DEF Dispatch, Goto, JobFields
  <1>4. /\ "dispatch" \in HasArchive /\ "dispatch" # "prepare" /\ "mt" \notin Busy
        /\ "mt" \notin Cutting /\ "single" \notin Cutting
        /\ "mt" \notin Ended /\ "single" \notin Ended
    BY DEF HasArchive, Busy, Cutting, Ended
  <1>5. \A i \in DOMAIN comp'[j] : CalmThread(j, i)'
    <2>1. CASE comp' = comp
      <3>1. DOMAIN comp'[j] = {}
        BY <1>1, <1>2, <2>1 DEF Crew
      <3> QED  BY <3>1
    <2>2. CASE comp' = [comp EXCEPT ![j] =
                          [i \in {0} |-> Compressor(job[j].arch, job[j].out, param.buff)]]
      <3>1. DOMAIN comp'[j] = {0} /\ comp'[j][0] = Compressor(job[j].arch, job[j].out, param.buff)
        BY <1>2, <2>2
      <3>2. comp'[j][0].st = "open" /\ comp'[j][0].err = "none" /\ comp'[j][0].buff = param.buff
            /\ ~comp'[j][0].bad
        BY <3>1 DEF Compressor
      <3>3. param.buff <= param.buff
        BY JobsAssumption DEF IInv
      <3> QED  BY <1>1, <3>1, <3>2, <3>3 DEF CalmThread
    <2> QED  BY <2>1, <2>2 DEF Dispatch
  <1>6. job[j].out = OutPath(j)
    BY <1>1, <1>2, <1>4 DEF CalmArchive
  <1>7. job'[j].pc \notin Cutting /\ job'[j].pc # "combine" /\ job'[j].pc \notin Ended
    BY <1>3, <1>4
  <1> QED  BY <1>1, <1>3, <1>4, <1>5, <1>6, <1>7, QuietCalm

\* StartThreads: each thread gets its share of the buffer.
LEMMA StartThreadsCalm ==
    ASSUME IInv, FInv, NEW j \in Jobs, Calm(j), StartThreads(j)
    PROVE  Calm(j)'
  <1>1. UNCHANGED <<param, files, ticks, input>> /\ job[j].pc = "cut"
    BY DEF StartThreads, At
  <1>2. /\ DOMAIN job = Jobs /\ DOMAIN job[j] = JobFields /\ DOMAIN comp = Jobs /\ Crew(j)
        /\ CalmArchive(j) /\ Stage(j) /\ LocalInv(j)
    BY JobKnown DEF Calm
  <1>3. /\ \/ job'[j].pc = "clean" /\ job'[j].err # "none" /\ comp' = comp
           \/ /\ job'[j].pc = "join"
              /\ comp' = [comp EXCEPT ![j] =
                    [i \in 0..(job[j].n - 1) |->
                        Compressor(job[j].pieces[i + 1], NoPath,
                                   ThreadBuff(param.buff, job[j].n, i))]]
        /\ job'[j].out = job[j].out /\ job'[j].pieces = job[j].pieces /\ job'[j].n = job[j].n
        /\ job'[j].joined = job[j].joined
        /\ job'[j].made = job[j].made /\ job'[j].arch = job[j].arch
    BY <1>2 DEF StartThreads, JobFields
  <1>4. /\ "cut" \in HasArchive /\ "cut" # "prepare" /\ "cut" \in Cutting
        /\ "clean" \notin Cutting /\ "join" \notin Ended
    BY DEF HasArchive, Cutting, Ended
  <1>5. \A i \in DOMAIN comp'[j] : CalmThread(j, i)'
    <2>1. CASE comp' = comp
      <3>1. DOMAIN comp'[j] = {}
        BY <1>1, <1>2, <2>1 DEF Crew
      <3> QED  BY <3>1
    <2>2. CASE comp' = [comp EXCEPT ![j] =
                    [i \in 0..(job[j].n - 1) |->
                        Compressor(job[j].pieces[i + 1], NoPath,
                                   ThreadBuff(param.buff, job[j].n, i))]]
      <3>1. DOMAIN comp'[j] = 0..(job[j].n - 1)
            /\ \A i \in 0..(job[j].n - 1) :
                  comp'[j][i] = Compressor(job[j].pieces[i + 1], NoPath,
                                           ThreadBuff(param.buff, job[j].n, i))
        BY <1>2, <2>2
      <3>2. \A i \in 0..(job[j].n - 1) :
                /\ comp'[j][i].st = "open" /\ comp'[j][i].err = "none" /\ ~comp'[j][i].bad
                /\ comp'[j][i].buff = ThreadBuff(param.buff, job[j].n, i)
        <4>1. \A s, d, b : /\ Compressor(s, d, b).st = "open" /\ Compressor(s, d, b).err = "none"
                           /\ Compressor(s, d, b).buff = b /\ ~Compressor(s, d, b).bad
          BY DEF Compressor
        <4> QED  BY ONLY <3>1, <4>1
      <3>3. param.buff \in Nat
        BY JobsAssumption DEF IInv
      <3>4. job[j].n \in Nat \ {0}
        BY <1>1, <1>2 DEF Stage, LocalInv
      <3>5. \A i : ThreadBuff(param.buff, job[j].n, i) <= param.buff
        BY <3>3, <3>4, ShareFits
      <3> QED  BY <1>1, <3>1, <3>2, <3>5 DEF CalmThread
    <2> QED  BY <1>3, <2>1, <2>2
  <1>6. job[j].out = OutPath(j) /\ job[j].joined = 0
    BY <1>1, <1>2, <1>4 DEF CalmArchive, CalmOutput, Calm
  <1>7. job'[j].pc # "combine" /\ ~(job'[j].pc \in Ended /\ job'[j].err = "none")
    BY <1>3, <1>4
  <1> QED  BY <1>1, <1>3, <1>4, <1>5, <1>6, <1>7, QuietCalm

-------------------------------------------------------------------------------
(* Calm steps of a job that write or remove files *)

\* The beginning of a sequence is a prefix of it.
LEMMA PrefixOf ==
    ASSUME NEW T, NEW a \in Seq(T), NEW n \in 0..Len(a)
    PROVE  IsPrefix(SubSeq(a, 1, n), a)
  <1>1. SubSeq(a, 1, n) \in Seq(T) /\ Len(SubSeq(a, 1, n)) = n /\ n <= Len(a)
    OBVIOUS
  <1>2. PICK u \in Seq(T) : u = SubSeq(a, 1, n) /\ Len(u) = n
    BY ONLY <1>1
  <1>3. SubSeq(u, 1, Len(u)) = u
    OBVIOUS
  <1>4. IsPrefix(u, a)
    BY ONLY <1>1, <1>2, <1>3 DEF IsPrefix
  <1> QED  BY ONLY <1>2, <1>4

\* Blocks that fit still do when others are behind them.
LEMMA FitsConcat ==
    ASSUME NEW s \in Seq(Seq(Unit)), NEW t \in Seq(Seq(Unit)), Fits(s), Fits(t)
    PROVE  Fits(s \o t)
  <1>1. PICK T : T = Seq(Unit)
    OBVIOUS
  <1>2. s \in Seq(T) /\ t \in Seq(T)
    BY <1>1
  <1>3. PICK x, y \in Nat : x = Len(s) /\ y = Len(t)
    BY ONLY <1>2
  <1>4. (s \o t) \in Seq(T)
    BY ONLY <1>2, ConcatProperties
  <1>5. PICK w \in Seq(T) : w = s \o t
    BY ONLY <1>4, Zenon
  <1>6. Len(w) = x + y /\ \A k \in 1..(x + y) : w[k] = IF k <= x THEN s[k] ELSE t[k - x]
    BY ONLY <1>2, <1>3, <1>5
  <1>7. ASSUME NEW k \in 1..(x + y)
        PROVE  Len(w[k]) <= param.buff /\ w[k] # Torn
    <2>1. CASE k <= x
      <3>1. k \in 1..x /\ w[k] = s[k]
        BY ONLY <1>6, <2>1, x \in Nat, y \in Nat, k \in 1..(x + y)
      <3> QED  BY ONLY <1>3, <3>1, Fits(s) DEF Fits
    <2>2. CASE k > x
      <3>1. (k - x) \in 1..y /\ w[k] = t[k - x]
        BY ONLY <1>6, <2>2, x \in Nat, y \in Nat, k \in 1..(x + y)
      <3> QED  BY ONLY <1>3, <3>1, Fits(t) DEF Fits
    <2> QED  BY ONLY <2>1, <2>2, x \in Nat, y \in Nat, k \in 1..(x + y)
  <1> QED  BY ONLY <1>5, <1>6, <1>7 DEF Fits

\* A header fits, and so does nothing.
LEMMA HeaderFits == ASSUME IInv PROVE Fits(<<Header>>) /\ Fits(<<>>)
  <1>1. param.buff \in Nat /\ Len(<<>>) = 0 /\ <<>> # Torn
    BY JobsAssumption DEF IInv, Torn
  <1>2. Len(<<Header>>) = 1 /\ <<Header>>[1] = <<>>
    BY DEF Header
  <1> QED  BY <1>1, <1>2 DEF Fits

\* An archive consists of units of jobs, and so does a part of it: no block that is
\* read from it looks like one that is torn.
LEMMA NotTorn ==
    ASSUME NEW s \in Seq(Jobs \X Nat)
    PROVE  s # Torn
  <1> SUFFICES ASSUME s = Torn PROVE FALSE
    OBVIOUS
  <1>1. PICK g : g = Garbled
    OBVIOUS
  <1>2. Len(s) = 1 /\ s[1] = g
    BY <1>1 DEF Torn
  <1>3. 1 \in 1..Len(s)
    BY <1>2
  <1>4. s[1] \in Jobs \X Nat
    BY ONLY <1>3, s \in Seq(Jobs \X Nat)
  <1>5. PICK x \in Jobs, y \in Nat : g = <<x, y>>
    BY ONLY <1>2, <1>4
  <1>6. <<x, y>> # <<>>
    OBVIOUS
  <1> QED  BY ONLY <1>1, <1>5, <1>6 DEF Garbled

LEMMA ArchiveUnits ==
    ASSUME IInv, NEW j \in Jobs
    PROVE  Archived(j) \in Seq(Jobs \X Nat)
  <1>1. PICK n \in Nat : n = input[j].size /\ n = n - 0
    BY ArchivedOK
  <1>2. \A k \in 1..n : <<j, 0 + k>> \in Jobs \X Nat
    BY <1>1
  <1>3. Archived(j) = [k \in 1..n |-> <<j, 0 + k>>]
    BY ONLY <1>1 DEF Archived, Units
  <1> QED  BY <1>2, <1>3

LEMMA PieceUnits ==
    ASSUME IInv, NEW j \in Jobs, NEW n \in Nat \ {0}, n = job[j].n, NEW i \in 0..(n - 1)
    PROVE  Piece(j, i) \in Seq(Jobs \X Nat)
  <1>1. PICK a \in Seq(Jobs \X Nat), size \in Nat :
            a = Archived(j) /\ size = input[j].size /\ Len(a) = size
    BY ArchivedOK, ArchiveUnits
  <1>2. PICK lo, hi \in Nat : /\ lo = PieceStart(size, n, i) /\ hi = PieceStart(size, n, i + 1)
                              /\ lo <= hi /\ hi <= size
    <2>1. /\ PieceStart(size, n, i) \in Nat /\ PieceStart(size, n, i + 1) \in Nat
          /\ PieceStart(size, n, i) <= PieceStart(size, n, i + 1)
          /\ PieceStart(size, n, i + 1) <= size
      BY ONLY size \in Nat, n \in Nat \ {0}, i \in 0..(n - 1), PieceStarts
    <2> QED  BY ONLY <2>1
  <1>3. SubSeq(a, lo + 1, hi) \in Seq(Jobs \X Nat)
    BY ONLY <1>1, <1>2, a \in Seq(Jobs \X Nat), lo \in Nat, hi \in Nat, size \in Nat
  <1> QED  BY <1>1, <1>2, <1>3 DEF Piece

\* ArchiveInputs, which does not fail.
LEMMA ArchiveCalm ==
    ASSUME Undisturbed, IInv, FInv, NEW j \in Jobs, Calm(j), ArchiveInputs(j)
    PROVE  Calm(j)'
  <1>1. PICK t, name :
            /\ t \in Now(Main(j))
            /\ name = TmpName("compress_tmp", t, -1)
            /\ ticks' = ticks \cup {<<Main(j), t>>}
            /\ files' = Written(name, Archived(j))
            /\ job' = [job EXCEPT ![j].pc = "prepare", ![j].arch = name,
                                  ![j].err = "none", ![j].made = Archived(j)]
    BY DEF ArchiveInputs, Undisturbed, MayResize
  <1>2. UNCHANGED <<param, input, comp>> /\ Archived(j)' = Archived(j)
    BY DEF ArchiveInputs, Archived, Units
  <1>3. DOMAIN job = Jobs /\ DOMAIN job[j] = JobFields
    BY JobKnown
  <1>4. job'[j].pc = "prepare" /\ job'[j].arch = name /\ job'[j].made = Archived(j)
    BY <1>1, <1>3 DEF JobFields
  <1>5. name # OutPath(j)
    BY <1>1, NameOfJob DEF Main, Temporary
  <1>6. name \in DOMAIN files' /\ SameFile(OutPath(j))
    <2>1. name \in DOMAIN files' /\ \A f : f # name => SameFile(f)
      <3>1. PICK content : files' = Written(name, content)
        BY <1>1
      <3> QED  BY ONLY <3>1, WriteKeeps
    <2> QED  BY <1>5, <2>1
  <1>7. "prepare" \notin Cutting /\ "prepare" \notin Busy /\ "prepare" \notin Ended
    BY DEF Cutting, Busy, Ended
  <1>8. CalmArchive(j)'
    BY ONLY <1>2, <1>4, <1>6 DEF CalmArchive, Exists
  <1>9. CalmOutput(j)'
    BY <1>2, <1>4, <1>6, <1>7, CalmOutputStays DEF Calm
  <1> QED  BY <1>4, <1>7, <1>8, <1>9 DEF Calm, CalmPieces, CalmThread, Cutting, Busy

\* RemoveArchive.
LEMMA RemoveCalm ==
    ASSUME IInv, FInv, NEW j \in Jobs, Calm(j), RemoveArchive(j)
    PROVE  Calm(j)'
  <1>1. UNCHANGED <<param, input>> /\ job[j].pc = "remove" /\ files' = Without({job[j].arch})
    BY DEF RemoveArchive, At
  <1>2. DOMAIN job = Jobs /\ DOMAIN job[j] = JobFields /\ Stage(j)
    BY JobKnown
  <1>3. job'[j].pc = "notify" /\ job'[j].err = job[j].err /\ job'[j].made = job[j].made
    BY <1>2 DEF RemoveArchive, Goto, JobFields
  <1>4. OutPath(j) # job[j].arch
    BY <1>1, <1>2 DEF Stage, HasArchive, OutPath
  <1>5. SameFile(OutPath(j))
    BY <1>1, <1>4, RemoveKeeps
  <1>6. /\ "notify" \notin Cutting /\ "notify" \notin Busy /\ "notify" \notin HasArchive
        /\ "remove" \in Ended
    BY DEF Cutting, Busy, Ended, HasArchive
  <1>7. CalmArchive(j)'
    BY <1>3, <1>6 DEF CalmArchive, Calm, HasArchive
  <1>8. CalmOutput(j)'
    BY <1>1, <1>3, <1>5, <1>6, CalmOutputStays DEF Calm
  <1> QED  BY <1>3, <1>6, <1>7, <1>8 DEF Calm, CalmPieces, CalmThread, Cutting, Busy

\* CleanUp: what it removes has been combined.
LEMMA CleanUpCalm ==
    ASSUME IInv, FInv, NEW j \in Jobs, Calm(j), CleanUp(j)
    PROVE  Calm(j)'
  <1>1. PICK gone :
            /\ gone = ToSet(job[j].pieces) \cup {comp[j][i].dst : i \in DOMAIN comp[j]}
            /\ UNCHANGED <<param, input, comp>> /\ job[j].pc = "clean"
            /\ files' = Without(gone)
    BY DEF CleanUp, At
  <1>2. DOMAIN job = Jobs /\ DOMAIN job[j] = JobFields /\ Stage(j) /\ Crew(j) /\ LocalInv(j)
        /\ NoPath \notin DOMAIN files
    BY JobKnown
  <1>3. /\ job'[j].pc = "remove" /\ job'[j].err = job[j].err /\ job'[j].made = job[j].made
        /\ job'[j].arch = job[j].arch /\ job'[j].out = job[j].out
    BY <1>2 DEF CleanUp, Goto, JobFields
  <1>4. \A g \in gone : g = NoPath \/ g.kind \in {"mt_split", "mt_result"}
    <2>1. PICK S : job[j].pieces \in Seq(S)
      BY <1>2 DEF LocalInv
    <2>2. DOMAIN job[j].pieces = 1..Len(job[j].pieces)
      BY <2>1
    <2>3. \A g \in ToSet(job[j].pieces) : g.kind = "mt_split"
      BY <1>2, <2>2 DEF Stage, ToSet
    <2>4. \A i \in DOMAIN comp[j] : comp[j][i].dst = NoPath \/ comp[j][i].dst.kind = "mt_result"
      BY <1>1, <1>2 DEF Crew, HasResults
    <2> QED  BY <1>1, <2>3, <2>4
  <1>5. OutPath(j) \notin gone /\ job[j].arch \notin gone
    <2>1. OutPath(j).kind = "out" /\ NoPath.kind = "no path" /\ job[j].arch.kind = "compress_tmp"
      BY <1>1, <1>2 DEF OutPath, NoPath, Stage, HasArchive
    <2> QED  BY <1>4, <2>1
  <1>6. SameFile(OutPath(j)) /\ SameFile(job[j].arch)
    BY <1>1, <1>5, RemoveKeeps
  <1>7. /\ "remove" \notin Cutting /\ "remove" \notin Busy /\ "clean" \in HasArchive
        /\ "clean" \in Ended /\ "clean" # "prepare" /\ "remove" # "combine"
    BY DEF Cutting, Busy, Ended, HasArchive
  <1>8. CalmArchive(j)'
    <2>1. CalmArchive(j) /\ job'[j].out = OutPath(j)
      BY <1>1, <1>3, <1>7 DEF CalmArchive, Calm
    <2> QED  BY <1>1, <1>3, <1>6, <1>7, <2>1, CalmArchiveStays
  <1>9. CalmOutput(j)'
    BY <1>1, <1>3, <1>6, <1>7, CalmOutputStays DEF Calm
  <1> QED  BY <1>3, <1>7, <1>8, <1>9 DEF Calm, CalmPieces, CalmThread, Cutting, Busy

\* A step of a job that only writes its output, before or while it combines.
LEMMA CombineCalm ==
    ASSUME IInv, FInv, NEW j \in Jobs, Calm(j), UNCHANGED <<param, input, comp>>,
           ticks \subseteq ticks', job[j].pc \in {"join", "combine"}, job'[j].pc = "combine",
           job'[j].arch = job[j].arch, job'[j].pieces = job[j].pieces,
           job'[j].out = job[j].out, job'[j].n = job[j].n, job'[j].made = job[j].made,
           NEW content, files' = Written(OutPath(j), content),
           CalmOutput(j)'
    PROVE  Calm(j)'
  <1>1. /\ Stage(j) /\ Crew(j) /\ NoPath \notin DOMAIN files /\ CalmArchive(j) /\ CalmPieces(j)
        /\ JobInv(j) /\ \A i \in DOMAIN comp[j] : CalmThread(j, i)
    BY JobKnown DEF Calm
  <1>2. \A f : f.kind # "out" => SameFile(f)
    <2>1. OutPath(j).kind = "out"
      BY DEF OutPath
    <2>2. \A f : f # OutPath(j) => SameFile(f)
      BY WriteKeeps
    <2> QED  BY <2>1, <2>2
  <1>3. /\ job[j].pc \in HasArchive \ {"prepare"} /\ job[j].pc \in Cutting /\ job[j].pc \in Busy
    BY DEF HasArchive, Cutting, Busy
  <1>4. CalmArchive(j)'
    <2>1. SameFile(job[j].arch) /\ job[j].out = OutPath(j)
      BY <1>1, <1>2, <1>3 DEF Stage, CalmArchive
    <2> QED  BY <1>1, <1>3, <2>1, CalmArchiveStays
  <1>5. CalmPieces(j)'
    <2>1. \A i \in 1..Len(job[j].pieces) : SameFile(job[j].pieces[i])
      BY <1>1, <1>2 DEF Stage
    <2> QED  BY <1>1, <1>3, <2>1, CalmPiecesStay
  <1>6. ASSUME NEW i \in DOMAIN comp'[j]
        PROVE  CalmThread(j, i)'
    <2>1. comp[j][i].dst = NoPath \/ SameFile(comp[j][i].dst)
      BY <1>1, <1>2 DEF Crew, HasResults
    <2> QED  BY <1>1, <1>3, <2>1, CalmThreadStays
  <1> QED  BY <1>4, <1>5, <1>6 DEF Calm

\* OpenCombined: all threads have closed, each with the whole of its piece.
LEMMA OpenCombinedCalm ==
    ASSUME Undisturbed, IInv, FInv, NEW j \in Jobs, Calm(j), OpenCombined(j)
    PROVE  Calm(j)'
  <1>1. UNCHANGED <<param, ticks, input, comp>> /\ job[j].pc = "join"
    BY DEF OpenCombined, At
  <1>2. /\ DOMAIN job = Jobs /\ DOMAIN job[j] = JobFields /\ Stage(j) /\ LocalInv(j)
        /\ CalmArchive(j) /\ CalmOutput(j)
    BY JobKnown DEF Calm
  <1>3. job[j].out = OutPath(j) /\ job[j].joined = 0 /\ OutPath(j) # NoPath
    BY <1>1, <1>2 DEF CalmArchive, CalmOutput, HasArchive, OutPath, NoPath
  <1>4. files' = Written(OutPath(j), Opened(j)) /\ Goto(j, "combine")
    BY <1>3 DEF OpenCombined, Undisturbed
  <1>5. /\ job'[j].pc = "combine" /\ job'[j].arch = job[j].arch /\ job'[j].pieces = job[j].pieces
        /\ job'[j].out = job[j].out /\ job'[j].n = job[j].n /\ job'[j].made = job[j].made
        /\ job'[j].joined = 0
    BY <1>2, <1>3, <1>4 DEF Goto, JobFields
  <1>6. OutPath(j) \in DOMAIN files' /\ (Own(j) => files'[OutPath(j)] = <<Header>>)
    BY <1>4, WriteKeeps, OpenedOK
  <1>7. FlattenSeq(<<Header>>) = <<>> /\ Len(<<Header>>) = 1 /\ <<Header>>[1] = <<>>
    <2>1. <<>> \in Seq(Unit) /\ Header = <<>>
      BY DEF Header
    <2> QED  BY <2>1, FlattenShort
  <1>8. input[j].size \in Nat /\ Archived(j) \in Seq(Unit) /\ Len(Archived(j)) = input[j].size
    BY ArchivedOK
  <1>9. job[j].n \in Nat \ {0}
    BY <1>1, <1>2 DEF Stage, LocalInv
  <1>10. PieceStart(input[j].size, job[j].n, 0) = 0
    <2>1. 0 \in 0..(job[j].n - 1)
      BY <1>9
    <2> QED  BY ONLY <1>8, <1>9, <2>1, PieceStarts
  <1>11. PICK a \in Seq(Unit) : a = Archived(j)
    BY <1>8
  <1>12. SubSeq(a, 1, 0) = <<>> /\ IsPrefix(<<>>, a)
    <2>1. 0 \in 0..Len(a) /\ SubSeq(a, 1, 0) = <<>>
      OBVIOUS
    <2> QED  BY <2>1, PrefixOf
  <1>13. Fits(<<Header>>)'
    <2> QED  BY <1>1, HeaderFits DEF Fits, Header, Torn, Garbled
  <1>14. CalmOutput(j)'
    <2>1. PICK f : f = OutPath(j) /\ f = OutPath(j)'
      BY <1>1, SameOwn
    <2>2. a = Archived(j)' /\ Header' = Header
      BY <1>1, <1>11 DEF Archived, Units, Header
    <2>3. PICK h : h = <<Header>> /\ h = <<Header>>'
      BY <2>2
    <2>4. (Own(j)' => files'[f] = h) /\ FlattenSeq(h) = <<>> /\ Fits(h)'
      BY <1>1, <1>6, <1>7, <1>13, <2>1, <2>3, SameOwn
    <2>5. PICK n, size : n = job'[j].n /\ size = input'[j].size /\ PieceStart(size, n, 0) = 0
      BY <1>1, <1>5, <1>10
    <2> QED  BY ONLY <1>5, <1>12, <2>1, <2>2, <2>4, <2>5 DEF CalmOutput, Ended, PieceStart
  <1> QED  BY <1>1, <1>4, <1>5, <1>14, CombineCalm

\* The result of the next thread is the next part of the archive.
LEMMA AppendCalm ==
    ASSUME Undisturbed, IInv, FInv, NEW j \in Jobs, Calm(j), AppendResult(j)
    PROVE  Calm(j)'
  <1> DEFINE c == comp[j][job[j].joined]
             size == input[j].size
  <1>1. /\ UNCHANGED <<param, ticks, input, comp>> /\ job[j].pc = "combine"
        /\ job[j].joined < job[j].n
        /\ files' = Written(job[j].out, Content(job[j].out) \o Content(c.dst))
        /\ job' = [job EXCEPT ![j].joined = @ + 1]
    BY DEF AppendResult, At, Undisturbed
  <1>2. /\ DOMAIN job = Jobs /\ DOMAIN job[j] = JobFields /\ Stage(j) /\ Crew(j) /\ LocalInv(j)
        /\ Whole(j) /\ (\A i \in DOMAIN comp[j] : Progress(j, i))
        /\ CalmArchive(j) /\ CalmOutput(j) /\ CalmPieces(j)
        /\ \A i \in DOMAIN comp[j] : CalmThread(j, i)
    BY JobKnown DEF Calm
  <1>3. /\ job'[j].pc = "combine" /\ job'[j].arch = job[j].arch /\ job'[j].pieces = job[j].pieces
        /\ job'[j].out = job[j].out /\ job'[j].n = job[j].n /\ job'[j].made = job[j].made
        /\ job'[j].joined = job[j].joined + 1
    BY <1>1, <1>2 DEF JobFields
  <1>4. job[j].out = OutPath(j) /\ (Own(j) => OutPath(j) \in DOMAIN files)
    BY <1>1, <1>2 DEF LocalInv, CalmArchive, HasArchive, Whole, Exists
  <1>a. Mine(j)
    BY <1>1 DEF Mine
  <1>5. PICK n, m \in Nat : n = job[j].n /\ m = job[j].joined /\ m < n /\ m \in 0..(n - 1)
                            /\ n \in Nat \ {0} /\ Len(job[j].pieces) = n
    BY <1>1, <1>2 DEF LocalInv, Stage
  <1>6. m \in DOMAIN comp[j] /\ comp[j][m].st = "closed" /\ comp[j][m].src = job[j].pieces[m + 1]
        /\ (comp[j][m].dst = NoPath \/ comp[j][m].dst.kind = "mt_result")
    BY <1>1, <1>2, <1>5 DEF Crew, HasResults
  <1>7. comp[j][m].err = "none" /\ comp[j][m].dst \in DOMAIN files /\ Fits(files[comp[j][m].dst])
    BY <1>1, <1>2, <1>6, <1>a DEF CalmThread, Busy, Exists
  <1>8. FlattenSeq(files[comp[j][m].dst]) = files[comp[j][m].src]
    <2>1. ~comp[j][m].bad
      BY <1>1, <1>2, <1>6 DEF CalmThread, Busy
    <2> QED  BY <1>1, <1>2, <1>6, <1>7, <1>a, <2>1 DEF Progress
  <1>9. files[comp[j][m].src] = Piece(j, m)
    <2>1. m + 1 \in 1..n /\ (m + 1) - 1 = m
      BY <1>5
    <2> QED  BY <1>1, <1>2, <1>5, <1>6, <2>1 DEF CalmPieces, Cutting
  <1>10. PICK old, more \in Seq(Seq(Unit)) :
            old = Content(OutPath(j)) /\ more = files[comp[j][m].dst]
    <2>1. Content(OutPath(j)) \in Seq(Seq(Unit))
      <3>1. OutPath(j).kind = "out"
        BY DEF OutPath
      <3> QED  BY <3>1, ContentBlocks
    <2>2. files[comp[j][m].dst] \in Seq(Seq(Unit))
      <3>1. comp[j][m].dst.kind = "mt_result"
        BY <1>2, <1>6, <1>7, JobKnown
      <3> QED  BY <1>7, <3>1 DEF FInv, ContentOK
    <2> QED  BY <2>1, <2>2
  <1>11. files' = Written(OutPath(j), old \o more)
    <2>1. Content(comp[j][m].dst) = more
      BY <1>7, <1>10 DEF Content, Exists
    <2> QED  BY <1>1, <1>4, <1>5, <1>10, <2>1
  <1>b. Own(j) => old = files[OutPath(j)]
    BY <1>4, <1>10 DEF Content, Exists
  <1>12. size \in Nat /\ Archived(j) \in Seq(Unit) /\ Len(Archived(j)) = size
    BY ArchivedOK
  <1>13. PICK a \in Seq(Unit) : a = Archived(j) /\ Len(a) = size
    BY <1>12
  <1>14. PICK lo, hi \in Nat : /\ lo = PieceStart(size, n, m) /\ hi = PieceStart(size, n, m + 1)
                               /\ lo <= hi /\ hi <= size
    <2> HIDE DEF size
    <2>1. /\ PieceStart(size, n, m) \in Nat /\ PieceStart(size, n, m + 1) \in Nat
          /\ PieceStart(size, n, m) <= PieceStart(size, n, m + 1)
          /\ PieceStart(size, n, m + 1) <= size
      BY ONLY <1>5, <1>12, PieceStarts
    <2> QED  BY ONLY <2>1
  <1>15. /\ Own(j) => FlattenSeq(old) = SubSeq(a, 1, lo)
         /\ FlattenSeq(more) = SubSeq(a, lo + 1, hi)
    BY <1>1, <1>2, <1>5, <1>8, <1>9, <1>10, <1>b, <1>13, <1>14 DEF CalmOutput, Piece
  <1>16. Own(j) => FlattenSeq(old \o more) = SubSeq(a, 1, hi)
    <2>1. 1 \in 1..Len(a) + 1 /\ lo \in (1 - 1)..Len(a) /\ hi \in lo..Len(a)
      BY ONLY <1>12, <1>13, <1>14, lo \in Nat, hi \in Nat
    <2>2. SubSeq(a, 1, lo) \o SubSeq(a, lo + 1, hi) = SubSeq(a, 1, hi)
      BY ONLY <2>1, a \in Seq(Unit), ConcatAdjacentSubSeq, Zenon
    <2>3. FlattenSeq(old \o more) = FlattenSeq(old) \o FlattenSeq(more)
      BY ONLY FlattenConcat, old \in Seq(Seq(Unit)), more \in Seq(Seq(Unit))
    <2> QED  BY ONLY <1>15, <2>2, <2>3
  <1>17. IsPrefix(SubSeq(a, 1, hi), a)
    <2>1. hi \in 0..Len(a)
      BY ONLY <1>12, <1>13, <1>14, hi \in Nat
    <2> QED  BY <2>1, PrefixOf
  <1>18. ASSUME Own(j) PROVE Fits(old \o more)
    <2>1. Fits(old)
      BY <1>2, <1>4, <1>b, <1>18 DEF CalmOutput, Exists
    <2>2. Fits(more)
      BY <1>7, <1>10
    <2> QED  BY <2>1, <2>2, FitsConcat
  <1>19. CalmOutput(j)'
    <2>1. PICK f, new : f = OutPath(j) /\ f = OutPath(j)' /\ new = old \o more
      BY <1>1, SameOwn
    <2>2. a = Archived(j)'
      BY <1>1, <1>13 DEF Archived, Units
    <2>0. Own(j)' <=> Own(j)
      BY <1>1, SameOwn
    <2>3. /\ files'[f] = new
          /\ Own(j)' => FlattenSeq(new) = SubSeq(a, 1, hi) /\ IsPrefix(FlattenSeq(new), a)
      BY <1>11, <1>16, <1>17, <2>0, <2>1, WriteKeeps
    <2>4. Own(j)' => Fits(new)'
      BY <1>1, <1>18, <2>0, <2>1 DEF Fits, Torn, Garbled
    <2>5. hi = PieceStart(size, n, m + 1) /\ n = job'[j].n /\ m + 1 = job'[j].joined
          /\ size = input'[j].size
      BY <1>1, <1>3, <1>5, <1>14
    <2> HIDE DEF size, c
    <2> QED  BY ONLY <1>3, <2>1, <2>2, <2>3, <2>4, <2>5 DEF CalmOutput, Ended, PieceStart
  <1>20. job[j].pc \in {"join", "combine"} /\ ticks \subseteq ticks'
    BY <1>1
  <1> HIDE DEF size, c
  <1> QED  BY <1>1, <1>3, <1>11, <1>19, <1>20, CombineCalm

\* The next piece gets its part of the archive, and a name of its own.
LEMMA CutCalm ==
    ASSUME Undisturbed, IInv, FInv, ClockInv, NEW j \in Jobs, Calm(j), CutPiece(j)
    PROVE  Calm(j)'
  <1> DEFINE n == job[j].n
             size == input[j].size
  <1>1. PICK t, name, content :
            /\ t \in Now(Main(j))
            /\ name = TmpName("mt_split", t, -1)
            /\ ticks' = ticks \cup {<<Main(j), t>>}
            /\ content = SubSeq(files[job[j].arch],
                          PieceStart(Len(files[job[j].arch]), job[j].n, Len(job[j].pieces)) + 1,
                          PieceStart(Len(files[job[j].arch]), job[j].n, Len(job[j].pieces) + 1))
            /\ files' = Written(name, content)
            /\ job' = [job EXCEPT ![j].pieces = Append(@, name)]
    BY DEF CutPiece, Undisturbed
  <1>2. UNCHANGED <<param, input, comp>> /\ job[j].pc = "cut"
    BY DEF CutPiece, At
  <1>3. /\ DOMAIN job = Jobs /\ DOMAIN job[j] = JobFields /\ Stage(j) /\ Crew(j) /\ LocalInv(j)
        /\ Whole(j) /\ CalmArchive(j) /\ CalmPieces(j) /\ CalmOutput(j)
    BY JobKnown DEF Calm
  <1>4. /\ job'[j].pc = "cut" /\ job'[j].arch = job[j].arch
        /\ job'[j].pieces = Append(job[j].pieces, name)
        /\ job'[j].n = job[j].n /\ job'[j].made = job[j].made /\ job'[j].out = job[j].out
        /\ job'[j].joined = job[j].joined
    BY <1>1, <1>2, <1>3 DEF JobFields
  <1>5. name.kind = "mt_split" /\ name # OutPath(j) /\ name.time = t
    BY <1>1, NameOfJob DEF Main, Temporary
  <1>6. /\ \A f : f # name => SameFile(f)
        /\ name \in DOMAIN files' /\ files'[name] = content
    <2>1. files' = Written(name, content)
      BY <1>1
    <2> QED  BY ONLY <2>1, WriteKeeps
  <1>7. "cut" \in HasArchive /\ "cut" # "prepare" /\ "cut" \in Cutting /\ "cut" \notin Ended
        /\ "cut" \notin Busy
    BY DEF HasArchive, Cutting, Ended, Busy
  <1>8. /\ job[j].arch \in DOMAIN files /\ files[job[j].arch] = Archived(j)
        /\ job[j].out = OutPath(j) /\ job[j].arch.kind = "compress_tmp" /\ job[j].joined = 0
    BY <1>2, <1>3, <1>7 DEF CalmArchive, Whole, Exists, Stage, CalmOutput
  <1>9. PICK L, old : L \in Nat /\ old = job[j].pieces /\ L = Len(old)
            /\ Len(Append(old, name)) = L + 1 /\ Append(old, name)[L + 1] = name
            /\ \A i \in 1..L : Append(old, name)[i] = old[i]
    <2>1. PICK S : job[j].pieces \in Seq(S)
      BY <1>3 DEF LocalInv
    <2>2. PICK old \in Seq(S \cup {name}) : old = job[j].pieces
      BY <2>1
    <2>3. Len(old) \in Nat /\ Len(Append(old, name)) = Len(old) + 1
          /\ Append(old, name)[Len(old) + 1] = name
          /\ \A i \in 1..Len(old) : Append(old, name)[i] = old[i]
      BY ONLY old \in Seq(S \cup {name})
    <2> QED  BY <2>2, <2>3
  <1>10. content = Piece(j, L)
    <2>1. Len(Archived(j)) = size
      BY ArchivedOK
    <2>2. content = SubSeq(Archived(j), PieceStart(Len(Archived(j)), n, L) + 1,
                           PieceStart(Len(Archived(j)), n, L + 1))
      BY ONLY <1>1, <1>8, <1>9
    <2> QED  BY ONLY <2>1, <2>2 DEF Piece
  <1>11. \A f : TimesOf(f) \subseteq TimesOf(f)'
    BY <1>1, TimesKept
  <1>12. t \notin TimesOf(Main(j)) /\ t \in TimesOf(Main(j))'
    <2>1. t \notin TimesOf(Main(j))
      BY <1>1, NewTime
    <2>2. <<Main(j), t>> \in ticks'
      BY <1>1
    <2>3. <<Main(j), t>>[1] = Main(j) /\ <<Main(j), t>>[2] = t
      OBVIOUS
    <2>4. Main(j)' = Main(j)
      BY DEF Main
    <2>5. \A p \in ticks' : p[1] = Main(j) => p[2] \in TimesOf(Main(j))'
      BY ONLY <2>4 DEF TimesOf
    <2> QED  BY ONLY <2>1, <2>2, <2>3, <2>5
  <1>13. CalmPieces(j)'
    <2> SUFFICES ASSUME NEW i \in 1..(L + 1)
                 PROVE  /\ Append(old, name)[i].time \in TimesOf(Main(j))'
                        /\ Append(old, name)[i] \in DOMAIN files'
                        /\ files'[Append(old, name)[i]] = Piece(j, i - 1)'
      BY <1>4, <1>9 DEF CalmPieces, Exists
    <2>1. \A k : Piece(j, k)' = Piece(j, k)
      BY <1>2, <1>4 DEF Piece, Archived, Units, PieceStart
    <2>2. CASE i = L + 1
      <3>1. i - 1 = L
        BY <1>9, <2>2
      <3> QED  BY <1>5, <1>6, <1>9, <1>10, <1>12, <2>1, <2>2, <3>1
    <2>3. CASE i # L + 1
      <3>1. i \in 1..L
        BY <1>9, <2>3
      <3>2. PICK p : p = old[i] /\ p = Append(old, name)[i]
        BY <1>9, <3>1
      <3>3. /\ p.time \in TimesOf(Main(j)) /\ p \in DOMAIN files
            /\ files[p] = Piece(j, i - 1)
        BY <1>2, <1>3, <1>7, <1>9, <3>1, <3>2 DEF CalmPieces, Exists
      <3>4. p # name
        BY <1>5, <1>12, <3>3
      <3>5. p \in DOMAIN files' /\ files'[p] = files[p]
        BY <1>6, <3>3, <3>4 DEF SameFile
      <3>6. p.time \in TimesOf(Main(j))'
        <4>1. Main(j)' = Main(j)
          BY DEF Main
        <4> QED  BY <1>11, <3>3, <4>1 DEF TimesOf
      <3> QED  BY ONLY <2>1, <3>2, <3>3, <3>5, <3>6
    <2> QED  BY <2>2, <2>3
  <1>14. SameFile(job[j].arch) /\ SameFile(OutPath(j))
    BY <1>5, <1>6, <1>8
  <1>15. CalmArchive(j)'
    BY <1>2, <1>3, <1>4, <1>7, <1>8, <1>14, CalmArchiveStays
  <1>16. CalmOutput(j)'
    BY <1>2, <1>3, <1>4, <1>7, <1>8, <1>14, CalmOutputStays
  <1>17. DOMAIN comp'[j] = {}
    BY <1>2, <1>3 DEF Crew
  <1> QED  BY <1>13, <1>15, <1>16, <1>17 DEF Calm

-------------------------------------------------------------------------------
(* Calm steps of a thread *)

\* What a step of a thread has to preserve.
LEMMA ThreadStepCalm ==
    ASSUME IInv, FInv, FInv', NEW j \in Jobs, Calm(j), NEW i \in DOMAIN comp[j],
           comp[j][i].st # "closed",
           UNCHANGED <<param, input, job>>, ticks \subseteq ticks',
           DOMAIN comp'[j] = DOMAIN comp[j],
           \A k \in DOMAIN comp[j] \ {i} : comp'[j][k] = comp[j][k],
           NEW d, d = comp'[j][i], d.src = comp[j][i].src, d.err = "none",
           d.st \in {"loop", "closed"}, d.buff <= param.buff, ~d.bad,
           Mine(j) => d.dst \in DOMAIN files' /\ Fits(files'[d.dst]),
           job[j].pc = "single" => d.dst = OutPath(j),
           job[j].pc = "join" => d.dst.kind = "mt_result" /\ d.dst.seq = i,
           \A f : f # d.dst => SameFile(f)
    PROVE  Calm(j)'
  <1>1. /\ Stage(j) /\ Crew(j) /\ Whole(j) /\ NoPath \notin DOMAIN files
        /\ CalmArchive(j) /\ CalmPieces(j) /\ CalmOutput(j)
        /\ \A k \in DOMAIN comp[j] : CalmThread(j, k)
    BY JobKnown DEF Calm
  <1>2. /\ job[j].pc \in {"single", "join"}
        /\ job[j].pc = "single" => i = 0 /\ DOMAIN comp[j] = {0}
        /\ comp[j][i].src.kind \in {"compress_tmp", "mt_split"}
    BY ThreadKnown
  <1>3. /\ job[j].pc \in HasArchive \ {"prepare"} /\ job[j].pc \in Busy /\ job[j].pc \notin Ended
        /\ job[j].pc # "combine"
    BY <1>2 DEF HasArchive, Busy, Ended
  <1>4. d.dst.kind \in {"out", "mt_result"}
    BY <1>2 DEF OutPath
  <1>5. \A f : f.kind \in {"compress_tmp", "mt_split"} => SameFile(f)
    BY <1>4
  <1>6. CalmArchive(j)'
    <2>1. SameFile(job[j].arch) /\ job[j].out = OutPath(j)
      BY <1>1, <1>3, <1>5 DEF Stage, CalmArchive
    <2> QED  BY <1>1, <1>3, <2>1, CalmArchiveStays
  <1>7. CalmPieces(j)'
    <2>1. \A k \in 1..Len(job[j].pieces) : SameFile(job[j].pieces[k])
      BY <1>1, <1>5 DEF Stage
    <2> QED  BY <1>1, <2>1, CalmPiecesStay
  <1>8. ASSUME NEW k \in DOMAIN comp'[j]
        PROVE  CalmThread(j, k)'
    <2>1. CASE k = i
      <3>0. Mine(j)' <=> Mine(j)
        BY SameOwn DEF Mine
      <3>1. Mine(j) => Fits(files[d.dst])'
        BY DEF Fits, Torn, Garbled
      <3>2. /\ d.err = "none" /\ ~d.bad /\ d.buff <= param.buff /\ param' = param
            /\ d = comp'[j][k]
            /\ Mine(j)' => d.dst \in DOMAIN files' /\ Fits(files[d.dst])'
        BY <2>1, <3>0, <3>1
      <3> QED  BY ONLY <3>2 DEF CalmThread, Exists
    <2>2. CASE k # i
      <3>1. k \in DOMAIN comp[j] \ {i} /\ job[j].pc = "join"
        BY <1>2, <2>2
      <3>2. comp[j][k].dst = NoPath \/ comp[j][k].dst.seq = k
        BY <1>1, <3>1 DEF Crew, HasResults
      <3>3. comp[j][k].dst = NoPath \/ SameFile(comp[j][k].dst)
        BY <2>2, <3>1, <3>2
      <3> QED  BY <1>1, <1>3, <3>1, <3>3, CalmThreadStays
    <2> QED  BY <2>1, <2>2
  <1>9. CalmOutput(j)'
    <2>1. CASE job[j].pc = "join"
      <3>1. d.dst # OutPath(j)
        BY <2>1 DEF OutPath
      <3>2. SameFile(OutPath(j)) /\ (job[j].pc \in {"cut", "join"} => job[j].joined = 0)
        BY <1>1, <3>1 DEF CalmOutput
      <3> QED  BY <1>1, <1>3, <3>2, CalmOutputStays
    <2>2. CASE job[j].pc = "single" /\ Own(j)
      <3>0. Mine(j) /\ Mine(j)' /\ OutPath(j)' = OutPath(j)
        BY <2>2, SameOwn DEF Mine
      <3>1. PICK f : f = OutPath(j) /\ f = OutPath(j)' /\ f = d.dst
        BY <2>2, <3>0
      <3>2. Archived(j) \in Seq(Unit)
        BY ArchivedOK
      <3>3. PICK a \in Seq(Unit) : a = Archived(j) /\ a = Archived(j)'
        BY <3>2 DEF Archived, Units
      <3>4. files'[d.src] = a
        <4>1. d.src = job[j].arch /\ job[j].arch \in DOMAIN files /\ files[job[j].arch] = Archived(j)
          BY <1>1, <1>2, <1>3, <2>2 DEF Crew, CalmArchive, Whole, Exists
        <4>2. SameFile(d.src)
          BY <1>2, <1>5
        <4> QED  BY <3>3, <4>1, <4>2 DEF SameFile
      <3>5. Progress(j, i)'
        BY DEF FInv, JobFiles
      <3>6. \/ FlattenSeq(files'[f]) = a
            \/ \E p \in 0..Len(a) : FlattenSeq(files'[f]) = SubSeq(a, 1, p)
        BY <1>2, <2>2, <3>0, <3>1, <3>4, <3>5 DEF Progress
      <3>7. a = SubSeq(a, 1, Len(a)) /\ Len(a) \in 0..Len(a)
        OBVIOUS
      <3>8. \A p \in 0..Len(a) : IsPrefix(SubSeq(a, 1, p), a)
        BY PrefixOf
      <3>9. IsPrefix(FlattenSeq(files'[f]), a)
        BY ONLY <3>6, <3>7, <3>8
      <3>10. Fits(files[f])'
        BY <3>0, <3>1 DEF Fits, Torn, Garbled
      <3>11. job'[j].pc = "single" /\ "single" \notin Ended
        BY <2>2 DEF Ended
      <3> QED  BY ONLY <3>1, <3>3, <3>9, <3>10, <3>11 DEF CalmOutput, Exists, Ended
    <2>3. CASE job[j].pc = "single" /\ ~Own(j)
      <3>1. job'[j].pc \notin {"cut", "join", "combine"} /\ ~Own(j)'
        BY <2>3, SameOwn
      <3> QED  BY ONLY <3>1 DEF CalmOutput
    <2> QED  BY <1>2, <2>1, <2>2, <2>3
  <1> QED  BY <1>6, <1>7, <1>8, <1>9 DEF Calm

\* Open: a new result, or the output with its header.
LEMMA OpenCalm ==
    ASSUME Undisturbed, IInv, FInv, FInv', NEW j \in Jobs, Calm(j), NEW i \in DOMAIN comp[j],
           Open(j, i)
    PROVE  Calm(j)'
  <1> DEFINE c == comp[j][i]
  <1>1. c.st = "open" /\ UNCHANGED <<param, input, job>>
    BY DEF Open
  <1>2. /\ job[j].pc \in {"single", "join"}
        /\ job[j].pc = "single" => i = 0 /\ DOMAIN comp[j] = {0}
        /\ DOMAIN c = ThreadFields /\ ThreadInv(j, i)
    BY <1>1, ThreadKnown
  <1>3. /\ DOMAIN comp = Jobs /\ Stage(j) /\ Crew(j) /\ CalmArchive(j) /\ CalmPieces(j)
        /\ CalmThread(j, i) /\ LocalInv(j)
    BY JobKnown DEF Calm
  <1>4. Exists(c.src)
    <2>1. CASE job[j].pc = "single"
      BY <1>2, <1>3, <2>1 DEF Crew, CalmArchive, HasArchive
    <2>2. CASE job[j].pc = "join"
      <3>1. i \in 0..(job[j].n - 1) /\ c.src = job[j].pieces[i + 1] /\ Len(job[j].pieces) = job[j].n
            /\ job[j].n \in Nat
        BY <1>3, <2>2 DEF Crew, Stage, LocalInv
      <3>2. i + 1 \in 1..Len(job[j].pieces)
        BY <3>1
      <3> QED  BY <1>3, <2>2, <3>1, <3>2 DEF CalmPieces, Cutting
    <2> QED  BY <1>2, <2>1, <2>2
  <1>5. job[j].pc = "single" => c.dst = OutPath(j)
    BY <1>2, <1>3 DEF Crew, CalmArchive, HasArchive
  <1>6. Multi(j) <=> job[j].pc = "join"
    BY DEF Multi, At
  <1>7. PICK dst :
          /\ \/ ~Multi(j) /\ dst = c.dst /\ ticks' = ticks
             \/ /\ Multi(j)
                /\ \E t \in Now(<<j, i>>) :
                      ticks' = ticks \cup {<<<<j, i>>, t>>} /\ dst = TmpName("mt_result", t, i)
          /\ \/ dst = NoPath
             \/ /\ comp' = [comp EXCEPT ![j][i].dst = dst, ![j][i].st = "loop"]
                /\ files' = Written(dst, IF Multi(j) THEN <<>> ELSE Opened(j))
    BY <1>4 DEF Open, Undisturbed
  <1>8. job[j].pc = "join" => dst.kind = "mt_result" /\ dst.seq = i
    <2>1. i \in Nat
      BY <1>2 DEF ThreadInv
    <2>2. \A t : TmpName("mt_result", t, i).kind = "mt_result" /\ TmpName("mt_result", t, i).seq = i
      BY <2>1, NamesOK DEF TmpName
    <2> QED  BY <1>6, <1>7, <2>2
  <1>9. job[j].pc = "single" => dst = OutPath(j)
    BY <1>5, <1>6, <1>7
  <1>10. dst # NoPath
    <2>1. NoPath.kind = "no path" /\ OutPath(j).kind = "out"
      BY DEF NoPath, OutPath
    <2> QED  BY <1>2, <1>8, <1>9, <2>1
  <1>11. PICK content : content = (IF Multi(j) THEN <<>> ELSE Opened(j))
                        /\ files' = Written(dst, content)
    BY <1>7, <1>10
  <1>12. Mine(j) => Fits(content)
    <2>1. CASE Multi(j)
      BY <1>11, <2>1, HeaderFits
    <2>2. CASE ~Multi(j)
      <3>1. Mine(j) => Own(j)
        BY <1>2, <1>6, <2>2 DEF Mine
      <3> QED  BY <1>11, <2>2, <3>1, OpenedOK, HeaderFits
    <2> QED  BY <2>1, <2>2
  <1>13. /\ comp'[j][i].src = c.src /\ comp'[j][i].dst = dst /\ comp'[j][i].st = "loop"
         /\ comp'[j][i].err = c.err /\ comp'[j][i].buff = c.buff /\ comp'[j][i].bad = c.bad
         /\ DOMAIN comp'[j] = DOMAIN comp[j]
         /\ \A k \in DOMAIN comp[j] \ {i} : comp'[j][k] = comp[j][k]
    <2>1. comp' = [comp EXCEPT ![j][i].dst = dst, ![j][i].st = "loop"]
      BY <1>7, <1>10
    <2> QED  BY <1>2, <1>3, <2>1 DEF ThreadFields
  <1>14. c.err = "none" /\ ~c.bad /\ c.buff <= param.buff
    BY <1>2, <1>3 DEF CalmThread, Busy
  <1>15. /\ dst \in DOMAIN files' /\ files'[dst] = content
         /\ \A f : f # dst => SameFile(f)
    <2>1. files' = Written(dst, content)
      BY <1>11
    <2>2. DOMAIN files' = DOMAIN files \cup {dst} /\ files'[dst] = content
          /\ \A f : f # dst => SameFile(f)
      BY ONLY <2>1, WriteKeeps, Zenon
    <2> QED  BY ONLY <2>2
  <1>16. PICK d : d = comp'[j][i]
    OBVIOUS
  <1>17. /\ d.src = comp[j][i].src /\ d.err = "none" /\ d.st \in {"loop", "closed"}
         /\ d.buff <= param.buff /\ ~d.bad /\ d.dst = dst /\ comp[j][i].st # "closed"
    BY <1>1, <1>13, <1>14, <1>16
  <1>18. /\ Mine(j) => d.dst \in DOMAIN files' /\ Fits(files'[d.dst])
         /\ \A f : f # d.dst => SameFile(f)
    BY <1>12, <1>15, <1>17
  <1>19. ticks \subseteq ticks'
    BY <1>7
  <1> HIDE DEF c
  <1> QED  BY <1>1, <1>8, <1>9, <1>13, <1>16, <1>17, <1>18, <1>19, ThreadStepCalm

\* What is read at a time fits into the buffer, so that zlib does not fail.
LEMMA LoopCalm ==
    ASSUME Undisturbed, IInv, FInv, FInv', NEW j \in Jobs, Calm(j), NEW i \in DOMAIN comp[j],
           CompressBlock(j, i) \/ Close(j, i)
    PROVE  Calm(j)'
  <1> DEFINE c == comp[j][i]
             next == MinOf(c.pos + c.buff, Len(files[c.src]))
             block == SubSeq(files[c.src], c.pos + 1, next)
  <1>1. c.st = "loop" /\ UNCHANGED <<param, ticks, input, job>>
    BY DEF CompressBlock, Close
  <1>2. /\ job[j].pc \in {"single", "join"}
        /\ job[j].pc = "single" => i = 0 /\ DOMAIN comp[j] = {0}
        /\ DOMAIN c = ThreadFields /\ ThreadInv(j, i) /\ Progress(j, i)
        /\ c.src.kind \in {"compress_tmp", "mt_split"} /\ c.dst # NoPath
    BY <1>1, ThreadKnown
  <1>3. /\ DOMAIN comp = Jobs /\ Crew(j) /\ CalmArchive(j) /\ CalmPieces(j) /\ CalmThread(j, i)
        /\ Stage(j) /\ LocalInv(j) /\ Whole(j)
    BY JobKnown DEF Calm
  <1>4. /\ job[j].pc = "single" => c.dst = OutPath(j)
        /\ job[j].pc = "join" => c.dst.kind = "mt_result" /\ c.dst.seq = i
    BY <1>2, <1>3 DEF Crew, CalmArchive, HasArchive, HasResults
  <1>5. /\ c.err = "none" /\ ~c.bad /\ c.buff <= param.buff
        /\ Mine(j) => c.dst \in DOMAIN files /\ Fits(files[c.dst])
    BY <1>1, <1>2, <1>3 DEF CalmThread, Busy, Exists
  <1>6. c.src \in DOMAIN files /\ c.pos \in 0..Len(files[c.src]) /\ c.buff \in Nat
    BY <1>1, <1>2 DEF Progress, Exists, ThreadInv
  <1>7. files[c.src] \in Seq(Jobs \X Nat) /\ Content(c.dst) \in Seq(Seq(Unit))
    <2>1. CASE job[j].pc = "single"
      <3>1. c.src = job[j].arch /\ files[job[j].arch] = Archived(j)
        BY <1>2, <1>3, <1>6, <2>1 DEF Crew, CalmArchive, Whole, HasArchive, Exists
      <3>2. OutPath(j).kind = "out"
        BY DEF OutPath
      <3> QED  BY <1>4, <2>1, <3>1, <3>2, ArchiveUnits, ContentBlocks
    <2>2. CASE job[j].pc = "join"
      <3>1. PICK n \in Nat : /\ n = job[j].n /\ i \in 0..(n - 1)
                             /\ c.src = job[j].pieces[i + 1] /\ Len(job[j].pieces) = n
        BY <1>3, <2>2 DEF Crew, Stage, LocalInv
      <3>2. i + 1 \in 1..n /\ (i + 1) - 1 = i /\ n \in Nat \ {0}
        BY <3>1
      <3>3. files[c.src] = Piece(j, i)
        BY <1>3, <2>2, <3>1, <3>2 DEF CalmPieces, Cutting
      <3> QED  BY <1>4, <2>2, <3>1, <3>2, <3>3, PieceUnits, ContentBlocks
    <2> QED  BY <1>2, <2>1, <2>2
  <1>8. PICK s \in Seq(Jobs \X Nat), b \in Seq(Seq(Unit)), p, w \in Nat, size \in Nat :
            s = files[c.src] /\ b = Content(c.dst) /\ p = c.pos /\ w = c.buff
            /\ size = Len(s) /\ p <= size
    <2>1. Len(files[c.src]) \in Nat
      BY ONLY <1>7
    <2>2. c.pos \in Nat /\ c.pos <= Len(files[c.src])
      BY ONLY <1>6, <2>1
    <2> QED  BY ONLY <1>6, <1>7, <2>1, <2>2
  <1>9. PICK n : n = MinOf(p + w, size) /\ n = next
    BY <1>8
  <1>10. n \in Nat /\ n <= size /\ n - p <= w /\ p <= n
    <2>1. n = MinOf(p + w, size)
      BY ONLY <1>9
    <2>2. p <= size
      BY ONLY <1>8
    <2> QED  BY ONLY <2>1, <2>2, p \in Nat, w \in Nat, size \in Nat DEF MinOf
  <1>a. p \in Nat
    OBVIOUS
  <1>11. PICK new \in Seq(Seq(Unit)) :
            new = Append(Content(c.dst), block) /\ (Mine(j) => Fits(new))
    <2>1. PICK k : k = SubSeq(s, p + 1, n) /\ k = block
      BY <1>8, <1>9
    <2>2. k \in Seq(Jobs \X Nat) /\ k \in Seq(Unit) /\ Len(k) = n - p
      <3>1. size = Len(s) /\ k = SubSeq(s, p + 1, n)
        BY ONLY <1>8, <2>1
      <3>2. k \in Seq(Jobs \X Nat) /\ Len(k) = n - p
        BY ONLY <3>1, <1>10, <1>a, s \in Seq(Jobs \X Nat), size \in Nat
      <3>3. \A e \in 1..Len(k) : k[e] \in Unit
        BY ONLY <3>2 DEF Unit
      <3> QED  BY ONLY <3>2, <3>3
    <2>3. Len(k) <= param.buff /\ k # Torn
      <3>1. param.buff \in Nat
        BY JobsAssumption DEF IInv
      <3>2. Len(k) <= param.buff
        BY ONLY <1>5, <1>8, <1>10, <1>a, <2>2, <3>1, w \in Nat
      <3> QED  BY <2>2, <3>2, NotTorn
    <2>4. PICK T : T = Seq(Unit)
      OBVIOUS
    <2>5. <<k>> \in Seq(T) /\ Append(b, k) = b \o <<k>>
      BY ONLY <2>2, <2>4, AppendOne, b \in Seq(Seq(Unit))
    <2>6. Fits(<<k>>)
      <3>1. Len(<<k>>) = 1 /\ <<k>>[1] = k
        OBVIOUS
      <3> QED  BY ONLY <2>3, <3>1 DEF Fits
    <2>7. Mine(j) => Fits(b)
      BY <1>5, <1>8 DEF Content, Exists
    <2>8. Mine(j) => Fits(b \o <<k>>)
      BY ONLY <2>4, <2>5, <2>6, <2>7, FitsConcat, b \in Seq(Seq(Unit))
    <2>9. (b \o <<k>>) \in Seq(Seq(Unit))
      BY ONLY <2>4, <2>5, ConcatProperties, b \in Seq(Seq(Unit))
    <2> HIDE DEF block, next
    <2> QED  BY ONLY <1>8, <2>1, <2>5, <2>8, <2>9
  <1>12. ~(next - c.pos > param.buff)
    <2>1. param.buff \in Nat
      BY JobsAssumption DEF IInv
    <2> HIDE DEF next
    <2> QED  BY ONLY <1>5, <1>8, <1>9, <1>10, <1>a, <2>1, w \in Nat
  <1> HIDE DEF next, block
  <1>13. \/ /\ files' = Written(c.dst, new)
            /\ comp' = [comp EXCEPT ![j][i].pos = next]
         \/ files' = files /\ comp' = [comp EXCEPT ![j][i].st = "closed"]
    <2>1. \/ /\ files' = Written(c.dst, Append(Content(c.dst), block))
             /\ comp' = [comp EXCEPT ![j][i].pos = next]
          \/ next - c.pos > param.buff
          \/ files' = files /\ comp' = [comp EXCEPT ![j][i].st = "closed"]
      BY DEF CompressBlock, Close, Undisturbed, next, block
    <2> QED  BY <1>11, <1>12, <2>1
  <1>14. PICK d : d = comp'[j][i]
    OBVIOUS
  <1>15. /\ d.src = c.src /\ d.dst = c.dst /\ d.err = c.err /\ d.buff = c.buff
         /\ d.bad = c.bad
         /\ d.st \in {"loop", "closed"}
         /\ DOMAIN comp'[j] = DOMAIN comp[j]
         /\ \A k \in DOMAIN comp[j] \ {i} : comp'[j][k] = comp[j][k]
    <2>1. CASE comp' = [comp EXCEPT ![j][i].pos = next]
      BY <1>1, <1>2, <1>3, <1>14, <2>1 DEF ThreadFields
    <2>2. CASE comp' = [comp EXCEPT ![j][i].st = "closed"]
      BY <1>2, <1>3, <1>14, <2>2 DEF ThreadFields
    <2> QED  BY <1>13, <2>1, <2>2
  <1>16. /\ Mine(j) => d.dst \in DOMAIN files' /\ Fits(files'[d.dst])
         /\ \A f : f # d.dst => SameFile(f)
    <2>1. CASE files' = files
      BY <1>5, <1>15, <2>1 DEF SameFile
    <2>2. CASE files' = Written(c.dst, new)
      <3>1. /\ c.dst \in DOMAIN files' /\ files'[c.dst] = new
            /\ \A f : f # c.dst => SameFile(f)
        <4>1. PICK f : f = c.dst
          OBVIOUS
        <4>2. files' = Written(f, new)
          BY ONLY <2>2, <4>1
        <4>3. DOMAIN files' = DOMAIN files \cup {f} /\ files'[f] = new
              /\ \A g : g # f => SameFile(g)
          BY ONLY <4>2, WriteKeeps, Zenon
        <4> QED  BY ONLY <4>1, <4>3
      <3> QED  BY <1>11, <1>15, <3>1
    <2> QED  BY <1>13, <2>1, <2>2
  <1>17. /\ d.src = comp[j][i].src /\ d.err = "none" /\ d.buff <= param.buff /\ ~d.bad
         /\ comp[j][i].st # "closed" /\ ticks \subseteq ticks'
         /\ job[j].pc = "single" => d.dst = OutPath(j)
         /\ job[j].pc = "join" => d.dst.kind = "mt_result" /\ d.dst.seq = i
    BY <1>1, <1>4, <1>5, <1>15
  <1> HIDE DEF c
  <1> QED  BY <1>1, <1>14, <1>15, <1>16, <1>17, ThreadStepCalm

-------------------------------------------------------------------------------
(* Where nothing fails, in every behaviour *)

\* All is calm before any job has begun,
LEMMA InitBInv == ASSUME Init PROVE BInv
  <1>1. files = <<>> /\ ticks = {}
    BY DEF Init
  <1>2. DOMAIN files = {} /\ \A th : TimesOf(th) = {}
    BY <1>1 DEF TimesOf
  <1>3. ClockInv
    BY <1>1, <1>2, FS_EmptySet DEF ClockInv
  <1>4. ASSUME NEW j \in Jobs
        PROVE  Calm(j)
    <2>1. /\ job[j] = [pc |-> "check", err |-> "none", made |-> <<>>, arch |-> NoPath,
                       out |-> NoPath, n |-> 0, pieces |-> <<>>, joined |-> 0, bad |-> FALSE]
          /\ comp[j] = <<>>
      BY <1>4 DEF Init
    <2>2. job[j].pc = "check" /\ DOMAIN comp[j] = {}
      BY <2>1
    <2>3. "check" \notin HasArchive /\ "check" \notin Cutting /\ "check" \notin Ended
      BY DEF HasArchive, Cutting, Ended
    <2> QED  BY <1>2, <2>2, <2>3 DEF Calm, CalmArchive, CalmPieces, CalmOutput, Exists
  <1> QED  BY <1>3, <1>4 DEF BInv

\* Time goes on, or stands still.
LEMMA StepClock ==
    ASSUME ClockInv,
           \/ ticks' = ticks
           \/ \E th : \E t \in Now(th) : ticks' = ticks \cup {<<th, t>>}
    PROVE  ClockInv'
  <1>1. CASE ticks' = ticks
    <2>1. \A th : TimesOf(th)' = TimesOf(th)
      BY <1>1 DEF TimesOf
    <2> QED  BY <1>1, <2>1 DEF ClockInv
  <1>2. CASE \E th : \E t \in Now(th) : ticks' = ticks \cup {<<th, t>>}
    BY <1>2, ClockTicks
  <1> QED  BY <1>1, <1>2

\* A step of one job.
LEMMA CalmStepOf ==
    ASSUME IInv, FInv, BInv, NEW j \in Jobs, Frame(j), param' = param, Calm(j)', ClockInv'
    PROVE  BInv'
  <1>1. ASSUME NEW k \in Jobs \ {j}
        PROVE  Calm(k)'
    <2>1. \A f : Kept(f, k) => SameFile(f)
      BY BelongsOnce DEF Frame, FilesFrame
    <2>2. /\ job'[k] = job[k] /\ comp'[k] = comp[k] /\ Calm(k)
          /\ input' = input /\ ticks \subseteq ticks'
      BY DEF BInv, Frame
    <2> QED  BY <2>1, <2>2, OthersCalm
  <1> QED  BY <1>1 DEF BInv

\* and stays so, if nothing fails and nobody calls Set.
LEMMA StepBInv == ASSUME Undisturbed, IInv, FInv, FInv', BInv, [Next]_vars PROVE BInv'
  <1>1. CASE UNCHANGED <<param, files, ticks, input, job, comp>>
    <2>2. \A f : SameFile(f)
      BY <1>1 DEF SameFile
    <2>3. ASSUME NEW j \in Jobs
          PROVE  Calm(j)'
      BY <1>1, <2>2, OthersCalm DEF BInv
    <2>4. ClockInv'
      BY <1>1, StepClock DEF BInv
    <2> QED  BY <2>3, <2>4 DEF BInv
  <1>2. ASSUME NEW s \in Settings, Set(s)
        PROVE  BInv'
    BY <1>2 DEF Set, Undisturbed
  <1>3. ASSUME NEW j \in Jobs, JobStep(j)
        PROVE  BInv'
    <2>1. Frame(j) /\ param' = param
      BY <1>3, JobFrame
    <2>2. Calm(j) /\ ClockInv
      BY DEF BInv
    <2>3. Calm(j)'
      BY <1>3, <2>2, CheckCalm, ArchiveCalm, PrepareCalm, DispatchCalm, SingleReturnsCalm,
         RemoveCalm, NotifyCalm, StartMTCalm, CutCalm, StartThreadsCalm, OpenCombinedCalm,
         AppendCalm, CloseCombinedCalm, CleanUpCalm DEF JobStep
    <2>4. ClockInv'
      <3>1. \/ ticks' = ticks
            \/ \E t \in Now(Main(j)) : ticks' = ticks \cup {<<Main(j), t>>}
        BY <1>3 DEF JobStep, InputMissing, CheckInput, ArchiveInputs, PrepareCompress, Dispatch,
           SingleReturns, RemoveArchive, Notify, StartMT, CutPiece, StartThreads,
           OpenCombined, AppendResult, CloseCombined, CleanUp
      <3> QED  BY <2>2, <3>1, StepClock
    <2> QED  BY <2>1, <2>3, <2>4, CalmStepOf
  <1>4. ASSUME NEW j \in Jobs, NEW i \in DOMAIN comp[j], ThreadStep(j, i)
        PROVE  BInv'
    <2>1. Frame(j) /\ param' = param
      BY <1>4, ThreadFrame
    <2>2. Calm(j) /\ ClockInv
      BY DEF BInv
    <2>3. Calm(j)'
      BY <1>4, <2>2, OpenCalm, LoopCalm DEF ThreadStep
    <2>4. ClockInv'
      <3>1. \/ ticks' = ticks
            \/ \E t \in Now(<<j, i>>) : ticks' = ticks \cup {<<<<j, i>>, t>>}
        BY <1>4 DEF ThreadStep, Open, CompressBlock, Close
      <3> QED  BY <2>2, <3>1, StepClock
    <2> QED  BY <2>1, <2>3, <2>4, CalmStepOf
  <1>5. UNCHANGED vars \/ (\E j \in Jobs : JobFails(j)) =>
          UNCHANGED <<param, files, ticks, input, job, comp>>
    BY DEF vars, JobFails, Throws, ProcessEnds
  <1> QED  BY <1>1, <1>2, <1>3, <1>4, <1>5 DEF Next

-------------------------------------------------------------------------------
(* The promise to the caller *)

\* A step of the jobs is one of a single job that has not ended, or of none.
LEMMA OneJobSteps ==
    ASSUME IInv, FInv, [Next]_vars
    PROVE  \/ UNCHANGED <<files, input, job, comp>>
           \/ \E j \in Jobs : Frame(j) /\ ~Done(j) /\ (Done(j)' => files' = files)
  <1>1. UNCHANGED vars \/ (\E j \in Jobs : JobFails(j)) => UNCHANGED <<files, input, job, comp>>
    BY DEF vars, JobFails, Throws, ProcessEnds
  <1>2. ASSUME NEW s \in Settings, Set(s)
        PROVE  UNCHANGED <<files, input, job, comp>>
    BY <1>2 DEF Set
  <1>3. ASSUME NEW j \in Jobs, JobStep(j)
        PROVE  Frame(j) /\ ~Done(j) /\ (Done(j)' => files' = files)
    <2>1. Frame(j) /\ ~Done(j)
      BY <1>3, JobFrame
    <2>2. DOMAIN job = Jobs /\ DOMAIN job[j] = JobFields
      BY JobKnown
    <2>3. CASE InputMissing(j) \/ CheckInput(j) \/ ArchiveInputs(j) \/ PrepareCompress(j)
               \/ Dispatch(j) \/ SingleReturns(j) \/ RemoveArchive(j)
      <3>1. job'[j].pc \in {"notify", "archive", "prepare", "dispatch", "mt", "single", "remove"}
        <4>1. CASE ArchiveInputs(j)
          BY <2>2, <4>1 DEF ArchiveInputs, JobFields
        <4>2. CASE ~ArchiveInputs(j)
          BY <2>2, <2>3, <4>2 DEF InputMissing, CheckInput, PrepareCompress,
             Dispatch, SingleReturns, RemoveArchive, Goto, JobFields
        <4> QED  BY <4>1, <4>2
      <3> QED  BY <2>1, <3>1 DEF Done, At
    <2>4. CASE StartMT(j) \/ StartThreads(j) \/ OpenCombined(j) \/ CloseCombined(j)
               \/ CleanUp(j)
      <3>1. job'[j].pc # "done"
        BY <2>2, <2>4 DEF StartMT, StartThreads, OpenCombined, CloseCombined, CleanUp,
           Goto, JobFields
      <3> QED  BY <2>1, <3>1 DEF Done, At
    <2>5. CASE CutPiece(j) \/ AppendResult(j)
      <3>1. job'[j].pc = job[j].pc
        BY <2>2, <2>5 DEF CutPiece, AppendResult, JobFields
      <3> QED  BY <2>1, <3>1 DEF Done, At
    <2>6. CASE Notify(j)
      BY <2>1, <2>6 DEF Notify
    <2> QED  BY <1>3, <2>3, <2>4, <2>5, <2>6 DEF JobStep
  <1>4. ASSUME NEW j \in Jobs, NEW i \in DOMAIN comp[j], ThreadStep(j, i)
        PROVE  Frame(j) /\ ~Done(j) /\ ~Done(j)'
    <2>1. Frame(j) /\ ~Done(j)
      BY <1>4, ThreadFrame
    <2>2. job' = job
      BY <1>4 DEF ThreadStep, Open, CompressBlock, Close
    <2> QED  BY <2>1, <2>2 DEF Done, At
  <1> QED  BY <1>1, <1>2, <1>3, <1>4 DEF Next

Reported(j) ==
    IF ~Own(j) \/ ~Done(j) THEN "pending" ELSE IF job[j].err = "none" THEN "ok" ELSE "error"

\* An output that is left alone is as whole as it was,
LEMMA SameOutput ==
    ASSUME NEW k, input' = input, Own(k) => SameFile(OutPath(k))
    PROVE  OutputOf(k)' = OutputOf(k)
  <1>1. Own(k)' <=> Own(k)
    BY SameOwn
  <1>2. CASE ~Own(k)
    BY ONLY <1>1, <1>2 DEF OutputOf
  <1>3. CASE Own(k)
    <2>2. PICK f : f = OutPath(k) /\ f = OutPath(k)'
      BY SameOwn
    <2>3. PICK a : a = Archived(k) /\ a = Archived(k)'
      BY DEF Archived, Units
    <2>4. /\ f \in DOMAIN files <=> f \in DOMAIN files'
          /\ f \in DOMAIN files => files'[f] = files[f]
      BY <1>3, <2>2 DEF SameFile
    <2>5. Exists(OutPath(k))' <=> Exists(OutPath(k))
      BY ONLY <2>2, <2>4 DEF Exists
    <2>6. Holds(OutPath(k), Archived(k))' <=> Holds(OutPath(k), Archived(k))
      BY ONLY <2>2, <2>3, <2>4 DEF Holds, Exists, Header
    <2> QED  BY ONLY <1>1, <2>5, <2>6 DEF OutputOf
  <1> QED  BY <1>2, <1>3

\* and a job that is left alone has reported what it had.
LEMMA OthersPromise ==
    ASSUME NEW k, job'[k] = job[k], input' = input, Own(k) => SameFile(OutPath(k))
    PROVE  Reported(k)' = Reported(k) /\ OutputOf(k)' = OutputOf(k)
  <1>1. Reported(k)' = Reported(k)
    BY SameOwn DEF Reported, Done, At
  <1> QED  BY <1>1, SameOutput

\* An output that is whole stays whole: more than the archive is never written.
LEMMA StaysWhole ==
    ASSUME IInv, FInv, NEW j \in Jobs, Own(j), Grows(j), input' = input, Calm(j)',
           Holds(OutPath(j), Archived(j))
    PROVE  Holds(OutPath(j), Archived(j))'
  <1>0. Own(j)'
    BY SameOwn
  <1>1. PICK f : f = OutPath(j) /\ f = OutPath(j)'
    BY SameOwn
  <1>2. Archived(j) \in Seq(Unit)
    BY ArchivedOK
  <1>3. PICK a \in Seq(Unit) : a = Archived(j) /\ a = Archived(j)'
    BY <1>2 DEF Archived, Units
  <1>4. f \in DOMAIN files /\ files[f] # <<>> /\ Head(files[f]) = Header /\ FlattenSeq(files[f]) = a
    BY <1>1, <1>3 DEF Holds, Exists
  <1>5. files[f] \in Seq(Seq(Unit))
    <2>1. ContentOK(f) /\ f.kind = "out"
      BY <1>1, <1>4 DEF FInv, OutPath
    <2> QED  BY ONLY <2>1 DEF ContentOK
  <1>6. PICK old, more \in Seq(Seq(Unit)) :
            old = files[f] /\ f \in DOMAIN files' /\ files'[f] = old \o more
    BY <1>1, <1>4, <1>5 DEF Grows
  <1>7. IsPrefix(FlattenSeq(old \o more), a)
    <2>1. IsPrefix(FlattenSeq(files[OutPath(j)]), Archived(j))'
      BY <1>0, <1>1, <1>6 DEF Calm, CalmOutput, Exists
    <2> QED  BY <1>1, <1>3, <1>6, <2>1
  <1>8. /\ FlattenSeq(old \o more) = FlattenSeq(old) \o FlattenSeq(more)
        /\ FlattenSeq(more) \in Seq(Unit)
    <2>1. FlattenSeq(old \o more) = FlattenSeq(old) \o FlattenSeq(more)
      BY ONLY FlattenConcat, old \in Seq(Seq(Unit)), more \in Seq(Seq(Unit))
    <2>2. <<>> \in Seq(Unit)
      OBVIOUS
    <2>3. FlattenSeq(more) \in Seq(Unit)
      BY ONLY <2>2, FlattenAppend, more \in Seq(Seq(Unit))
    <2> QED  BY <2>1, <2>3
  <1>9. PICK x \in Seq(Unit) : x = FlattenSeq(more)
    BY <1>8
  <1>10. IsPrefix(a \o x, a)
    BY <1>4, <1>6, <1>7, <1>8, <1>9
  <1>11. Len(x) = 0
    <2>1. Len(a \o x) = Len(a) + Len(x) /\ Len(a) \in Nat /\ Len(x) \in Nat
      OBVIOUS
    <2>2. Len(a \o x) <= Len(a)
      BY ONLY <1>10 DEF IsPrefix
    <2> QED  BY ONLY <2>1, <2>2
  <1>12. a \o x = a
    <2>1. x = <<>>
      BY <1>11
    <2> QED  BY <2>1
  <1>13. PICK new \in Seq(Seq(Unit)) : new = old \o more /\ new # <<>> /\ Head(new) = Header
    <2>1. old # <<>> /\ Head(old) = Header
      BY <1>4, <1>6
    <2>2. old \o more \in Seq(Seq(Unit)) /\ Len(old \o more) = Len(old) + Len(more)
          /\ Len(old) \in Nat \ {0} /\ Len(more) \in Nat
      BY <2>1, ConcatProperties
    <2>3. (old \o more)[1] = old[1] /\ old[1] = Header
      BY <2>1, <2>2, ConcatProperties
    <2>4. PICK new \in Seq(Seq(Unit)) : new = old \o more
      BY <2>2, Zenon
    <2>5. Len(new) # 0 /\ new[1] = Header
      BY ONLY <2>2, <2>3, <2>4
    <2>6. new # <<>> /\ Head(new) = new[1]
      BY <2>5
    <2> QED  BY ONLY <2>4, <2>5, <2>6
  <1>14. FlattenSeq(new) = a
    BY <1>4, <1>6, <1>8, <1>9, <1>12, <1>13
  <1>15. files'[f] = new
    BY <1>6, <1>13
  <1> QED  BY ONLY <1>1, <1>3, <1>6, <1>13, <1>14, <1>15 DEF Holds, Exists, Header

\* What a step of a job does to its promise.
LEMMA PromiseStep ==
    ASSUME IInv, FInv, BInv, BInv', NEW j \in Jobs, Frame(j), ~Done(j),
           Done(j)' => files' = files
    PROVE  /\ Reported(j) = "pending"
           /\ \/ Reported(j)' = "pending"
              \/ Reported(j)' = "ok" /\ OutputOf(j)' = "whole"
              \/ Reported(j)' = "error"
           /\ \/ OutputOf(j)' = OutputOf(j)
              \/ /\ OutputOf(j) # "whole" /\ OutputOf(j)' \in {"partial", "whole"}
                 /\ Reported(j)' = "pending"
  <1>0. input' = input /\ (Own(j)' <=> Own(j)) /\ OutPath(j)' = OutPath(j)
    BY SameOwn DEF Frame
  <1>a. CASE ~Own(j)
    <2>1. Reported(j) = "pending" /\ Reported(j)' = "pending"
      BY <1>0, <1>a DEF Reported
    <2>2. OutputOf(j) = "none" /\ OutputOf(j)' = "none"
      BY ONLY <1>0, <1>a DEF OutputOf
    <2> QED  BY <2>1, <2>2
  <1> SUFFICES ASSUME Own(j)
               PROVE  /\ Reported(j) = "pending"
                      /\ \/ Reported(j)' = "pending"
                         \/ Reported(j)' = "ok" /\ OutputOf(j)' = "whole"
                         \/ Reported(j)' = "error"
                      /\ \/ OutputOf(j)' = OutputOf(j)
                         \/ /\ OutputOf(j) # "whole" /\ OutputOf(j)' \in {"partial", "whole"}
                            /\ Reported(j)' = "pending"
    BY <1>a
  <1>b. Own(j)'
    BY <1>0
  <1>c. Holds(OutPath(j), Archived(j)) => Exists(OutPath(j))
    BY ONLY DEF Holds
  <1>d. Holds(OutPath(j), Archived(j))' => Exists(OutPath(j))'
    BY ONLY DEF Holds
  <1>1. Reported(j) = "pending"
    BY DEF Reported
  <1>2. Reported(j)' \in {"pending", "ok", "error"}
    BY DEF Reported
  <1>3. Reported(j)' = "ok" => OutputOf(j)' = "whole"
    <2> SUFFICES ASSUME Reported(j)' = "ok" PROVE OutputOf(j)' = "whole"
      OBVIOUS
    <2>1. job'[j].pc = "done" /\ job'[j].err = "none"
      BY DEF Reported, Done, At
    <2>2. Holds(OutPath(j), Archived(j))'
      BY <1>b, <2>1 DEF BInv, Calm, CalmOutput, Ended
    <2> QED  BY ONLY <1>b, <1>d, <2>2 DEF OutputOf
  <1>4. OutputOf(j)' \in {"none", "partial", "whole"} /\ OutputOf(j) \in {"none", "partial", "whole"}
    BY ONLY DEF OutputOf
  <1>5. OutputOf(j) = "whole" => OutputOf(j)' = "whole"
    <2> SUFFICES ASSUME OutputOf(j) = "whole" PROVE OutputOf(j)' = "whole"
      OBVIOUS
    <2>1. Holds(OutPath(j), Archived(j))
      BY ONLY OutputOf(j) = "whole", Own(j) DEF OutputOf
    <2>2. Grows(j) /\ input' = input /\ Calm(j)'
      BY DEF Frame, FilesFrame, BInv
    <2>3. Holds(OutPath(j), Archived(j))'
      BY <2>1, <2>2, StaysWhole
    <2> QED  BY ONLY <1>b, <1>d, <2>3 DEF OutputOf
  <1>6. OutputOf(j)' = "none" => OutputOf(j) = "none"
    <2>1. Exists(OutPath(j)) => Exists(OutPath(j))'
      BY <1>0 DEF Frame, FilesFrame, Grows, Exists
    <2>2. ~Exists(OutPath(j)) => OutputOf(j) = "none"
      BY ONLY <1>c DEF OutputOf
    <2>3. Exists(OutPath(j))' => OutputOf(j)' # "none"
      BY ONLY <1>b DEF OutputOf
    <2> QED  BY ONLY <2>1, <2>2, <2>3
  <1>7. Reported(j)' # "pending" => OutputOf(j)' = OutputOf(j)
    <2> SUFFICES ASSUME Reported(j)' # "pending" PROVE OutputOf(j)' = OutputOf(j)
      OBVIOUS
    <2>1. files' = files /\ input' = input
      BY DEF Reported, Frame
    <2> QED  BY <2>1, SameOutput DEF SameFile
  <1> QED  BY ONLY <1>1, <1>2, <1>3, <1>4, <1>5, <1>6, <1>7

\* A step that no job takes part in, but an uncompression may.
Elsewhere ==
    /\ UNCHANGED <<input, job, comp>>
    /\ \A f : SameFile(f) \/ f.kind = "uncompress_tmp"

\* Every step is one of CompressSpec or changes nothing there.
LEMMA PromiseNext ==
    ASSUME IInv, FInv, BInv, BInv',
           \/ Elsewhere
           \/ \E j \in Jobs : Frame(j) /\ ~Done(j) /\ (Done(j)' => files' = files)
    PROVE  [Promise!Next]_(Promise!specVars)
  <1> DEFINE R == [k \in Jobs |-> IF ~Own(k) \/ ~Done(k) THEN "pending"
                                  ELSE IF job[k].err = "none" THEN "ok" ELSE "error"]
             O == [k \in Jobs |-> OutputOf(k)]
  <1>1. /\ DOMAIN R = Jobs /\ \A k \in Jobs : R[k] = Reported(k)
        /\ DOMAIN R' = Jobs /\ \A k \in Jobs : R'[k] = Reported(k)'
    BY DEF Reported
  <1>2. /\ DOMAIN O = Jobs /\ \A k \in Jobs : O[k] = OutputOf(k)
        /\ DOMAIN O' = Jobs /\ \A k \in Jobs : O'[k] = OutputOf(k)'
    OBVIOUS
  <1>3. CASE Elsewhere
    <2>0. \A k : SameFile(OutPath(k))
      BY <1>3 DEF Elsewhere, OutPath
    <2>1. \A k \in Jobs : Reported(k)' = Reported(k) /\ OutputOf(k)' = OutputOf(k)
      BY <1>3, <2>0, OthersPromise DEF Elsewhere
    <2>2. R' = R
      BY <2>1 DEF Reported
    <2>3. O' = O
      BY <2>1, Zenon
    <2> QED  BY <2>2, <2>3, Zenon DEF Promise!specVars
  <1>4. ASSUME NEW j \in Jobs, Frame(j), ~Done(j), Done(j)' => files' = files
        PROVE  Promise!Next \/ (R' = R /\ O' = O)
    <2>1. ASSUME NEW k \in Jobs \ {j}
          PROVE  Reported(k)' = Reported(k) /\ OutputOf(k)' = OutputOf(k)
      <3>1. job'[k] = job[k] /\ input' = input /\ (SameFile(OutPath(k)) \/ Belongs(OutPath(k), j))
        BY <1>4 DEF Frame, FilesFrame
      <3>2. Own(k) => SameFile(OutPath(k))
        BY <3>1, BelongsOnce DEF Belongs, Kept
      <3> QED  BY <3>1, <3>2, OthersPromise
    <2>2. /\ Reported(j) = "pending"
          /\ \/ Reported(j)' = "pending"
             \/ Reported(j)' = "ok" /\ OutputOf(j)' = "whole"
             \/ Reported(j)' = "error"
          /\ \/ OutputOf(j)' = OutputOf(j)
             \/ /\ OutputOf(j) # "whole" /\ OutputOf(j)' \in {"partial", "whole"}
                /\ Reported(j)' = "pending"
      BY <1>4, PromiseStep
    <2>3. R[j] = "pending" /\ O[j] = OutputOf(j)
      BY <1>1, <1>2, <2>2, Zenon
    <2>4. R' = [R EXCEPT ![j] = Reported(j)']
      <3>1. \A k \in Jobs : R'[k] = [R EXCEPT ![j] = Reported(j)'][k]
        BY ONLY <1>1, <2>1, j \in Jobs
      <3> QED  BY <3>1
    <2>5. O' = [O EXCEPT ![j] = OutputOf(j)']
      <3>1. \A k \in Jobs : O'[k] = [O EXCEPT ![j] = OutputOf(j)'][k]
        BY ONLY <1>2, <2>1, j \in Jobs
      <3> QED  BY <3>1
    <2>6. Reported(j)' = Reported(j) => R' = R
      <3> SUFFICES ASSUME Reported(j)' = Reported(j) PROVE R' = R
        OBVIOUS
      <3>1. \A k \in Jobs : Reported(k)' = Reported(k)
        BY <2>1
      <3> QED  BY <3>1 DEF Reported
    <2>7. OutputOf(j)' = OutputOf(j) => O' = O
      <3> SUFFICES ASSUME OutputOf(j)' = OutputOf(j) PROVE O' = O
        OBVIOUS
      <3>1. \A k \in Jobs : OutputOf(k)' = OutputOf(k)
        BY <2>1
      <3> QED  BY <3>1, Zenon
    <2>8. CASE OutputOf(j)' = OutputOf(j) /\ Reported(j)' = "ok" /\ OutputOf(j)' = "whole"
      <3>1. R[j] = "pending" /\ O[j] = "whole" /\ O' = O
            /\ R' = [R EXCEPT ![j] = "ok"]
        BY <2>3, <2>4, <2>7, <2>8, Zenon
      <3>2. Promise!Succeed(j)
        BY <3>1, Zenon DEF Promise!Succeed
      <3> QED  BY <3>2, Zenon DEF Promise!Next
    <2>9. CASE OutputOf(j)' = OutputOf(j) /\ Reported(j)' = "error"
      <3>1. R[j] = "pending" /\ O' = O /\ R' = [R EXCEPT ![j] = "error"]
        BY <2>3, <2>4, <2>7, <2>9, Zenon
      <3>2. Promise!Fail(j)
        BY <3>1, Zenon DEF Promise!Fail
      <3> QED  BY <3>2, Zenon DEF Promise!Next
    <2>10. CASE OutputOf(j)' = OutputOf(j) /\ Reported(j)' = "pending"
      BY <2>2, <2>6, <2>7, <2>10
    <2>11. CASE /\ OutputOf(j) # "whole" /\ OutputOf(j)' \in {"partial", "whole"}
                /\ Reported(j)' = "pending"
      <3>1. R[j] = "pending" /\ R' = R /\ O[j] # "whole"
            /\ \E o \in {"partial", "whole"} : O' = [O EXCEPT ![j] = o]
        BY <2>2, <2>3, <2>5, <2>6, <2>11, Zenon
      <3>2. Promise!Write(j)
        BY <3>1, Zenon DEF Promise!Write
      <3> QED  BY <3>2, Zenon DEF Promise!Next
    <2> QED  BY ONLY <2>2, <2>8, <2>9, <2>10, <2>11
  <1>5. CASE \E j \in Jobs : Frame(j) /\ ~Done(j) /\ (Done(j)' => files' = files)
    <2>1. Promise!Next \/ (R' = R /\ O' = O)
      BY <1>4, <1>5
    <2> QED  BY <2>1, Zenon DEF Promise!specVars
  <1> QED  BY <1>3, <1>5

\* Nothing is reported or written at first.
LEMMA InitPromise == ASSUME Init PROVE Promise!Init
  <1>1. files = <<>> /\ \A j \in Jobs : job[j].pc = "check"
    BY DEF Init
  <1>2. \A j \in Jobs : ~Done(j) /\ ~Exists(OutPath(j))
    BY <1>1 DEF Done, At, Exists
  <1>3. ASSUME NEW j \in Jobs
        PROVE  OutputOf(j) = "none"
    <2>1. ~Exists(OutPath(j))
      BY <1>2
    <2>2. ~Holds(OutPath(j), Archived(j))
      BY ONLY <2>1 DEF Holds
    <2> QED  BY ONLY <2>1, <2>2 DEF OutputOf
  <1>4. [j \in Jobs |-> OutputOf(j)] = [j \in Jobs |-> "none"]
    BY <1>3, Zenon
  <1>5. [j \in Jobs |-> IF ~Own(j) \/ ~Done(j) THEN "pending"
                        ELSE IF job[j].err = "none" THEN "ok" ELSE "error"]
            = [j \in Jobs |-> "pending"]
    BY <1>2
  <1> QED  BY <1>4, <1>5, Zenon DEF Promise!Init

\* Where nothing fails and nobody calls Set, a compression keeps the promise of
\* CompressSpec whatever the number of its threads and the times they read:
\* the output grows to the whole archive, success is reported only then, and
\* nothing touches it after the report.
THEOREM Promised == ASSUME Undisturbed PROVE Spec => ImplementsPromise
  <1>1. Init => Promise!Init
    BY InitPromise
  <1>2. Init => IInv /\ FInv /\ BInv
    BY InitIInv, InitFInv, InitBInv
  <1>3. (IInv /\ FInv /\ BInv) /\ [Next]_vars => (IInv /\ FInv /\ BInv)'
    BY StepIInv, StepFInv, StepBInv
  <1>4. (IInv /\ FInv /\ BInv) /\ (IInv /\ FInv /\ BInv)' /\ [Next]_vars
            => [Promise!Next]_(Promise!specVars)
    <2> SUFFICES ASSUME IInv, FInv, BInv, BInv', [Next]_vars
                 PROVE  [Promise!Next]_(Promise!specVars)
      OBVIOUS
    <2>1. UNCHANGED <<files, input, job, comp>> => Elsewhere
      BY DEF Elsewhere, SameFile
    <2> QED  BY <2>1, OneJobSteps, PromiseNext
  <1> QED  BY <1>1, <1>2, <1>3, <1>4, PTL DEF Spec, ImplementsPromise, Promise!Spec
================================================================================
