------------------------- MODULE UncompressJobs_proofs -------------------------
(***************************************************************************)
(* Uncompressing next to the jobs of CompressJobs, which it does not       *)
(* disturb: what is proved of them holds here as well.  Whatever fails and *)
(* whenever Set is called, an uncompression that returns has removed its   *)
(* temporary file and given all blocks of an output that was complete to   *)
(* Dearchive, or fails, unless a write failed that nobody looked at.       *)
(* Where nothing fails and nobody calls Set it restores the archive, or a  *)
(* part of it from the beginning if the output was not complete.           *)
(***************************************************************************)
EXTENDS UncompressJobs, CompressJobs_proofs

-------------------------------------------------------------------------------
(* The inductive invariant *)

ReaderFields == {"pc", "found", "buff", "pos", "bad", "err", "given", "restored"}

\* The units of the first n blocks of an output.
UnitsBefore(j, n) == FlattenSeq(SubSeq(files[OutPath(j)], 1, n))

\* A reader has uncompressed the blocks it has read, and all of them at the end
\* of an output that was complete, unless a write failed.
ReaderInv(j) ==
    /\ DOMAIN reader[j] = ReaderFields
    /\ reader[j].pc \in {"idle", "open", "loop", "dearchive", "remove", "done", "thrown"}
    /\ reader[j].found => Done(j)
    /\ reader[j].pc \in {"idle", "open", "loop", "dearchive"} => reader[j].err = "none"
    /\ reader[j].pc # "idle" => Own(j) /\ Exists(OutPath(j))
    /\ reader[j].pc \in {"idle", "open", "done"} => ~Exists(UnarchivePath(j))
    /\ reader[j].pc \in {"loop", "dearchive"} =>
          /\ Exists(UnarchivePath(j))
          /\ reader[j].pos \in 1..Len(files[OutPath(j)])
          /\ ~reader[j].bad => files[UnarchivePath(j)] = UnitsBefore(j, reader[j].pos)
    /\ reader[j].pc \in {"remove", "done"} /\ reader[j].err = "none" =>
          /\ reader[j].pos \in 1..Len(files[OutPath(j)])
          /\ ~reader[j].bad => reader[j].given = UnitsBefore(j, reader[j].pos)
    /\ reader[j].found /\ reader[j].pc \in {"dearchive", "remove", "done"}
       /\ reader[j].err = "none" => reader[j].pos = Len(files[OutPath(j)])

RInv == DOMAIN reader = Jobs /\ \A j \in Jobs : ReaderInv(j)

-------------------------------------------------------------------------------
(* Readers and jobs next to each other *)

\* What was read of an output is still its beginning when blocks are appended.
LEMMA BeginningKept ==
    ASSUME NEW T, NEW old \in Seq(T), NEW more \in Seq(T), NEW n \in 1..Len(old)
    PROVE  /\ n \in 1..Len(old \o more)
           /\ SubSeq(old \o more, 1, n) = SubSeq(old, 1, n)
  <1>1. Len(old) \in Nat /\ Len(more) \in Nat
    OBVIOUS
  <1>2. Len(old \o more) = Len(old) + Len(more)
    BY ONLY old \in Seq(T), more \in Seq(T), ConcatProperties, Zenon
  <1>3. n \in 1..Len(old \o more)
    BY ONLY <1>1, <1>2, n \in 1..Len(old)
  <1>4. SubSeq(old \o more, 1, n) = SubSeq(old, 1, n)
    <2>1. 1 \in 1..Len(old)
      BY ONLY <1>1, n \in 1..Len(old)
    <2> QED  BY ONLY <2>1, n \in 1..Len(old), old \in Seq(T), more \in Seq(T), SubSeqOfConcat1,
               Zenon
  <1> QED  BY <1>3, <1>4

\* The beginning of a prefix is one.
LEMMA PrefixOfPrefix ==
    ASSUME NEW T, NEW a \in Seq(T), NEW x \in Seq(T), NEW rest \in Seq(T),
           IsPrefix(x \o rest, a)
    PROVE  IsPrefix(x, a)
  <1>1. PICK k, m \in Nat : k = Len(x) /\ m = Len(rest)
    OBVIOUS
  <1>2. PICK y \in Seq(T) : y = x \o rest /\ Len(y) = k + m /\ SubSeq(y, 1, k) = x
    <2>1. x \o rest \in Seq(T) /\ Len(x \o rest) = k + m
      BY ONLY <1>1, x \in Seq(T), rest \in Seq(T), ConcatProperties
    <2>2. SubSeq(x \o rest, 1, k) = x
      BY ONLY <1>1, x \in Seq(T), rest \in Seq(T)
    <2> QED  BY ONLY <2>1, <2>2
  <1>3. Len(y) <= Len(a) /\ y = SubSeq(a, 1, Len(y)) /\ Len(a) \in Nat
    BY ONLY <1>2, IsPrefix(x \o rest, a), a \in Seq(T) DEF IsPrefix
  <1>4. SubSeq(SubSeq(a, 1, k + m), 1, k) = SubSeq(a, 1, k)
    BY ONLY <1>1, <1>2, <1>3, a \in Seq(T)
  <1>5. x = SubSeq(a, 1, k) /\ k <= Len(a)
    BY ONLY <1>1, <1>2, <1>3, <1>4
  <1> QED  BY ONLY <1>1, <1>5 DEF IsPrefix

\* A reader is not disturbed by a step of its job, whose output can only grow,
\* nor by one of another.
LEMMA ReaderStays ==
    ASSUME IInv, FInv, NEW j \in Jobs, ReaderInv(j), reader'[j] = reader[j], input' = input,
           SameFile(UnarchivePath(j)), Grows(j),
           reader[j].found => job'[j] = job[j] /\ SameFile(OutPath(j))
    PROVE  ReaderInv(j)'
  <1>1. PICK f : f = OutPath(j) /\ f = OutPath(j)'
    BY SameOwn
  <1>2. PICK u : u = UnarchivePath(j) /\ u = UnarchivePath(j)'
    BY DEF UnarchivePath, Main
  <1>3. PICK r : r = reader[j] /\ r = reader'[j]
    OBVIOUS
  <1>4. /\ u \in DOMAIN files' <=> u \in DOMAIN files
        /\ u \in DOMAIN files => files'[u] = files[u]
    BY ONLY <1>2, SameFile(UnarchivePath(j)) DEF SameFile
  <1>5. r.found => Done(j) /\ Done(j)'
    BY <1>3 DEF ReaderInv, Done, At
  <1>6. CASE r.pc = "idle"
    <2>1. DOMAIN r = ReaderFields /\ r.err = "none" /\ u \notin DOMAIN files
      BY <1>2, <1>3, <1>6 DEF ReaderInv, Exists
    <2> QED  BY ONLY <1>2, <1>3, <1>4, <1>5, <1>6, <2>1 DEF ReaderInv, Exists
  <1>7. CASE r.pc # "idle"
    <2>0. f \in DOMAIN files /\ Own(j) /\ Own(j)'
      BY <1>1, <1>3, <1>7, SameOwn DEF ReaderInv, Exists
    <2>1. f.kind = "out"
      BY <1>1 DEF OutPath
    <2>2. files[f] \in Seq(Seq(Unit))
      BY ONLY <2>0, <2>1, FInv DEF FInv, ContentOK
    <2>3. PICK T : T = Seq(Unit)
      OBVIOUS
    <2>4. PICK old, more \in Seq(T) : old = files[f] /\ f \in DOMAIN files' /\ files'[f] = old \o more
      BY ONLY <1>1, <2>0, <2>2, <2>3, Grows(j) DEF Grows
    <2>5. \A n \in 1..Len(old) :
              n \in 1..Len(files'[f]) /\ SubSeq(files'[f], 1, n) = SubSeq(old, 1, n)
      BY ONLY <2>4, BeginningKept
    <2>6. r.found => Len(files'[f]) = Len(old)
      BY ONLY <1>1, <1>3, <2>0, <2>4, reader[j].found => SameFile(OutPath(j)) DEF SameFile
    <2>7. /\ DOMAIN r = ReaderFields
          /\ r.pc \in {"open", "loop", "dearchive", "remove", "done", "thrown"}
          /\ r.pc \in {"open", "loop", "dearchive"} => r.err = "none"
          /\ r.pc \in {"open", "done"} => u \notin DOMAIN files
          /\ r.pc \in {"loop", "dearchive"} =>
                /\ u \in DOMAIN files
                /\ r.pos \in 1..Len(old)
                /\ ~r.bad => files[u] = FlattenSeq(SubSeq(old, 1, r.pos))
          /\ r.pc \in {"remove", "done"} /\ r.err = "none" =>
                /\ r.pos \in 1..Len(old)
                /\ ~r.bad => r.given = FlattenSeq(SubSeq(old, 1, r.pos))
          /\ r.found /\ r.pc \in {"dearchive", "remove", "done"} /\ r.err = "none" =>
                r.pos = Len(old)
      BY ONLY <1>1, <1>2, <1>3, <1>7, <2>4, ReaderInv(j) DEF ReaderInv, Exists, UnitsBefore
    <2>8. /\ r.pc \in {"open", "done"} => u \notin DOMAIN files'
          /\ r.pc \in {"loop", "dearchive"} =>
                /\ u \in DOMAIN files'
                /\ r.pos \in 1..Len(files'[f])
                /\ ~r.bad => files'[u] = FlattenSeq(SubSeq(files'[f], 1, r.pos))
          /\ r.pc \in {"remove", "done"} /\ r.err = "none" =>
                /\ r.pos \in 1..Len(files'[f])
                /\ ~r.bad => r.given = FlattenSeq(SubSeq(files'[f], 1, r.pos))
          /\ r.found /\ r.pc \in {"dearchive", "remove", "done"} /\ r.err = "none" =>
                r.pos = Len(files'[f])
      BY ONLY <1>4, <2>5, <2>6, <2>7
    <2> QED  BY ONLY <1>1, <1>2, <1>3, <1>5, <1>7, <2>0, <2>4, <2>7, <2>8
               DEF ReaderInv, Exists, UnitsBefore
  <1> QED  BY <1>6, <1>7

-------------------------------------------------------------------------------
(* Steps of a reader *)

\* A reader touches nothing but its own temporary file, which holds units.
Aside(j) ==
    /\ UNCHANGED <<param, ticks, input, job, comp>>
    /\ DOMAIN reader' = Jobs /\ \A k \in Jobs \ {j} : reader'[k] = reader[k]
    /\ \A f : f # UnarchivePath(j) => SameFile(f)
    /\ UnarchivePath(j) \in DOMAIN files' => files'[UnarchivePath(j)] \in Seq(Unit)

\* It writes or removes that file, or leaves it.
LEMMA AsideStep ==
    ASSUME FInv, NEW j \in Jobs, UNCHANGED <<param, ticks, input, job, comp>>,
           DOMAIN reader' = Jobs, \A k \in Jobs \ {j} : reader'[k] = reader[k],
           \/ files' = files
           \/ files' = Without({UnarchivePath(j)})
           \/ \E content \in Seq(Unit) : files' = Written(UnarchivePath(j), content)
    PROVE  Aside(j)
  <1>1. CASE files' = files
    <2>1. UnarchivePath(j) \in DOMAIN files => files[UnarchivePath(j)] \in Seq(Unit)
      BY DEF FInv, ContentOK, UnarchivePath
    <2> QED  BY <1>1, <2>1 DEF Aside, SameFile
  <1>2. CASE files' = Without({UnarchivePath(j)})
    <2>1. UnarchivePath(j) \notin DOMAIN files' /\ \A f : f # UnarchivePath(j) => SameFile(f)
      BY <1>2, RemoveKeeps
    <2> QED  BY <2>1 DEF Aside
  <1>3. CASE \E content \in Seq(Unit) : files' = Written(UnarchivePath(j), content)
    <2>1. files'[UnarchivePath(j)] \in Seq(Unit) /\ \A f : f # UnarchivePath(j) => SameFile(f)
      BY <1>3, WriteKeeps
    <2> QED  BY <2>1 DEF Aside
  <1> QED  BY <1>1, <1>2, <1>3

\* What is to be shown of a reader that has taken a step on an output that exists.
LEMMA NewReader ==
    ASSUME NEW j \in Jobs, Aside(j), Own(j), Exists(OutPath(j)),
           NEW r, r = reader'[j], NEW u, u = UnarchivePath(j),
           NEW blocks, blocks = files[OutPath(j)],
           DOMAIN r = ReaderFields,
           r.pc \in {"open", "loop", "dearchive", "remove", "done", "thrown"},
           r.found => Done(j),
           r.pc \in {"open", "loop", "dearchive"} => r.err = "none",
           r.pc \in {"open", "done"} => u \notin DOMAIN files',
           r.pc \in {"loop", "dearchive"} =>
              /\ u \in DOMAIN files'
              /\ r.pos \in 1..Len(blocks)
              /\ ~r.bad => files'[u] = FlattenSeq(SubSeq(blocks, 1, r.pos)),
           r.pc \in {"remove", "done"} /\ r.err = "none" =>
              /\ r.pos \in 1..Len(blocks)
              /\ ~r.bad => r.given = FlattenSeq(SubSeq(blocks, 1, r.pos)),
           r.found /\ r.pc \in {"dearchive", "remove", "done"} /\ r.err = "none" =>
              r.pos = Len(blocks)
    PROVE  ReaderInv(j)'
  <1>1. PICK f : f = OutPath(j) /\ f = OutPath(j)'
    BY SameOwn DEF Aside
  <1>2. u = UnarchivePath(j)' /\ f # u
    BY <1>1 DEF UnarchivePath, Main, OutPath
  <1>3. f \in DOMAIN files' /\ files'[f] = blocks
    BY <1>1, <1>2 DEF Aside, SameFile, Exists
  <1>4. (r.found => Done(j)') /\ Own(j)'
    BY SameOwn DEF Aside, Done, At
  <1> QED  BY <1>1, <1>2, <1>3, <1>4 DEF ReaderInv, Exists, UnitsBefore

\* What is known of a reader at any time.
LEMMA ReaderKnown ==
    ASSUME FInv, RInv, NEW j \in Jobs
    PROVE  /\ DOMAIN reader = Jobs /\ DOMAIN reader[j] = ReaderFields /\ ReaderInv(j)
           /\ Own(j) /\ Exists(OutPath(j)) =>
                /\ files[OutPath(j)] \in Seq(Seq(Unit))
                /\ files[OutPath(j)] # <<>>
                /\ files[OutPath(j)][1] = Header
  <1>1. ReaderInv(j) /\ DOMAIN reader[j] = ReaderFields
    BY DEF RInv, ReaderInv
  <1>2. ASSUME Own(j), Exists(OutPath(j))
        PROVE  /\ files[OutPath(j)] \in Seq(Seq(Unit))
               /\ files[OutPath(j)] # <<>>
               /\ files[OutPath(j)][1] = Header
    <2>1. OutPath(j) \in DOMAIN files /\ Places(j) /\ ContentOK(OutPath(j))
      BY <1>2 DEF FInv, JobFiles, Exists
    <2>2. OutPath(j).kind = "out"
      BY DEF OutPath
    <2>3. files[OutPath(j)] \in Seq(Seq(Unit))
      BY ONLY <2>1, <2>2 DEF ContentOK
    <2> QED  BY <1>2, <2>1, <2>3 DEF Places
  <1> QED  BY <1>1, <1>2 DEF RInv

\* AskUncompress: the header of the output was found.
LEMMA AskReader ==
    ASSUME FInv, RInv, NEW j \in Jobs, AskUncompress(j)
    PROVE  Aside(j) /\ ReaderInv(j)'
  <1>1. DOMAIN reader = Jobs /\ DOMAIN reader[j] = ReaderFields /\ ReaderInv(j)
    BY ReaderKnown
  <1>2. UNCHANGED <<param, files, ticks, input, job, comp>> /\ reader[j].pc = "idle" /\ Own(j)
    BY DEF AskUncompress, vars, Ready
  <1>3. reader' = [reader EXCEPT ![j].pc = "open", ![j].found = Done(j)]
    BY DEF AskUncompress
  <1>4. Aside(j)
    <2>1. DOMAIN reader' = Jobs /\ \A k \in Jobs \ {j} : reader'[k] = reader[k]
      BY <1>1, <1>3
    <2> QED  BY <1>2, <2>1, AsideStep
  <1>5. PICK r : r = reader'[j]
    OBVIOUS
  <1>6. DOMAIN r = ReaderFields /\ r.pc = "open" /\ r.found = Done(j) /\ r.err = "none"
    BY <1>1, <1>2, <1>3, <1>5 DEF ReaderInv, ReaderFields
  <1>7. Exists(OutPath(j))
    <2> SUFFICES ASSUME ~Exists(OutPath(j)) PROVE FALSE
      OBVIOUS
    <2>1. Len(Content(OutPath(j))) = 0
      BY DEF Content
    <2>2. BlocksFound(j, 0) = 0..0 \/ BlocksFound(j, 0) = {0}
      BY <2>1 DEF BlocksFound
    <2> QED  BY <2>2 DEF AskUncompress
  <1>8. UnarchivePath(j) \notin DOMAIN files'
    BY <1>1, <1>2 DEF ReaderInv, Exists
  <1>9. ReaderInv(j)'
    BY <1>2, <1>4, <1>5, <1>6, <1>7, <1>8, NewReader
  <1> QED  BY <1>4, <1>9

\* The first block of an output, its header, holds no units; each block adds its own.
LEMMA BlocksRead ==
    ASSUME NEW blocks \in Seq(Seq(Unit)), blocks # <<>>
    PROVE  /\ Len(blocks) \in Nat \ {0}
           /\ blocks[1] = <<>> => FlattenSeq(SubSeq(blocks, 1, 1)) = <<>>
           /\ \A n \in 1..Len(blocks) :
                 /\ FlattenSeq(SubSeq(blocks, 1, n)) \in Seq(Unit)
                 /\ n + 1 <= Len(blocks) =>
                       FlattenSeq(SubSeq(blocks, 1, n + 1))
                           = FlattenSeq(SubSeq(blocks, 1, n)) \o blocks[n + 1]
  <1>1. Len(blocks) \in Nat \ {0}
    OBVIOUS
  <1>2. PICK T : T = Seq(Unit)
    OBVIOUS
  <1>3. blocks \in Seq(T)
    BY <1>2
  <1>4. ASSUME blocks[1] = <<>>
        PROVE  FlattenSeq(SubSeq(blocks, 1, 1)) = <<>>
    <2>1. 1 \in 1..Len(blocks)
      BY ONLY <1>1
    <2>2. SubSeq(blocks, 1, 1) = <<blocks[1]>>
      <3>1. 1 \in 1..Len(blocks) /\ 1 \in 1..Len(blocks) /\ 1 - 1 = 0
        BY ONLY <2>1
      <3>2. SubSeq(blocks, 1, 1) = SubSeq(blocks, 1, 0) \o <<blocks[1]>>
        BY ONLY <1>3, <3>1, SubSeqRecursiveSecond
      <3>3. SubSeq(blocks, 1, 0) = <<>>
        BY ONLY SubSeqEmpty
      <3>4. <<blocks[1]>> \in Seq({blocks[1]})
        OBVIOUS
      <3>5. <<>> \o <<blocks[1]>> = <<blocks[1]>>
        BY ONLY <3>4, ConcatEmptySeq, Zenon
      <3> QED  BY ONLY <3>2, <3>3, <3>5
    <2>3. <<>> \in Seq(Unit)
      OBVIOUS
    <2> QED  BY ONLY <1>4, <2>2, <2>3, FlattenShort
  <1>5. ASSUME NEW n \in 1..Len(blocks)
        PROVE  /\ FlattenSeq(SubSeq(blocks, 1, n)) \in Seq(Unit)
               /\ n + 1 <= Len(blocks) =>
                     FlattenSeq(SubSeq(blocks, 1, n + 1))
                         = FlattenSeq(SubSeq(blocks, 1, n)) \o blocks[n + 1]
    <2>1. SubSeq(blocks, 1, n) \in Seq(T)
      BY ONLY <1>1, <1>3, n \in 1..Len(blocks)
    <2>2. PICK s \in Seq(Seq(Unit)) : s = SubSeq(blocks, 1, n)
      BY <1>2, <2>1
    <2>3. <<>> \in Seq(Unit)
      OBVIOUS
    <2>4. FlattenSeq(s) \in Seq(Unit)
      BY ONLY <2>2, <2>3, FlattenAppend
    <2>5. ASSUME n + 1 <= Len(blocks)
          PROVE  FlattenSeq(SubSeq(blocks, 1, n + 1)) = FlattenSeq(s) \o blocks[n + 1]
      <3>1. n + 1 \in 1..Len(blocks) /\ 1 \in 1..Len(blocks) /\ n + 1 \in 1..Len(blocks)
            /\ (n + 1) - 1 = n
        BY ONLY <1>1, <2>5, n \in 1..Len(blocks)
      <3>2. SubSeq(blocks, 1, n + 1) = SubSeq(blocks, 1, n) \o <<blocks[n + 1]>>
        BY ONLY <1>3, <3>1, SubSeqRecursiveSecond
      <3>3. PICK e \in T : e = blocks[n + 1]
        BY ONLY <1>3, <3>1
      <3>4. Append(s, e) = s \o <<e>>
        <4>1. s \in Seq(T)
          BY <2>1, <2>2
        <4> QED  BY ONLY <4>1, e \in T
      <3>5. FlattenSeq(Append(s, e)) = FlattenSeq(s) \o e
        <4>1. e \in Seq(Unit)
          BY ONLY <1>2, e \in T
        <4> QED  BY ONLY <4>1, s \in Seq(Seq(Unit)), FlattenAppend
      <3> QED  BY ONLY <2>2, <3>2, <3>3, <3>4, <3>5
    <2> QED  BY ONLY <2>2, <2>4, <2>5
  <1> QED  BY <1>1, <1>4, <1>5

\* What an action does to the reader's record.
LEMMA ReaderRecord ==
    ASSUME FInv, RInv, NEW j \in Jobs,
           \/ \E pc, pos, buff :
                 reader' = [reader EXCEPT ![j].pc = pc, ![j].pos = pos, ![j].buff = buff]
           \/ \E pos, bad : reader' = [reader EXCEPT ![j].pos = pos, ![j].bad = bad]
           \/ \E pos : reader' = [reader EXCEPT ![j].pos = pos]
           \/ \E pc, err : reader' = [reader EXCEPT ![j].pc = pc, ![j].err = err]
           \/ \E pc, err, given, restored :
                 reader' = [reader EXCEPT ![j].pc = pc, ![j].err = err,
                                          ![j].given = given, ![j].restored = restored]
           \/ \E pc : reader' = [reader EXCEPT ![j].pc = pc]
    PROVE  /\ DOMAIN reader' = Jobs /\ \A k \in Jobs \ {j} : reader'[k] = reader[k]
           /\ DOMAIN reader'[j] = ReaderFields
           /\ reader'[j].found = reader[j].found
  <1>1. DOMAIN reader = Jobs /\ DOMAIN reader[j] = ReaderFields
    BY ReaderKnown
  <1>2. CASE \E pc, pos, buff :
                reader' = [reader EXCEPT ![j].pc = pc, ![j].pos = pos, ![j].buff = buff]
    BY <1>1, <1>2 DEF ReaderFields
  <1>3. CASE \E pos, bad : reader' = [reader EXCEPT ![j].pos = pos, ![j].bad = bad]
    BY <1>1, <1>3 DEF ReaderFields
  <1>4. CASE \E pos : reader' = [reader EXCEPT ![j].pos = pos]
    BY <1>1, <1>4 DEF ReaderFields
  <1>5. CASE \E pc, err : reader' = [reader EXCEPT ![j].pc = pc, ![j].err = err]
    BY <1>1, <1>5 DEF ReaderFields
  <1>6. CASE \E pc, err, given, restored :
                reader' = [reader EXCEPT ![j].pc = pc, ![j].err = err,
                                         ![j].given = given, ![j].restored = restored]
    <2>1. PICK pc, err, given, restored :
              reader' = [reader EXCEPT ![j].pc = pc, ![j].err = err,
                                       ![j].given = given, ![j].restored = restored]
      BY <1>6
    <2> QED  BY <1>1, <2>1 DEF ReaderFields
  <1>7. CASE \E pc : reader' = [reader EXCEPT ![j].pc = pc]
    BY <1>1, <1>7 DEF ReaderFields
  <1> QED  BY <1>2, <1>3, <1>4, <1>5, <1>6, <1>7

\* What is known of a reader that was asked for, of the output it reads and of the
\* step it takes.
LEMMA ReaderBusy ==
    ASSUME FInv, RInv, NEW j \in Jobs, reader[j].pc # "idle"
    PROVE  /\ DOMAIN reader = Jobs /\ DOMAIN reader[j] = ReaderFields /\ ReaderInv(j)
           /\ Own(j) /\ Exists(OutPath(j)) /\ (reader[j].found => Done(j))
           /\ \E blocks \in Seq(Seq(Unit)) :
                 blocks = files[OutPath(j)] /\ blocks # <<>> /\ blocks[1] = <<>>
  <1>1. /\ DOMAIN reader = Jobs /\ DOMAIN reader[j] = ReaderFields /\ ReaderInv(j)
        /\ Own(j) /\ Exists(OutPath(j)) /\ (reader[j].found => Done(j))
    BY ReaderKnown DEF ReaderInv
  <1> QED  BY <1>1, ReaderKnown DEF Header

\* OpenBlocks: the header, which has been read, holds no units.
LEMMA OpenReader ==
    ASSUME FInv, RInv, NEW j \in Jobs, OpenBlocks(j)
    PROVE  Aside(j) /\ ReaderInv(j)'
  <1>1. /\ DOMAIN reader = Jobs /\ DOMAIN reader[j] = ReaderFields /\ ReaderInv(j)
        /\ UNCHANGED <<param, ticks, input, job, comp>> /\ reader[j].pc = "open"
    BY ReaderKnown DEF OpenBlocks, Ready
  <1>2. /\ Own(j) /\ Exists(OutPath(j)) /\ reader[j].err = "none" /\ (reader[j].found => Done(j))
    BY <1>1, ReaderBusy DEF ReaderInv
  <1>3. PICK blocks \in Seq(Seq(Unit)) :
            blocks = files[OutPath(j)] /\ blocks # <<>> /\ blocks[1] = <<>>
    BY <1>1, ReaderBusy
  <1>4. /\ 1 \in 1..Len(blocks) /\ FlattenSeq(SubSeq(blocks, 1, 1)) = <<>>
    <2>1. Len(blocks) \in Nat \ {0}
      BY ONLY <1>3, BlocksRead
    <2>2. FlattenSeq(SubSeq(blocks, 1, 1)) = <<>>
      BY ONLY <1>3, BlocksRead, Zenon
    <2> QED  BY ONLY <2>1, <2>2
  <1>5. /\ DOMAIN reader' = Jobs /\ \A k \in Jobs \ {j} : reader'[k] = reader[k]
        /\ DOMAIN reader'[j] = ReaderFields
        /\ reader'[j].found = reader[j].found
    <2>1. CASE reader' = [reader EXCEPT ![j].pc = "loop", ![j].pos = 1, ![j].buff = param.buff]
      BY <2>1, ReaderRecord
    <2>2. CASE reader' = [reader EXCEPT ![j].pc = "remove", ![j].err = "out open"]
      BY <2>2, ReaderRecord
    <2> QED  BY <2>1, <2>2 DEF OpenBlocks, Fails
  <1>6. PICK r : r = reader'[j]
    OBVIOUS
  <1>7. CASE Fails(j, "out open") /\ UNCHANGED files
    <2>1. r.pc = "remove" /\ r.err = "out open"
      BY <1>1, <1>6, <1>7 DEF Fails, ReaderFields
    <2>2. Aside(j)
      BY <1>1, <1>5, <1>7, AsideStep
    <2> QED  BY <1>2, <1>3, <1>5, <1>6, <2>1, <2>2, NewReader
  <1>8. CASE /\ reader' = [reader EXCEPT ![j].pc = "loop", ![j].pos = 1, ![j].buff = param.buff]
             /\ files' = Written(UnarchivePath(j), <<>>)
    <2>1. r.pc = "loop" /\ r.err = "none" /\ r.pos = 1
      BY <1>1, <1>2, <1>6, <1>8 DEF ReaderFields
    <2>2. <<>> \in Seq(Unit)
      OBVIOUS
    <2>3. Aside(j)
      BY <1>1, <1>5, <1>8, <2>2, AsideStep
    <2>4. UnarchivePath(j) \in DOMAIN files' /\ files'[UnarchivePath(j)] = <<>>
      BY <1>8, WriteKeeps
    <2> QED  BY <1>2, <1>3, <1>4, <1>5, <1>6, <2>1, <2>3, <2>4, NewReader
  <1> QED  BY <1>7, <1>8 DEF OpenBlocks

\* UncompressBlock: the block after those that were read, of which a write that
\* fails takes the first units only.
LEMMA BlockReader ==
    ASSUME FInv, RInv, NEW j \in Jobs, UncompressBlock(j)
    PROVE  Aside(j) /\ ReaderInv(j)'
  <1>1. /\ DOMAIN reader = Jobs /\ DOMAIN reader[j] = ReaderFields /\ ReaderInv(j)
        /\ UNCHANGED <<param, ticks, input, job, comp>> /\ reader[j].pc = "loop"
    BY ReaderKnown DEF UncompressBlock, Ready
  <1>2. /\ Own(j) /\ Exists(OutPath(j)) /\ reader[j].err = "none" /\ (reader[j].found => Done(j))
    BY <1>1, ReaderBusy DEF ReaderInv
  <1>3. PICK blocks \in Seq(Seq(Unit)) : blocks = files[OutPath(j)] /\ blocks # <<>>
    BY <1>1, ReaderBusy
  <1>4. PICK n \in 1..Len(blocks) :
            /\ n = reader[j].pos
            /\ ~reader[j].bad => files[UnarchivePath(j)] = FlattenSeq(SubSeq(blocks, 1, n))
    BY <1>1, <1>3 DEF ReaderInv, UnitsBefore
  <1>5. PICK sofar \in Seq(Unit) : sofar = files[UnarchivePath(j)]
    <2>1. Exists(UnarchivePath(j)) /\ UnarchivePath(j).kind = "uncompress_tmp"
      BY <1>1 DEF ReaderInv, UnarchivePath
    <2> QED  BY ONLY <2>1, FInv DEF FInv, ContentOK, Exists
  <1>6. PICK r : r = reader'[j]
    OBVIOUS
  <1>7. CASE Fails(j, "zlib") /\ UNCHANGED files
    <2>1. r.pc = "remove" /\ r.err = "zlib"
      BY <1>1, <1>6, <1>7 DEF Fails, ReaderFields
    <2>2. /\ DOMAIN reader' = Jobs /\ \A k \in Jobs \ {j} : reader'[k] = reader[k]
          /\ DOMAIN reader'[j] = ReaderFields
          /\ reader'[j].found = reader[j].found
      BY <1>7, ReaderRecord DEF Fails
    <2>3. Aside(j)
      BY <1>1, <1>7, <2>2, AsideStep
    <2> QED  BY <1>2, <1>3, <1>6, <2>1, <2>2, <2>3, NewReader
  <1>8. ASSUME n + 1 <= Len(blocks), ~reader[j].bad,
               files' = Written(UnarchivePath(j), sofar \o blocks[n + 1]),
               reader' = [reader EXCEPT ![j].pos = n + 1]
        PROVE  Aside(j) /\ ReaderInv(j)'
    <2>0. /\ DOMAIN reader' = Jobs /\ \A k \in Jobs \ {j} : reader'[k] = reader[k]
          /\ DOMAIN reader'[j] = ReaderFields
          /\ reader'[j].found = reader[j].found
      BY <1>8, ReaderRecord
    <2>1. r.pc = "loop" /\ r.err = "none" /\ r.pos = n + 1
      BY <1>1, <1>2, <1>6, <1>8 DEF ReaderFields
    <2>2. n + 1 \in 1..Len(blocks)
      BY <1>8, BlocksRead, <1>3
    <2>3. /\ FlattenSeq(SubSeq(blocks, 1, n + 1)) \in Seq(Unit)
          /\ FlattenSeq(SubSeq(blocks, 1, n + 1)) = FlattenSeq(SubSeq(blocks, 1, n)) \o blocks[n + 1]
      BY ONLY <1>3, <1>8, <2>2, BlocksRead
    <2>4. PICK all \in Seq(Unit) :
              /\ all = FlattenSeq(SubSeq(blocks, 1, n + 1))
              /\ files' = Written(UnarchivePath(j), all)
      BY <1>4, <1>5, <1>8, <2>3
    <2>5. Aside(j)
      BY <1>1, <2>0, <2>4, AsideStep
    <2>6. UnarchivePath(j) \in DOMAIN files' /\ files'[UnarchivePath(j)] = all
      <3>1. files' = Written(UnarchivePath(j), all)
        BY <2>4
      <3> QED  BY ONLY <3>1 DEF Written
    <2>7. DOMAIN r = ReaderFields /\ (r.found => Done(j)) /\ r.pos \in 1..Len(blocks)
          /\ files'[UnarchivePath(j)] = FlattenSeq(SubSeq(blocks, 1, r.pos))
      BY ONLY <1>2, <1>6, <2>0, <2>1, <2>2, <2>4, <2>6
    <2>8. ReaderInv(j)'
      <3>1. PICK u : u = UnarchivePath(j)
        OBVIOUS
      <3>2. u \in DOMAIN files' /\ files'[u] = FlattenSeq(SubSeq(blocks, 1, r.pos))
        BY ONLY <2>6, <2>7, <3>1
      <3> QED  BY ONLY j \in Jobs, <1>2, <1>3, <1>6, <2>1, <2>5, <2>7, <3>1, <3>2, NewReader
    <2> QED  BY <2>5, <2>8
  <1>9. ASSUME n + 1 <= Len(blocks), NEW content \in Seq(Unit),
               files' = Written(UnarchivePath(j), content),
               reader' = [reader EXCEPT ![j].pos = n + 1, ![j].bad = TRUE]
        PROVE  Aside(j) /\ ReaderInv(j)'
    <2>0. /\ DOMAIN reader' = Jobs /\ \A k \in Jobs \ {j} : reader'[k] = reader[k]
          /\ DOMAIN reader'[j] = ReaderFields
          /\ reader'[j].found = reader[j].found
      BY <1>9, ReaderRecord
    <2>1. r.pc = "loop" /\ r.err = "none" /\ r.pos = n + 1 /\ r.bad
      BY <1>1, <1>2, <1>6, <1>9 DEF ReaderFields
    <2>2. n + 1 \in 1..Len(blocks)
      BY <1>9, BlocksRead, <1>3
    <2>3. Aside(j)
      BY <1>1, <1>9, <2>0, AsideStep
    <2>4. UnarchivePath(j) \in DOMAIN files'
      BY <1>9, WriteKeeps
    <2>5. ReaderInv(j)'
      BY <1>2, <1>3, <1>6, <2>0, <2>1, <2>2, <2>3, <2>4, NewReader
    <2> QED  BY <2>3, <2>5
  <1>10. ASSUME NEW found \in BlocksFound(j, n), n + 1 <= found
         PROVE  n + 1 <= Len(blocks)
    <2>1. Content(OutPath(j)) = blocks /\ Len(blocks) \in Nat
      BY <1>2, <1>3 DEF Content
    <2>2. found \in n..Len(blocks) \/ found = Len(blocks)
      BY <2>1 DEF BlocksFound
    <2> QED  BY <1>10, <2>1, <2>2
  <1>11. ASSUME n + 1 <= Len(blocks), NEW k \in 0..(Len(blocks[n + 1]) - 1)
         PROVE  sofar \o SubSeq(blocks[n + 1], 1, k) \in Seq(Unit)
    <2>1. n + 1 \in 1..Len(blocks)
      BY <1>11, BlocksRead, <1>3
    <2>2. PICK block \in Seq(Unit) : block = blocks[n + 1]
      BY <2>1
    <2>3. SubSeq(block, 1, k) \in Seq(Unit)
      <3>1. Len(block) \in Nat /\ k \in 0..(Len(block) - 1)
        BY <1>11, <2>2
      <3> QED  BY ONLY <3>1, block \in Seq(Unit)
    <2> QED  BY <2>2, <2>3
  <1>12. \/ Fails(j, "zlib") /\ UNCHANGED files
         \/ /\ n + 1 <= Len(blocks)
            /\ \/ /\ ~reader[j].bad
                  /\ files' = Written(UnarchivePath(j), sofar \o blocks[n + 1])
                  /\ reader' = [reader EXCEPT ![j].pos = n + 1]
               \/ /\ \E k \in 0..(Len(blocks[n + 1]) - 1) :
                        files' = Written(UnarchivePath(j),
                                    IF reader[j].bad THEN sofar
                                    ELSE sofar \o SubSeq(blocks[n + 1], 1, k))
                  /\ reader' = [reader EXCEPT ![j].pos = n + 1, ![j].bad = TRUE]
    <2>1. CASE BeingWritten(j) /\ Fails(j, "zlib") /\ UNCHANGED files
      BY <2>1
    <2>2. ASSUME NEW found \in BlocksFound(j, n), n + 1 <= found,
                 ~reader[j].bad, files' = Written(UnarchivePath(j), sofar \o blocks[n + 1]),
                 reader' = [reader EXCEPT ![j].pos = n + 1]
          PROVE  /\ n + 1 <= Len(blocks) /\ ~reader[j].bad
                 /\ files' = Written(UnarchivePath(j), sofar \o blocks[n + 1])
                 /\ reader' = [reader EXCEPT ![j].pos = n + 1]
      BY <1>10, <2>2
    <2>3. ASSUME NEW found \in BlocksFound(j, n), n + 1 <= found,
                 NEW written \in {sofar \o SubSeq(blocks[n + 1], 1, k) :
                                     k \in 0..(Len(blocks[n + 1]) - 1)},
                 files' = Written(UnarchivePath(j), IF reader[j].bad THEN sofar ELSE written),
                 reader' = [reader EXCEPT ![j].pos = n + 1, ![j].bad = TRUE]
          PROVE  /\ n + 1 <= Len(blocks)
                 /\ \E k \in 0..(Len(blocks[n + 1]) - 1) :
                       files' = Written(UnarchivePath(j),
                                   IF reader[j].bad THEN sofar
                                   ELSE sofar \o SubSeq(blocks[n + 1], 1, k))
                 /\ reader' = [reader EXCEPT ![j].pos = n + 1, ![j].bad = TRUE]
      BY <1>10, <2>3
    <2>4. \/ BeingWritten(j) /\ Fails(j, "zlib") /\ UNCHANGED files
          \/ Fails(j, "zlib") /\ UNCHANGED files
          \/ \E found \in BlocksFound(j, n) :
                /\ n + 1 <= found
                /\ \/ /\ ~reader[j].bad
                      /\ files' = Written(UnarchivePath(j), sofar \o blocks[n + 1])
                      /\ reader' = [reader EXCEPT ![j].pos = n + 1]
                   \/ /\ \E written \in {sofar \o SubSeq(blocks[n + 1], 1, k) :
                                            k \in 0..(Len(blocks[n + 1]) - 1)} :
                            files' = Written(UnarchivePath(j),
                                             IF reader[j].bad THEN sofar ELSE written)
                      /\ reader' = [reader EXCEPT ![j].pos = n + 1, ![j].bad = TRUE]
      BY <1>3, <1>4, <1>5 DEF UncompressBlock
    <2> QED  BY <2>1, <2>2, <2>3, <2>4
  <1>13. CASE /\ n + 1 <= Len(blocks)
              /\ \E k \in 0..(Len(blocks[n + 1]) - 1) :
                    files' = Written(UnarchivePath(j),
                                IF reader[j].bad THEN sofar
                                ELSE sofar \o SubSeq(blocks[n + 1], 1, k))
              /\ reader' = [reader EXCEPT ![j].pos = n + 1, ![j].bad = TRUE]
    <2>1. PICK content \in Seq(Unit) : files' = Written(UnarchivePath(j), content)
      BY <1>5, <1>11, <1>13
    <2> QED  BY <1>9, <1>13, <2>1
  <1> QED  BY <1>7, <1>8, <1>12, <1>13

\* BlocksEnd: an output that nobody writes has been read to its end.
LEMMA EndReader ==
    ASSUME FInv, RInv, NEW j \in Jobs, BlocksEnd(j)
    PROVE  Aside(j) /\ ReaderInv(j)'
  <1>1. /\ DOMAIN reader = Jobs /\ DOMAIN reader[j] = ReaderFields /\ ReaderInv(j)
        /\ UNCHANGED <<param, files, ticks, input, job, comp>> /\ reader[j].pc = "loop"
        /\ reader' = [reader EXCEPT ![j].pc = "dearchive"]
    BY ReaderKnown DEF BlocksEnd, Ready
  <1>2. /\ Own(j) /\ Exists(OutPath(j)) /\ reader[j].err = "none" /\ (reader[j].found => Done(j))
    BY <1>1, ReaderBusy DEF ReaderInv
  <1>3. PICK blocks \in Seq(Seq(Unit)) : blocks = files[OutPath(j)] /\ blocks # <<>>
    BY <1>1, ReaderBusy
  <1>4. PICK n \in 1..Len(blocks) :
            /\ n = reader[j].pos
            /\ UnarchivePath(j) \in DOMAIN files
            /\ ~reader[j].bad => files[UnarchivePath(j)] = FlattenSeq(SubSeq(blocks, 1, n))
    BY <1>1, <1>3 DEF ReaderInv, UnitsBefore, Exists
  <1>5. /\ DOMAIN reader' = Jobs /\ \A k \in Jobs \ {j} : reader'[k] = reader[k]
        /\ DOMAIN reader'[j] = ReaderFields
        /\ reader'[j].found = reader[j].found
    BY <1>1, ReaderRecord
  <1>6. PICK r : r = reader'[j]
    OBVIOUS
  <1>7. r.pc = "dearchive" /\ r.err = "none" /\ r.pos = n /\ r.bad = reader[j].bad
    BY <1>1, <1>2, <1>4, <1>6 DEF ReaderFields
  <1>8. reader[j].found => n = Len(blocks)
    <2> SUFFICES ASSUME reader[j].found PROVE n = Len(blocks)
      OBVIOUS
    <2>1. ~BeingWritten(j)
      BY <1>2 DEF BeingWritten, Done, At
    <2>2. Content(OutPath(j)) = blocks /\ Len(blocks) \in Nat
      BY <1>2, <1>3 DEF Content
    <2>3. BlocksFound(j, n) = {Len(blocks)}
      BY <2>1, <2>2 DEF BlocksFound
    <2>4. Len(blocks) <= n
      BY <1>4, <2>3 DEF BlocksEnd
    <2> QED  BY <2>2, <2>4
  <1>9. Aside(j)
    BY <1>1, <1>5, AsideStep
  <1>10. /\ UnarchivePath(j) \in DOMAIN files'
         /\ ~r.bad => files'[UnarchivePath(j)] = FlattenSeq(SubSeq(blocks, 1, r.pos))
    BY <1>1, <1>4, <1>7
  <1>11. DOMAIN r = ReaderFields /\ (r.found => Done(j)) /\ (r.found => r.pos = Len(blocks))
         /\ r.pos \in 1..Len(blocks)
    BY <1>2, <1>5, <1>6, <1>7, <1>8
  <1>12. ReaderInv(j)'
    BY ONLY j \in Jobs, <1>2, <1>3, <1>6, <1>7, <1>9, <1>10, <1>11, NewReader
  <1> QED  BY <1>9, <1>12

\* Dearchive is given what the temporary file holds, if it can read it.
LEMMA DearchiveReader ==
    ASSUME FInv, RInv, NEW j \in Jobs, Dearchive(j)
    PROVE  Aside(j) /\ ReaderInv(j)'
  <1>1. /\ DOMAIN reader = Jobs /\ DOMAIN reader[j] = ReaderFields /\ ReaderInv(j)
        /\ UNCHANGED <<param, files, ticks, input, job, comp>> /\ reader[j].pc = "dearchive"
    BY ReaderKnown DEF Dearchive, Ready
  <1>2. /\ Own(j) /\ Exists(OutPath(j)) /\ reader[j].err = "none" /\ (reader[j].found => Done(j))
    BY <1>1, ReaderBusy DEF ReaderInv
  <1>3. PICK blocks \in Seq(Seq(Unit)) : blocks = files[OutPath(j)] /\ blocks # <<>>
    BY <1>1, ReaderBusy
  <1>4. PICK n \in 1..Len(blocks) :
            /\ n = reader[j].pos
            /\ ~reader[j].bad => files[UnarchivePath(j)] = FlattenSeq(SubSeq(blocks, 1, n))
            /\ reader[j].found => n = Len(blocks)
    BY <1>1, <1>2, <1>3 DEF ReaderInv, UnitsBefore, Exists
  <1>5. PICK err, restored :
            reader' = [reader EXCEPT ![j].pc = "remove", ![j].err = err,
                                     ![j].given = files[UnarchivePath(j)], ![j].restored = restored]
    BY DEF Dearchive
  <1>6. /\ DOMAIN reader' = Jobs /\ \A k \in Jobs \ {j} : reader'[k] = reader[k]
        /\ DOMAIN reader'[j] = ReaderFields
        /\ reader'[j].found = reader[j].found
    BY <1>5, ReaderRecord
  <1>7. PICK r : r = reader'[j]
    OBVIOUS
  <1>8. /\ r.pc = "remove" /\ r.pos = n /\ r.bad = reader[j].bad
        /\ ~r.bad => r.given = FlattenSeq(SubSeq(blocks, 1, n))
    BY <1>1, <1>2, <1>4, <1>5, <1>7 DEF ReaderFields
  <1>9. Aside(j)
    BY <1>1, <1>6, AsideStep
  <1>10. DOMAIN r = ReaderFields /\ (r.found => Done(j)) /\ (r.found => r.pos = Len(blocks))
         /\ r.pos \in 1..Len(blocks)
         /\ (~r.bad => r.given = FlattenSeq(SubSeq(blocks, 1, r.pos)))
    BY <1>2, <1>4, <1>6, <1>7, <1>8
  <1>11. ReaderInv(j)'
    BY ONLY j \in Jobs, <1>2, <1>3, <1>7, <1>8, <1>9, <1>10, NewReader
  <1> QED  BY <1>9, <1>11

\* RemoveUnarchived: the temporary file is gone, whatever has happened.
LEMMA RemoveReader ==
    ASSUME FInv, RInv, NEW j \in Jobs, RemoveUnarchived(j)
    PROVE  Aside(j) /\ ReaderInv(j)'
  <1>1. /\ DOMAIN reader = Jobs /\ DOMAIN reader[j] = ReaderFields /\ ReaderInv(j)
        /\ UNCHANGED <<param, ticks, input, job, comp>> /\ reader[j].pc = "remove"
        /\ reader' = [reader EXCEPT ![j].pc = "done"]
        /\ files' = Without({UnarchivePath(j)})
    BY ReaderKnown DEF RemoveUnarchived, Ready
  <1>2. /\ Own(j) /\ Exists(OutPath(j)) /\ (reader[j].found => Done(j))
    BY <1>1, ReaderBusy
  <1>3. PICK blocks \in Seq(Seq(Unit)) : blocks = files[OutPath(j)] /\ blocks # <<>>
    BY <1>1, ReaderBusy
  <1>4. reader[j].err = "none" =>
            /\ reader[j].pos \in 1..Len(blocks)
            /\ ~reader[j].bad => reader[j].given = FlattenSeq(SubSeq(blocks, 1, reader[j].pos))
            /\ reader[j].found => reader[j].pos = Len(blocks)
    BY <1>1, <1>2, <1>3 DEF ReaderInv, UnitsBefore, Exists
  <1>5. /\ DOMAIN reader' = Jobs /\ \A k \in Jobs \ {j} : reader'[k] = reader[k]
        /\ DOMAIN reader'[j] = ReaderFields
        /\ reader'[j].found = reader[j].found
    BY <1>1, ReaderRecord
  <1>6. PICK r : r = reader'[j]
    OBVIOUS
  <1>7. /\ r.pc = "done" /\ r.err = reader[j].err /\ r.pos = reader[j].pos
        /\ r.given = reader[j].given /\ r.bad = reader[j].bad
    BY <1>1, <1>6 DEF ReaderFields
  <1>8. Aside(j)
    BY <1>1, <1>5, AsideStep
  <1>9. UnarchivePath(j) \notin DOMAIN files'
    BY <1>1, RemoveKeeps
  <1>10. DOMAIN r = ReaderFields /\ (r.found => Done(j))
    BY <1>2, <1>5, <1>6
  <1>11. r.err = "none" =>
             /\ r.pos \in 1..Len(blocks)
             /\ ~r.bad => r.given = FlattenSeq(SubSeq(blocks, 1, r.pos))
             /\ r.found => r.pos = Len(blocks)
    BY <1>4, <1>5, <1>6, <1>7
  <1>12. ReaderInv(j)'
    BY ONLY j \in Jobs, <1>2, <1>3, <1>6, <1>7, <1>8, <1>9, <1>10, <1>11, NewReader
  <1> QED  BY <1>8, <1>12

\* ReaderThrows: nothing is done any more.
LEMMA ThrownReader ==
    ASSUME FInv, RInv, NEW j \in Jobs, ReaderThrows(j)
    PROVE  Aside(j) /\ ReaderInv(j)'
  <1>1. /\ UNCHANGED <<param, files, ticks, input, job, comp>>
        /\ reader' = [reader EXCEPT ![j].pc = "thrown"] /\ reader[j].pc # "idle"
    BY DEF ReaderThrows, ReaderThrowing, vars
  <1>2. /\ DOMAIN reader = Jobs /\ DOMAIN reader[j] = ReaderFields
        /\ Own(j) /\ Exists(OutPath(j)) /\ (reader[j].found => Done(j))
    BY <1>1, ReaderBusy
  <1>3. /\ DOMAIN reader' = Jobs /\ \A k \in Jobs \ {j} : reader'[k] = reader[k]
        /\ DOMAIN reader'[j] = ReaderFields
        /\ reader'[j].found = reader[j].found
    BY <1>1, ReaderRecord
  <1>4. reader'[j].pc = "thrown"
    BY <1>1, <1>2 DEF ReaderFields
  <1>5. Aside(j)
    BY <1>1, <1>3, AsideStep
  <1>6. ReaderInv(j)'
    BY <1>2, <1>3, <1>4, <1>5, NewReader
  <1> QED  BY <1>5, <1>6

\* The process ends: nothing else changes.
LEMMA EndedReader ==
    ASSUME IInv, FInv, RInv, NEW j \in Jobs, ReaderEndsProcess(j)
    PROVE  Aside(j) /\ ReaderInv(j)'
  <1>1. UNCHANGED <<param, files, ticks, input, job, comp, reader>>
    BY DEF ReaderEndsProcess
  <1>2. DOMAIN reader = Jobs /\ ReaderInv(j)
    BY DEF RInv
  <1>3. Aside(j)
    BY <1>1, <1>2, AsideStep
  <1>4. SameFile(UnarchivePath(j)) /\ SameFile(OutPath(j)) /\ job'[j] = job[j]
        /\ reader'[j] = reader[j] /\ input' = input
    BY <1>1 DEF SameFile
  <1> QED  BY <1>2, <1>3, <1>4, SameGrows, ReaderStays

\* Together.
ReaderActs(j) ==
    AskUncompress(j) \/ ReaderStep(j) \/ ReaderThrows(j) \/ ReaderEndsProcess(j)

LEMMA ReaderSteps ==
    ASSUME IInv, FInv, RInv, NEW j \in Jobs, ReaderActs(j)
    PROVE  Aside(j) /\ ReaderInv(j)'
  BY AskReader, OpenReader, BlockReader, EndReader, DearchiveReader, RemoveReader,
     ThrownReader, EndedReader DEF ReaderActs, ReaderStep

-------------------------------------------------------------------------------
(* The specification: every behaviour *)

\* The temporary file of an uncompression belongs to no job, and to one reader.
LEMMA UnarchivedApart ==
    /\ \A j, k : UnarchivePath(j) = UnarchivePath(k) => j = k
    /\ \A j, k : ~Belongs(UnarchivePath(j), k)
    /\ \A j : Named(UnarchivePath(j)) /\ UnarchivePath(j).kind = "uncompress_tmp"
  <1>1. ASSUME NEW j, NEW k, UnarchivePath(j) = UnarchivePath(k)
        PROVE  j = k
    <2>1. UnarchivePath(j).time[1][1] = j /\ UnarchivePath(k).time[1][1] = k
      BY DEF UnarchivePath, Main
    <2> QED  BY <1>1, <2>1
  <1> QED  BY <1>1 DEF UnarchivePath, Belongs, OutPath, Temporary, Named

\* A step of a reader leaves the jobs and the other readers as they are.
LEMMA AsideKeeps ==
    ASSUME IInv, FInv, RInv, NEW j \in Jobs, Aside(j), ReaderInv(j)'
    PROVE  IInv' /\ FInv' /\ RInv' /\ Elsewhere
  <1>1. UNCHANGED <<param, ticks, input, job, comp>> /\ DOMAIN reader' = Jobs
        /\ \A f : f # UnarchivePath(j) => SameFile(f)
    BY DEF Aside
  <1>2. \A k : \A f : Belongs(f, k) => SameFile(f)
    BY <1>1, UnarchivedApart
  <1>0. \A k : \A f : Kept(f, k) => SameFile(f)
    BY <1>2 DEF Kept
  <1>3. IInv'
    <2>1. \A f \in DOMAIN files' : Named(f)
      BY <1>1, UnarchivedApart DEF IInv, SameFile
    <2> QED  BY ONLY <1>1, <2>1, IInv DEF IInv, JobInv, LocalInv, ThreadInv, OutPath
  <1>4. FInv'
    <2>1. ASSUME NEW k \in Jobs
          PROVE  JobFiles(k)'
      BY <1>1, <1>0, OthersStay DEF FInv
    <2>2. ASSUME NEW f \in DOMAIN files'
          PROVE  ContentOK(f)'
      <3>1. CASE f = UnarchivePath(j)
        <4>1. f.kind = "uncompress_tmp" /\ files'[f] \in Seq(Unit)
          BY <2>2, <3>1, UnarchivedApart DEF Aside
        <4> QED  BY ONLY <4>1 DEF ContentOK, Temporary
      <3>2. CASE f # UnarchivePath(j)
        <4>1. f \in DOMAIN files /\ files'[f] = files[f] /\ ContentOK(f)
          BY <1>1, <2>2, <3>2 DEF SameFile, FInv
        <4> QED  BY ONLY <4>1 DEF ContentOK
      <3> QED  BY <3>1, <3>2
    <2>3. \A p \in ticks' : p[2][1][1] = p[1][1]
      BY <1>1 DEF FInv
    <2> QED  BY ONLY <2>1, <2>2, <2>3 DEF FInv
  <1>5. ASSUME NEW k \in Jobs
        PROVE  ReaderInv(k)'
    <2>1. CASE k # j
      <3>1. SameFile(UnarchivePath(k)) /\ SameFile(OutPath(k))
        BY <1>1, <1>2, <2>1, UnarchivedApart DEF Belongs
      <3>2. Grows(k)
        BY <3>1, SameGrows
      <3>3. ReaderInv(k) /\ reader'[k] = reader[k] /\ job'[k] = job[k] /\ input' = input
        BY <1>1, <2>1 DEF RInv, Aside
      <3> QED  BY <3>1, <3>2, <3>3, ReaderStays
    <2> QED  BY <2>1
  <1>6. Elsewhere
    BY <1>1, UnarchivedApart DEF Elsewhere
  <1> QED  BY <1>1, <1>3, <1>4, <1>5, <1>6 DEF RInv

\* A step of the jobs leaves the readers as they are.
LEMMA JobsKeepReaders ==
    ASSUME IInv, FInv, RInv, [Next]_vars, reader' = reader
    PROVE  RInv'
  <1>1. ASSUME NEW k \in Jobs
        PROVE  ReaderInv(k)'
    <2>1. ReaderInv(k) /\ reader'[k] = reader[k]
      BY DEF RInv
    <2>2. CASE UNCHANGED <<files, input, job, comp>>
      <3>1. \A f : SameFile(f)
        BY <2>2 DEF SameFile
      <3>2. Grows(k)
        BY <3>1, SameGrows
      <3> QED  BY <2>1, <2>2, <3>1, <3>2, ReaderStays
    <2>3. ASSUME NEW j \in Jobs, Frame(j), ~Done(j)
          PROVE  ReaderInv(k)'
      <3>1. SameFile(UnarchivePath(k))
        BY <2>3, UnarchivedApart DEF Frame, FilesFrame
      <3>2. CASE k = j
        <4>1. Grows(k) /\ ~reader[k].found /\ input' = input
          BY <2>1, <2>3, <3>2 DEF Frame, FilesFrame, ReaderInv
        <4> QED  BY <2>1, <3>1, <4>1, ReaderStays
      <3>3. CASE k # j
        <4>1. job'[k] = job[k] /\ input' = input
          BY <2>3, <3>3 DEF Frame
        <4>2. Own(k) => SameFile(OutPath(k))
          BY <2>3, <3>3, BelongsOnce DEF Frame, FilesFrame, Belongs, Kept
        <4>3. Grows(k)
          BY <4>2, SameGrows DEF Grows
        <4>4. reader[k].found => Own(k) \/ reader[k].pc = "idle"
          BY <2>1 DEF ReaderInv
        <4>5. CASE reader[k].pc # "idle"
          BY <2>1, <3>1, <4>1, <4>2, <4>3, <4>4, <4>5, ReaderStays
        <4>6. CASE reader[k].pc = "idle"
          <5>1. (reader[k].found => Done(k)) /\ (Done(k) => Done(k)')
            BY <2>1, <4>1 DEF ReaderInv, Done, At
          <5> QED  BY ONLY <2>1, <3>1, <4>6, <5>1 DEF ReaderInv, SameFile, UnarchivePath, Main, Exists
        <4> QED  BY <4>5, <4>6
      <3> QED  BY <3>2, <3>3
    <2> QED  BY <2>2, <2>3, OneJobSteps
  <1> QED  BY <1>1 DEF RInv

\* It holds at first,
LEMMA InitRInv == ASSUME UInit PROVE IInv /\ FInv /\ RInv
  <1>1. IInv /\ FInv
    BY InitIInv, InitFInv DEF UInit
  <1>2. files = <<>>
    BY DEF UInit, Init
  <1>3. ASSUME NEW j \in Jobs
        PROVE  ReaderInv(j)
    <2>1. reader[j] = [pc |-> "idle", found |-> FALSE, buff |-> 0, pos |-> 0,
                       bad |-> FALSE, err |-> "none", given |-> <<>>, restored |-> <<>>]
      BY DEF UInit
    <2> QED  BY <1>2, <2>1 DEF ReaderInv, ReaderFields, Exists
  <1>4. DOMAIN reader = Jobs
    BY DEF UInit
  <1> QED  BY <1>1, <1>3, <1>4 DEF RInv

\* every step preserves it,
LEMMA StepRInv ==
    ASSUME IInv, FInv, RInv, [UNext]_allVars
    PROVE  IInv' /\ FInv' /\ RInv'
  <1>1. CASE [Next]_vars /\ reader' = reader
    BY <1>1, StepIInv, StepFInv, JobsKeepReaders
  <1>2. ASSUME NEW j \in Jobs, ReaderActs(j)
        PROVE  IInv' /\ FInv' /\ RInv'
    BY <1>2, ReaderSteps, AsideKeeps
  <1>3. ([Next]_vars /\ reader' = reader) \/ \E j \in Jobs : ReaderActs(j)
    BY DEF UNext, allVars, vars, ReaderActs
  <1> QED  BY <1>1, <1>2, <1>3

\* and so it always holds.
LEMMA ReadersInductive == USpec => [](IInv /\ FInv /\ RInv)
  <1>1. UInit => IInv /\ FInv /\ RInv
    BY InitRInv
  <1>2. (IInv /\ FInv /\ RInv) /\ [UNext]_allVars => (IInv /\ FInv /\ RInv)'
    BY StepRInv
  <1> QED  BY <1>1, <1>2, PTL DEF USpec

\* Exceptions and the end of the process are those of the jobs, or end it.
LEMMA ReadersEnd == USpec => []EndInv
  <1>1. UInit => EndInv
    BY DEF UInit, Init, EndInv
  <1>2. EndInv /\ [UNext]_allVars => EndInv'
    <2>1. ASSUME EndInv, NEW j \in Jobs, ReaderActs(j)
          PROVE  EndInv'
      BY <2>1 DEF EndInv, ReaderActs, AskUncompress, ReaderStep, ReaderThrows, ReaderEndsProcess, vars
    <2>2. EndInv /\ [Next]_vars => EndInv'
      BY DEF EndInv, Next, vars, JobStep, ThreadStep, JobFails, Throws, ProcessEnds
    <2>3. [UNext]_allVars => [Next]_vars \/ \E j \in Jobs : ReaderActs(j)
      BY DEF UNext, allVars, vars, ReaderActs
    <2> QED  BY <2>1, <2>2, <2>3
  <1> QED  BY <1>1, <1>2, PTL DEF USpec

\* Whatever failed, and whatever was set meanwhile, an uncompression that reports
\* success has given every block of an output that was complete to Dearchive, in
\* order, unless a write to the temporary file failed: a block that is larger than
\* the buffer, or of which only a part is found, is reported as an error.  What
\* Dearchive makes of it is another matter.
THEOREM AllBlocks == USpec => []RestoresAllBlocks
  <1>1. FInv /\ RInv => RestoresAllBlocks
    <2> SUFFICES ASSUME FInv, RInv, NEW j \in Jobs, Restored(j), reader[j].found, ~reader[j].bad
                 PROVE  reader[j].given = FlattenSeq(Content(OutPath(j)))
      BY DEF RestoresAllBlocks
    <2>1. reader[j].pc = "done" /\ reader[j].err = "none" /\ ReaderInv(j)
      BY DEF Restored, Ready, RInv
    <2>2. PICK blocks : blocks = files[OutPath(j)]
      OBVIOUS
    <2>3. /\ Own(j) /\ Exists(OutPath(j))
          /\ reader[j].given = FlattenSeq(SubSeq(blocks, 1, Len(blocks)))
      BY <2>1, <2>2 DEF ReaderInv, UnitsBefore
    <2>4. PICK T : T = Seq(Unit)
      OBVIOUS
    <2>5. blocks \in Seq(T)
      BY <2>2, <2>3, <2>4, ReaderKnown
    <2>6. SubSeq(blocks, 1, Len(blocks)) = blocks
      BY ONLY <2>5, SubSeqFull
    <2> QED  BY <2>2, <2>3, <2>6 DEF Content
  <1> QED  BY <1>1, ReadersInductive, PTL

\* Whatever failed, a job or an uncompression that has returned leaves no temporary
\* file behind: Compress removes the archive and CompressWithMT the pieces and the
\* results on every path that returns, Uncompress its file.  One that an exception
\* has left has not returned, and may leave some.
THEOREM NoneLeft == USpec => []NothingLeft
  <1>1. FInv /\ RInv => NothingLeft
    <2> SUFFICES ASSUME FInv, RInv PROVE NothingLeft
      OBVIOUS
    <2>1. ASSUME NEW f \in DOMAIN files, f.kind \in Temporary
          PROVE  ~Done(f.time[1][1])
      <3>1. ContentOK(f)
        BY DEF FInv
      <3>2. PICK j \in Jobs : j = f.time[1][1]
        BY <2>1, <3>1 DEF ContentOK
      <3>3. Places(j) /\ OfJob(f, j)
        BY <3>2 DEF FInv, JobFiles, OfJob
      <3>4. job[j].pc \in HasArchive \cup HasPieces \cup HasResults
        BY <2>1, <3>3 DEF Places, Temporary
      <3>5. "done" \notin HasArchive \cup HasPieces \cup HasResults
        BY DEF HasArchive, HasPieces, HasResults
      <3> QED  BY <3>2, <3>4, <3>5 DEF Done, At
    <2>2. ASSUME NEW j \in Jobs, Ready(j, "done")
          PROVE  ~Exists(UnarchivePath(j))
      BY <2>2 DEF RInv, ReaderInv, Ready
    <2> QED  BY <2>1, <2>2 DEF NothingLeft, Temporary
  <1> QED  BY <1>1, ReadersInductive, PTL

-------------------------------------------------------------------------------
(* The specification: where nothing fails and nobody calls Set *)

\* No block of a complete output was refused, no write failed, and Dearchive has
\* restored what it was given.
CalmReader(j) ==
    /\ reader[j].found => reader[j].err = "none"
    /\ ~reader[j].bad
    /\ reader[j].pc = "loop" => reader[j].buff = param.buff
    /\ reader[j].pc \in {"remove", "done"} /\ reader[j].err = "none" =>
          reader[j].restored = reader[j].given

ReaderCalm == \A j \in Jobs : CalmReader(j)

\* A reader does not disturb the jobs,
LEMMA AsideCalm ==
    ASSUME IInv, FInv, BInv, NEW j \in Jobs, Aside(j)
    PROVE  BInv'
  <1>1. UNCHANGED <<param, ticks, input, job, comp>>
        /\ \A f : f # UnarchivePath(j) => SameFile(f)
    BY DEF Aside
  <1>2. \A k : \A f : Kept(f, k) => SameFile(f)
    BY <1>1, UnarchivedApart DEF Kept
  <1>3. ASSUME NEW k \in Jobs
        PROVE  Calm(k)'
    <2>1. Calm(k) /\ ticks \subseteq ticks'
      BY <1>1 DEF BInv
    <2> QED  BY <1>1, <1>2, <2>1, OthersCalm
  <1>4. ClockInv'
    BY <1>1, StepClock DEF BInv
  <1> QED  BY <1>3, <1>4 DEF BInv

\* and does not fail on an output that was complete: no block is larger than the
\* buffer that is configured, which is the one it has allocated.
LEMMA CalmBlock ==
    ASSUME Undisturbed, IInv, FInv, BInv, RInv, NEW j \in Jobs, CalmReader(j), UncompressBlock(j)
    PROVE  CalmReader(j)'
  <1>1. /\ DOMAIN reader = Jobs /\ DOMAIN reader[j] = ReaderFields /\ ReaderInv(j)
        /\ reader[j].pc = "loop" /\ param' = param
    BY ReaderKnown DEF UncompressBlock, Ready
  <1>2. Own(j) /\ Exists(OutPath(j)) /\ (reader[j].found => Done(j))
    BY <1>1, ReaderBusy
  <1>3. PICK blocks \in Seq(Seq(Unit)) : blocks = files[OutPath(j)] /\ blocks # <<>>
    BY <1>1, ReaderBusy
  <1>4. PICK n \in 1..Len(blocks) : n = reader[j].pos
    BY <1>1, <1>3 DEF ReaderInv
  <1>5. Len(blocks) \in Nat /\ Content(OutPath(j)) = blocks
    BY <1>2, <1>3 DEF Content
  <1>6. CASE reader' = [reader EXCEPT ![j].pos = n + 1]
    BY <1>1, <1>6 DEF ReaderFields, CalmReader
  <1>7. CASE Fails(j, "zlib") /\ ~reader[j].found
    <2>1. /\ reader'[j].pc = "remove" /\ reader'[j].err = "zlib"
          /\ reader'[j].found = reader[j].found /\ reader'[j].bad = reader[j].bad
      BY <1>1, <1>7 DEF Fails, ReaderFields
    <2> QED  BY <1>7, <2>1 DEF CalmReader
  <1>8. ASSUME NEW found \in BlocksFound(j, n), n + 1 <= found,
               \/ blocks[n + 1] = Torn
               \/ Len(blocks[n + 1]) > param.buff
               \/ TooLarge(j, blocks[n + 1])
        PROVE  FALSE
    <2>1. found \in n..Len(blocks) \/ found = Len(blocks)
      BY <1>5 DEF BlocksFound
    <2>2. n + 1 \in 1..Len(blocks)
      BY ONLY <1>5, <1>8, <2>1
    <2>3. Fits(blocks)
      BY <1>2, <1>3 DEF BInv, Calm, CalmOutput
    <2>4. Len(blocks[n + 1]) <= param.buff /\ blocks[n + 1] # Torn
      BY ONLY <2>2, <2>3 DEF Fits
    <2>5. Len(blocks[n + 1]) \in Nat
      BY <2>2
    <2>6. param.buff \in Nat /\ reader[j].buff = param.buff
      BY <1>1, JobsAssumption DEF IInv, CalmReader
    <2>7. ~(Len(blocks[n + 1]) > param.buff)
      BY ONLY <2>4, <2>5, <2>6
    <2> QED  BY ONLY <1>8, <2>4, <2>6, <2>7 DEF TooLarge
  <1>9. reader[j].found => ~BeingWritten(j)
    BY <1>2 DEF BeingWritten, Done, At
  <1>10. \/ reader' = [reader EXCEPT ![j].pos = n + 1]
         \/ BeingWritten(j) /\ Fails(j, "zlib")
         \/ \E found \in BlocksFound(j, n) :
               /\ n + 1 <= found
               /\ \/ blocks[n + 1] = Torn
                  \/ Len(blocks[n + 1]) > param.buff
                  \/ TooLarge(j, blocks[n + 1])
    BY <1>3, <1>4 DEF UncompressBlock, Undisturbed
  <1> QED  BY <1>6, <1>7, <1>8, <1>9, <1>10

LEMMA ReaderStaysCalm ==
    ASSUME Undisturbed, IInv, FInv, BInv, RInv, NEW j \in Jobs, ReaderActs(j), CalmReader(j)
    PROVE  CalmReader(j)'
  <1>1. DOMAIN reader = Jobs /\ DOMAIN reader[j] = ReaderFields /\ ReaderInv(j)
    BY ReaderKnown
  <1>2. CASE AskUncompress(j)
    <2>1. reader[j].err = "none"
      BY <1>1, <1>2 DEF AskUncompress, Ready, ReaderInv
    <2> QED  BY <1>1, <1>2, <2>1 DEF AskUncompress, ReaderFields, CalmReader
  <1>3. CASE OpenBlocks(j)
    <2>1. reader' = [reader EXCEPT ![j].pc = "loop", ![j].pos = 1, ![j].buff = param.buff]
          /\ param' = param
      BY <1>3 DEF OpenBlocks, Undisturbed
    <2> QED  BY <1>1, <2>1 DEF ReaderFields, CalmReader
  <1>4. CASE UncompressBlock(j)
    BY <1>4, CalmBlock
  <1>5. CASE Dearchive(j)
    <2>1. reader' = [reader EXCEPT ![j].pc = "remove", ![j].err = "none",
                                   ![j].given = files[UnarchivePath(j)],
                                   ![j].restored = files[UnarchivePath(j)]]
      BY <1>5 DEF Dearchive, Undisturbed, MayResize
    <2> QED  BY <1>1, <2>1 DEF ReaderFields, CalmReader
  <1>6. CASE BlocksEnd(j)
    BY <1>1, <1>6 DEF BlocksEnd, ReaderFields, CalmReader
  <1>7. CASE RemoveUnarchived(j)
    BY <1>1, <1>7 DEF RemoveUnarchived, Ready, ReaderFields, CalmReader
  <1>8. CASE ReaderThrows(j)
    BY <1>8 DEF ReaderThrows, ReaderThrowing, Undisturbed
  <1>9. CASE ReaderEndsProcess(j)
    BY <1>9 DEF ReaderEndsProcess, CalmReader
  <1> QED  BY <1>2, <1>3, <1>4, <1>5, <1>6, <1>7, <1>8, <1>9 DEF ReaderActs, ReaderStep

AllCalm == IInv /\ FInv /\ RInv /\ BInv /\ ReaderCalm

\* All is calm at first,
LEMMA InitAllCalm == ASSUME UInit PROVE AllCalm
  <1>1. IInv /\ FInv /\ RInv /\ BInv
    BY InitRInv, InitBInv DEF UInit
  <1>2. ReaderCalm
    BY DEF UInit, ReaderCalm, CalmReader
  <1> QED  BY <1>1, <1>2 DEF AllCalm

\* every step keeps it so,
LEMMA StepAllCalm ==
    ASSUME Undisturbed, AllCalm, [UNext]_allVars
    PROVE  AllCalm'
  <1>1. IInv /\ FInv /\ RInv /\ BInv /\ ReaderCalm /\ IInv' /\ FInv' /\ RInv'
    BY StepRInv DEF AllCalm
  <1>2. CASE [Next]_vars /\ reader' = reader
    <2>1. BInv'
      BY <1>1, <1>2, StepBInv
    <2>2. param' = param
      <3>1. (\E s \in Settings : Set(s)) => FALSE
        BY DEF Set, Undisturbed
      <3>2. ASSUME NEW j \in Jobs, JobStep(j) PROVE param' = param
        BY <1>1, <3>2, JobFrame
      <3>3. ASSUME NEW j \in Jobs, NEW i \in DOMAIN comp[j], ThreadStep(j, i) PROVE param' = param
        BY <1>1, <3>3, ThreadFrame
      <3>4. UNCHANGED vars \/ (\E j \in Jobs : JobFails(j)) => param' = param
        BY DEF vars, JobFails, Throws, ProcessEnds
      <3> QED  BY <1>2, <3>1, <3>2, <3>3, <3>4 DEF Next
    <2>3. ReaderCalm'
      BY <1>1, <1>2, <2>2 DEF ReaderCalm, CalmReader
    <2> QED  BY <1>1, <2>1, <2>3 DEF AllCalm
  <1>3. ASSUME NEW j \in Jobs, ReaderActs(j)
        PROVE  AllCalm'
    <2>1. Aside(j)
      BY <1>1, <1>3, ReaderSteps
    <2>2. BInv'
      BY <1>1, <2>1, AsideCalm
    <2>3. CalmReader(j)'
      BY <1>1, <1>3, ReaderStaysCalm DEF ReaderCalm
    <2>4. param' = param /\ \A k \in Jobs \ {j} : reader'[k] = reader[k]
      BY <2>1 DEF Aside
    <2>5. ASSUME NEW k \in Jobs \ {j}
          PROVE  CalmReader(k)'
      BY <1>1, <2>4, <2>5 DEF ReaderCalm, CalmReader
    <2>6. ReaderCalm'
      BY <2>3, <2>5 DEF ReaderCalm
    <2> QED  BY <1>1, <2>2, <2>6 DEF AllCalm
  <1>4. ([Next]_vars /\ reader' = reader) \/ \E j \in Jobs : ReaderActs(j)
    BY DEF UNext, allVars, vars, ReaderActs
  <1> QED  BY <1>2, <1>3, <1>4

\* and so it remains.
LEMMA CalmInductive == ASSUME Undisturbed PROVE USpec => []AllCalm
  <1>1. UInit => AllCalm
    BY InitAllCalm
  <1>2. AllCalm /\ [UNext]_allVars => AllCalm'
    BY StepAllCalm
  <1> QED  BY <1>1, <1>2, PTL DEF USpec

\* What comes back is a part of the archive from its beginning, and all of it if
\* the job had reported success before: the output holds the archive from its
\* beginning at any time, in order, however many threads wrote it.
THEOREM InOrder == ASSUME Undisturbed PROVE USpec => []RestoresInOrder
  <1>1. AllCalm => RestoresInOrder
    <2> SUFFICES ASSUME AllCalm, NEW j \in Jobs, Restored(j)
                 PROVE  /\ IsPrefix(reader[j].restored, Archived(j))
                        /\ reader[j].found /\ job[j].err = "none" =>
                              reader[j].restored = Archived(j)
      BY DEF RestoresInOrder
    <2>1. reader[j].pc = "done" /\ reader[j].err = "none" /\ ReaderInv(j) /\ Calm(j)
          /\ reader[j].restored = reader[j].given /\ ~reader[j].bad
      BY DEF Restored, Ready, RInv, BInv, AllCalm, ReaderCalm, CalmReader
    <2>2. Own(j) /\ Exists(OutPath(j))
      BY <2>1 DEF ReaderInv
    <2>3. PICK blocks \in Seq(Seq(Unit)) : blocks = files[OutPath(j)]
      BY <2>2, ReaderKnown DEF AllCalm
    <2>4. PICK n \in 1..Len(blocks) :
              /\ reader[j].restored = FlattenSeq(SubSeq(blocks, 1, n))
              /\ reader[j].found => n = Len(blocks)
      BY <2>1, <2>2, <2>3 DEF ReaderInv, UnitsBefore
    <2>5. PICK a \in Seq(Unit) : a = Archived(j)
      BY ArchivedOK DEF AllCalm
    <2>6. IsPrefix(FlattenSeq(blocks), a)
      BY <2>1, <2>2, <2>3, <2>5 DEF Calm, CalmOutput
    <2>7. /\ FlattenSeq(SubSeq(blocks, 1, n)) \in Seq(Unit)
          /\ \E rest \in Seq(Unit) :
                FlattenSeq(blocks) = FlattenSeq(SubSeq(blocks, 1, n)) \o rest
      <3>1. PICK T : T = Seq(Unit)
        OBVIOUS
      <3>2. blocks \in Seq(T) /\ Len(blocks) \in Nat
        BY <3>1
      <3>3. SubSeq(blocks, 1, n) \in Seq(T) /\ SubSeq(blocks, n + 1, Len(blocks)) \in Seq(T)
        BY ONLY <3>2, n \in 1..Len(blocks)
      <3>4. PICK s, t \in Seq(Seq(Unit)) :
                s = SubSeq(blocks, 1, n) /\ t = SubSeq(blocks, n + 1, Len(blocks))
        BY <3>1, <3>3
      <3>5. blocks = s \o t
        <4>1. 1 \in 1..Len(blocks) + 1 /\ n \in (1 - 1)..Len(blocks)
              /\ Len(blocks) \in n..Len(blocks)
          BY ONLY <3>2, n \in 1..Len(blocks)
        <4>2. SubSeq(blocks, 1, n) \o SubSeq(blocks, n + 1, Len(blocks))
                  = SubSeq(blocks, 1, Len(blocks))
          BY ONLY <3>2, <4>1, ConcatAdjacentSubSeq, Zenon
        <4>3. SubSeq(blocks, 1, Len(blocks)) = blocks
          BY ONLY <3>2, SubSeqFull
        <4> QED  BY ONLY <3>4, <4>2, <4>3
      <3>6. FlattenSeq(s \o t) = FlattenSeq(s) \o FlattenSeq(t)
        BY ONLY FlattenConcat, s \in Seq(Seq(Unit)), t \in Seq(Seq(Unit))
      <3>7. <<>> \in Seq(Unit)
        OBVIOUS
      <3>8. FlattenSeq(s) \in Seq(Unit) /\ FlattenSeq(t) \in Seq(Unit)
        BY ONLY <3>7, FlattenAppend, s \in Seq(Seq(Unit)), t \in Seq(Seq(Unit))
      <3> QED  BY <3>4, <3>5, <3>6, <3>8
    <2>8. PICK x, rest \in Seq(Unit) :
              x = FlattenSeq(SubSeq(blocks, 1, n)) /\ FlattenSeq(blocks) = x \o rest
      BY <2>7
    <2>9. IsPrefix(x, a)
      BY ONLY <2>6, <2>8, PrefixOfPrefix, a \in Seq(Unit), x \in Seq(Unit), rest \in Seq(Unit)
    <2>10. ASSUME reader[j].found, job[j].err = "none"
           PROVE  x = a
      <3>1. Holds(OutPath(j), Archived(j))
        BY <2>1, <2>2, <2>10 DEF ReaderInv, Done, At, Calm, CalmOutput, Ended
      <3>2. FlattenSeq(blocks) = a
        BY <2>3, <2>5, <3>1 DEF Holds
      <3>3. SubSeq(blocks, 1, Len(blocks)) = blocks
        <4>1. PICK T : T = Seq(Unit)
          OBVIOUS
        <4>2. blocks \in Seq(T)
          BY <4>1
        <4> QED  BY ONLY <4>2, SubSeqFull
      <3>4. n = Len(blocks)
        BY <2>4, <2>10
      <3> QED  BY ONLY <2>8, <3>2, <3>3, <3>4
    <2> QED  BY <2>4, <2>5, <2>8, <2>9, <2>10
  <1> QED  BY <1>1, CalmInductive, PTL

\* What a job has compressed and reported as success can be uncompressed: the
\* share of the buffer that a thread gets is never larger than the buffer.
THEOREM CanUncompress == ASSUME Undisturbed PROVE USpec => []Uncompressible
  <1>1. AllCalm => Uncompressible
    BY DEF AllCalm, ReaderCalm, CalmReader, Uncompressible, Restored
  <1> QED  BY <1>1, CalmInductive, PTL

\* Uncompressing does not disturb the jobs: their types,
THEOREM TypesNextToReaders == USpec => []TypeOK
  BY TypesFollow, ReadersInductive, ReadersEnd, PTL

\* the results of their threads
THEOREM FilesApartNextToReaders == USpec => []ResultsApart
  BY ApartFollows, ReadersInductive, PTL

\* and what success on one thread means stay as they are,
THEOREM WholeNextToReaders == USpec => []SingleThreadWhole
  BY WholeFollows, ReadersInductive, PTL

\* and so does the promise to their callers.
THEOREM PromisedNextToReaders == ASSUME Undisturbed PROVE USpec => ImplementsPromise
  <1>1. UInit => Promise!Init
    BY InitPromise DEF UInit
  <1>2. AllCalm /\ AllCalm' /\ [UNext]_allVars => [Promise!Next]_(Promise!specVars)
    <2> SUFFICES ASSUME AllCalm, AllCalm', [UNext]_allVars
                 PROVE  [Promise!Next]_(Promise!specVars)
      OBVIOUS
    <2>1. IInv /\ FInv /\ RInv /\ BInv /\ BInv'
      BY DEF AllCalm
    <2>2. CASE [Next]_vars
      <3>1. UNCHANGED <<files, input, job, comp>> => Elsewhere
        BY DEF Elsewhere, SameFile
      <3> QED  BY <2>1, <2>2, <3>1, OneJobSteps, PromiseNext
    <2>3. ASSUME NEW j \in Jobs, ReaderActs(j)
          PROVE  Elsewhere
      BY <2>1, <2>3, ReaderSteps, AsideKeeps
    <2>4. [Next]_vars \/ Elsewhere
      <3>1. [Next]_vars \/ \E j \in Jobs : ReaderActs(j)
        BY DEF UNext, allVars, vars, ReaderActs
      <3> QED  BY <2>3, <3>1
    <2> QED  BY <2>1, <2>2, <2>4, PromiseNext
  <1> QED  BY <1>1, <1>2, CalmInductive, PTL DEF USpec, ImplementsPromise, Promise!Spec
================================================================================
