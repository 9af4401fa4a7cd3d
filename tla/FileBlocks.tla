------------------------------ MODULE FileBlocks ------------------------------
(***************************************************************************)
(* The body of one file on its way into an archive and out again:          *)
(* ArchiveOneFileOrDir measures the file, announces the size in the header *)
(* and copies the bytes a buffer at a time; DearchiveOneFileOrDir computes *)
(* from the announced size how many reads it needs and which of them is    *)
(* the short one.  Only the counts matter, some of them held in uint32_t,  *)
(* whose range is 0 .. Word - 1.                                           *)
(***************************************************************************)
EXTENDS Integers

CONSTANTS
    Sizes,      \* file sizes
    Buffs,      \* values of GetBuffSize()
    Word        \* 2^32

\* The archiver asserts that the buffer is not empty.
ASSUME BlocksAssumption ==
    /\ Sizes \subseteq Nat
    /\ Buffs \subseteq Nat \ {0}
    /\ Word \in Nat \ {0}

VARIABLES
    size,       \* length, and the ullFSize announced in the header
    buff,       \* GetBuffSize()
    pc,
    pos,        \* bytes read from the source file
    packed,     \* bytes of the file written to the archive
    left,       \* dwCnt
    restored,   \* bytes read back from the archive
    request     \* size of the latest read

vars == <<size, buff, pc, pos, packed, left, restored, request>>

Uint32(n) == n % Word

\* ceil(size * 1.0 / buff), exact for a size below 2^53.
Loops(s, b) == (s + b - 1) \div b
\* Faulty form: rounded down.
NeedReadLoopFloor == Uint32(size \div buff)
NeedReadLoop == Uint32(Loops(size, buff))
RestBytes == Uint32(size - (NeedReadLoop - 1) * buff)

Init ==
    /\ size \in Sizes
    /\ buff \in Buffs
    /\ pc = "pack"
    /\ pos = 0
    /\ packed = 0
    /\ left = 0
    /\ restored = 0
    /\ request = 0

-------------------------------------------------------------------------------
(* ArchiveOneFileOrDir *)

\* Faulty form: a short read, too, is written as a whole buffer.
PackRoundPadding ==
    /\ pc = "pack"
    /\ size > buff
    /\ pos < size
    /\ pos' = IF pos + buff <= size THEN pos + buff ELSE size
    /\ packed' = packed + buff
    /\ request' = buff
    /\ UNCHANGED <<size, buff, pc, left, restored>>

\* A file larger than the buffer: a full read is written as it is, the count
\* of a short one goes through a uint32_t.
PackRound ==
    /\ pc = "pack"
    /\ size > buff
    /\ pos < size
    /\ \/ /\ pos + buff <= size
          /\ pos' = pos + buff
          /\ packed' = packed + buff
       \/ /\ pos + buff > size
          /\ pos' = size
          /\ packed' = packed + Uint32(size - pos)
    /\ request' = buff
    /\ UNCHANGED <<size, buff, pc, left, restored>>

\* Faulty form: waits to be beyond the end.
PackEndBeyond ==
    /\ pc = "pack"
    /\ size > buff
    /\ pos > size
    /\ pc' = "unpack"
    /\ left' = NeedReadLoop
    /\ UNCHANGED <<size, buff, pos, packed, restored, request>>

\* The end of the file; dwCnt is then computed from the header.
PackEnd ==
    /\ pc = "pack"
    /\ size > buff
    /\ pos = size
    /\ pc' = "unpack"
    /\ left' = NeedReadLoop
    /\ UNCHANGED <<size, buff, pos, packed, restored, request>>

\* A file no larger than the buffer is one read here ...
PackOnce ==
    /\ pc = "pack"
    /\ size <= buff
    /\ pos' = size
    /\ packed' = Uint32(size)
    /\ request' = buff
    /\ pc' = "unpack once"
    /\ UNCHANGED <<size, buff, left, restored>>

-------------------------------------------------------------------------------
(* DearchiveOneFileOrDir *)

\* ... and one there, with a buffer of just its size, unless it is empty.
UnpackOnce ==
    /\ pc = "unpack once"
    /\ restored' = size
    /\ request' = size
    /\ pc' = "done"
    /\ UNCHANGED <<size, buff, pos, packed, left>>

\* while(dwCnt--): the short read is the one with dwCnt = 1, that is the last
\* but one; the full read with dwCnt = 0 comes after it.
UnpackRound ==
    /\ pc = "unpack"
    /\ left > 0
    /\ left' = left - 1
    /\ request' = IF left' # 1 THEN buff ELSE RestBytes
    /\ restored' = restored + request'
    /\ UNCHANGED <<size, buff, pc, pos, packed>>

UnpackEnd ==
    /\ pc = "unpack"
    /\ left = 0
    /\ pc' = "done"
    /\ UNCHANGED <<size, buff, pos, packed, left, restored, request>>

Next ==
    \/ PackRound \/ PackEnd \/ PackOnce
    \/ UnpackOnce \/ UnpackRound \/ UnpackEnd

Spec == Init /\ [][Next]_vars /\ WF_vars(Next)

-------------------------------------------------------------------------------
(* Properties *)

TypeOK ==
    /\ size \in Sizes
    /\ buff \in Buffs
    /\ pc \in {"pack", "unpack", "unpack once", "done"}
    /\ pos \in Nat
    /\ packed \in Nat
    /\ left \in Nat
    /\ restored \in Nat
    /\ request \in Nat

\* The values of uint32_t can hold the counts: a buffer is smaller than 4 GiB
\* and no file takes 2^32 reads.
FitsWord == \A s \in Sizes, b \in Buffs : b < Word /\ Loops(s, b) < Word

\* The archive holds as many bytes of the file as its header announces;
\* otherwise the reader would look for the next header at the wrong place.
PackedWhole == pc # "pack" => packed = size

\* No read is larger than the buffer it goes into.
ReadsFit == request <= buff

\* The reader never reads beyond the entry into the header that follows it.
WithinEntry == restored <= size

\* In the end it has read exactly the entry, in spite of the order of the
\* short read and the last full one.
RestoredWhole == pc = "done" => restored = size

\* Both loops end.
Ends == <>(pc = "done")
===============================================================================
