--------------------------- MODULE FileBlocks_proofs ---------------------------
(***************************************************************************)
(* The loops of the archiver and the dearchiver are right for every file   *)
(* size and every buffer size, as long as uint32_t can hold their counts.  *)
(***************************************************************************)
EXTENDS FileBlocks, TLAPS

\* The reader has left reads to do.  Before the short read it has read whole
\* buffers only; after it, all but one buffer of the entry.
ReadBackInv ==
    pc = "unpack" =>
        /\ size > buff
        /\ left <= NeedReadLoop
        /\ left > 1 => restored = (NeedReadLoop - left) * buff
        /\ left = 1 => restored = size - buff
        /\ left = 0 => restored = size

IInv ==
    /\ TypeOK
    /\ pc \in {"pack", "unpack once"} => restored = 0
    /\ pc = "pack" => pos <= size /\ packed = pos
    /\ pc = "unpack once" => size <= buff
    /\ PackedWhole
    /\ ReadsFit
    /\ ReadBackInv
    /\ RestoredWhole

\* Integer division as the reals would have it.
LEMMA DivBounds ==
  ASSUME NEW a \in Nat, NEW b \in Nat \ {0}
  PROVE  /\ a \div b \in Nat
         /\ (a \div b) * b <= a
         /\ a < (a \div b) * b + b
BY SMT

\* A number that fits is stored as it is.
LEMMA WordStores ==
  ASSUME BlocksAssumption, NEW n \in Nat, n < Word
  PROVE  Uint32(n) = n
BY SMT DEF BlocksAssumption, Uint32

\* For a file larger than the buffer the loop count is the least number of
\* buffers that hold the file, it is at least 2, and neither it nor the size of
\* the short read changes when it is stored.
LEMMA LoopCount ==
  ASSUME BlocksAssumption, FitsWord, size \in Sizes, buff \in Buffs, size > buff
  PROVE  /\ NeedReadLoop \in Nat
         /\ NeedReadLoop >= 2
         /\ (NeedReadLoop - 1) * buff < size
         /\ size <= NeedReadLoop * buff
         /\ RestBytes = size - (NeedReadLoop - 1) * buff
         /\ RestBytes \in 1..buff
<1> DEFINE n == Loops(size, buff)
<1>1. size \in Nat /\ buff \in Nat \ {0} /\ size + buff - 1 \in Nat
  BY DEF BlocksAssumption
<1>2. /\ n \in Nat
      /\ n * buff <= size + buff - 1
      /\ size + buff - 1 < n * buff + buff
  BY <1>1, DivBounds DEF Loops
<1>3. NeedReadLoop = n
  BY <1>2, WordStores DEF NeedReadLoop, FitsWord
<1>4. (n - 1) * buff = n * buff - buff
  BY <1>1, <1>2, SMT
<1>5. n >= 2
  <2>1. n # 0
    BY <1>1, <1>2, SMT
  <2>2. n # 1
    BY <1>1, <1>2, SMT
  <2> QED BY <1>2, <2>1, <2>2
<1>6. n * buff \in Nat /\ (n - 1) * buff \in Nat
  BY <1>1, <1>2, <1>5, SMT
<1> HIDE DEF n
<1>7. size - (n - 1) * buff \in 1..buff
  BY <1>1, <1>2, <1>4, <1>6
<1>8. size - (n - 1) * buff < Word
  BY <1>1, <1>7 DEF FitsWord, BlocksAssumption
<1>9. RestBytes = size - (n - 1) * buff
  BY <1>3, <1>7, <1>8, WordStores DEF RestBytes
<1> QED BY <1>1, <1>2, <1>3, <1>4, <1>5, <1>6, <1>7, <1>9

LEMMA InitInv == BlocksAssumption /\ Init => IInv
BY DEF BlocksAssumption, Init, IInv, TypeOK, PackedWhole, ReadsFit, ReadBackInv, RestoredWhole

LEMMA StepInv ==
  ASSUME BlocksAssumption, FitsWord
  PROVE  IInv /\ [Next]_vars => IInv'
<1> SUFFICES ASSUME IInv, [Next]_vars PROVE IInv'
  OBVIOUS
<1>s. size \in Sizes /\ buff \in Buffs
  BY DEF IInv, TypeOK
<1>t. /\ size \in Nat /\ buff \in Nat \ {0} /\ Word \in Nat /\ buff < Word
      /\ pos \in Nat /\ packed \in Nat /\ left \in Nat
      /\ restored \in Nat /\ request \in Nat
  BY <1>s DEF BlocksAssumption, FitsWord, IInv, TypeOK
<1>h. /\ pc \in {"pack", "unpack once"} => restored = 0
      /\ pc = "pack" => pos <= size /\ packed = pos
      /\ pc = "unpack once" => size <= buff
      /\ pc # "pack" => packed = size
      /\ request <= buff
  BY DEF IInv, PackedWhole, ReadsFit
<1>1. CASE PackRound
  <2>1. /\ pc = "pack" /\ size > buff /\ pos < size
        /\ UNCHANGED <<size, buff, pc, left, restored>> /\ request' = buff
        /\ \/ pos + buff <= size /\ pos' = pos + buff /\ packed' = packed + buff
           \/ pos + buff > size /\ pos' = size /\ packed' = packed + Uint32(size - pos)
    BY <1>1 DEF PackRound
  <2>2. pos' \in Nat /\ pos' <= size /\ packed' = pos'
    <3>1. CASE pos + buff <= size
      BY <1>t, <1>h, <2>1, <3>1
    <3>2. CASE pos + buff > size
      <4>1. size - pos \in Nat /\ size - pos < Word
        BY <1>t, <2>1, <3>2
      <4>2. Uint32(size - pos) = size - pos
        BY <4>1, WordStores
      <4> QED BY <1>t, <1>h, <2>1, <3>2, <4>2
    <3> QED BY <1>t, <3>1, <3>2
  <2> QED
    BY <1>s, <1>t, <1>h, <2>1, <2>2
    DEF IInv, TypeOK, PackedWhole, ReadsFit, ReadBackInv, RestoredWhole
<1>2. CASE PackEnd
  <2>1. /\ pc = "pack" /\ size > buff /\ pos = size
        /\ pc' = "unpack" /\ left' = NeedReadLoop /\ NeedReadLoop' = NeedReadLoop
        /\ UNCHANGED <<size, buff, pos, packed, restored, request>>
    BY <1>2 DEF PackEnd, NeedReadLoop
  <2>2. NeedReadLoop \in Nat /\ NeedReadLoop >= 2
    BY <1>s, <2>1, LoopCount
  <2>3. (NeedReadLoop - left') * buff = 0
    BY <1>t, <2>1, <2>2
  <2>4. ReadBackInv'
    BY <1>t, <1>h, <2>1, <2>2, <2>3 DEF ReadBackInv
  <2> QED
    BY <1>s, <1>t, <1>h, <2>1, <2>2, <2>4
    DEF IInv, TypeOK, PackedWhole, ReadsFit, RestoredWhole
<1>3. CASE PackOnce
  <2>1. pc = "pack" /\ size <= buff
    BY <1>3 DEF PackOnce
  <2>2. size < Word
    BY <1>t, <2>1
  <2>3. Uint32(size) = size
    BY <1>t, <2>2, WordStores
  <2>4. /\ size' = size /\ size \in Nat /\ buff' = buff /\ buff \in Nat
        /\ pos' = size /\ packed' = size /\ request' = buff /\ pc' = "unpack once"
        /\ left' = left /\ left \in Nat /\ restored' = 0
    BY <1>3, <1>t, <1>h, <2>1, <2>3 DEF PackOnce
  <2>5. TypeOK'
    BY <1>s, <2>4 DEF TypeOK
  <2>6. /\ pc' \in {"pack", "unpack once"} => restored' = 0
        /\ pc' = "pack" => pos' <= size' /\ packed' = pos'
        /\ pc' = "unpack once" => size' <= buff'
    BY <1>t, <2>1, <2>4
  <2>7. PackedWhole' /\ ReadBackInv' /\ RestoredWhole'
    BY <2>4 DEF PackedWhole, ReadBackInv, RestoredWhole
  <2>8. ReadsFit'
    <3>1. buff <= buff
      BY <1>t
    <3> QED BY <2>4, <3>1, Zenon DEF ReadsFit
  <2> QED BY <2>5, <2>6, <2>7, <2>8 DEF IInv
<1>4. CASE UnpackOnce
  BY <1>4, <1>s, <1>t, <1>h
  DEF UnpackOnce, IInv, TypeOK, PackedWhole, ReadsFit, ReadBackInv, RestoredWhole
<1>5. CASE UnpackRound
  <2>1. /\ left > 0 /\ left' = left - 1 /\ NeedReadLoop' = NeedReadLoop
        /\ pc = "unpack" /\ pc' = "unpack"
        /\ UNCHANGED <<size, buff, pos, packed>>
        /\ request' = IF left' # 1 THEN buff ELSE RestBytes
        /\ restored' = restored + request'
    BY <1>5 DEF UnpackRound, NeedReadLoop
  <2>2. /\ size > buff
        /\ left <= NeedReadLoop
        /\ left > 1 => restored = (NeedReadLoop - left) * buff
        /\ left = 1 => restored = size - buff
    BY <2>1 DEF IInv, ReadBackInv
  <2>3. /\ NeedReadLoop \in Nat /\ NeedReadLoop >= 2
        /\ RestBytes = size - (NeedReadLoop - 1) * buff
        /\ RestBytes \in 1..buff
    BY <1>s, <2>2, LoopCount
  <2>4. ReadBackInv' /\ request' <= buff /\ request' \in Nat /\ restored' \in Nat
    <3>1. CASE left > 2
      <4>1. restored = (NeedReadLoop - left) * buff /\ request' = buff
        BY <1>t, <2>1, <2>2, <3>1
      <4>2. (NeedReadLoop - left) * buff + buff = (NeedReadLoop - left') * buff
        <5>1. NeedReadLoop - left' = (NeedReadLoop - left) + 1 /\ NeedReadLoop - left \in Nat
          BY <1>t, <2>1, <2>2, <2>3
        <5> QED BY <1>t, <5>1
      <4>3. restored' = (NeedReadLoop - left') * buff
        BY <2>1, <4>1, <4>2
      <4> QED BY <1>t, <2>1, <2>2, <2>3, <3>1, <4>1, <4>3 DEF ReadBackInv
    <3>2. CASE left = 2
      <4>1. restored = (NeedReadLoop - 2) * buff /\ request' = RestBytes
        BY <2>1, <2>2, <3>2
      <4>2. (NeedReadLoop - 2) * buff = (NeedReadLoop - 1) * buff - buff
        BY <1>t, <2>3
      <4>3. (NeedReadLoop - 1) * buff \in Nat
        BY <1>t, <2>3
      <4>4. restored' = size - buff
        BY <1>t, <2>1, <2>3, <4>1, <4>2, <4>3
      <4> QED BY <1>t, <2>1, <2>2, <2>3, <3>2, <4>1, <4>4 DEF ReadBackInv
    <3>3. CASE left = 1
      <4>1. restored' = size /\ request' = buff
        BY <1>t, <2>1, <2>2, <3>3
      <4> QED BY <1>t, <2>1, <2>2, <2>3, <3>3, <4>1 DEF ReadBackInv
    <3> QED BY <1>t, <2>1, <3>1, <3>2, <3>3
  <2> QED
    BY <1>s, <1>t, <1>h, <2>1, <2>4
    DEF IInv, TypeOK, PackedWhole, ReadsFit, RestoredWhole
<1>6. CASE UnpackEnd
  <2>1. restored = size
    BY <1>6 DEF UnpackEnd, IInv, ReadBackInv
  <2> QED
    BY <1>6, <1>s, <1>t, <1>h, <2>1
    DEF UnpackEnd, IInv, TypeOK, PackedWhole, ReadsFit, ReadBackInv, RestoredWhole
<1>7. CASE UNCHANGED vars
  <2>1. NeedReadLoop' = NeedReadLoop
    BY <1>7 DEF vars, NeedReadLoop
  <2> QED
    BY <1>7, <2>1
    DEF vars, IInv, TypeOK, PackedWhole, ReadsFit, ReadBackInv, RestoredWhole
<1> QED BY <1>1, <1>2, <1>3, <1>4, <1>5, <1>6, <1>7 DEF Next

\* The counts stay what the loops take them for.
THEOREM Invariance ==
  ASSUME BlocksAssumption, FitsWord
  PROVE  Spec => []IInv
BY InitInv, StepInv, PTL DEF Spec

\* The archive holds as many bytes of a file as its header announces
\* (ArchiveOneFileOrDir, both branches).
THEOREM PackedWholeAlways ==
  ASSUME BlocksAssumption, FitsWord
  PROVE  Spec => []PackedWhole
<1>1. IInv => PackedWhole
  BY DEF IInv
<1> QED BY <1>1, Invariance, PTL

\* No read of either loop is larger than its buffer.
THEOREM ReadsFitAlways ==
  ASSUME BlocksAssumption, FitsWord
  PROVE  Spec => []ReadsFit
<1>1. IInv => ReadsFit
  BY DEF IInv
<1> QED BY <1>1, Invariance, PTL

\* DearchiveOneFileOrDir never reads into the next entry.
THEOREM WithinEntryAlways ==
  ASSUME BlocksAssumption, FitsWord
  PROVE  Spec => []WithinEntry
<1>1. ASSUME IInv PROVE WithinEntry
  <2>0. size \in Sizes /\ buff \in Buffs
    BY <1>1 DEF IInv, TypeOK
  <2>1. size \in Nat /\ buff \in Nat \ {0} /\ left \in Nat
    BY <1>1, <2>0 DEF BlocksAssumption, IInv, TypeOK
  <2>2. CASE pc = "unpack" /\ left > 1
    <3>1. /\ size > buff /\ left <= NeedReadLoop
          /\ restored = (NeedReadLoop - left) * buff
      BY <1>1, <2>2 DEF IInv, ReadBackInv
    <3>2. NeedReadLoop \in Nat /\ (NeedReadLoop - 1) * buff < size
      BY <2>0, <3>1, LoopCount
    <3>3. NeedReadLoop - left \in Nat /\ NeedReadLoop - 1 \in Nat
      BY <2>1, <2>2, <3>1, <3>2
    <3>4. (NeedReadLoop - left) * buff <= (NeedReadLoop - 1) * buff
      BY <2>1, <2>2, <3>2, <3>3
    <3>5. (NeedReadLoop - left) * buff \in Nat /\ (NeedReadLoop - 1) * buff \in Nat
      BY <2>1, <3>3
    <3> HIDE DEF NeedReadLoop
    <3> QED BY <2>1, <3>1, <3>2, <3>4, <3>5 DEF WithinEntry
  <2>3. CASE pc = "unpack" /\ left \in {0, 1}
    <3>1. restored = size \/ restored = size - buff
      BY <1>1, <2>3 DEF IInv, ReadBackInv
    <3> QED BY <2>1, <3>1 DEF WithinEntry
  <2>4. CASE pc # "unpack"
    <3>1. restored = 0 \/ restored = size
      BY <1>1, <2>4 DEF IInv, TypeOK, RestoredWhole
    <3> QED BY <2>1, <3>1 DEF WithinEntry
  <2> QED BY <2>1, <2>2, <2>3, <2>4
<1> QED BY <1>1, Invariance, PTL

\* Whatever the order of the short read and the last full one, the reads of
\* DearchiveOneFileOrDir add up to the announced size.
THEOREM RestoredWholeAlways ==
  ASSUME BlocksAssumption, FitsWord
  PROVE  Spec => []RestoredWhole
<1>1. IInv => RestoredWhole
  BY DEF IInv
<1> QED BY <1>1, Invariance, PTL
===============================================================================
