----------------------------- MODULE MCFileBlocks -----------------------------
(* Sizes around the multiples of every small buffer.  Word stands for 2^32 and *)
(* is larger than every count.                                                 *)
EXTENDS FileBlocks

MCSizes == 0..13
MCBuffs == 1..5
===============================================================================
