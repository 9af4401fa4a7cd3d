------------------------- MODULE ArchiveStream_proofs -------------------------
(***************************************************************************)
(* For any trees, any changes of size and any buffer: the archive is one   *)
(* segment after the other, each a header and the bytes of its file in     *)
(* order, and a reader that starts at a segment whose header tells the     *)
(* truth ends at the next one.                                             *)
(***************************************************************************)
EXTENDS ArchiveStream, FiniteSetTheorems, SequenceTheorems, TLAPS

-------------------------------------------------------------------------------
(* The inductive invariant *)

Tokens ==
    {Header(e, type, size) : e \in Entries, type \in {"file", "dir"}, size \in Nat}
        \cup {<<"byte", e, k>> : e \in Entries, k \in Nat}

ShapeInv ==
    /\ tree \in Trees /\ tree \in Seq([type : EntryTypes, size : Nat])
    /\ now \in [Entries -> Nat]
    /\ stream \in Seq(Tokens)
    /\ entry \in Nat \ {0}
    /\ measured \in [Entries -> Nat \cup {NotMeasured}]
    /\ pos \in Nat
    /\ open \in BOOLEAN
    /\ nError \in {"none", "file system", "unknown", "not exist"}
    /\ pc \in {"archive", "thrown", "restore", "done", "lost"}
    /\ open => pc = "archive" /\ entry \in Files
    /\ open /\ measured[entry] <= Buff => pos = 0

\* The entry has a header in the archive.
Begun(e) ==
    /\ e \in Entries /\ tree[e].type \in {"file", "dir", "unreadable"}
    /\ e < entry \/ (open /\ e = entry)

\* Its header.
HeaderOf(e) ==
    CASE tree[e].type = "file" -> Header(e, "file", measured[e])
      [] tree[e].type = "dir" -> Header(e, "dir", 0)
      [] OTHER -> Header(e, "file", Huge)

\* The archive consists of n segments, segment k being that of entry P[k] at
\* off[k] + 1 .. off[k + 1].
Places(n, P, off) ==
    /\ n \in Nat
    /\ P \in [1..n -> Nat]
    /\ off \in [1..(n + 1) -> Nat]
    /\ off[1] = 0 /\ off[n + 1] = Len(stream)
    /\ \A i, k \in 1..n : i < k => P[i] < P[k]
    /\ \A i, k \in 1..(n + 1) : i < k => off[i] < off[k]
    /\ \A e \in Nat : Begun(e) <=> \E k \in 1..n : P[k] = e
    /\ \A x \in 1..Len(stream) : \E k \in 1..n : off[k] < x /\ x <= off[k + 1]

\* How many bytes segment k holds.
Held(off, k) == off[k + 1] - off[k] - 1

Segments(n, P, off) ==
    \A k \in 1..n :
        /\ stream[off[k] + 1] = HeaderOf(P[k])
        /\ \A i \in 1..Held(off, k) : stream[off[k] + 1 + i] = <<"byte", P[k], i>>
        /\ tree[P[k]].type # "file" => Held(off, k) = 0
        /\ tree[P[k]].type = "file" => measured[P[k]] \in Nat

\* The file being archived is the last, and what of it was read is there.
LastInv(n, P, off) ==
    open => n # 0 /\ P[n] = entry /\ pos = Held(off, n)

\* A file that has the size it had at first has been measured so, and one that
\* has the size it was measured with has been copied so.
SizeInv(n, P, off) ==
    \A k \in 1..n :
        LET e == P[k]
        IN  tree[e].type = "file" =>
                /\ now[e] = tree[e].size => measured[e] = now[e]
                /\ now[e] = measured[e] =>
                    /\ e < entry => Held(off, k) = measured[e]
                    /\ open /\ e = entry => Held(off, k) <= measured[e]

ArchiveInv(n, P, off) ==
    /\ Places(n, P, off) /\ Segments(n, P, off) /\ LastInv(n, P, off) /\ SizeInv(n, P, off)

\* The headers of the first m segments tell the truth.
Calm(m, P, off) ==
    \A k \in 1..m :
        /\ tree[P[k]].type # "unreadable"
        /\ tree[P[k]].type = "file" => Held(off, k) = measured[P[k]]

ReadShape ==
    /\ rpos \in 0..Len(stream)
    /\ \E S : restored \in Seq(S)
    /\ \A k \in DOMAIN restored : restored[k][1] \in Entries
    /\ pc = "archive" => rpos = 0 /\ restored = <<>>

\* As long as headers tell the truth the reader goes from segment to segment.
ReadInv(n, P, off) ==
    \A m \in 1..n : Calm(m, P, off) =>
        /\ Len(restored) < m => rpos = off[Len(restored) + 1] /\ pc \notin {"done", "lost"}
        /\ \A k \in 1..m : k <= Len(restored) => IntactAs(P[k], restored[k])

IInv ==
    /\ ShapeInv /\ ReadShape
    /\ \E n, P, off : ArchiveInv(n, P, off) /\ ReadInv(n, P, off)

-------------------------------------------------------------------------------
(* Archiving *)

\* A block of a file is its bytes in order.
LEMMA TokensInOrder ==
    ASSUME NEW e \in Entries, NEW lo \in Nat, NEW hi \in Nat, lo <= hi
    PROVE  /\ Bytes(e, lo, hi) \in Seq(Tokens)
           /\ Len(Bytes(e, lo, hi)) = hi - lo
           /\ \A i \in 1..(hi - lo) : Bytes(e, lo, hi)[i] = <<"byte", e, lo + i>>
  <1>1. \A k \in Nat : <<"byte", e, k>> \in Tokens
    BY DEF Tokens
  <1>2. \A i \in 1..(hi - lo) : lo + i \in Nat
    OBVIOUS
  <1>3. Bytes(e, lo, hi) \in [1..(hi - lo) -> Tokens]
    BY <1>1, <1>2 DEF Bytes
  <1>4. hi - lo \in Nat
    OBVIOUS
  <1>5. Bytes(e, lo, hi) \in Seq(Tokens) /\ Len(Bytes(e, lo, hi)) = hi - lo
    BY <1>3, <1>4
  <1> QED  BY <1>5 DEF Bytes

\* As long as nothing is read there is nothing to be said about the reader.
LEMMA NothingRead ==
    ASSUME NEW n, NEW P, NEW off, Places(n, P, off), ReadShape, pc = "archive"
    PROVE  ReadInv(n, P, off)
  BY DEF ReadInv, ReadShape, Places

\* An entry gets its header at the end of the archive.
LEMMA NewSegment ==
    ASSUME NEW n, NEW P, NEW off, NEW e, ShapeInv, ArchiveInv(n, P, off), ~open,
           e = entry, entry \in Entries, tree[entry].type \in {"file", "dir", "unreadable"},
           UNCHANGED <<tree, now>>,
           stream' = Append(stream, HeaderOf(e)'),
           measured' \in [Entries -> Nat \cup {NotMeasured}],
           \A d \in Entries \ {e} : measured'[d] = measured[d],
           IF tree[entry].type = "file"
             THEN open' /\ entry' = entry /\ pos' = 0 /\ measured'[entry] = now[entry]
             ELSE ~open' /\ entry' = entry + 1
    PROVE  \E m, Q, to : ArchiveInv(m, Q, to)'
  <1>1. PICK len : e = entry /\ len = Len(stream)
    OBVIOUS
  <1>2. PICK Q, to :
            /\ Q = [i \in 1..(n + 1) |-> IF i = n + 1 THEN e ELSE P[i]]
            /\ to = [i \in 1..(n + 2) |-> IF i = n + 2 THEN len + 1 ELSE off[i]]
    OBVIOUS
  <1>a. /\ n \in Nat /\ P \in [1..n -> Nat] /\ off \in [1..(n + 1) -> Nat]
        /\ off[n + 1] = len /\ off[1] = 0
        /\ \A i, k \in 1..n : i < k => P[i] < P[k]
        /\ \A i, k \in 1..(n + 1) : i < k => off[i] < off[k]
        /\ \A x \in Nat : Begun(x) <=> \E k \in 1..n : P[k] = x
        /\ \A x \in 1..len : \E k \in 1..n : off[k] < x /\ x <= off[k + 1]
    BY <1>1 DEF ArchiveInv, Places
  <1>b. e \in Nat /\ stream \in Seq(Tokens) /\ now \in [Entries -> Nat]
    BY <1>1 DEF ShapeInv
  <1>c. \A i \in 1..(n + 1) : off[i] <= len
    <2> SUFFICES ASSUME NEW i \in 1..(n + 1), i # n + 1 PROVE off[i] <= off[n + 1]
      BY <1>a
    <2>1. i \in 1..(n + 1) /\ n + 1 \in 1..(n + 1) /\ i < n + 1
      BY <1>a
    <2>2. off[i] < off[n + 1]
      BY <1>a, <2>1
    <2>3. off[i] \in Nat /\ off[n + 1] \in Nat
      BY <1>a, <2>1
    <2> QED  BY <2>2, <2>3
  <1>3. len \in Nat
    BY <1>1, <1>b
  <1>4. /\ Q \in [1..(n + 1) -> Nat] /\ Q[n + 1] = e
        /\ \A i \in 1..n : Q[i] = P[i]
    <2>1. \A i \in 1..(n + 1) : i # n + 1 => i \in 1..n
      BY ONLY <1>a
    <2>2. \A i \in 1..(n + 1) : (IF i = n + 1 THEN e ELSE P[i]) \in Nat
      BY ONLY <1>a, <1>b, <2>1
    <2>3. n + 1 \in 1..(n + 1) /\ \A i \in 1..n : i \in 1..(n + 1) /\ i # n + 1
      BY ONLY <1>a
    <2> QED  BY ONLY <1>2, <2>2, <2>3
  <1>5. /\ to \in [1..(n + 2) -> Nat] /\ to[n + 2] = len + 1 /\ to[1] = 0
        /\ \A i \in 1..(n + 1) : to[i] = off[i]
    <2>1. \A i \in 1..(n + 2) : i # n + 2 => i \in 1..(n + 1)
      BY ONLY <1>a
    <2>2. \A i \in 1..(n + 2) : (IF i = n + 2 THEN len + 1 ELSE off[i]) \in Nat
      BY ONLY <1>a, <1>3, <2>1
    <2>3. n + 2 \in 1..(n + 2) /\ \A i \in 1..(n + 1) : i \in 1..(n + 2) /\ i # n + 2
      BY ONLY <1>a
    <2>4. 1 \in 1..(n + 1)
      BY ONLY <1>a
    <2> QED  BY ONLY <1>2, <1>a, <2>2, <2>3, <2>4
  <1>6. /\ Len(stream') = len + 1 /\ stream'[len + 1] = HeaderOf(e)'
        /\ \A x \in 1..len : stream'[x] = stream[x]
    <2>1. stream' = Append(stream, HeaderOf(e)')
      BY <1>1
    <2> QED  BY ONLY <1>1, <1>b, <2>1
  <1>7. \A x \in Nat : Begun(x)' <=> Begun(x) \/ x = e
    <2> SUFFICES ASSUME NEW x \in Nat PROVE Begun(x)' <=> Begun(x) \/ x = e
      OBVIOUS
    <2>1. e \in Entries /\ tree[e].type \in {"file", "dir", "unreadable"} /\ tree' = tree
      BY <1>1
    <2>2. CASE tree[e].type = "file"
      <3>1. open' /\ entry' = e
        BY <1>1, <2>2
      <3> QED  BY ONLY <1>1, <1>b, <2>1, <3>1, ~open, x \in Nat DEF Begun, Entries
    <2>3. CASE tree[e].type # "file"
      <3>1. ~open' /\ entry' = e + 1
        BY <1>1, <2>3
      <3> QED  BY ONLY <1>1, <1>b, <2>1, <3>1, ~open, x \in Nat DEF Begun, Entries
    <2> QED  BY <2>2, <2>3
  <1>8. \A k \in 1..n : P[k] \in Entries /\ P[k] < e /\ P[k] \in Nat
    <2> SUFFICES ASSUME NEW k \in 1..n PROVE P[k] \in Entries /\ P[k] < e /\ P[k] \in Nat
      OBVIOUS
    <2>1. P[k] \in Nat
      BY <1>a
    <2>2. Begun(P[k])
      BY ONLY <1>a, <2>1, k \in 1..n
    <2> QED  BY <1>1, <2>1, <2>2 DEF Begun
  <1>9. \A k \in 1..n : HeaderOf(P[k])' = HeaderOf(P[k]) /\ measured'[P[k]] = measured[P[k]]
    <2> SUFFICES ASSUME NEW k \in 1..n
                 PROVE  HeaderOf(P[k])' = HeaderOf(P[k]) /\ measured'[P[k]] = measured[P[k]]
      OBVIOUS
    <2>1. P[k] \in Entries /\ P[k] # e
      BY <1>8, <1>b
    <2>2. measured'[P[k]] = measured[P[k]]
      BY <1>1, <2>1
    <2> QED  BY <2>2 DEF HeaderOf, Header
  <1>10. Held(to, n + 1) = 0 /\ \A k \in 1..n : Held(to, k) = Held(off, k)
    <2>1. \A k \in 1..n : k \in 1..(n + 1) /\ k + 1 \in 1..(n + 1)
      BY ONLY <1>a
    <2>2. n + 1 \in 1..(n + 1) /\ (n + 1) + 1 = n + 2
      BY ONLY <1>a
    <2> QED  BY ONLY <1>a, <1>3, <1>5, <2>1, <2>2 DEF Held
  <1>11. Places(n + 1, Q, to)'
    <2>1. \A i, k \in 1..(n + 1) : i < k => Q[i] < Q[k]
      <3> SUFFICES ASSUME NEW i \in 1..(n + 1), NEW k \in 1..(n + 1), i < k PROVE Q[i] < Q[k]
        OBVIOUS
      <3>1. i \in 1..n
        BY ONLY <1>a, i \in 1..(n + 1), k \in 1..(n + 1), i < k
      <3>2. CASE k = n + 1
        BY ONLY <1>4, <1>8, <3>1, <3>2
      <3>3. CASE k \in 1..n
        BY ONLY <1>4, <1>a, <3>1, <3>3, i < k
      <3> QED  BY ONLY <3>2, <3>3, <1>a, k \in 1..(n + 1)
    <2>2. \A i, k \in 1..(n + 2) : i < k => to[i] < to[k]
      <3> SUFFICES ASSUME NEW i \in 1..(n + 2), NEW k \in 1..(n + 2), i < k PROVE to[i] < to[k]
        OBVIOUS
      <3>1. i \in 1..(n + 1) /\ off[i] \in Nat
        BY ONLY <1>a, i \in 1..(n + 2), k \in 1..(n + 2), i < k
      <3>2. CASE k = n + 2
        BY ONLY <1>5, <1>c, <3>1, <3>2, <1>3
      <3>3. CASE k \in 1..(n + 1)
        BY ONLY <1>5, <1>a, <3>1, <3>3, i < k
      <3> QED  BY ONLY <3>2, <3>3, <1>a, k \in 1..(n + 2)
    <2>3. \A x \in Nat : Begun(x)' <=> \E k \in 1..(n + 1) : Q[k] = x
      <3> SUFFICES ASSUME NEW x \in Nat PROVE Begun(x)' <=> \E k \in 1..(n + 1) : Q[k] = x
        OBVIOUS
      <3>1. Begun(x) <=> \E k \in 1..n : P[k] = x
        BY <1>a
      <3>2. (\E k \in 1..(n + 1) : Q[k] = x) <=> (\E k \in 1..n : P[k] = x) \/ x = e
        <4>1. \A k \in 1..(n + 1) : k \in 1..n \/ k = n + 1
          BY ONLY <1>a
        <4>2. n + 1 \in 1..(n + 1) /\ \A k \in 1..n : k \in 1..(n + 1)
          BY ONLY <1>a
        <4> QED  BY ONLY <1>4, <4>1, <4>2
      <3> QED  BY <1>7, <3>1, <3>2
    <2>4. \A x \in 1..(len + 1) : \E k \in 1..(n + 1) : to[k] < x /\ x <= to[k + 1]
      <3>1. ASSUME NEW x \in 1..len
            PROVE  \E k \in 1..(n + 1) : to[k] < x /\ x <= to[k + 1]
        <4>1. PICK k \in 1..n : off[k] < x /\ x <= off[k + 1]
          BY <1>a
        <4>2. k \in 1..(n + 1) /\ k + 1 \in 1..(n + 1)
          BY ONLY <1>a, k \in 1..n
        <4> QED  BY ONLY <1>5, <4>1, <4>2
      <3>2. n + 1 \in 1..(n + 1) /\ to[n + 1] < len + 1 /\ len + 1 <= to[(n + 1) + 1]
        BY ONLY <1>a, <1>3, <1>5
      <3>3. \A x \in 1..(len + 1) : x \in 1..len \/ x = len + 1
        BY ONLY <1>3
      <3> QED  BY ONLY <3>1, <3>2, <3>3
    <2>5. n + 1 \in Nat /\ (n + 1) + 1 = n + 2
      BY <1>a
    <2> QED  BY ONLY <1>4, <1>5, <1>6, <2>1, <2>2, <2>3, <2>4, <2>5 DEF Places
  <1>12. Segments(n + 1, Q, to)'
    <2> SUFFICES ASSUME NEW k \in 1..(n + 1)
                 PROVE  /\ stream'[to[k] + 1] = HeaderOf(Q[k])'
                        /\ \A i \in 1..Held(to, k) : stream'[to[k] + 1 + i] = <<"byte", Q[k], i>>
                        /\ tree[Q[k]].type # "file" => Held(to, k) = 0
                        /\ tree[Q[k]].type = "file" => measured'[Q[k]] \in Nat
      BY DEF Segments, Held
    <2>1. CASE k \in 1..n
      <3>1. /\ k \in 1..(n + 1) /\ k + 1 \in 1..(n + 1) /\ off[k] < off[k + 1]
            /\ off[k] \in Nat /\ off[k + 1] \in Nat
        BY ONLY <1>a, <2>1
      <3>2. off[k + 1] <= len
        BY ONLY <1>c, <3>1
      <3>3. off[k] + 1 \in 1..len /\ \A i \in 1..Held(off, k) : off[k] + 1 + i \in 1..len
        BY ONLY <1>3, <3>1, <3>2 DEF Held
      <3>4. /\ stream[off[k] + 1] = HeaderOf(P[k])
            /\ \A i \in 1..Held(off, k) : stream[off[k] + 1 + i] = <<"byte", P[k], i>>
            /\ tree[P[k]].type # "file" => Held(off, k) = 0
            /\ tree[P[k]].type = "file" => measured[P[k]] \in Nat
        BY <2>1 DEF ArchiveInv, Segments
      <3>5. to[k] = off[k] /\ Q[k] = P[k] /\ Held(to, k) = Held(off, k)
        BY ONLY <1>4, <1>5, <1>10, <2>1, <3>1
      <3>6. HeaderOf(P[k])' = HeaderOf(P[k]) /\ measured'[P[k]] = measured[P[k]]
        BY ONLY <1>9, <2>1
      <3> QED  BY ONLY <1>6, <3>3, <3>4, <3>5, <3>6
    <2>2. CASE k = n + 1
      <3>1. Held(to, n + 1) = 0 /\ Q[n + 1] = e /\ to[n + 1] = len
        BY ONLY <1>a, <1>4, <1>5, <1>10
      <3>2. tree[e].type = "file" => measured'[e] \in Nat
        BY <1>1, <1>b
      <3> QED  BY ONLY <1>6, <2>2, <3>1, <3>2
    <2>3. n \in Nat
      BY ONLY <1>a
    <2>4. k \in 1..n \/ k = n + 1
      BY ONLY <2>3, k \in 1..(n + 1)
    <2> QED  BY ONLY <2>1, <2>2, <2>4
  <1>13. LastInv(n + 1, Q, to)'
    <2>1. open' => entry' = e /\ pos' = 0
      BY <1>1
    <2>2. n + 1 # 0
      BY <1>a
    <2> QED  BY ONLY <1>4, <1>10, <2>1, <2>2 DEF LastInv, Held
  <1>14. SizeInv(n + 1, Q, to)'
    <2> SUFFICES ASSUME NEW k \in 1..(n + 1), tree[Q[k]].type = "file"
                 PROVE  /\ now[Q[k]] = tree[Q[k]].size => measured'[Q[k]] = now[Q[k]]
                        /\ now[Q[k]] = measured'[Q[k]] =>
                            /\ Q[k] < entry' => Held(to, k) = measured'[Q[k]]
                            /\ open' /\ Q[k] = entry' => Held(to, k) <= measured'[Q[k]]
      BY DEF SizeInv, Held
    <2>1. CASE k \in 1..n
      <3>1. Q[k] = P[k] /\ P[k] < e /\ Held(to, k) = Held(off, k) /\ measured'[P[k]] = measured[P[k]]
        BY ONLY <1>4, <1>8, <1>9, <1>10, <2>1
      <3>2. /\ now[P[k]] = tree[P[k]].size => measured[P[k]] = now[P[k]]
            /\ now[P[k]] = measured[P[k]] => Held(off, k) = measured[P[k]]
        BY <1>1, <2>1, <3>1 DEF ArchiveInv, SizeInv
      <3>3. P[k] # entry'
        BY <1>1, <1>b, <1>8, <2>1
      <3> QED  BY ONLY <3>1, <3>2, <3>3
    <2>2. CASE k = n + 1
      <3>1. Held(to, k) = 0 /\ Q[k] = e
        BY ONLY <1>4, <1>10, <2>2
      <3>2. entry' = e /\ measured'[e] = now[e] /\ now[e] \in Nat
        BY <1>1, <1>b, <3>1
      <3> QED  BY <1>b, <3>1, <3>2
    <2> QED  BY ONLY <1>a, <2>1, <2>2, k \in 1..(n + 1)
  <1> QED  BY <1>11, <1>12, <1>13, <1>14 DEF ArchiveInv

\* The file being archived is read further, or closed, or both.
LEMMA SegmentGrows ==
    ASSUME NEW n, NEW P, NEW off, NEW e, NEW m \in Nat, ShapeInv, ArchiveInv(n, P, off), open,
           e = entry, UNCHANGED <<tree, now, measured>>,
           stream' \in Seq(Tokens), Len(stream') = Len(stream) + m,
           \A x \in 1..Len(stream) : stream'[x] = stream[x],
           \A i \in 1..m : stream'[Len(stream) + i] = <<"byte", e, pos + i>>,
           IF open' THEN entry' = entry /\ pos' = pos + m ELSE entry' = entry + 1,
           now[e] = measured[e] => IF open' THEN pos + m <= now[e] ELSE pos + m = now[e]
    PROVE  \E q, Q, to : ArchiveInv(q, Q, to)'
  <1>1. PICK len : e = entry /\ len = Len(stream)
    OBVIOUS
  <1>2. PICK to : to = [i \in 1..(n + 1) |-> IF i = n + 1 THEN len + m ELSE off[i]]
    OBVIOUS
  <1>a. /\ n \in Nat /\ P \in [1..n -> Nat] /\ off \in [1..(n + 1) -> Nat]
        /\ off[n + 1] = len /\ off[1] = 0
        /\ \A i, k \in 1..n : i < k => P[i] < P[k]
        /\ \A i, k \in 1..(n + 1) : i < k => off[i] < off[k]
        /\ \A x \in Nat : Begun(x) <=> \E k \in 1..n : P[k] = x
        /\ \A x \in 1..len : \E k \in 1..n : off[k] < x /\ x <= off[k + 1]
    BY <1>1 DEF ArchiveInv, Places
  <1>b. /\ e \in Nat /\ stream \in Seq(Tokens) /\ len \in Nat /\ m \in Nat /\ pos \in Nat
        /\ e \in Entries /\ tree[e].type = "file"
    <2>1. stream \in Seq(Tokens) /\ pos \in Nat /\ entry \in Nat
      BY DEF ShapeInv
    <2>2. entry \in Files
      BY DEF ShapeInv
    <2>3. Len(stream) \in Nat
      BY ONLY <2>1
    <2>4. entry \in Entries /\ tree[entry].type = "file"
      BY ONLY <2>2 DEF Files
    <2> QED  BY ONLY <1>1, <2>1, <2>3, <2>4, m \in Nat
  <1>c. /\ n \in 1..n /\ n # 0 /\ n + 1 # 1 /\ P[n] = e /\ pos = Held(off, n)
        /\ off[n] < len /\ off[n] \in Nat /\ n \in 1..(n + 1) /\ n + 1 \in 1..(n + 1)
    <2>1. n # 0 /\ P[n] = e /\ pos = Held(off, n)
      BY <1>1 DEF ArchiveInv, LastInv
    <2>2. n \in 1..n /\ n \in 1..(n + 1) /\ n + 1 \in 1..(n + 1) /\ n < n + 1 /\ n + 1 # 1
      BY ONLY <1>a, <2>1
    <2>3. off[n] < off[n + 1]
      BY ONLY <1>a, <2>2
    <2> QED  BY ONLY <1>a, <2>1, <2>2, <2>3
  <1>4. /\ to \in [1..(n + 1) -> Nat] /\ to[n + 1] = len + m /\ to[1] = 0
        /\ \A i \in 1..n : to[i] = off[i]
    <2>1. \A i \in 1..(n + 1) : (IF i = n + 1 THEN len + m ELSE off[i]) \in Nat
      BY ONLY <1>a, <1>b
    <2>2. 1 \in 1..(n + 1) /\ \A i \in 1..n : i \in 1..(n + 1) /\ i # n + 1
      BY ONLY <1>a
    <2> QED  BY ONLY <1>2, <1>a, <1>c, <2>1, <2>2
  <1>5. /\ Len(stream') = len + m /\ \A x \in 1..len : stream'[x] = stream[x]
        /\ \A i \in 1..m : stream'[len + i] = <<"byte", e, pos + i>>
    BY <1>1
  <1>6. \A x \in Nat : Begun(x)' <=> Begun(x)
    <2> SUFFICES ASSUME NEW x \in Nat PROVE Begun(x)' <=> Begun(x)
      OBVIOUS
    <2>1. CASE open'
      <3>1. open' /\ entry' = e /\ tree' = tree
        BY <1>1, <2>1
      <3> QED  BY ONLY <1>1, <1>b, <3>1, open, x \in Nat DEF Begun, Entries
    <2>2. CASE ~open'
      <3>1. ~open' /\ entry' = e + 1 /\ tree' = tree
        BY <1>1, <2>2
      <3> QED  BY ONLY <1>1, <1>b, <3>1, open, x \in Nat DEF Begun, Entries
    <2> QED  BY <2>1, <2>2
  <1>7. \A k \in 1..n : k # n => k + 1 \in 1..n /\ P[k] < e /\ P[k] \in Nat /\ P[k] \in Entries
    <2> SUFFICES ASSUME NEW k \in 1..n, k # n
                 PROVE  k + 1 \in 1..n /\ P[k] < e /\ P[k] \in Nat /\ P[k] \in Entries
      OBVIOUS
    <2>1. k + 1 \in 1..n /\ k < n /\ P[k] \in Nat
      BY ONLY <1>a, k \in 1..n, k # n
    <2>2. P[k] < P[n]
      BY ONLY <1>a, <1>c, <2>1, k \in 1..n
    <2>3. Begun(P[k])
      BY ONLY <1>a, <2>1, k \in 1..n
    <2> QED  BY ONLY <1>c, <2>1, <2>2, <2>3 DEF Begun
  <1>8. Held(to, n) = pos + m /\ \A k \in 1..n : k # n => Held(to, k) = Held(off, k)
    <2>1. Held(to, n) = pos + m
      <3>1. PICK a : a = off[n] /\ a \in Nat
        BY ONLY <1>c
      <3>2. off[n + 1] = len
        BY ONLY <1>a
      <3>3. pos = len - a - 1
        BY ONLY <1>c, <3>1, <3>2 DEF Held
      <3>4. to[n + 1] = len + m /\ to[n] = a
        BY ONLY <1>4, <1>c, <3>1
      <3>5. len \in Nat /\ m \in Nat
        BY ONLY <1>b
      <3> QED  BY ONLY <3>1, <3>3, <3>4, <3>5 DEF Held
    <2> QED  BY ONLY <2>1, <1>4, <1>7 DEF Held
  <1>9. \A k \in 1..n : HeaderOf(P[k])' = HeaderOf(P[k])
    BY DEF HeaderOf, Header
  <1>10. Places(n, P, to)'
    <2>1. \A i, k \in 1..(n + 1) : i < k => to[i] < to[k]
      <3> SUFFICES ASSUME NEW i \in 1..(n + 1), NEW k \in 1..(n + 1), i < k PROVE to[i] < to[k]
        OBVIOUS
      <3>1. i \in 1..n /\ off[i] \in Nat
        BY ONLY <1>a, i \in 1..(n + 1), k \in 1..(n + 1), i < k
      <3>2. off[i] < off[k]
        BY ONLY <1>a, i \in 1..(n + 1), k \in 1..(n + 1), i < k
      <3>3. CASE k = n + 1
        BY ONLY <1>4, <1>a, <1>b, <3>1, <3>2, <3>3
      <3>4. CASE k \in 1..n
        BY ONLY <1>4, <3>1, <3>2, <3>4
      <3> QED  BY ONLY <3>3, <3>4, <1>a, k \in 1..(n + 1)
    <2>2. \A x \in Nat : Begun(x)' <=> \E k \in 1..n : P[k] = x
      BY ONLY <1>a, <1>6
    <2>3. \A x \in 1..(len + m) : \E k \in 1..n : to[k] < x /\ x <= to[k + 1]
      <3> SUFFICES ASSUME NEW x \in 1..(len + m)
                   PROVE  \E k \in 1..n : to[k] < x /\ x <= to[k + 1]
        OBVIOUS
      <3>1. CASE x \in 1..len
        <4>1. PICK k \in 1..n : off[k] < x /\ x <= off[k + 1]
          BY <1>a, <3>1
        <4>2. CASE k # n
          <5>1. k + 1 \in 1..n
            BY ONLY <1>7, <4>2, k \in 1..n
          <5> QED  BY ONLY <1>4, <4>1, <5>1, k \in 1..n
        <4>3. CASE k = n
          <5>1. to[n] < x
            BY ONLY <1>4, <1>c, <4>1, <4>3
          <5>2. to[n + 1] = len + m /\ len \in Nat /\ m \in Nat
            BY ONLY <1>4, <1>b
          <5>3. x <= to[n + 1]
            BY ONLY <3>1, <5>2
          <5> QED  BY ONLY <1>c, <5>1, <5>3
        <4> QED  BY <4>2, <4>3
      <3>2. CASE ~(x \in 1..len)
        <4>1. to[n] < x /\ x <= to[n + 1]
          <5>1. to[n] = off[n] /\ to[n + 1] = len + m
            BY ONLY <1>4, <1>c
          <5>2. PICK a : a = off[n] /\ a \in Nat /\ a < len
            BY ONLY <1>c
          <5>3. len \in Nat /\ m \in Nat
            BY ONLY <1>b
          <5>4. a < x /\ x <= len + m
            BY ONLY <3>2, <5>2, <5>3, x \in 1..(len + m)
          <5> QED  BY ONLY <5>1, <5>2, <5>4
        <4> QED  BY ONLY <1>c, <4>1
      <3> QED  BY <3>1, <3>2
    <2> QED  BY ONLY <1>a, <1>4, <1>5, <2>1, <2>2, <2>3 DEF Places
  <1>11. Segments(n, P, to)'
    <2> SUFFICES ASSUME NEW k \in 1..n
                 PROVE  /\ stream'[to[k] + 1] = HeaderOf(P[k])'
                        /\ \A i \in 1..Held(to, k) : stream'[to[k] + 1 + i] = <<"byte", P[k], i>>
                        /\ tree[P[k]].type # "file" => Held(to, k) = 0
                        /\ tree[P[k]].type = "file" => measured[P[k]] \in Nat
      BY DEF Segments, Held
    <2>1. /\ stream[off[k] + 1] = HeaderOf(P[k])
          /\ \A i \in 1..Held(off, k) : stream[off[k] + 1 + i] = <<"byte", P[k], i>>
          /\ tree[P[k]].type # "file" => Held(off, k) = 0
          /\ tree[P[k]].type = "file" => measured[P[k]] \in Nat
      BY DEF ArchiveInv, Segments
    <2>2. HeaderOf(P[k])' = HeaderOf(P[k]) /\ to[k] = off[k] /\ off[k] \in Nat
      BY ONLY <1>a, <1>4, <1>9, k \in 1..n
    <2>3. CASE k # n
      <3>1. k \in 1..(n + 1) /\ k + 1 \in 1..(n + 1) /\ k + 1 \in 1..n /\ n + 1 \in 1..(n + 1)
        BY ONLY <1>a, <2>3, k \in 1..n
      <3>2. off[k] < off[k + 1] /\ off[k + 1] < off[n + 1] /\ off[k + 1] \in Nat
        BY ONLY <1>a, <3>1
      <3>3. off[k] + 1 \in 1..len /\ \A i \in 1..Held(off, k) : off[k] + 1 + i \in 1..len
        <4>1. off[n + 1] = len /\ len \in Nat
          BY ONLY <1>a, <1>b
        <4> QED  BY ONLY <2>2, <3>2, <4>1 DEF Held
      <3>4. Held(to, k) = Held(off, k)
        BY ONLY <1>8, <2>3, k \in 1..n
      <3> QED  BY ONLY <1>5, <2>1, <2>2, <3>3, <3>4
    <2>4. CASE k = n
      <3>1. off[k] + 1 \in 1..len /\ off[k] + 1 + pos = len
        <4>1. PICK a : a = off[k] /\ a = off[n] /\ a \in Nat /\ a < len
          BY ONLY <1>c, <2>4
        <4>2. off[n + 1] = len
          BY ONLY <1>a
        <4>3. pos = len - a - 1
          BY ONLY <1>c, <4>1, <4>2 DEF Held
        <4>4. len \in Nat
          BY ONLY <1>b
        <4>5. a + 1 \in 1..len /\ a + 1 + (len - a - 1) = len
          BY ONLY <4>1, <4>4
        <4> QED  BY ONLY <4>1, <4>3, <4>5
      <3>2. ASSUME NEW i \in 1..Held(to, k)
            PROVE  stream'[to[k] + 1 + i] = <<"byte", P[k], i>>
        <4>1. CASE i \in 1..pos
          <5>1. off[k] + 1 + i \in 1..len
            <6>1. PICK a : a = off[k] /\ a \in Nat
              BY ONLY <2>2
            <6>2. len \in Nat /\ pos \in Nat /\ a + 1 + pos = len
              BY ONLY <1>b, <3>1, <6>1
            <6>3. a + 1 + i \in 1..len
              BY ONLY <4>1, <6>1, <6>2
            <6> QED  BY ONLY <6>1, <6>3
          <5> QED  BY ONLY <1>5, <1>c, <2>1, <2>2, <2>4, <4>1, <5>1
        <4>2. CASE ~(i \in 1..pos)
          <5>1. i - pos \in 1..m /\ pos + (i - pos) = i /\ len + (i - pos) = off[k] + 1 + i
            <6>1. PICK a, q : a = off[k] /\ q = pos /\ a \in Nat /\ q \in Nat
              BY ONLY <1>b, <2>2
            <6>2. i \in 1..(q + m) /\ ~(i \in 1..q) /\ len = a + 1 + q
              BY ONLY <1>8, <2>4, <3>1, <4>2, <6>1, i \in 1..Held(to, k)
            <6>3. i - q \in 1..m /\ q + (i - q) = i /\ len + (i - q) = a + 1 + i
              BY ONLY <6>1, <6>2, m \in Nat
            <6> QED  BY ONLY <6>1, <6>3
          <5> QED  BY ONLY <1>5, <1>c, <2>2, <2>4, <5>1
        <4> QED  BY <4>1, <4>2
      <3> QED  BY ONLY <1>5, <1>b, <1>c, <2>1, <2>2, <2>4, <3>1, <3>2
    <2> QED  BY <2>3, <2>4
  <1>12. LastInv(n, P, to)'
    <2>1. open' => entry' = e /\ pos' = pos + m
      BY <1>1
    <2> QED  BY ONLY <1>c, <1>8, <2>1 DEF LastInv, Held
  <1>13. SizeInv(n, P, to)'
    <2> SUFFICES ASSUME NEW k \in 1..n, tree[P[k]].type = "file"
                 PROVE  /\ now[P[k]] = tree[P[k]].size => measured[P[k]] = now[P[k]]
                        /\ now[P[k]] = measured[P[k]] =>
                            /\ P[k] < entry' => Held(to, k) = measured[P[k]]
                            /\ open' /\ P[k] = entry' => Held(to, k) <= measured[P[k]]
      BY DEF SizeInv, Held
    <2>1. /\ now[P[k]] = tree[P[k]].size => measured[P[k]] = now[P[k]]
          /\ now[P[k]] = measured[P[k]] /\ P[k] < entry => Held(off, k) = measured[P[k]]
      BY DEF ArchiveInv, SizeInv
    <2>2. CASE k # n
      <3>1. P[k] < entry /\ P[k] # entry' /\ Held(to, k) = Held(off, k)
        BY <1>1, <1>b, <1>7, <1>8, <2>2
      <3> QED  BY ONLY <2>1, <3>1
    <2>3. CASE k = n
      <3>1. P[k] = e /\ Held(to, k) = pos + m
        BY <1>c, <1>8, <2>3
      <3>2. /\ open' => entry' = e
            /\ now[e] = measured[e] => IF open' THEN pos + m <= now[e] ELSE pos + m = now[e]
        BY <1>1, <3>1
      <3> QED  BY ONLY <1>b, <2>1, <3>1, <3>2
    <2> QED  BY <2>2, <2>3
  <1> QED  BY <1>10, <1>11, <1>12, <1>13 DEF ArchiveInv

\* An entry is passed over, or nothing happens to the archive.
LEMMA SegmentsKept ==
    ASSUME NEW n, NEW P, NEW off, ShapeInv, ArchiveInv(n, P, off),
           UNCHANGED <<tree, stream, measured>>,
           \/ UNCHANGED <<entry, open, pos>>
           \/ /\ ~open /\ ~open' /\ entry' = entry + 1
              /\ tree[entry].type \notin {"file", "dir", "unreadable"},
           \A d \in Files : now'[d] = now[d] \/ now[d] = tree[d].size
    PROVE  ArchiveInv(n, P, off)'
  <1>1. \A x \in Nat : Begun(x)' <=> Begun(x)
    <2> SUFFICES ASSUME NEW x \in Nat PROVE Begun(x)' <=> Begun(x)
      OBVIOUS
    <2>1. CASE UNCHANGED <<entry, open, pos>>
      BY <2>1 DEF Begun, Entries
    <2>2. CASE /\ ~open /\ ~open' /\ entry' = entry + 1
               /\ tree[entry].type \notin {"file", "dir", "unreadable"}
      <3>1. entry \in Nat /\ tree' = tree
        BY DEF ShapeInv
      <3>2. x < entry + 1 <=> x < entry \/ x = entry
        BY ONLY <3>1, x \in Nat
      <3> QED  BY ONLY <2>2, <3>1, <3>2 DEF Begun, Entries
    <2> QED  BY <2>1, <2>2
  <1>2. Places(n, P, off)'
    BY <1>1 DEF ArchiveInv, Places
  <1>3. Segments(n, P, off)'
    BY DEF ArchiveInv, Segments, HeaderOf, Header, Held
  <1>4. LastInv(n, P, off)'
    BY DEF ArchiveInv, LastInv, Held
  <1>5. SizeInv(n, P, off)'
    <2> SUFFICES ASSUME NEW k \in 1..n, tree[P[k]].type = "file"
                 PROVE  /\ now'[P[k]] = tree[P[k]].size => measured[P[k]] = now'[P[k]]
                        /\ now'[P[k]] = measured[P[k]] =>
                            /\ P[k] < entry' => Held(off, k) = measured[P[k]]
                            /\ open' /\ P[k] = entry' => Held(off, k) <= measured[P[k]]
      BY DEF SizeInv, Held
    <2>1. P[k] \in Nat /\ Begun(P[k])
      BY DEF ArchiveInv, Places
    <2>2. P[k] \in Files /\ (~open => P[k] < entry)
      BY <2>1 DEF Begun, Files
    <2>3. /\ now[P[k]] = tree[P[k]].size => measured[P[k]] = now[P[k]]
          /\ now[P[k]] = measured[P[k]] =>
                /\ P[k] < entry => Held(off, k) = measured[P[k]]
                /\ open /\ P[k] = entry => Held(off, k) <= measured[P[k]]
      BY <2>2 DEF ArchiveInv, SizeInv
    <2>4. now'[P[k]] = now[P[k]] \/ now[P[k]] = tree[P[k]].size
      BY <2>2
    <2>5. ASSUME now'[P[k]] = measured[P[k]] \/ now'[P[k]] = tree[P[k]].size
          PROVE  now'[P[k]] = now[P[k]]
      BY ONLY <2>3, <2>4, <2>5
    <2> QED  BY <2>2, <2>3, <2>5
  <1> QED  BY <1>2, <1>3, <1>4, <1>5 DEF ArchiveInv

-------------------------------------------------------------------------------
(* Reading the archive *)

\* What the invariant says of one segment.
LEMMA Segment ==
    ASSUME NEW n, NEW P, NEW off, ShapeInv, ArchiveInv(n, P, off), NEW k \in 1..n
    PROVE  /\ P[k] \in Nat /\ P[k] \in Entries
           /\ tree[P[k]].type \in {"file", "dir", "unreadable"}
           /\ off[k] \in Nat /\ off[k + 1] \in Nat /\ Held(off, k) \in Nat
           /\ off[k + 1] = off[k] + 1 + Held(off, k) /\ off[k + 1] <= Len(stream)
           /\ stream[off[k] + 1] = HeaderOf(P[k])
           /\ \A i \in 1..Held(off, k) : stream[off[k] + 1 + i] = <<"byte", P[k], i>>
           /\ tree[P[k]].type # "file" => Held(off, k) = 0
           /\ tree[P[k]].type = "file" => measured[P[k]] \in Nat
  <1>1. /\ n \in Nat /\ P \in [1..n -> Nat] /\ off \in [1..(n + 1) -> Nat]
        /\ off[n + 1] = Len(stream)
        /\ \A i, j \in 1..(n + 1) : i < j => off[i] < off[j]
        /\ \A x \in Nat : Begun(x) <=> \E j \in 1..n : P[j] = x
    BY DEF ArchiveInv, Places
  <1>2. k \in 1..(n + 1) /\ k + 1 \in 1..(n + 1) /\ n + 1 \in 1..(n + 1)
    BY ONLY <1>1, k \in 1..n
  <1>3. P[k] \in Nat /\ off[k] \in Nat /\ off[k + 1] \in Nat /\ off[k] < off[k + 1]
    BY ONLY <1>1, <1>2, k \in 1..n
  <1>4. Begun(P[k])
    BY ONLY <1>1, <1>3, k \in 1..n
  <1>5. off[k + 1] <= Len(stream)
    BY ONLY <1>1, <1>2, k \in 1..n
  <1>6. Held(off, k) \in Nat /\ off[k + 1] = off[k] + 1 + Held(off, k)
    BY ONLY <1>3 DEF Held
  <1>7. P[k] \in Entries /\ tree[P[k]].type \in {"file", "dir", "unreadable"}
    BY ONLY <1>4 DEF Begun
  <1>8. /\ stream[off[k] + 1] = HeaderOf(P[k])
        /\ \A i \in 1..Held(off, k) : stream[off[k] + 1 + i] = <<"byte", P[k], i>>
        /\ tree[P[k]].type # "file" => Held(off, k) = 0
        /\ tree[P[k]].type = "file" => measured[P[k]] \in Nat
    BY DEF ArchiveInv, Segments
  <1> QED  BY ONLY <1>3, <1>5, <1>6, <1>7, <1>8

\* A reader that is at a segment has not reached the end.
LEMMA MoreSegments ==
    ASSUME NEW n, NEW P, NEW off, ShapeInv, ArchiveInv(n, P, off), NEW k \in 1..n
    PROVE  off[k] < Len(stream)
  <1>1. off[k] \in Nat /\ Held(off, k) \in Nat /\ off[k + 1] = off[k] + 1 + Held(off, k)
        /\ off[k + 1] <= Len(stream)
    BY Segment
  <1>2. Len(stream) \in Nat
    <2>1. stream \in Seq(Tokens)
      BY DEF ShapeInv
    <2> QED  BY ONLY <2>1
  <1> QED  BY ONLY <1>1, <1>2

\* One more entry has been read: it matters only to a reader at a segment
\* before which, and in which, the headers tell the truth.
LEMMA EntryRead ==
    ASSUME NEW n, NEW P, NEW off, NEW x, ShapeInv, ReadShape, ArchiveInv(n, P, off),
           ReadInv(n, P, off), pc = "restore", restored' = Append(restored, x),
           UNCHANGED <<tree, stream, entry, measured, open, pc>>,
           \A k \in 1..n : Calm(k, P, off) /\ Len(restored) = k - 1 /\ rpos = off[k] =>
                rpos' = off[k + 1] /\ IntactAs(P[k], x)
    PROVE  ReadInv(n, P, off)'
  <1>0. PICK S : restored \in Seq(S)
    BY DEF ReadShape
  <1>1. PICK r : r = Len(restored) /\ r \in Nat /\ restored \in Seq(S)
    BY ONLY <1>0
  <1>2. n \in Nat
    BY DEF ArchiveInv, Places
  <1>3. /\ Len(restored') = r + 1 /\ restored'[r + 1] = x
        /\ \A k \in 1..r : restored'[k] = restored[k]
    BY <1>1
  <1>4. \A m \in 1..n : Calm(m, P, off)' <=> Calm(m, P, off)
    BY DEF Calm, Held
  <1>5. \A e, y : IntactAs(e, y)' <=> IntactAs(e, y)
    BY DEF IntactAs, Bytes
  <1> SUFFICES ASSUME NEW m \in 1..n, Calm(m, P, off)
               PROVE  /\ Len(restored') < m =>
                            rpos' = off[Len(restored') + 1] /\ pc' \notin {"done", "lost"}
                      /\ \A k \in 1..m : k <= Len(restored') => IntactAs(P[k], restored'[k])
    BY <1>4, <1>5 DEF ReadInv
  <1>6. /\ r < m => rpos = off[r + 1]
        /\ \A k \in 1..m : k <= r => IntactAs(P[k], restored[k])
    BY <1>1 DEF ReadInv
  <1>7. m \in Nat /\ m <= n
    BY ONLY <1>2, m \in 1..n
  <1>8. r < m => rpos' = off[(r + 1) + 1] /\ IntactAs(P[r + 1], x)
    <2> SUFFICES ASSUME r < m PROVE rpos' = off[(r + 1) + 1] /\ IntactAs(P[r + 1], x)
      OBVIOUS
    <2>1. r + 1 \in 1..n /\ r + 1 \in 1..m /\ (r + 1) - 1 = r
      BY ONLY <1>1, <1>2, <1>7, r < m
    <2>2. Calm(r + 1, P, off)
      <3>1. 1..(r + 1) \subseteq 1..m
        BY ONLY <2>1, <1>1, <1>7
      <3> QED  BY ONLY <3>1, Calm(m, P, off) DEF Calm
    <2> QED  BY <1>1, <1>6, <2>1, <2>2
  <1>9. ASSUME NEW k \in 1..m, k <= r + 1
        PROVE  IntactAs(P[k], restored'[k])
    <2>1. CASE k <= r
      <3>1. k \in 1..r
        BY ONLY <1>1, <1>7, <2>1, k \in 1..m
      <3> QED  BY ONLY <1>3, <1>6, <2>1, <3>1, k \in 1..m
    <2>2. CASE k = r + 1
      BY ONLY <1>1, <1>3, <1>7, <1>8, <2>2, k \in 1..m
    <2> QED  BY ONLY <1>1, <1>7, <1>9, <2>1, <2>2
  <1>10. r + 1 < m => r < m
    BY ONLY <1>1, <1>7
  <1> QED  BY ONLY <1>3, <1>8, <1>9, <1>10, pc = "restore", UNCHANGED pc

\* A directory is restored from its header.
LEMMA DirRead ==
    ASSUME NEW n, NEW P, NEW off, ShapeInv, ReadShape, ArchiveInv(n, P, off), RestoreDir,
           NEW k \in 1..n, rpos = off[k]
    PROVE  rpos' = off[k + 1] /\ IntactAs(P[k], <<Token[2], <<>>>>)
  <1>1. /\ Token = HeaderOf(P[k]) /\ tree[P[k]].type \in {"file", "dir", "unreadable"}
        /\ off[k] \in Nat /\ off[k + 1] = off[k] + 1 + Held(off, k)
        /\ tree[P[k]].type # "file" => Held(off, k) = 0
    BY Segment DEF Token
  <1>2. tree[P[k]].type = "dir" /\ Token[2] = P[k]
    BY <1>1 DEF RestoreDir, HeaderOf, Header
  <1>3. rpos' = rpos + 1
    BY DEF RestoreDir
  <1> QED  BY ONLY <1>1, <1>2, <1>3, rpos = off[k] DEF IntactAs

\* A file is restored from its header, if that tells the truth, and the bytes
\* behind it.
LEMMA FileRead ==
    ASSUME NEW n, NEW P, NEW off, ShapeInv, ReadShape, ArchiveInv(n, P, off), RestoreFile,
           NEW k \in 1..n, rpos = off[k], Calm(k, P, off)
    PROVE  /\ rpos' = off[k + 1]
           /\ LET last    == MinOf(rpos + 1 + Token[4], Len(stream))
                  content == SubSeq(stream, rpos + 2, last)
              IN  IntactAs(P[k], <<Token[2], IF Len(content) = Token[4] THEN content
                                             ELSE Append(content, Junk)>>)
  <1> DEFINE last    == MinOf(rpos + 1 + Token[4], Len(stream))
             content == SubSeq(stream, rpos + 2, last)
  <1>1. PICK h : h = Held(off, k)
    OBVIOUS
  <1>2. /\ Token = HeaderOf(P[k]) /\ tree[P[k]].type \in {"file", "dir", "unreadable"}
        /\ off[k] \in Nat /\ h \in Nat /\ off[k + 1] = off[k] + 1 + h
        /\ off[k + 1] <= Len(stream)
        /\ \A i \in 1..h : stream[off[k] + 1 + i] = <<"byte", P[k], i>>
    BY <1>1, Segment DEF Token
  <1>0. P[k] \in Entries /\ 0 \in Nat /\ h \in Nat /\ 0 <= h
    BY <1>2, Segment
  <1>3. k \in 1..k
    BY DEF ArchiveInv, Places
  <1>4. tree[P[k]].type = "file" /\ h = measured[P[k]]
    <2>1. tree[P[k]].type # "unreadable" /\ (tree[P[k]].type = "file" => h = measured[P[k]])
      BY <1>1, <1>3 DEF Calm
    <2>2. Token[3] = "file"
      BY DEF RestoreFile
    <2> QED  BY ONLY <1>2, <2>1, <2>2 DEF HeaderOf, Header
  <1>5. Token[2] = P[k] /\ Token[4] = h
    BY ONLY <1>2, <1>4 DEF HeaderOf, Header
  <1>6. stream \in Seq(Tokens) /\ Len(stream) \in Nat
    <2>1. stream \in Seq(Tokens)
      BY DEF ShapeInv
    <2> QED  BY ONLY <2>1
  <1>7. last = off[k + 1]
    <2>1. PICK a, z : a = off[k] /\ z = Len(stream) /\ a \in Nat /\ z \in Nat /\ a + 1 + h <= z
      BY ONLY <1>2, <1>6
    <2>2. MinOf(a + 1 + h, z) = a + 1 + h
      <3>1. h \in Nat /\ a \in Nat /\ z \in Nat /\ a + 1 + h <= z
        BY ONLY <1>0, <2>1
      <3> QED  BY ONLY <3>1 DEF MinOf
    <2>3. last = MinOf(a + 1 + h, z) /\ off[k + 1] = a + 1 + h
      BY ONLY <1>2, <1>5, <2>1, rpos = off[k]
    <2> QED  BY ONLY <2>2, <2>3
  <1>8. rpos' = last
    BY DEF RestoreFile
  <1>9. content = Bytes(P[k], 0, h) /\ Len(content) = h
    <2>1. last = off[k] + 1 + h /\ last <= Len(stream) /\ rpos + 2 = off[k] + 2
      BY ONLY <1>2, <1>7, rpos = off[k]
    <2>2. \A i \in (rpos + 2)..last : stream[i] \in Tokens
      <3>1. PICK a, z : a = off[k] /\ z = Len(stream) /\ a \in Nat /\ z \in Nat
        BY ONLY <1>2, <1>6
      <3>2. last = a + 1 + h /\ last <= z /\ rpos + 2 = a + 2
        BY ONLY <2>1, <3>1
      <3> HIDE DEF last
      <3>3. \A i \in (a + 2)..(a + 1 + h) : i \in 1..z
        <4>1. h \in Nat /\ a \in Nat /\ z \in Nat /\ a + 1 + h <= z
          BY ONLY <1>0, <3>1, <3>2
        <4> QED  BY ONLY <4>1
      <3>4. \A i \in 1..z : stream[i] \in Tokens
        BY ONLY <1>6, <3>1
      <3> QED  BY ONLY <3>2, <3>3, <3>4
    <2>3. rpos + 2 \in Int /\ last \in Int
      <3>1. off[k] \in Nat /\ h \in Nat
        BY ONLY <1>2
      <3> HIDE DEF last
      <3> QED  BY ONLY <2>1, <3>1
    <2> HIDE DEF last
    <2>4. /\ content \in Seq(Tokens)
          /\ Len(content) = IF rpos + 2 <= last THEN last - (rpos + 2) + 1 ELSE 0
          /\ \A i \in 1..(last - (rpos + 2) + 1) : content[i] = stream[(rpos + 2) + i - 1]
      BY ONLY <2>2, <2>3, SubSeqProperties
    <2> HIDE DEF content
    <2>5. Len(content) = h /\ last - (rpos + 2) + 1 = h
      <3>1. PICK r : r = rpos + 2 /\ r \in Int
        BY ONLY <2>3
      <3>2. last = r + h - 1
        <4>1. PICK a : a = off[k] /\ a \in Nat
          BY ONLY <1>2
        <4>2. last = a + 1 + h /\ r = a + 2
          BY ONLY <2>1, <3>1, <4>1
        <4>3. a + 1 + h = (a + 2) + h - 1
          BY ONLY <1>0, <4>1
        <4> QED  BY ONLY <4>2, <4>3
      <3>3. Len(content) = IF r <= last THEN last - r + 1 ELSE 0
        BY ONLY <2>4, <3>1
      <3>4. Len(content) = h /\ last - r + 1 = h
        BY ONLY <1>0, <3>1, <3>2, <3>3
      <3> QED  BY ONLY <3>1, <3>4
    <2>6. \A i \in 1..h : content[i] = <<"byte", P[k], 0 + i>>
      <3> SUFFICES ASSUME NEW i \in 1..h PROVE content[i] = <<"byte", P[k], 0 + i>>
        OBVIOUS
      <3>1. (rpos + 2) + i - 1 = off[k] + 1 + i /\ 0 + i = i
        <4>1. PICK a : a = off[k] /\ a \in Nat
          BY ONLY <1>2
        <4>2. rpos + 2 = a + 2 /\ (a + 2) + i - 1 = a + 1 + i /\ 0 + i = i
          BY ONLY <1>0, <2>1, <4>1, i \in 1..h
        <4> QED  BY ONLY <4>1, <4>2
      <3> QED  BY ONLY <1>2, <2>4, <2>5, <3>1, i \in 1..h
    <2>7. /\ Bytes(P[k], 0, h) \in Seq(Tokens) /\ Len(Bytes(P[k], 0, h)) = h - 0
          /\ \A i \in 1..(h - 0) : Bytes(P[k], 0, h)[i] = <<"byte", P[k], 0 + i>>
      BY ONLY <1>0, TokensInOrder
    <2>8. h - 0 = h
      BY ONLY <1>0
    <2>9. /\ Len(content) = Len(Bytes(P[k], 0, h))
          /\ \A i \in 1..Len(content) : content[i] = Bytes(P[k], 0, h)[i]
      BY ONLY <2>5, <2>6, <2>7, <2>8
    <2>10. content = Bytes(P[k], 0, h)
      BY ONLY <2>4, <2>7, <2>9, SeqEqual
    <2> QED  BY ONLY <2>5, <2>10
  <1>10. IntactAs(P[k], <<Token[2], IF Len(content) = Token[4] THEN content
                                    ELSE Append(content, Junk)>>)
    BY ONLY <1>4, <1>5, <1>9 DEF IntactAs
  <1> QED  BY <1>7, <1>8, <1>10

-------------------------------------------------------------------------------
(* The invariant is inductive *)

\* In the beginning the archive is empty: no segments.
LEMMA InitIInv == Init => IInv
  <1> SUFFICES ASSUME Init PROVE IInv
    OBVIOUS
  <1>1. ShapeInv
    <2>0. Trees \subseteq Seq([type : EntryTypes, size : Nat])
      BY ONLY StreamAssumption DEF StreamAssumption
    <2>1. tree \in Trees /\ tree \in Seq([type : EntryTypes, size : Nat])
      <3>1. tree \in Trees
        BY ONLY Init DEF Init
      <3> QED  BY ONLY <2>0, <3>1
    <2>2. Entries = 1..Len(tree) /\ \A e \in Entries : tree[e].size \in Nat
      <3> DEFINE R == [type : EntryTypes, size : Nat]
      <3>1. \A x \in R : x.size \in Nat
        OBVIOUS
      <3>2. tree \in Seq(R)
        BY ONLY <2>1
      <3> HIDE DEF R
      <3>3. DOMAIN tree = 1..Len(tree) /\ \A e \in 1..Len(tree) : tree[e] \in R
        BY ONLY <3>2
      <3> QED  BY ONLY <3>1, <3>3 DEF Entries
    <2>3. /\ now = [e \in Entries |-> tree[e].size]
          /\ measured = [e \in Entries |-> NotMeasured]
          /\ stream = <<>>
      BY DEF Init, Entries
    <2>4. now \in [Entries -> Nat] /\ measured \in [Entries -> Nat \cup {NotMeasured}]
      BY ONLY <2>2, <2>3
    <2>5. stream \in Seq(Tokens)
      BY ONLY <2>3
    <2>6. /\ entry \in Nat \ {0} /\ pos \in Nat /\ open \in BOOLEAN /\ ~open
          /\ nError \in {"none", "file system", "unknown", "not exist"}
          /\ pc \in {"archive", "thrown", "restore", "done", "lost"}
      <3>1. entry = 1 /\ pos = 0 /\ nError = "none" /\ pc = "archive"
        BY DEF Init
      <3>2. open = FALSE
        BY DEF Init
      <3>3. open \in BOOLEAN /\ ~open
        BY ONLY <3>2, Zenon
      <3> QED  BY ONLY <3>1, <3>3
    <2> QED  BY ONLY <2>1, <2>4, <2>5, <2>6 DEF ShapeInv
  <1>2. ReadShape
    <2>1. stream = <<>> /\ rpos = 0 /\ restored = <<>>
      BY DEF Init
    <2>2. Len(stream) = 0 /\ restored \in Seq(Nat) /\ DOMAIN restored = {}
      BY ONLY <2>1
    <2> QED  BY ONLY <2>1, <2>2 DEF ReadShape
  <1>3. \E P, off : ArchiveInv(0, P, off) /\ ReadInv(0, P, off)
    <2>1. PICK P, off : P = [k \in 1..0 |-> 0] /\ off = [k \in 1..1 |-> 0]
      OBVIOUS
    <2>2. P \in [1..0 -> Nat] /\ off \in [1..(0 + 1) -> Nat] /\ off[1] = 0 /\ off[0 + 1] = 0
      BY ONLY <2>1
    <2>3. stream = <<>> /\ Len(stream) = 0 /\ entry = 1 /\ ~open
      BY DEF Init
    <2>4. tree \in Seq([type : EntryTypes, size : Nat])
      BY <1>1 DEF ShapeInv
    <2>5. \A e \in Nat : ~Begun(e)
      <3>1. \A e \in Entries : e \in Nat /\ ~(e < 1)
        BY ONLY <2>4 DEF Entries
      <3> QED  BY ONLY <2>3, <3>1 DEF Begun
    <2>6. 1..0 = {}
      OBVIOUS
    <2>7. Places(0, P, off)
      <3>1. \A i, k \in 1..(0 + 1) : ~(i < k)
        OBVIOUS
      <3> QED  BY ONLY <2>2, <2>3, <2>5, <2>6, <3>1 DEF Places
    <2>8. Segments(0, P, off) /\ SizeInv(0, P, off) /\ LastInv(0, P, off) /\ ReadInv(0, P, off)
      BY ONLY <2>3, <2>6 DEF Segments, SizeInv, LastInv, ReadInv
    <2> QED  BY <2>7, <2>8 DEF ArchiveInv
  <1> QED  BY <1>1, <1>2, <1>3 DEF IInv

\* While the archive is written the reader has done nothing.
LEMMA StillArchiving ==
    ASSUME ShapeInv', pc' \in {"archive", "thrown", "restore"}, UNCHANGED <<rpos, restored>>, ReadShape,
           pc = "archive", \E n, P, off : ArchiveInv(n, P, off)'
    PROVE  IInv'
  <1>1. rpos' = 0 /\ restored' = <<>>
    BY DEF ReadShape
  <1>2. stream' \in Seq(Tokens')
    BY DEF ShapeInv
  <1>3. ReadShape'
    <2>1. Len(stream') \in Nat /\ restored' \in Seq(Nat) /\ DOMAIN restored' = {}
      BY ONLY <1>1, <1>2
    <2> QED  BY ONLY <1>1, <2>1 DEF ReadShape
  <1>4. PICK n, P, off : ArchiveInv(n, P, off)'
    OBVIOUS
  <1>5. ReadInv(n, P, off)'
    <2>1. n \in Nat /\ off[1] = 0
      BY ONLY <1>4 DEF ArchiveInv, Places
    <2>2. Len(restored') = 0 /\ 0 + 1 = 1
      BY ONLY <1>1
    <2>3. \A m \in 1..n : \A k \in 1..m : ~(k <= 0)
      BY ONLY <2>1
    <2> QED  BY ONLY <1>1, <2>1, <2>2, <2>3, pc' \in {"archive", "thrown", "restore"} DEF ReadInv
  <1> QED  BY <1>3, <1>4, <1>5 DEF IInv

\* What may follow of the shape is the same for all that is archived.
LEMMA SameTokens ==
    ASSUME UNCHANGED tree
    PROVE  Tokens' = Tokens /\ Entries' = Entries /\ Files' = Files
  BY DEF Tokens, Entries, Files, Header

\* A file that opens is measured, and its header begins a new segment.
LEMMA OpenFileStep ==
    ASSUME IInv, OpenFile PROVE IInv'
  <1>1. PICK n, P, off : ArchiveInv(n, P, off)
    BY DEF IInv
  <1>2. PICK e : e = entry
    OBVIOUS
  <1>3. /\ pc = "archive" /\ ~open /\ e \in Entries /\ tree[e].type = "file"
        /\ measured' = [measured EXCEPT ![e] = now[e]]
        /\ stream' = Append(stream, Header(e, "file", now[e]))
        /\ pos' = 0 /\ entry' = entry /\ pc' = pc
        /\ UNCHANGED <<tree, now, nError, rpos, restored>>
    BY <1>2 DEF OpenFile, At
  <1>4. open' = TRUE
    BY DEF OpenFile
  <1>5. ShapeInv /\ ReadShape
    BY DEF IInv
  <1>6. /\ stream \in Seq(Tokens) /\ now \in [Entries -> Nat]
        /\ measured \in [Entries -> Nat \cup {NotMeasured}]
    BY <1>5 DEF ShapeInv
  <1>7. /\ measured' \in [Entries -> Nat \cup {NotMeasured}] /\ now[e] \in Nat
        /\ measured'[e] = now[e] /\ \A d \in Entries \ {e} : measured'[d] = measured[d]
    BY ONLY <1>3, <1>6
  <1>8. stream' = Append(stream, HeaderOf(e)')
    BY ONLY <1>3, <1>7 DEF HeaderOf, Header
  <1>9. Header(e, "file", now[e]) \in Tokens
    BY ONLY <1>3, <1>7 DEF Tokens
  <1>10. stream' \in Seq(Tokens)
    BY ONLY <1>3, <1>6, <1>9
  <1>11. \E q, Q, to : ArchiveInv(q, Q, to)'
    BY <1>1, <1>2, <1>3, <1>4, <1>5, <1>7, <1>8, NewSegment
  <1>12. ShapeInv'
    <2>1. Tokens' = Tokens /\ Entries' = Entries /\ Files' = Files
      BY ONLY <1>3, SameTokens
    <2>2. e \in Files
      BY ONLY <1>3 DEF Files
    <2> QED  BY ONLY <1>2, <1>3, <1>4, <1>5, <1>7, <1>10, <2>1, <2>2, 0 \in Nat DEF ShapeInv
  <1> QED  BY <1>3, <1>5, <1>11, <1>12, StillArchiving

\* A directory and a file that cannot be read are segments of one header.
LEMMA HeaderStep ==
    ASSUME IInv, SkipUnreadable \/ PackDir PROVE IInv'
  <1>1. PICK n, P, off : ArchiveInv(n, P, off)
    BY DEF IInv
  <1>2. PICK e : e = entry
    OBVIOUS
  <1>3. /\ pc = "archive" /\ ~open /\ e \in Entries /\ entry' = entry + 1 /\ pc' = pc
        /\ nError' = "none" /\ UNCHANGED <<tree, now, measured, pos, open, rpos, restored>>
        /\ \/ /\ tree[e].type = "dir" /\ stream' = Append(stream, Header(e, "dir", 0))
           \/ /\ tree[e].type = "unreadable"
              /\ stream' = Append(stream, Header(e, "file", Huge))
    BY <1>2 DEF SkipUnreadable, PackDir, At
  <1>4. ShapeInv /\ ReadShape
    BY DEF IInv
  <1>5. /\ stream \in Seq(Tokens) /\ entry \in Nat \ {0}
        /\ measured \in [Entries -> Nat \cup {NotMeasured}]
    BY <1>4 DEF ShapeInv
  <1>6. stream' = Append(stream, HeaderOf(e)')
    BY ONLY <1>3 DEF HeaderOf, Header
  <1>7. Header(e, "dir", 0) \in Tokens /\ Header(e, "file", Huge) \in Tokens
    <2>1. 0 \in Nat /\ Huge \in Nat
      BY DEF Huge
    <2> QED  BY ONLY <1>3, <2>1 DEF Tokens
  <1>8. stream' \in Seq(Tokens)
    <2>1. PICK t \in Tokens : stream' = Append(stream, t)
      BY ONLY <1>3, <1>7
    <2> QED  BY ONLY <1>5, <2>1
  <1>9. tree[e].type \in {"file", "dir", "unreadable"} /\ tree[e].type # "file"
    BY ONLY <1>3
  <1>10. \E q, Q, to : ArchiveInv(q, Q, to)'
    BY <1>1, <1>2, <1>3, <1>4, <1>5, <1>6, <1>9, NewSegment
  <1>11. ShapeInv'
    <2>1. Tokens' = Tokens /\ Entries' = Entries /\ Files' = Files
      BY ONLY <1>3, SameTokens
    <2>2. entry' \in Nat \ {0} /\ ~open'
      BY ONLY <1>3, <1>5
    <2> QED  BY ONLY <1>3, <1>4, <1>8, <2>1, <2>2 DEF ShapeInv
  <1> QED  BY <1>3, <1>4, <1>10, <1>11, StillArchiving

\* The bytes copied follow those that are there.
LEMMA BytesAppended ==
    ASSUME NEW e \in Entries, NEW lo \in Nat, NEW m \in Nat, stream \in Seq(Tokens),
           stream' = stream \o Bytes(e, lo, lo + m)
    PROVE  /\ stream' \in Seq(Tokens) /\ Len(stream') = Len(stream) + m
           /\ \A x \in 1..Len(stream) : stream'[x] = stream[x]
           /\ \A i \in 1..m : stream'[Len(stream) + i] = <<"byte", e, lo + i>>
  <1>1. lo + m \in Nat /\ lo <= lo + m /\ (lo + m) - lo = m
    OBVIOUS
  <1>2. PICK b : b = Bytes(e, lo, lo + m)
    OBVIOUS
  <1>3. /\ b \in Seq(Tokens) /\ Len(b) = (lo + m) - lo
        /\ \A i \in 1..((lo + m) - lo) : b[i] = <<"byte", e, lo + i>>
    BY ONLY <1>1, <1>2, TokensInOrder, e \in Entries, lo \in Nat
  <1>4. /\ stream \o b \in Seq(Tokens) /\ Len(stream \o b) = Len(stream) + Len(b)
        /\ \A x \in 1..(Len(stream) + Len(b)) : (stream \o b)[x] =
                IF x <= Len(stream) THEN stream[x] ELSE b[x - Len(stream)]
    BY ONLY <1>3, stream \in Seq(Tokens), ConcatProperties
  <1>5. Len(stream) \in Nat
    BY ONLY stream \in Seq(Tokens)
  <1>6. stream' = stream \o b
    BY <1>2
  <1>7. /\ \A x \in 1..Len(stream) : x \in 1..(Len(stream) + m) /\ x <= Len(stream)
        /\ \A i \in 1..m : /\ Len(stream) + i \in 1..(Len(stream) + m)
                           /\ ~(Len(stream) + i <= Len(stream))
                           /\ (Len(stream) + i) - Len(stream) = i
    BY ONLY <1>5, m \in Nat
  <1> QED  BY ONLY <1>1, <1>3, <1>4, <1>6, <1>7

\* What the invariant says of the file being archived.
LEMMA OpenSegment ==
    ASSUME NEW n, NEW P, NEW off, NEW e, ShapeInv, ArchiveInv(n, P, off), open, e = entry
    PROVE  /\ e \in Entries /\ e \in Nat \ {0} /\ tree[e].type = "file" /\ e \in Files
           /\ pc = "archive" /\ pos \in Nat /\ now[e] \in Nat
           /\ measured[e] \in Nat /\ stream \in Seq(Tokens) /\ Len(stream) \in Nat
           /\ measured[e] <= Buff => pos = 0
           /\ now[e] = measured[e] => pos <= measured[e]
  <1>1. /\ e \in Files /\ e \in Nat \ {0} /\ pos \in Nat /\ now \in [Entries -> Nat]
        /\ stream \in Seq(Tokens) /\ pc = "archive" /\ (measured[e] <= Buff => pos = 0)
    BY DEF ShapeInv
  <1>2. Len(stream) \in Nat
    BY ONLY <1>1
  <1>3. e \in Entries /\ tree[e].type = "file" /\ now[e] \in Nat
    BY ONLY <1>1 DEF Files
  <1>4. n \in Nat /\ n # 0 /\ P[n] = e /\ pos = Held(off, n)
    BY DEF ArchiveInv, Places, LastInv
  <1>5. n \in 1..n
    BY ONLY <1>4
  <1>6. measured[e] \in Nat
    BY <1>3, <1>4, <1>5 DEF ArchiveInv, Segments
  <1>7. now[e] = measured[e] => Held(off, n) <= measured[e]
    BY <1>3, <1>4, <1>5 DEF ArchiveInv, SizeInv
  <1> QED  BY ONLY <1>1, <1>2, <1>3, <1>4, <1>6, <1>7

\* A block lengthens the last segment.
LEMMA CopyBlockStep ==
    ASSUME IInv, CopyBlock PROVE IInv'
  <1>1. PICK n, P, off : ArchiveInv(n, P, off)
    BY DEF IInv
  <1>2. PICK e : e = entry
    OBVIOUS
  <1>3. /\ open /\ measured[e] > Buff /\ pos < now[e] /\ pos' = MinOf(pos + Buff, now[e])
        /\ stream' = stream \o Bytes(e, pos, pos')
        /\ UNCHANGED <<tree, now, entry, measured, open, nError, pc, rpos, restored>>
    BY <1>2 DEF CopyBlock
  <1>4. ShapeInv /\ ReadShape /\ Buff \in Nat \ {0}
    BY StreamAssumption DEF IInv
  <1>5. /\ e \in Entries /\ tree[e].type = "file" /\ e \in Files
        /\ pc = "archive" /\ pos \in Nat /\ now[e] \in Nat
        /\ measured[e] \in Nat /\ stream \in Seq(Tokens) /\ Len(stream) \in Nat
    BY <1>1, <1>2, <1>3, <1>4, OpenSegment
  <1>6. pos' \in Nat /\ pos < pos' /\ pos' <= now[e]
    BY ONLY <1>3, <1>4, <1>5 DEF MinOf
  <1>7. PICK m \in Nat : pos' = pos + m
    <2>1. pos \in Nat
      BY ONLY <1>5
    <2>2. \A from, to \in Nat : from < to => to - from \in Nat /\ to = from + (to - from)
      OBVIOUS
    <2> QED  BY ONLY <1>6, <2>1, <2>2
  <1>8. PICK lo : lo = pos /\ lo \in Nat
    BY <1>5
  <1>9. stream' = stream \o Bytes(e, lo, lo + m)
    BY ONLY <1>3, <1>7, <1>8
  <1>10. /\ stream' \in Seq(Tokens) /\ Len(stream') = Len(stream) + m
         /\ \A x \in 1..Len(stream) : stream'[x] = stream[x]
         /\ \A i \in 1..m : stream'[Len(stream) + i] = <<"byte", e, lo + i>>
    <2>1. e \in Entries /\ stream \in Seq(Tokens)
      BY ONLY <1>5
    <2> QED  BY ONLY <1>8, <1>9, <2>1, m \in Nat, BytesAppended
  <1>11. pos + m <= now[e] /\ open' /\ entry' = entry /\ open
    BY ONLY <1>3, <1>6, <1>7
  <1>12. \E q, Q, to : ArchiveInv(q, Q, to)'
    BY <1>1, <1>2, <1>3, <1>4, <1>7, <1>8, <1>10, <1>11, SegmentGrows
  <1>13. ShapeInv'
    <2>1. Tokens' = Tokens /\ Entries' = Entries /\ Files' = Files
      BY ONLY <1>3, SameTokens
    <2>2. ~(measured[e] <= Buff)
      BY ONLY <1>3, <1>4, <1>5
    <2> QED  BY ONLY <1>2, <1>3, <1>4, <1>6, <1>10, <2>1, <2>2 DEF ShapeInv
  <1> QED  BY <1>3, <1>4, <1>5, <1>12, <1>13, StillArchiving

\* A file that is closed leaves its segment as it is.
LEMMA CloseFileStep ==
    ASSUME IInv, CloseFile PROVE IInv'
  <1>1. PICK n, P, off : ArchiveInv(n, P, off)
    BY DEF IInv
  <1>2. PICK e : e = entry
    OBVIOUS
  <1>3. /\ open /\ pos >= now[e] /\ entry' = entry + 1 /\ nError' = "none"
        /\ UNCHANGED <<tree, now, stream, measured, pos, pc, rpos, restored>>
    BY <1>2 DEF CloseFile
  <1>4. open' = FALSE
    BY DEF CloseFile
  <1>5. ShapeInv /\ ReadShape
    BY DEF IInv
  <1>6. /\ e \in Entries /\ tree[e].type = "file" /\ e \in Files /\ e \in Nat \ {0}
        /\ pc = "archive" /\ pos \in Nat /\ now[e] \in Nat
        /\ measured[e] \in Nat /\ stream \in Seq(Tokens) /\ Len(stream) \in Nat
        /\ now[e] = measured[e] => pos <= measured[e]
    BY <1>1, <1>2, <1>3, <1>5, OpenSegment
  <1>7. /\ stream' \in Seq(Tokens) /\ Len(stream') = Len(stream) + 0
        /\ \A x \in 1..Len(stream) : stream'[x] = stream[x]
        /\ \A i \in 1..0 : stream'[Len(stream) + i] = <<"byte", e, pos + i>>
    <2>1. stream' = stream
      BY ONLY <1>3
    <2>2. Len(stream) + 0 = Len(stream) /\ \A i : i \notin 1..0
      BY ONLY <1>6
    <2> QED  BY ONLY <1>6, <2>1, <2>2
  <1>8. (now[e] = measured[e] => pos + 0 = now[e]) /\ 0 \in Nat
    <2>1. ASSUME now[e] = measured[e]
          PROVE  pos + 0 = now[e]
      <3>1. PICK p, w : p = pos /\ w = now[e] /\ p \in Nat /\ w \in Nat
        BY ONLY <1>6
      <3>2. p <= w /\ w <= p
        BY ONLY <1>3, <1>6, <2>1, <3>1
      <3>3. p + 0 = w
        BY ONLY <3>1, <3>2
      <3> QED  BY ONLY <3>1, <3>3
    <2> QED  BY ONLY <2>1
  <1>9. ~open' /\ open
    <2>1. ~open'
      BY ONLY <1>4
    <2>2. open
      BY DEF CloseFile
    <2> QED  BY ONLY <2>1, <2>2
  <1>10. \E q, Q, to : ArchiveInv(q, Q, to)'
    BY <1>1, <1>2, <1>3, <1>5, <1>7, <1>8, <1>9, SegmentGrows
  <1>11. ShapeInv'
    <2>1. Tokens' = Tokens /\ Entries' = Entries /\ Files' = Files
      BY ONLY <1>3, SameTokens
    <2>2. entry' \in Nat \ {0}
      BY ONLY <1>2, <1>3, <1>6
    <2>3. open' \in BOOLEAN
      BY ONLY <1>4, Zenon
    <2> QED  BY ONLY <1>3, <1>5, <1>7, <1>9, <2>1, <2>2, <2>3 DEF ShapeInv
  <1> QED  BY <1>3, <1>5, <1>6, <1>10, <1>11, StillArchiving

\* A single read fills the segment of a small file, with at most a buffer.
LEMMA CopyOnceStep ==
    ASSUME IInv, CopyOnce PROVE IInv'
  <1>1. PICK n, P, off : ArchiveInv(n, P, off)
    BY DEF IInv
  <1>2. PICK e : e = entry
    OBVIOUS
  <1>3. /\ open /\ measured[e] <= Buff /\ entry' = entry + 1 /\ nError' = "none"
        /\ stream' = stream \o Bytes(e, 0, MinOf(Buff, now[e]))
        /\ UNCHANGED <<tree, now, measured, pos, pc, rpos, restored>>
    BY <1>2 DEF CopyOnce
  <1>4. open' = FALSE
    BY DEF CopyOnce
  <1>5. ShapeInv /\ ReadShape /\ Buff \in Nat \ {0}
    BY StreamAssumption DEF IInv
  <1>6. /\ e \in Entries /\ tree[e].type = "file" /\ e \in Files /\ e \in Nat \ {0}
        /\ pc = "archive" /\ pos \in Nat /\ now[e] \in Nat
        /\ measured[e] \in Nat /\ stream \in Seq(Tokens) /\ Len(stream) \in Nat
        /\ measured[e] <= Buff => pos = 0
        /\ now[e] = measured[e] => pos <= measured[e]
    BY <1>1, <1>2, <1>3, <1>5, OpenSegment
  <1>7. PICK m \in Nat : m = MinOf(Buff, now[e])
    BY ONLY <1>5, <1>6 DEF MinOf
  <1>8. now[e] = measured[e] => m = now[e]
    <2>1. ASSUME now[e] = measured[e]
          PROVE  m = now[e]
      <3>1. PICK w, b : w = now[e] /\ b = Buff /\ w \in Nat /\ b \in Nat
        BY ONLY <1>5, <1>6
      <3>2. w <= b
        BY ONLY <1>3, <1>6, <2>1, <3>1
      <3>3. m = IF b < w THEN b ELSE w
        BY ONLY <1>7, <3>1 DEF MinOf
      <3> QED  BY ONLY <3>1, <3>2, <3>3
    <2> QED  BY ONLY <2>1
  <1>9. stream' = stream \o Bytes(e, 0, 0 + m) /\ 0 \in Nat
    BY ONLY <1>3, <1>7
  <1>10. /\ stream' \in Seq(Tokens) /\ Len(stream') = Len(stream) + m
         /\ \A x \in 1..Len(stream) : stream'[x] = stream[x]
         /\ \A i \in 1..m : stream'[Len(stream) + i] = <<"byte", e, 0 + i>>
    <2>1. e \in Entries /\ stream \in Seq(Tokens)
      BY ONLY <1>6
    <2> QED  BY ONLY <1>9, <2>1, m \in Nat, BytesAppended
  <1>11. /\ pos = 0 /\ ~open' /\ open
         /\ now[e] = measured[e] => pos + m = now[e]
    BY <1>3, <1>4, <1>6, <1>8
  <1>12. \E q, Q, to : ArchiveInv(q, Q, to)'
    BY <1>1, <1>2, <1>3, <1>5, <1>10, <1>11, SegmentGrows
  <1>13. ShapeInv'
    <2>1. Tokens' = Tokens /\ Entries' = Entries /\ Files' = Files
      BY ONLY <1>3, SameTokens
    <2>2. entry' \in Nat \ {0}
      BY ONLY <1>2, <1>3, <1>6
    <2>3. open' \in BOOLEAN
      BY ONLY <1>4, Zenon
    <2> QED  BY ONLY <1>3, <1>5, <1>10, <1>11, <2>1, <2>2, <2>3 DEF ShapeInv
  <1> QED  BY <1>3, <1>5, <1>6, <1>12, <1>13, StillArchiving

\* An entry that is passed over leaves no segment.
LEMMA SkipStep ==
    ASSUME IInv, SkipOther \/ Unreachable \/ SkipUnknown PROVE IInv'
  <1>1. PICK n, P, off : ArchiveInv(n, P, off)
    BY DEF IInv
  <1>2. /\ pc = "archive" /\ ~open /\ entry' = entry + 1
        /\ tree[entry].type \in {"other", "unreachable", "unknown"}
        /\ nError' \in {nError, "none", "file system", "unknown"}
        /\ UNCHANGED <<tree, now, stream, measured, pos, open, pc, rpos, restored>>
    BY DEF SkipOther, Unreachable, SkipUnknown, At
  <1>3. ShapeInv /\ ReadShape
    BY DEF IInv
  <1>4. tree[entry].type \notin {"file", "dir", "unreadable"}
    BY ONLY <1>2
  <1>5. ~open' /\ \A d \in Files : now'[d] = now[d] \/ now[d] = tree[d].size
    BY ONLY <1>2
  <1>6. ArchiveInv(n, P, off)'
    BY <1>1, <1>2, <1>3, <1>4, <1>5, SegmentsKept
  <1>7. ShapeInv'
    <2>1. Tokens' = Tokens /\ Entries' = Entries /\ Files' = Files
      BY ONLY <1>2, SameTokens
    <2>2. entry \in Nat \ {0} /\ entry' = entry + 1
      BY <1>2, <1>3 DEF ShapeInv
    <2>3. nError \in {"none", "file system", "unknown", "not exist"}
      BY <1>3 DEF ShapeInv
    <2>4. entry' \in Nat \ {0}
      BY ONLY <2>2
    <2>5. nError' \in {"none", "file system", "unknown", "not exist"}
      BY ONLY <1>2, <2>3
    <2> QED  BY ONLY <1>2, <1>3, <2>1, <2>4, <2>5 DEF ShapeInv
  <1> QED  BY <1>2, <1>3, <1>6, <1>7, StillArchiving

\* The archive is closed behind its last segment, or left there.
LEMMA CloseArchiveStep ==
    ASSUME IInv, CloseArchive \/ ExistsThrows PROVE IInv'
  <1>1. PICK n, P, off : ArchiveInv(n, P, off)
    BY DEF IInv
  <1>2. /\ pc = "archive" /\ ~open /\ pc' \in {"restore", "thrown"}
        /\ nError' \in {nError, "not exist"}
        /\ UNCHANGED <<tree, now, stream, entry, measured, pos, open, rpos, restored>>
    BY DEF CloseArchive, ExistsThrows, At
  <1>3. ShapeInv /\ ReadShape
    BY DEF IInv
  <1>4. \A d \in Files : now'[d] = now[d] \/ now[d] = tree[d].size
    BY ONLY <1>2
  <1>5. ArchiveInv(n, P, off)'
    BY <1>1, <1>2, <1>3, <1>4, SegmentsKept
  <1>6. ShapeInv'
    <2>1. Tokens' = Tokens /\ Entries' = Entries /\ Files' = Files
      BY ONLY <1>2, SameTokens
    <2>2. nError \in {"none", "file system", "unknown", "not exist"}
      BY <1>3 DEF ShapeInv
    <2>3. nError' \in {"none", "file system", "unknown", "not exist"}
      BY ONLY <1>2, <2>2
    <2> QED  BY ONLY <1>2, <1>3, <2>1, <2>3 DEF ShapeInv
  <1> QED  BY <1>2, <1>3, <1>5, <1>6, StillArchiving

\* A file that changes is not steady any more, whatever is copied of it.
LEMMA ChangeStep ==
    ASSUME IInv, NEW e \in Entries, Change(e) PROVE IInv'
  <1>1. PICK n, P, off : ArchiveInv(n, P, off)
    BY DEF IInv
  <1>2. /\ pc = "archive" /\ e \in Files /\ now[e] = tree[e].size
        /\ UNCHANGED <<tree, stream, entry, measured, pos, open, nError, pc, rpos, restored>>
    BY DEF Change
  <1>3. PICK s \in NewSizes : now' = [now EXCEPT ![e] = s]
    BY DEF Change
  <1>4. ShapeInv /\ ReadShape
    BY DEF IInv
  <1>5. now \in [Entries -> Nat] /\ s \in Nat
    BY <1>4, StreamAssumption DEF ShapeInv
  <1>6. now' \in [Entries -> Nat] /\ \A d \in Entries : d # e => now'[d] = now[d]
    BY ONLY <1>3, <1>5
  <1>7. \A d \in Files : now'[d] = now[d] \/ now[d] = tree[d].size
    BY ONLY <1>2, <1>6 DEF Files
  <1>8. ArchiveInv(n, P, off)'
    BY <1>1, <1>2, <1>4, <1>7, SegmentsKept
  <1>9. ShapeInv'
    <2>1. Tokens' = Tokens /\ Entries' = Entries /\ Files' = Files
      BY ONLY <1>2, SameTokens
    <2> QED  BY ONLY <1>2, <1>4, <1>6, <2>1 DEF ShapeInv
  <1> QED  BY <1>2, <1>4, <1>8, <1>9, StillArchiving

\* The reader leaves the archive alone.
LEMMA StillReading ==
    ASSUME NEW n, NEW P, NEW off, ShapeInv, ArchiveInv(n, P, off), pc = "restore",
           pc' \in {"restore", "done", "lost"},
           UNCHANGED <<tree, now, stream, entry, measured, pos, open, nError>>
    PROVE  ShapeInv' /\ ArchiveInv(n, P, off)'
  <1>1. ShapeInv'
    <2>1. Tokens' = Tokens /\ Entries' = Entries /\ Files' = Files
      BY SameTokens
    <2>2. ~open
      BY DEF ShapeInv
    <2> QED  BY <2>1, <2>2 DEF ShapeInv
  <1>2. \A d \in Files : now'[d] = now[d] \/ now[d] = tree[d].size
    OBVIOUS
  <1>3. ArchiveInv(n, P, off)'
    BY <1>2, SegmentsKept
  <1> QED  BY <1>1, <1>3

\* What an entry read adds to the shape of what was restored.
LEMMA ReadShapeKept ==
    ASSUME NEW e \in Entries, NEW y, ReadShape, restored' = Append(restored, <<e, y>>),
           UNCHANGED <<tree, stream>>, pc' # "archive", rpos' \in 0..Len(stream)
    PROVE  ReadShape'
  <1>1. PICK S : restored \in Seq(S)
    BY DEF ReadShape
  <1>2. PICK T : T = S \cup {<<e, y>>}
    OBVIOUS
  <1>3. restored \in Seq(T) /\ <<e, y>> \in T
    BY ONLY <1>1, <1>2
  <1>4. /\ restored' \in Seq(T) /\ DOMAIN restored' = 1..(Len(restored) + 1)
        /\ Len(restored) \in Nat /\ DOMAIN restored = 1..Len(restored)
        /\ restored'[Len(restored) + 1] = <<e, y>>
        /\ \A k \in 1..Len(restored) : restored'[k] = restored[k]
    BY ONLY <1>3, restored' = Append(restored, <<e, y>>)
  <1>5. \A k \in DOMAIN restored : restored[k][1] \in Entries
    BY DEF ReadShape
  <1>6. \A k \in 1..(Len(restored) + 1) : k \in 1..Len(restored) \/ k = Len(restored) + 1
    BY ONLY <1>4
  <1>7. <<e, y>>[1] \in Entries /\ Entries' = Entries /\ stream' = stream
    BY SameTokens
  <1>8. \A k \in DOMAIN restored' : restored'[k][1] \in Entries
    BY ONLY <1>4, <1>5, <1>6, <1>7
  <1> QED  BY <1>4, <1>7, <1>8 DEF ReadShape

\* At the beginning of a segment the reader finds its header.
LEMMA HeaderRead ==
    ASSUME ShapeInv, ReadShape, More
    PROVE  /\ rpos + 1 \in 1..Len(stream) /\ rpos \in Nat /\ Len(stream) \in Nat
           /\ Token[2] \in Entries
           /\ Token[1] = "header" /\ Token[3] = "file" => Token[4] \in Nat
  <1>1. stream \in Seq(Tokens) /\ rpos \in 0..Len(stream) /\ rpos < Len(stream)
    BY DEF ShapeInv, ReadShape, More
  <1>2. rpos + 1 \in 1..Len(stream) /\ rpos \in Nat /\ Len(stream) \in Nat
    BY ONLY <1>1
  <1>3. Token \in Tokens
    BY ONLY <1>1, <1>2 DEF Token
  <1>4. CASE \E e \in Entries, type \in {"file", "dir"}, size \in Nat :
                Token = Header(e, type, size)
    <2>1. PICK e \in Entries, type \in {"file", "dir"}, size \in Nat :
                Token = <<"header", e, type, size>>
      BY <1>4 DEF Header
    <2> QED  BY ONLY <1>2, <2>1
  <1>5. CASE \E e \in Entries, k \in Nat : Token = <<"byte", e, k>>
    <2>1. PICK e \in Entries, k \in Nat : Token = <<"byte", e, k>>
      BY <1>5
    <2> QED  BY ONLY <1>2, <2>1
  <1> QED  BY ONLY <1>3, <1>4, <1>5 DEF Tokens

\* A directory is restored from its header alone.
LEMMA RestoreDirStep ==
    ASSUME IInv, RestoreDir PROVE IInv'
  <1>1. PICK n, P, off : ArchiveInv(n, P, off) /\ ReadInv(n, P, off)
    BY DEF IInv
  <1>2. PICK e, x : e = Token[2] /\ x = <<e, <<>>>>
    OBVIOUS
  <1>3. /\ More /\ pc = "restore" /\ pc' = pc /\ rpos' = rpos + 1
        /\ restored' = Append(restored, x)
        /\ UNCHANGED <<tree, now, stream, entry, measured, pos, open, nError>>
    BY <1>2 DEF RestoreDir, More
  <1>4. ShapeInv /\ ReadShape
    BY DEF IInv
  <1>5. ShapeInv' /\ ArchiveInv(n, P, off)'
    BY <1>1, <1>3, <1>4, StillReading
  <1>6. ReadShape'
    <2>1. e \in Entries /\ rpos + 1 \in 1..Len(stream) /\ Len(stream) \in Nat
      BY <1>2, <1>3, <1>4, HeaderRead
    <2>2. rpos' \in 0..Len(stream) /\ pc' # "archive"
      BY ONLY <1>3, <2>1
    <2> QED  BY <1>2, <1>3, <1>4, <2>1, <2>2, ReadShapeKept
  <1>7. \A k \in 1..n : Calm(k, P, off) /\ Len(restored) = k - 1 /\ rpos = off[k] =>
                rpos' = off[k + 1] /\ IntactAs(P[k], x)
    BY <1>1, <1>2, <1>4, DirRead
  <1>8. ReadInv(n, P, off)'
    BY <1>1, <1>3, <1>4, <1>7, EntryRead
  <1> QED  BY <1>5, <1>6, <1>8 DEF IInv

\* A file is restored from as many bytes as its header announces.
LEMMA RestoreFileStep ==
    ASSUME IInv, RestoreFile PROVE IInv'
  <1>1. PICK n, P, off : ArchiveInv(n, P, off) /\ ReadInv(n, P, off)
    BY DEF IInv
  <1> DEFINE last    == MinOf(rpos + 1 + Token[4], Len(stream))
             content == SubSeq(stream, rpos + 2, last)
  <1>2. PICK e, y, x : /\ e = Token[2] /\ x = <<e, y>>
                       /\ y = IF Len(content) = Token[4] THEN content ELSE Append(content, Junk)
    OBVIOUS
  <1>3. /\ More /\ pc = "restore" /\ pc' = pc /\ rpos' = last
        /\ restored' = Append(restored, x)
        /\ UNCHANGED <<tree, now, stream, entry, measured, pos, open, nError>>
        /\ Token[1] = "header" /\ Token[3] = "file"
    BY <1>2 DEF RestoreFile, More
  <1>4. ShapeInv /\ ReadShape
    BY DEF IInv
  <1>5. ShapeInv' /\ ArchiveInv(n, P, off)'
    BY <1>1, <1>3, <1>4, StillReading
  <1>6. ReadShape'
    <2>1. /\ e \in Entries /\ rpos + 1 \in 1..Len(stream) /\ Len(stream) \in Nat
          /\ Token[4] \in Nat /\ rpos \in Nat
      BY <1>2, <1>3, <1>4, HeaderRead
    <2>2. last \in 0..Len(stream)
      BY ONLY <2>1 DEF MinOf
    <2>3. rpos' \in 0..Len(stream) /\ pc' # "archive"
      BY ONLY <1>3, <2>2
    <2> QED  BY <1>2, <1>3, <1>4, <2>1, <2>3, ReadShapeKept
  <1>7. ASSUME NEW k \in 1..n, Calm(k, P, off), rpos = off[k]
        PROVE  rpos' = off[k + 1] /\ IntactAs(P[k], x)
    BY <1>1, <1>2, <1>4, <1>7, FileRead
  <1>8. ReadInv(n, P, off)'
    BY <1>1, <1>3, <1>4, <1>7, EntryRead
  <1> QED  BY <1>5, <1>6, <1>8 DEF IInv

\* Bytes taken for a header, and the end of the archive, are met only behind
\* the segments whose headers tell the truth.
LEMMA ReadEndStep ==
    ASSUME IInv, Misread \/ RestoreEnd PROVE IInv'
  <1>1. PICK n, P, off : ArchiveInv(n, P, off) /\ ReadInv(n, P, off)
    BY DEF IInv
  <1>2. /\ pc = "restore" /\ pc' \in {"done", "lost"}
        /\ UNCHANGED <<tree, now, stream, entry, measured, pos, open, nError, rpos, restored>>
        /\ (rpos < Len(stream) /\ Token[1] # "header") \/ rpos = Len(stream)
    BY DEF Misread, RestoreEnd, More
  <1>3. ShapeInv /\ ReadShape
    BY DEF IInv
  <1>4. ShapeInv' /\ ArchiveInv(n, P, off)'
    BY <1>1, <1>2, <1>3, StillReading
  <1>5. ReadShape'
    <2>1. Entries' = Entries
      BY <1>2, SameTokens
    <2> QED  BY <1>2, <1>3, <2>1 DEF ReadShape
  <1>6. \A k \in 1..n : rpos # off[k]
    <2> SUFFICES ASSUME NEW k \in 1..n, rpos = off[k] PROVE FALSE
      OBVIOUS
    <2>1. off[k] < Len(stream) /\ off[k] \in Nat
      BY <1>1, <1>3, MoreSegments, Segment
    <2>2. Token = HeaderOf(P[k])
      BY <1>1, <1>3, Segment DEF Token
    <2>3. Token[1] = "header"
      BY ONLY <2>2 DEF HeaderOf, Header
    <2>4. Len(stream) \in Nat
      <3>1. stream \in Seq(Tokens)
        BY <1>3 DEF ShapeInv
      <3> QED  BY ONLY <3>1
    <2> QED  BY ONLY <1>2, <2>1, <2>3, <2>4, rpos = off[k]
  <1>7. \A m \in 1..n : Calm(m, P, off) => ~(Len(restored) < m)
    <2> SUFFICES ASSUME NEW m \in 1..n, Calm(m, P, off), Len(restored) < m PROVE FALSE
      OBVIOUS
    <2>1. rpos = off[Len(restored) + 1]
      BY <1>1 DEF ReadInv
    <2>2. Len(restored) \in Nat
      <3>1. PICK S : restored \in Seq(S)
        BY <1>3 DEF ReadShape
      <3> QED  BY ONLY <3>1
    <2>3. n \in Nat
      BY <1>1 DEF ArchiveInv, Places
    <2>4. Len(restored) + 1 \in 1..n
      BY ONLY <2>2, <2>3, m \in 1..n, Len(restored) < m
    <2> QED  BY ONLY <1>6, <2>1, <2>4
  <1>8. ReadInv(n, P, off)'
    <2>1. \A m \in 1..n : Calm(m, P, off)' <=> Calm(m, P, off)
      BY <1>2 DEF Calm, Held
    <2>2. \A e, y : IntactAs(e, y)' <=> IntactAs(e, y)
      BY <1>2 DEF IntactAs, Bytes
    <2>3. restored' = restored
      BY <1>2
    <2> QED  BY <1>1, <1>7, <2>1, <2>2, <2>3 DEF ReadInv
  <1> QED  BY <1>4, <1>5, <1>8 DEF IInv

\* Every step.
LEMMA StepIInv == IInv /\ [Next]_vars => IInv'
  <1> SUFFICES ASSUME IInv, [Next]_vars PROVE IInv'
    OBVIOUS
  <1>1. CASE OpenFile
    BY <1>1, OpenFileStep
  <1>2. CASE CopyBlock
    BY <1>2, CopyBlockStep
  <1>3. CASE CloseFile
    BY <1>3, CloseFileStep
  <1>4. CASE CopyOnce
    BY <1>4, CopyOnceStep
  <1>5. CASE SkipUnreadable \/ PackDir
    BY <1>5, HeaderStep
  <1>6. CASE SkipOther \/ Unreachable \/ SkipUnknown
    BY <1>6, SkipStep
  <1>7. CASE CloseArchive \/ ExistsThrows
    BY <1>7, CloseArchiveStep
  <1>8. CASE RestoreDir
    BY <1>8, RestoreDirStep
  <1>9. CASE RestoreFile
    BY <1>9, RestoreFileStep
  <1>10. CASE Misread \/ RestoreEnd
    BY <1>10, ReadEndStep
  <1>11. CASE \E e \in Entries : Change(e)
    BY <1>11, ChangeStep
  <1>12. CASE UNCHANGED vars
    <2>1. UNCHANGED <<tree, now, stream, entry, measured, pos, open, nError, pc, rpos, restored>>
      BY <1>12 DEF vars
    <2>2. Tokens' = Tokens /\ Entries' = Entries /\ Files' = Files
      BY <2>1, SameTokens
    <2>3. PICK n, P, off : ArchiveInv(n, P, off) /\ ReadInv(n, P, off)
      BY DEF IInv
    <2>4. ShapeInv /\ ReadShape
      BY DEF IInv
    <2>5. ShapeInv' /\ ReadShape'
      BY <2>1, <2>2, <2>4 DEF ShapeInv, ReadShape
    <2>6. ArchiveInv(n, P, off)'
      BY <2>1, <2>3, <2>4, SegmentsKept
    <2>7. ReadInv(n, P, off)'
      BY <2>1, <2>3 DEF ReadInv, Calm, Held, IntactAs, Bytes
    <2> QED  BY <2>5, <2>6, <2>7 DEF IInv
  <1> QED  BY <1>1, <1>2, <1>3, <1>4, <1>5, <1>6, <1>7, <1>8, <1>9, <1>10, <1>11, <1>12
           DEF Next, Archive, Dearchive

\* The archive consists of segments in every reachable state.
THEOREM Invariance == Spec => []IInv
  BY InitIInv, StepIInv, PTL DEF Spec

\* The fields of the types declared, in every reachable state.
THEOREM TypeCorrect == Spec => []TypeOK
  <1>1. IInv => TypeOK
    <2> SUFFICES ASSUME IInv PROVE TypeOK
      OBVIOUS
    <2>1. ShapeInv /\ ReadShape
      BY DEF IInv
    <2>2. \A t \in Tokens : t[1] \in {"header", "byte"} /\ t[2] \in Entries
      BY DEF Tokens, Header
    <2>3. stream \in Seq(Tokens)
      BY <2>1 DEF ShapeInv
    <2>4. \A k \in DOMAIN stream : stream[k] \in Tokens
      BY ONLY <2>3
    <2> QED  BY <2>1, <2>2, <2>4 DEF TypeOK, ShapeInv, ReadShape
  <1> QED  BY Invariance, <1>1, PTL

-------------------------------------------------------------------------------
(* What the invariant says of a state *)

\* The bytes of an entry are those of its segment.
LEMMA BytesOfSegment ==
    ASSUME NEW n, NEW P, NEW off, ShapeInv, ArchiveInv(n, P, off), NEW k \in 1..n
    PROVE  Cardinality(BytesOf(P[k])) = Held(off, k)
  <1>1. PICK e, h, a : e = P[k] /\ h = Held(off, k) /\ a = off[k]
    OBVIOUS
  <1>2. a \in Nat /\ h \in Nat /\ off[k + 1] = a + 1 + h /\ off[k + 1] <= Len(stream)
    BY <1>1, Segment
  <1>3. /\ n \in Nat /\ P \in [1..n -> Nat] /\ off \in [1..(n + 1) -> Nat]
        /\ \A i, j \in 1..n : i < j => P[i] < P[j]
        /\ \A x \in 1..Len(stream) : \E j \in 1..n : off[j] < x /\ x <= off[j + 1]
    BY DEF ArchiveInv, Places
  <1>4. stream \in Seq(Tokens)
    BY DEF ShapeInv
  <1>5. DOMAIN stream = 1..Len(stream) /\ Len(stream) \in Nat
    BY ONLY <1>4
  <1>6. ASSUME NEW x \in (a + 2)..(a + 1 + h)
        PROVE  x \in 1..Len(stream) /\ stream[x][1] = "byte" /\ stream[x][2] = e
    <2>1. x - (a + 1) \in 1..h /\ a + 1 + (x - (a + 1)) = x /\ x \in 1..Len(stream)
      BY ONLY <1>2, <1>5, x \in (a + 2)..(a + 1 + h)
    <2>2. \A i \in 1..h : stream[a + 1 + i] = <<"byte", e, i>>
      BY ONLY ShapeInv, ArchiveInv(n, P, off), k \in 1..n, <1>1, Segment
    <2>3. stream[x] = <<"byte", e, x - (a + 1)>>
      BY ONLY <2>1, <2>2
    <2> QED  BY ONLY <2>1, <2>3
  <1>7. ASSUME NEW x \in 1..Len(stream), stream[x][1] = "byte", stream[x][2] = e
        PROVE  x \in (a + 2)..(a + 1 + h)
    <2>1. PICK j \in 1..n : off[j] < x /\ x <= off[j + 1]
      BY ONLY <1>3, x \in 1..Len(stream)
    <2>2. PICK b, g : b = off[j] /\ g = Held(off, j)
      OBVIOUS
    <2>3. /\ b \in Nat /\ g \in Nat /\ off[j + 1] = b + 1 + g
          /\ stream[b + 1] = HeaderOf(P[j])
          /\ \A i \in 1..g : stream[b + 1 + i] = <<"byte", P[j], i>>
      <3>1. /\ off[j] \in Nat /\ Held(off, j) \in Nat
            /\ off[j + 1] = off[j] + 1 + Held(off, j)
            /\ stream[off[j] + 1] = HeaderOf(P[j])
            /\ \A i \in 1..Held(off, j) : stream[off[j] + 1 + i] = <<"byte", P[j], i>>
        BY ONLY ShapeInv, ArchiveInv(n, P, off), j \in 1..n, Segment
      <3> QED  BY ONLY <2>2, <3>1
    <2>4. x # b + 1
      <3>1. HeaderOf(P[j])[1] = "header"
        BY DEF HeaderOf, Header
      <3>2. stream[x][1] = "byte"
        BY <1>7
      <3> QED  BY ONLY <2>3, <3>1, <3>2
    <2>5. x - (b + 1) \in 1..g /\ b + 1 + (x - (b + 1)) = x
      <3>1. b < x /\ x <= b + 1 + g /\ b \in Nat /\ g \in Nat
        BY ONLY <2>1, <2>2, <2>3
      <3>2. x \in Int
        BY ONLY <1>5, x \in 1..Len(stream)
      <3> QED  BY ONLY <2>4, <3>1, <3>2
    <2>6. stream[x] = <<"byte", P[j], x - (b + 1)>>
      BY ONLY <2>3, <2>5
    <2>7. P[j] = P[k]
      <3>1. stream[x][2] = P[j]
        BY ONLY <2>6
      <3> QED  BY <1>1, <1>7, <3>1
    <2>8. j = k
      <3>1. P[j] \in Nat /\ P[k] \in Nat /\ (j < k => P[j] < P[k]) /\ (k < j => P[k] < P[j])
        BY ONLY <1>3, j \in 1..n, k \in 1..n
      <3>2. j \in Nat /\ k \in Nat
        BY ONLY j \in 1..n, k \in 1..n
      <3> QED  BY ONLY <2>7, <3>1, <3>2
    <2>9. b = a /\ g = h
      BY ONLY <1>1, <2>2, <2>8
    <2>10. a < x /\ x <= a + 1 + h /\ x # a + 1
      BY ONLY <2>1, <2>2, <2>3, <2>4, <2>9
    <2>11. x \in Int
      BY ONLY <1>5, x \in 1..Len(stream)
    <2> QED  BY ONLY <1>2, <2>10, <2>11
  <1>8. BytesOf(e) = (a + 2)..(a + 1 + h)
    BY ONLY <1>2, <1>5, <1>6, <1>7 DEF BytesOf
  <1>9. a + 2 \in Int /\ a + 1 + h \in Int
    BY ONLY <1>2
  <1>10. Cardinality((a + 2)..(a + 1 + h)) =
            IF a + 2 > a + 1 + h THEN 0 ELSE (a + 1 + h) - (a + 2) + 1
    BY ONLY <1>9, FS_Interval
  <1>11. (IF a + 2 > a + 1 + h THEN 0 ELSE (a + 1 + h) - (a + 2) + 1) = h
    BY ONLY <1>2
  <1> QED  BY ONLY <1>1, <1>8, <1>10, <1>11

\* An entry that reached the archive has a segment.
LEMMA PackedSegment ==
    ASSUME NEW n, NEW P, NEW off, ShapeInv, ArchiveInv(n, P, off), NEW e \in Packed
    PROVE  e \in Nat \ {0} /\ e < entry /\ \E k \in 1..n : P[k] = e
  <1>1. e \in Entries /\ e < entry /\ tree[e].type \in {"file", "dir"}
    BY DEF Packed
  <1>2. tree \in Seq([type : EntryTypes, size : Nat])
    BY DEF ShapeInv
  <1>3. e \in Nat \ {0}
    BY ONLY <1>1, <1>2 DEF Entries
  <1>4. Begun(e)
    BY ONLY <1>1 DEF Begun
  <1>5. \E k \in 1..n : P[k] = e
    BY ONLY <1>3, <1>4, ArchiveInv(n, P, off) DEF ArchiveInv, Places
  <1> QED  BY ONLY <1>1, <1>3, <1>5

\* A file that has the size it was measured with is steady: what was announced was
\* written.
THEOREM ChangesUnsettle == Spec => []OnlyChangesUnsettle
  <1>1. IInv => OnlyChangesUnsettle
    <2> SUFFICES ASSUME IInv, NEW e \in Packed, now[e] = measured[e],
                        tree[e].type = "file"
                 PROVE  Cardinality(BytesOf(e)) = measured[e]
      BY DEF OnlyChangesUnsettle, Steady
    <2>1. PICK n, P, off : ShapeInv /\ ArchiveInv(n, P, off)
      BY DEF IInv
    <2>2. e < entry /\ \E k \in 1..n : P[k] = e
      BY <2>1, PackedSegment
    <2>3. PICK k \in 1..n : P[k] = e
      BY <2>2
    <2>4. Held(off, k) = measured[e]
      BY <2>1, <2>2, <2>3 DEF ArchiveInv, SizeInv
    <2> QED  BY <2>1, <2>3, <2>4, BytesOfSegment
  <1> QED  BY Invariance, <1>1, PTL

\* Among steady entries, the segments are counted as the entries are.
LEMMA CountedAlike ==
    ASSUME NEW n, NEW P, NEW off, ShapeInv, ArchiveInv(n, P, off), NEW k \in 1..n,
           P[k] \in Packed, \A j \in 1..k : tree[P[j]].type # "unreadable"
    PROVE  Cardinality({d \in Packed : d <= P[k]}) = k
  <1> DEFINE D == {d \in Packed : d <= P[k]}
             f == [j \in 1..k |-> P[j]]
  <1>1. /\ n \in Nat /\ P \in [1..n -> Nat] /\ k \in Nat
        /\ \A i, j \in 1..n : i < j => P[i] < P[j]
    BY DEF ArchiveInv, Places
  <1>2. \A j \in 1..k : j \in 1..n /\ P[j] \in Nat /\ P[j] <= P[k]
    <2> SUFFICES ASSUME NEW j \in 1..k PROVE j \in 1..n /\ P[j] \in Nat /\ P[j] <= P[k]
      OBVIOUS
    <2>1. j \in 1..n /\ (j = k \/ j < k)
      BY ONLY <1>1, k \in 1..n, j \in 1..k
    <2> QED  BY ONLY <1>1, <2>1, k \in 1..n
  <1>3. ASSUME NEW j \in 1..k PROVE P[j] \in D
    <2>1. P[j] \in Entries /\ tree[P[j]].type \in {"file", "dir", "unreadable"}
      BY <1>2, Segment
    <2>2. P[k] < entry /\ entry \in Nat
      BY DEF Packed, ShapeInv
    <2>3. P[j] < entry
      BY ONLY <1>1, <1>2, <2>2, j \in 1..k, k \in 1..n
    <2> QED  BY <1>2, <2>1, <2>3 DEF Packed
  <1>4. ASSUME NEW d \in D PROVE \E j \in 1..k : P[j] = d
    <2>1. PICK j \in 1..n : P[j] = d
      BY PackedSegment
    <2>2. d <= P[k]
      OBVIOUS
    <2>3. j <= k
      BY ONLY <1>1, <2>1, <2>2, k \in 1..n, j \in 1..n
    <2>4. j \in 1..k
      BY ONLY <1>1, <2>3, j \in 1..n
    <2> QED  BY <2>1, <2>4
  <1>5. \A i, j \in 1..k : P[i] = P[j] => i = j
    <2> SUFFICES ASSUME NEW i \in 1..k, NEW j \in 1..k, P[i] = P[j] PROVE i = j
      OBVIOUS
    <2>1. i \in 1..n /\ j \in 1..n /\ P[i] \in Nat /\ P[j] \in Nat
      BY ONLY <1>2, i \in 1..k, j \in 1..k
    <2>2. (i < j => P[i] < P[j]) /\ (j < i => P[j] < P[i])
      BY ONLY <1>1, <2>1
    <2> QED  BY ONLY <1>1, <2>1, <2>2, P[i] = P[j], i \in 1..n, j \in 1..n
  <1> HIDE DEF D
  <1>6. f \in Bijection(1..k, D)
    <2>1. f \in [1..k -> D]
      BY <1>3
    <2>2. \A i, j \in 1..k : f[i] = f[j] => i = j
      BY <1>5
    <2>3. \A d \in D : \E j \in 1..k : f[j] = d
      BY <1>4
    <2> QED  BY ONLY <2>1, <2>2, <2>3 DEF Bijection, Injection, Surjection, IsInjective
  <1>7. Cardinality(D) = k
    BY ONLY <1>1, <1>6, FS_CountingElements DEF ExistsBijection
  <1> QED  BY <1>7 DEF D

\* Whatever happens to a later file while it is archived, an entry archived
\* before it comes out as it went in, at its place in the order.
THEOREM IntactPrefix == Spec => []PrefixIntact
  <1>1. IInv => PrefixIntact
    <2> SUFFICES ASSUME IInv, pc \in {"done", "lost"}, NEW e \in Packed, SteadyUpTo(e)
                 PROVE  LET k == Cardinality({d \in Packed : d <= e})
                        IN  k <= Len(restored) /\ IntactAs(e, restored[k])
      BY DEF PrefixIntact
    <2>1. PICK n, P, off : ShapeInv /\ ReadShape /\ ArchiveInv(n, P, off) /\ ReadInv(n, P, off)
      BY DEF IInv
    <2>2. PICK k \in 1..n : P[k] = e
      BY <2>1, PackedSegment
    <2>3. n \in Nat /\ P \in [1..n -> Nat] /\ \A i, j \in 1..n : i < j => P[i] < P[j]
      BY <2>1 DEF ArchiveInv, Places
    <2>4. ASSUME NEW j \in 1..k
          PROVE  /\ tree[P[j]].type # "unreadable"
                 /\ tree[P[j]].type = "file" => Held(off, j) = measured[P[j]]
      <3>1. j \in 1..n /\ (j = k \/ j < k)
        BY ONLY <2>3, j \in 1..k, k \in 1..n
      <3>2. P[j] \in Entries
        BY <2>1, <3>1, Segment
      <3>3. P[j] \in 1..e
        <4>1. tree \in Seq([type : EntryTypes, size : Nat])
          BY <2>1 DEF ShapeInv
        <4>2. P[j] \in Nat \ {0}
          BY ONLY <3>2, <4>1 DEF Entries
        <4>3. P[j] <= P[k] /\ P[k] \in Nat
          BY ONLY <2>3, <3>1, k \in 1..n
        <4> QED  BY ONLY <2>2, <4>2, <4>3
      <3>4. tree[P[j]].type # "unreadable" /\ Steady(P[j])
        BY ONLY <3>3, SteadyUpTo(e) DEF SteadyUpTo
      <3>5. Cardinality(BytesOf(P[j])) = Held(off, j)
        BY <2>1, <3>1, BytesOfSegment
      <3> QED  BY ONLY <3>4, <3>5 DEF Steady
    <2>5. Calm(k, P, off)
      BY ONLY <2>4 DEF Calm
    <2>6. /\ Len(restored) < k => pc \notin {"done", "lost"}
          /\ \A j \in 1..k : j <= Len(restored) => IntactAs(P[j], restored[j])
      BY ONLY <2>1, <2>5, k \in 1..n DEF ReadInv
    <2>7. Len(restored) \in Nat
      <3>1. PICK S : restored \in Seq(S)
        BY <2>1 DEF ReadShape
      <3> QED  BY ONLY <3>1
    <2>8. k <= Len(restored) /\ k \in 1..k
      BY ONLY <2>3, <2>6, <2>7, pc \in {"done", "lost"}, k \in 1..n
    <2>9. IntactAs(e, restored[k])
      BY ONLY <2>2, <2>6, <2>8
    <2>10. Cardinality({d \in Packed : d <= P[k]}) = k
      BY <2>1, <2>2, <2>4, CountedAlike
    <2> QED  BY ONLY <2>2, <2>8, <2>9, <2>10
  <1> QED  BY Invariance, <1>1, PTL
===============================================================================
