---------------------------- MODULE SymCrypto_proofs ----------------------------
(***************************************************************************)
(* For any passwords, files and sizes: nothing is decoded with a password  *)
(* other than the one it was encoded with; who knows that password is not  *)
(* refused; and what is decoded is what was encoded, or its beginning if   *)
(* it is decoded while it is encoded.  The first two follow from the       *)
(* headers alone (IInv), the last two from the blocks as well (CInv).      *)
(***************************************************************************)
EXTENDS SymCrypto, SequenceTheorems, TLAPS

-------------------------------------------------------------------------------
(* The inductive invariant *)

\* A header that an operation has written is the one Attach makes of its key,
\* and that operation does not change any more.
HeadOK(h) ==
    h.stamp \in Jobs =>
        /\ job[h.stamp].encode
        /\ job[h.stamp].pc \notin {"idle", "queued", "open"}
        /\ h = Attach(job[h.stamp].key, h.stamp, h.name)

HeadsInv ==
    /\ \A p \in DOMAIN files : HeadOK(files[p].head)
    /\ \A h \in parsed : HeadOK(h)
    /\ \A j \in Jobs : HeadOK(job[j].head)

\* Encoders write to names of their own, decoders to others; a decoder that has
\* a name has looked at the header.
OutInv ==
    \A j \in Jobs :
        /\ job[j].pc \in {"idle", "queued"} => job[j].out = <<>>
        /\ job[j].out # <<>> => job[j].out[1] = IF job[j].encode THEN "enc" ELSE "dec"
        /\ ~job[j].encode /\ job[j].out # <<>> =>
              Valid(job[j].head) /\ RealKey(job[j].head) = job[j].key

\* While a decoder runs that was asked for when nobody encoded, nobody does, and
\* its source is what it was.
FoundInv ==
    \A d \in Jobs :
        ~job[d].encode /\ job[d].pc # "idle" /\ job[d].found \in Jobs =>
            /\ Running(d) => ~Encoding /\ Exists(job[d].src)
            /\ Running(d) => files[job[d].src].head.stamp = job[d].found
            /\ job[job[d].found].pc # "idle"
            /\ job[d].key = job[job[d].found].key /\ Holds(job[d].key) =>
                  job[d].err \in {"none", "out open"}

\* Files and operations have the fields that they begin with.
Fields == {"pc", "encode", "key", "src", "found", "out", "head", "pos", "eof", "err"}

ShapeInv ==
    /\ DOMAIN job = Jobs
    /\ \A j \in Jobs : job[j].encode \in BOOLEAN /\ DOMAIN job[j] = Fields
    /\ \A p \in DOMAIN files : DOMAIN files[p] = {"head", "body"}

IInv == ShapeInv /\ TypeOK /\ HeadsInv /\ OutInv /\ FoundInv

-------------------------------------------------------------------------------
(* Operators *)

\* Encoded twice with one key, a sequence of characters is what it was.
THEOREM CodedTwice ==
    ASSUME NEW s \in Seq(Chars), NEW key \in Seq(Chars), key # <<>>
    PROVE  /\ XorKey(s, key) \in Seq(Chars)
           /\ XorKey(XorKey(s, key), key) = s
  <1> DEFINE at(i) == key[((i - 1) % Len(key)) + 1]
  <1>1. Len(key) \in Nat \ {0}
    BY EmptySeq
  <1>2. Len(s) \in Nat /\ DOMAIN s = 1..Len(s) /\ s \in [1..Len(s) -> Chars]
    BY LenProperties
  <1>3. ASSUME NEW i \in 1..Len(s)
        PROVE  at(i) \in Chars
    <2>1. i - 1 \in Nat
      BY <1>2
    <2>2. (i - 1) % Len(key) \in 0..(Len(key) - 1)
      BY <1>1, <2>1
    <2>3. ((i - 1) % Len(key)) + 1 \in 1..Len(key)
      BY <1>1, <2>2
    <2> QED  BY <2>3, ElementOfSeq
  <1>4. \A x, y \in Chars : Xor(x, y) \in Chars /\ Xor(Xor(x, y), y) = x
    BY DEF Xor, Chars
  <1> HIDE DEF at
  <1>5. XorKey(s, key) = [i \in 1..Len(s) |-> Xor(s[i], at(i))]
    BY <1>2 DEF XorKey, at
  <1>6. XorKey(s, key) \in [1..Len(s) -> Chars]
    BY <1>2, <1>3, <1>4, <1>5
  <1>7. XorKey(s, key) \in Seq(Chars)
    BY <1>2, <1>6
  <1>8. XorKey(XorKey(s, key), key) = [i \in 1..Len(s) |-> Xor(Xor(s[i], at(i)), at(i))]
    <2>1. DOMAIN XorKey(s, key) = 1..Len(s)
      BY <1>6
    <2>2. XorKey(XorKey(s, key), key) = [i \in 1..Len(s) |-> Xor(XorKey(s, key)[i], at(i))]
      BY <2>1 DEF XorKey, at
    <2> QED  BY <1>5, <2>2
  <1>9. XorKey(XorKey(s, key), key) = s
    BY <1>2, <1>3, <1>4, <1>8
  <1> QED  BY <1>7, <1>9

\* A password is a sequence of characters.
LEMMA KeysAreStrings == Keys \cup {<<>>} \subseteq Seq(Chars) /\ EncodeKey \in Seq(Chars)
  <1>1. Seq(Chars \ {{}}) \subseteq Seq(Chars)
    BY SeqMonotonic
  <1>2. <<>> \in Seq(Chars)
    BY EmptySeq
  <1> QED  BY <1>1, <1>2, CryptoAssumption DEF CryptoAssumption

\* A valid header that Attach has made gives back the whole password.
LEMMA AttachedKey ==
    ASSUME NEW key \in Keys \cup {<<>>}, NEW stamp, NEW name,
           Valid(Attach(key, stamp, name))
    PROVE  RealKey(Attach(key, stamp, name)) = key
  <1> DEFINE x == XorKey(key, EncodeKey)
             head == Signed(Minor, x, stamp, ".spc", name)
             h == Attach(key, stamp, name)
  <1>1. h = [head EXCEPT !.sign = NoSign] \/ h = head
    BY DEF Attach
  <1>2. h.key = CString(x) /\ h.minor = Minor /\ h.stamp = stamp /\ h.ext = ".spc" /\ h.name = name
    BY <1>1 DEF Signed
  <1>3. h.sign = NoSign \/ h.sign = Digest(Minor, x, stamp, ".spc", name)
    BY <1>1 DEF Signed
  <1>4. h.sign = Digest(Minor, CString(x), stamp, ".spc", name)
    BY <1>2 DEF Valid
  <1>5. CString(x) = x
    BY ONLY <1>3, <1>4 DEF Digest, NoSign
  <1>6. XorKey(x, EncodeKey) = key
    BY KeysAreStrings, CodedTwice, CryptoAssumption DEF CryptoAssumption
  <1> QED  BY <1>2, <1>5, <1>6 DEF RealKey

\* With a password that the header can hold the header is valid.
LEMMA AttachedValid ==
    ASSUME NEW key \in Keys \cup {<<>>}, NEW stamp, NEW name, Holds(key)
    PROVE  /\ Valid(Attach(key, stamp, name))
           /\ Attach(key, stamp, name).ext = ".spc"
           /\ Attach(key, stamp, name).minor = Minor
           /\ Attach(key, stamp, name).name = name
  <1> DEFINE x == XorKey(key, EncodeKey)
  <1>1. CString(x) = x /\ Len(key) # KeyRoom
    <2>1. Len(key) \in Nat /\ KeyRoom \in Nat
      BY KeysAreStrings, LenProperties, CryptoAssumption DEF CryptoAssumption
    <2> QED  BY <2>1 DEF Holds
  <1>2. Attach(key, stamp, name) = Signed(Minor, x, stamp, ".spc", name)
    BY <1>1 DEF Attach
  <1> QED  BY <1>1, <1>2 DEF Signed, Valid

\* What a reader may find of a file.
LEMMA LimitsTyped ==
    ASSUME TypeOK, NEW p, NEW pos \in Nat
    PROVE  /\ Bytes(FileAt(p)) \in Seq(Chars)
           /\ Limits(p, pos) \subseteq Nat
           /\ \A l \in Limits(p, pos) : l <= Len(Bytes(FileAt(p)))
  <1>1. FileAt(p).body \in Seq(Chars)
    BY DEF TypeOK, FileAt, Exists, Empty
  <1>2. HeadBytes \in Seq(Chars)
    <2>1. HeadSize \in Nat /\ {} \in Chars
      BY CryptoAssumption DEF CryptoAssumption, Chars
    <2>2. HeadBytes \in [1..HeadSize -> Chars]
      BY <2>1 DEF HeadBytes
    <2> QED  BY <2>1, <2>2
  <1>3. Bytes(FileAt(p)) \in Seq(Chars)
    BY <1>1, <1>2, ConcatProperties DEF Bytes
  <1>4. Len(Bytes(FileAt(p))) \in Nat
    BY <1>3, LenProperties
  <1> DEFINE len == Len(Bytes(FileAt(p)))
  <1> HIDE DEF len
  <1>5. Limits(p, pos) \subseteq MinOf(pos, len)..len \cup {len}
    BY DEF Limits, len
  <1>6. len \in Nat
    BY <1>4 DEF len
  <1>7. MinOf(pos, len) \in Nat
    BY <1>6 DEF MinOf
  <1>8. \A l \in Limits(p, pos) : l \in Nat /\ l <= len
    BY <1>5, <1>6, <1>7
  <1> QED  BY <1>3, <1>8 DEF len

\* Only the operation j changes.
Only(j) ==
    /\ DOMAIN job' = Jobs /\ DOMAIN job'[j] = Fields
    /\ \A k \in Jobs \ {j} : job'[k] = job[k]

-------------------------------------------------------------------------------
(* Headers *)

Early == {"idle", "queued", "open"}

\* HeadOK of a header that is the same in the next state.
HeadOKNext(h) ==
    h.stamp \in Jobs =>
        /\ job'[h.stamp].encode
        /\ job'[h.stamp].pc \notin Early
        /\ h = Attach(job'[h.stamp].key, h.stamp, h.name)

\* A step of an operation that has written no header yet, or does not change its
\* request, leaves every header as good as it was.
LEMMA HeadsStay ==
    ASSUME NEW j \in Jobs, \A k \in Jobs \ {j} : job'[k] = job[k],
           \/ job[j].pc \in Early
           \/ /\ job'[j].pc \notin Early
              /\ job'[j].encode = job[j].encode /\ job'[j].key = job[j].key
    PROVE  \A h : HeadOK(h) => HeadOKNext(h)
  BY DEF HeadOK, HeadOKNext, Early

\* Good headers in the next state.
LEMMA HeadsNext ==
    ASSUME \A p \in DOMAIN files' : HeadOKNext(files'[p].head),
           \A h \in parsed' : HeadOKNext(h),
           \A j \in Jobs : HeadOKNext(job'[j].head)
    PROVE  HeadsInv'
  BY DEF HeadsInv, HeadOK, HeadOKNext, Early

\* No operation has written what makes no sense as a header.
LEMMA NoHeadOK == HeadOK(NoHead) /\ NoHead.stamp = "none" /\ "none" \notin Jobs
  BY CryptoAssumption DEF CryptoAssumption, HeadOK, NoHead

\* What an examination finds, be it what an earlier one has left, is a good header.
LEMMA FoundHeadOK ==
    ASSUME HeadsInv, NEW p, NEW limit, NEW head \in HeadsFound(p, limit)
    PROVE  HeadOK(head)
  BY NoHeadOK DEF HeadsInv, HeadsFound, FileAt, Exists, Empty

\* While nobody encodes, a file that an operation has encoded is looked at
\* whole: the header found is the one in the file.
LEMMA SourceHead ==
    ASSUME IInv, ~Encoding, NEW p \in Paths, Exists(p), files[p].head.stamp \in Jobs,
           NEW limit \in Limits(p, 0), NEW head \in HeadsFound(p, limit)
    PROVE  head = files[p].head
  <1>1. ~BeingWritten(p)
    <2>1. SUFFICES ASSUME NEW w \in Jobs, job[w].out = p, job[w].pc \in {"loop", "close"}
                   PROVE  FALSE
      BY DEF BeingWritten
    <2>2. ~job[w].encode
      BY <2>1 DEF Encoding, Running
    <2>3. p # <<>> /\ p[1] # "dec"
      <3>1. Input[1] = "in" /\ <<"enc", 1>>[1] = "enc" /\ <<"enc", 2>>[1] = "enc"
        BY DEF Input
      <3>2. p[1] # "dec"
        BY <3>1 DEF Paths
      <3>3. p # <<>>
        BY DEF Paths, Input
      <3> QED  BY <3>2, <3>3
    <2> QED  BY <2>1, <2>2, <2>3 DEF IInv, OutInv
  <1>2. FileAt(p) = files[p]
    BY DEF FileAt
  <1>3. limit = Len(Bytes(files[p]))
    BY <1>1, <1>2 DEF Limits
  <1>4. files[p].head # NoHead
    BY NoHeadOK
  <1>5. files[p].body \in Seq(Chars) /\ HeadBytes \in Seq(Chars) /\ Len(HeadBytes) = HeadSize
        /\ HeadSize \in Nat
    <2>1. HeadSize \in Nat /\ {} \in Chars
      BY CryptoAssumption DEF CryptoAssumption, Chars
    <2>2. HeadBytes \in [1..HeadSize -> Chars]
      BY <2>1 DEF HeadBytes
    <2> QED  BY <2>1, <2>2 DEF IInv, TypeOK, Exists
  <1>6. Bytes(files[p]) = HeadBytes \o files[p].body
    BY <1>4 DEF Bytes
  <1>7. Len(Bytes(files[p])) = HeadSize + Len(files[p].body) /\ Len(files[p].body) \in Nat
    BY <1>5, <1>6, ConcatProperties, LenProperties
  <1>8. limit >= HeadSize
    BY <1>3, <1>5, <1>7
  <1> QED  BY <1>2, <1>8 DEF HeadsFound

\* Whoever knows the password finds a header that is valid and holds it.
LEMMA KnownHead ==
    ASSUME IInv, NEW h, HeadOK(h), h.stamp \in Jobs, Holds(job[h.stamp].key)
    PROVE  /\ Valid(h) /\ h.minor = Minor /\ h.ext = ".spc"
           /\ RealKey(h) = job[h.stamp].key
  <1>1. job[h.stamp].key \in Keys \cup {<<>>}
    BY DEF IInv, TypeOK
  <1>2. h = Attach(job[h.stamp].key, h.stamp, h.name)
    BY DEF HeadOK
  <1>3. /\ Valid(Attach(job[h.stamp].key, h.stamp, h.name))
        /\ Attach(job[h.stamp].key, h.stamp, h.name).ext = ".spc"
        /\ Attach(job[h.stamp].key, h.stamp, h.name).minor = Minor
    BY <1>1, AttachedValid
  <1>4. RealKey(Attach(job[h.stamp].key, h.stamp, h.name)) = job[h.stamp].key
    BY <1>1, <1>3, AttachedKey
  <1> QED  BY ONLY <1>2, <1>3, <1>4

-------------------------------------------------------------------------------
(* The operations in turn *)

\* What an operation that runs may change in a step, so that the invariant stays.
LEMMA RunningStep ==
    ASSUME IInv, NEW j \in Jobs, Running(j), UNCHANGED <<buff, sets>>, Only(j),
           job'[j].encode = job[j].encode, job'[j].key = job[j].key,
           job'[j].src = job[j].src, job'[j].found = job[j].found,
           job'[j].pc \in {"open", "loop", "close", "done", "crashed"},
           job[j].pc \in Early \/ job'[j].pc # "open",
           job'[j].pc \in {"loop", "close"} => job'[j].out \in DOMAIN files',
           job'[j].out # <<>> => job'[j].out[1] = IF job[j].encode THEN "enc" ELSE "dec",
           ~job[j].encode /\ job'[j].out # <<>> =>
                Valid(job'[j].head) /\ RealKey(job'[j].head) = job[j].key,
           job'[j].pos \in Nat, HeadOK(job'[j].head),
           NoHead \in parsed', \A h \in parsed' : HeadOK(h),
           DOMAIN files \subseteq DOMAIN files',
           \A p \in DOMAIN files' : /\ DOMAIN files'[p] = {"head", "body"}
                                    /\ files'[p].body \in Seq(Chars)
                                    /\ HeadOKNext(files'[p].head),
           ~job[j].encode => \A p \in Paths \cap DOMAIN files : files'[p].head = files[p].head,
           job'[j].err \in Errors,
           /\ ~job[j].encode /\ job[j].found \in Jobs
           /\ job[j].key = job[job[j].found].key /\ Holds(job[j].key)
           => job'[j].err \in {"none", "out open"}
    PROVE  IInv'
  <1>0. ShapeInv /\ TypeOK /\ HeadsInv /\ OutInv /\ FoundInv /\ job[j].encode \in BOOLEAN
    BY DEF IInv, ShapeInv
  <1>1. \A k \in Jobs \ {j} : job'[k] = job[k]
    BY DEF Only
  <1>2. ShapeInv'
    BY <1>0 DEF ShapeInv, Only
  <1>3. TypeOK'
    <2>1. ASSUME NEW k \in Jobs
          PROVE  /\ job'[k].pc \in {"idle", "queued", "open", "loop", "close", "done", "crashed"}
                 /\ job'[k].key \in Keys \cup {<<>>}
                 /\ job'[k].src \in Paths
                 /\ job'[k].pos \in Nat
                 /\ job'[k].err \in Errors
                 /\ job'[k].pc \in {"loop", "close"} => job'[k].out \in DOMAIN files'
      <3>1. CASE k = j
        BY <1>0, <3>1 DEF TypeOK
      <3>2. CASE k # j
        BY <1>0, <1>1, <3>2 DEF TypeOK, Exists
      <3> QED  BY <3>1, <3>2
    <2> QED  BY <1>0, <2>1 DEF TypeOK, Exists
  <1>4. \A h : HeadOK(h) => HeadOKNext(h)
    <2>1. \/ job[j].pc \in Early
          \/ /\ job'[j].pc \notin Early
             /\ job'[j].encode = job[j].encode /\ job'[j].key = job[j].key
      BY DEF Early
    <2> QED  BY <1>1, <2>1, HeadsStay
  <1>5. HeadsInv'
    <2>1. \A k \in Jobs : HeadOK(job'[k].head)
      BY <1>0, <1>1 DEF HeadsInv
    <2> QED  BY <1>4, <2>1, HeadsNext
  <1>6. OutInv'
    <2>1. ASSUME NEW k \in Jobs
          PROVE  /\ job'[k].pc \in {"idle", "queued"} => job'[k].out = <<>>
                 /\ job'[k].out # <<>> => job'[k].out[1] = IF job'[k].encode THEN "enc" ELSE "dec"
                 /\ ~job'[k].encode /\ job'[k].out # <<>> =>
                        Valid(job'[k].head) /\ RealKey(job'[k].head) = job'[k].key
      <3>1. CASE k = j
        BY <3>1
      <3>2. CASE k # j
        <4>1. job'[k] = job[k]
          BY <1>1, <3>2
        <4> QED  BY ONLY k \in Jobs, <1>0, <4>1 DEF OutInv
      <3> QED  BY <3>1, <3>2
    <2> QED  BY <2>1 DEF OutInv
  <1>7. FoundInv'
    <2> DEFINE Runs(k) == job'[k].pc \notin {"idle", "done"}
    <2>1. SUFFICES ASSUME NEW d \in Jobs, ~job'[d].encode, job'[d].pc # "idle",
                          job'[d].found \in Jobs
                   PROVE  /\ Runs(d) => ~(\E k \in Jobs : Runs(k) /\ job'[k].encode)
                                        /\ job'[d].src \in DOMAIN files'
                          /\ Runs(d) => files'[job'[d].src].head.stamp = job'[d].found
                          /\ job'[job'[d].found].pc # "idle"
                          /\ job'[d].key = job'[job'[d].found].key /\ Holds(job'[d].key) =>
                                job'[d].err \in {"none", "out open"}
      BY DEF FoundInv, Running, Encoding, Exists
    <2>2. \A k \in Jobs : /\ job'[k].encode = job[k].encode /\ job'[k].key = job[k].key
                          /\ job'[k].src = job[k].src /\ job'[k].found = job[k].found
                          /\ job'[k].pc # "idle" <=> job[k].pc # "idle"
                          /\ Runs(k) => Running(k)
      BY <1>1 DEF Running
    <2>3. ~job[d].encode /\ job[d].pc # "idle" /\ job[d].found \in Jobs
      BY <2>1, <2>2
    <2>4. /\ Running(d) => ~Encoding /\ Exists(job[d].src)
          /\ Running(d) => files[job[d].src].head.stamp = job[d].found
          /\ job[job[d].found].pc # "idle"
          /\ job[d].key = job[job[d].found].key /\ Holds(job[d].key) =>
                job[d].err \in {"none", "out open"}
      BY <1>0, <2>3 DEF FoundInv
    <2>5. ASSUME Runs(d) PROVE ~(\E k \in Jobs : Runs(k) /\ job'[k].encode)
      BY <2>2, <2>4, <2>5 DEF Encoding
    <2>6. ASSUME Runs(d)
          PROVE  /\ job'[d].src \in DOMAIN files'
                 /\ files'[job'[d].src].head.stamp = job'[d].found
      <3>1. ~job[j].encode
        BY <2>2, <2>4, <2>6 DEF Encoding
      <3>2. job[d].src \in Paths \cap DOMAIN files
        BY <1>0, <2>2, <2>4, <2>6 DEF TypeOK, Exists
      <3>3. files'[job[d].src].head = files[job[d].src].head
        BY <3>1, <3>2
      <3> QED  BY <2>2, <2>4, <2>6, <3>2, <3>3
    <2>7. job'[job'[d].found].pc # "idle"
      BY <2>2, <2>3, <2>4
    <2>8. ASSUME job'[d].key = job'[job'[d].found].key, Holds(job'[d].key)
          PROVE  job'[d].err \in {"none", "out open"}
      <3>0. job'[d].key = job[d].key /\ job'[d].found = job[d].found
            /\ job'[job[d].found].key = job[job[d].found].key
        BY <2>2, <2>3
      <3>1. job[d].key = job[job[d].found].key /\ Holds(job[d].key)
        BY ONLY <2>8, <3>0
      <3>2. CASE d = j
        BY <2>3, <3>1, <3>2
      <3>3. CASE d # j
        BY <1>1, <2>4, <3>1, <3>3
      <3> QED  BY <3>2, <3>3
    <2> QED  BY <2>5, <2>6, <2>7, <2>8
  <1> QED  BY <1>2, <1>3, <1>5, <1>6, <1>7 DEF IInv

\* What a request may be, so that the invariant stays.
LEMMA Asking ==
    ASSUME IInv, NEW j \in Jobs, At(j, "idle"), ~Decoding, UNCHANGED <<files, buff, sets>>,
           NEW encode \in BOOLEAN, NEW src \in Paths, NEW key \in Keys,
           NEW pc \in {"queued", "done"}, NEW err \in Errors,
           Asks(j, encode, src, key, pc, err),
           NoHead \in parsed', \A h \in parsed' : HeadOK(h),
           pc = "queued" => Exists(src),
           /\ ~encode /\ Found(src) \in Jobs
           /\ key = job[Found(src)].key /\ Holds(key)
           => err \in {"none", "out open"}
    PROVE  IInv'
  <1>0. ShapeInv /\ TypeOK /\ HeadsInv /\ OutInv /\ FoundInv
    BY DEF IInv
  <1>1. \A k \in Jobs \ {j} : job'[k] = job[k]
    BY <1>0 DEF Asks, ShapeInv
  <1>2. /\ job'[j].pc = pc /\ job'[j].encode = encode /\ job'[j].key = key
        /\ job'[j].src = src /\ job'[j].found = Found(src) /\ job'[j].out = job[j].out
        /\ job'[j].head = job[j].head /\ job'[j].pos = job[j].pos
        /\ job'[j].err = err
    BY <1>0 DEF Asks, ShapeInv, Fields
  <1>3. ShapeInv'
    <2>1. DOMAIN job' = Jobs /\ DOMAIN job'[j] = Fields
      BY <1>0 DEF Asks, ShapeInv
    <2> QED  BY <1>0, <1>1, <1>2, <2>1 DEF ShapeInv
  <1>4. TypeOK'
    <2>1. ASSUME NEW k \in Jobs
          PROVE  /\ job'[k].pc \in {"idle", "queued", "open", "loop", "close", "done", "crashed"}
                 /\ job'[k].key \in Keys \cup {<<>>}
                 /\ job'[k].src \in Paths
                 /\ job'[k].pos \in Nat
                 /\ job'[k].err \in Errors
                 /\ job'[k].pc \in {"loop", "close"} => job'[k].out \in DOMAIN files'
      <3>1. CASE k = j
        BY <1>0, <1>2, <3>1 DEF TypeOK
      <3>2. CASE k # j
        BY <1>0, <1>1, <3>2 DEF TypeOK, Exists
      <3> QED  BY <3>1, <3>2
    <2> QED  BY <1>0, <2>1 DEF TypeOK, Exists
  <1>5. HeadsInv'
    <2>1. \A h : HeadOK(h) => HeadOKNext(h)
      <3>1. job[j].pc \in Early
        BY DEF At, Early
      <3> QED  BY <1>1, <3>1, HeadsStay
    <2>2. \A k \in Jobs : HeadOK(job'[k].head)
      BY <1>0, <1>1, <1>2 DEF HeadsInv
    <2>3. \A p \in DOMAIN files' : HeadOK(files'[p].head)
      BY <1>0 DEF HeadsInv
    <2> QED  BY <2>1, <2>2, <2>3, HeadsNext
  <1>6. OutInv'
    <2>1. job[j].out = <<>>
      BY <1>0 DEF OutInv, At
    <2>2. ASSUME NEW k \in Jobs
          PROVE  /\ job'[k].pc \in {"idle", "queued"} => job'[k].out = <<>>
                 /\ job'[k].out # <<>> => job'[k].out[1] = IF job'[k].encode THEN "enc" ELSE "dec"
                 /\ ~job'[k].encode /\ job'[k].out # <<>> =>
                        Valid(job'[k].head) /\ RealKey(job'[k].head) = job'[k].key
      <3>1. CASE k = j
        BY <1>2, <2>1, <3>1
      <3>2. CASE k # j
        <4>1. job'[k] = job[k]
          BY <1>1, <3>2
        <4> QED  BY ONLY <1>0, <4>1 DEF OutInv
      <3> QED  BY <3>1, <3>2
    <2> QED  BY <2>2 DEF OutInv
  <1>7. FoundInv'
    <2> DEFINE Runs(k) == job'[k].pc \notin {"idle", "done"}
    <2>1. SUFFICES ASSUME NEW d \in Jobs, ~job'[d].encode, job'[d].pc # "idle",
                          job'[d].found \in Jobs
                   PROVE  /\ Runs(d) => ~(\E k \in Jobs : Runs(k) /\ job'[k].encode)
                                        /\ job'[d].src \in DOMAIN files'
                          /\ Runs(d) => files'[job'[d].src].head.stamp = job'[d].found
                          /\ job'[job'[d].found].pc # "idle"
                          /\ job'[d].key = job'[job'[d].found].key /\ Holds(job'[d].key) =>
                                job'[d].err \in {"none", "out open"}
      BY DEF FoundInv, Running, Encoding, Exists
    <2>2. \A k \in Jobs : job[k].pc # "idle" => k # j /\ job'[k] = job[k]
      BY <1>1 DEF At
    <2>3. CASE d = j
      <3>1. ~encode /\ Found(src) \in Jobs /\ job'[d].found = Found(src)
        BY <1>2, <2>1, <2>3
      <3>2. ~Encoding /\ FileAt(src).head.stamp \in Jobs /\ Found(src) = FileAt(src).head.stamp
        BY <3>1, NoHeadOK DEF Found
      <3>3. Exists(src) /\ Found(src) = files[src].head.stamp
        BY <3>2, NoHeadOK DEF FileAt, Empty
      <3>4. job[Found(src)].pc # "idle"
        BY <1>0, <3>1, <3>3 DEF HeadsInv, HeadOK, Exists
      <3>5. job'[Found(src)] = job[Found(src)]
        BY <2>2, <3>1, <3>4
      <3>6. ~(\E k \in Jobs : Runs(k) /\ job'[k].encode)
        BY <1>1, <1>2, <3>1, <3>2 DEF Encoding, Running
      <3>7. job'[d].src \in DOMAIN files' /\ files'[job'[d].src].head.stamp = job'[d].found
        BY <1>2, <2>3, <3>1, <3>3 DEF Exists
      <3>8. job'[d].key = job'[job'[d].found].key /\ Holds(job'[d].key) =>
                job'[d].err \in {"none", "out open"}
        <4>1. job'[d].key = key /\ job'[d].err = err
          BY <1>2, <2>3
        <4> QED  BY <3>1, <3>5, <4>1
      <3> QED  BY <3>1, <3>4, <3>5, <3>6, <3>7, <3>8
    <2>4. CASE d # j
      <3>1. job'[d] = job[d]
        BY <1>1, <2>4
      <3>2. ~Runs(d)
        BY <2>1, <3>1 DEF Decoding, Running
      <3>3. /\ job[job[d].found].pc # "idle"
            /\ job[d].key = job[job[d].found].key /\ Holds(job[d].key) =>
                  job[d].err \in {"none", "out open"}
        BY <1>0, <2>1, <3>1 DEF FoundInv
      <3>4. job'[job'[d].found] = job[job[d].found]
        BY <2>1, <2>2, <3>1, <3>3
      <3> QED  BY ONLY <3>1, <3>2, <3>3, <3>4
    <2> QED  BY <2>3, <2>4
  <1> QED  BY <1>3, <1>4, <1>5, <1>6, <1>7 DEF IInv

\* AskEncode.
LEMMA AskEncodeStep ==
    ASSUME IInv, NEW j \in Jobs, NEW src \in Paths, NEW key \in Keys, AskEncode(j, src, key)
    PROVE  IInv'
  <1>1. At(j, "idle") /\ ~Decoding /\ UNCHANGED <<files, buff, sets>> /\ parsed' = parsed
    BY DEF AskEncode
  <1>2. NoHead \in parsed' /\ \A h \in parsed' : HeadOK(h)
    BY <1>1 DEF IInv, TypeOK, HeadsInv
  <1>3. CASE Exists(src) /\ Asks(j, TRUE, src, key, "queued", "none")
    <2>1. "none" \in Errors /\ "queued" \in {"queued", "done"} /\ TRUE \in BOOLEAN
      BY DEF Errors
    <2> QED  BY <1>1, <1>2, <1>3, <2>1, Asking
  <1>4. CASE Asks(j, TRUE, src, key, "done", "no input")
    <2>1. "no input" \in Errors /\ "done" \in {"queued", "done"} /\ TRUE \in BOOLEAN
      BY DEF Errors
    <2> QED  BY <1>1, <1>2, <1>4, <2>1, Asking
  <1> QED  BY <1>3, <1>4 DEF AskEncode

\* AskDecode.
LEMMA AskDecodeStep ==
    ASSUME IInv, NEW j \in Jobs, NEW src \in Paths, NEW key \in Keys, AskDecode(j, src, key)
    PROVE  IInv'
  <1>0. TypeOK /\ HeadsInv
    BY DEF IInv
  <1>1. At(j, "idle") /\ ~Decoding /\ UNCHANGED <<files, buff, sets>>
    BY DEF AskDecode
  <1>2. "none" \in Errors /\ "no decoder" \in Errors /\ FALSE \in BOOLEAN
    BY DEF Errors
  <1>3. ASSUME NEW limit \in Limits(src, 0), NEW head \in HeadsFound(src, limit), Exists(src),
               parsed' = parsed \cup {head},
               \/ /\ Valid(head) /\ head.minor = Minor
                  /\ Asks(j, FALSE, src, key, "queued", "none")
               \/ /\ ~(Valid(head) /\ head.minor = Minor)
                  /\ Asks(j, FALSE, src, key, "done", "no decoder")
        PROVE  IInv'
    <2>1. NoHead \in parsed' /\ \A h \in parsed' : HeadOK(h)
      BY <1>0, <1>3, FoundHeadOK DEF TypeOK, HeadsInv
    <2>2. CASE Asks(j, FALSE, src, key, "queued", "none")
      BY <1>1, <1>2, <1>3, <2>1, <2>2, Asking
    <2>3. CASE ~(Valid(head) /\ head.minor = Minor)
               /\ Asks(j, FALSE, src, key, "done", "no decoder")
      <3>1. ASSUME Found(src) \in Jobs, key = job[Found(src)].key, Holds(key)
            PROVE  FALSE
        <4>1. ~Encoding /\ FileAt(src) = files[src] /\ Found(src) = files[src].head.stamp
          BY <1>3, <3>1, NoHeadOK DEF Found, FileAt
        <4>2. head = files[src].head
          BY <1>3, <3>1, <4>1, SourceHead
        <4>3. HeadOK(head) /\ head.stamp \in Jobs /\ Holds(job[head.stamp].key)
          <5>1. HeadOK(head)
            BY <1>0, <1>3, FoundHeadOK
          <5> QED  BY <3>1, <4>1, <4>2, <5>1
        <4> QED  BY <2>3, <4>3, KnownHead
      <3> QED  BY <1>1, <1>2, <2>1, <2>3, <3>1, Asking
    <2> QED  BY <1>3, <2>2, <2>3
  <1>4. ASSUME ~Exists(src), Asks(j, FALSE, src, key, "done", "no decoder"), UNCHANGED parsed
        PROVE  IInv'
    <2>1. NoHead \in parsed' /\ \A h \in parsed' : HeadOK(h)
      BY <1>0, <1>4 DEF TypeOK, HeadsInv
    <2>2. Found(src) \notin Jobs
      BY <1>4, NoHeadOK DEF Found, FileAt, Empty
    <2> QED  BY <1>1, <1>2, <1>4, <2>1, <2>2, Asking
  <1> QED  BY <1>3, <1>4 DEF AskDecode

\* Set.
LEMMA SetStep == ASSUME IInv, NEW b \in Buffs, Set(b) PROVE IInv'
  <1>1. UNCHANGED <<files, parsed, job>> /\ buff' \in Buffs
    BY DEF Set
  <1>2. sets' \in 0..MaxSets
    BY CryptoAssumption DEF Set, IInv, TypeOK, CryptoAssumption
  <1>3. TypeOK'
    BY <1>1, <1>2 DEF IInv, TypeOK, Exists
  <1>4. ShapeInv'
    BY <1>1 DEF IInv, ShapeInv
  <1>5. HeadsInv' /\ OutInv'
    BY <1>1 DEF IInv, HeadsInv, HeadOK, OutInv
  <1>6. FoundInv'
    BY <1>1 DEF IInv, FoundInv, Running, Encoding, Exists
  <1> QED  BY <1>3, <1>4, <1>5, <1>6 DEF IInv

\* The end of an operation.
LEMMA EndsStep ==
    ASSUME IInv, NEW j \in Jobs, Running(j), NEW err \in Errors, Ends(j, err),
           UNCHANGED <<files, buff, sets>>, NoHead \in parsed', \A h \in parsed' : HeadOK(h),
           /\ ~job[j].encode /\ job[j].found \in Jobs
           /\ job[j].key = job[job[j].found].key /\ Holds(job[j].key)
           => err \in {"none", "out open"}
    PROVE  IInv'
  <1>0. ShapeInv /\ TypeOK /\ HeadsInv /\ OutInv
    BY DEF IInv
  <1>1. Only(j)
    BY <1>0 DEF Only, Ends, ShapeInv
  <1>2. /\ job'[j].pc = "done" /\ job'[j].encode = job[j].encode /\ job'[j].key = job[j].key
        /\ job'[j].src = job[j].src /\ job'[j].found = job[j].found /\ job'[j].out = job[j].out
        /\ job'[j].head = job[j].head /\ job'[j].pos = job[j].pos /\ job'[j].err = err
    BY <1>0 DEF Ends, ShapeInv, Fields
  <1>3. /\ job[j].pos \in Nat
        /\ job[j].out # <<>> => job[j].out[1] = IF job[j].encode THEN "enc" ELSE "dec"
        /\ ~job[j].encode /\ job[j].out # <<>> =>
                Valid(job[j].head) /\ RealKey(job[j].head) = job[j].key
        /\ HeadOK(job[j].head)
    BY <1>0 DEF TypeOK, OutInv, HeadsInv
  <1>4. \A h : HeadOK(h) => HeadOKNext(h)
    <2>1. job'[j].pc \notin Early
      BY <1>2 DEF Early
    <2> QED  BY <1>1, <1>2, <2>1, HeadsStay DEF Only
  <1>5. \A p \in DOMAIN files' : /\ DOMAIN files'[p] = {"head", "body"}
                                 /\ files'[p].body \in Seq(Chars)
                                 /\ HeadOKNext(files'[p].head)
    BY <1>0, <1>4 DEF ShapeInv, TypeOK, HeadsInv
  <1> QED  BY <1>1, <1>2, <1>3, <1>5, RunningStep

\* Prepare.
LEMMA PrepareStep == ASSUME IInv, NEW j \in Jobs, Prepare(j) PROVE IInv'
  <1>0. ShapeInv /\ TypeOK /\ HeadsInv /\ OutInv /\ FoundInv
    BY DEF IInv
  <1>1. /\ job[j].pc = "queued" /\ UNCHANGED <<files, buff, sets>> /\ Running(j)
        /\ job[j].src \in Paths /\ job[j].encode \in BOOLEAN /\ job[j].err \in Errors
    BY <1>0 DEF Prepare, At, Running, TypeOK, ShapeInv
  <1> DEFINE GoesOn(limit, head, out, pos) ==
                job' = [job EXCEPT ![j].pc = "open", ![j].out = out, ![j].head = head,
                                   ![j].pos = pos, ![j].eof = limit < HeadSize]
             Taken(limit, head) ==
                /\ parsed' = parsed \cup {head}
                /\ \/ /\ job[j].encode
                      /\ \/ Refuses(j, head) /\ Ends(j, "repeat")
                         \/ /\ ~Refuses(j, head)
                            /\ GoesOn(limit, head, <<"enc", job[j].src[2] + 1>>, 0)
                   \/ /\ ~job[j].encode
                      /\ \/ ~(Valid(head) /\ head.ext = ".spc") /\ Ends(j, "parse")
                         \/ /\ Valid(head) /\ head.ext = ".spc"
                            /\ RealKey(head) # job[j].key
                            /\ Ends(j, "passwd")
                         \/ /\ Valid(head) /\ head.ext = ".spc"
                            /\ RealKey(head) = job[j].key
                            /\ GoesOn(limit, head, <<"dec", head.name>>, HeadSize)
  <1>2. PICK limit \in Limits(job[j].src, 0) :
            \E head \in HeadsFound(job[j].src, limit) : Taken(limit, head)
    BY DEF Prepare
  <1>3. PICK head \in HeadsFound(job[j].src, limit) : Taken(limit, head)
    BY <1>2
  <1>4. HeadOK(head)
    BY <1>0, FoundHeadOK
  <1>5. NoHead \in parsed' /\ \A h \in parsed' : HeadOK(h)
    BY <1>0, <1>3, <1>4 DEF TypeOK, HeadsInv
  \* Who knows the password is not refused.
  <1>6. ASSUME ~job[j].encode, job[j].found \in Jobs, job[j].key = job[job[j].found].key,
               Holds(job[j].key)
        PROVE  Valid(head) /\ head.ext = ".spc" /\ RealKey(head) = job[j].key
    <2>1. ~Encoding /\ Exists(job[j].src) /\ files[job[j].src].head.stamp = job[j].found
      BY <1>0, <1>1, <1>6 DEF FoundInv
    <2>2. head = files[job[j].src].head
      BY <1>1, <1>6, <2>1, SourceHead
    <2>3. head.stamp = job[j].found
      BY ONLY <2>1, <2>2
    <2>4. head.stamp \in Jobs /\ Holds(job[head.stamp].key) /\ job[head.stamp].key = job[j].key
      BY ONLY <1>6, <2>3
    <2> QED  BY <1>4, <2>4, KnownHead
  <1>7. CASE job[j].encode /\ Ends(j, "repeat")
    BY <1>1, <1>5, <1>7, EndsStep DEF Errors
  <1>8. CASE ~job[j].encode /\ ~(Valid(head) /\ head.ext = ".spc") /\ Ends(j, "parse")
    BY <1>1, <1>5, <1>6, <1>8, EndsStep DEF Errors
  <1>9. CASE ~job[j].encode /\ RealKey(head) # job[j].key /\ Ends(j, "passwd")
    BY <1>1, <1>5, <1>6, <1>9, EndsStep DEF Errors
  \* The header is one that the operation takes.
  <1>10. ASSUME NEW out, NEW pos \in Nat, GoesOn(limit, head, out, pos),
               out[1] = IF job[j].encode THEN "enc" ELSE "dec",
               ~job[j].encode => Valid(head) /\ RealKey(head) = job[j].key
        PROVE  IInv'
    <2>1. Only(j)
      BY <1>0, <1>10 DEF Only, ShapeInv
    <2>2. /\ job'[j].pc = "open" /\ job'[j].encode = job[j].encode /\ job'[j].key = job[j].key
          /\ job'[j].src = job[j].src /\ job'[j].found = job[j].found /\ job'[j].out = out
          /\ job'[j].head = head /\ job'[j].pos = pos /\ job'[j].err = job[j].err
      BY <1>0, <1>10 DEF ShapeInv, Fields
    <2>3. job[j].pc \in Early
      BY <1>1 DEF Early
    <2>4. \A h : HeadOK(h) => HeadOKNext(h)
      BY <2>1, <2>3, HeadsStay DEF Only
    <2>5. \A p \in DOMAIN files' : /\ DOMAIN files'[p] = {"head", "body"}
                                   /\ files'[p].body \in Seq(Chars)
                                   /\ HeadOKNext(files'[p].head)
      BY <1>0, <1>1, <2>4 DEF ShapeInv, TypeOK, HeadsInv
    <2>6. ~job[j].encode /\ job[j].found \in Jobs
          /\ job[j].key = job[job[j].found].key /\ Holds(job[j].key)
          => job'[j].err \in {"none", "out open"}
      BY <1>0, <1>1, <2>2 DEF FoundInv
    <2> QED  BY <1>1, <1>4, <1>5, <1>10, <2>1, <2>2, <2>3, <2>5, <2>6, RunningStep
  <1>11. CASE job[j].encode /\ GoesOn(limit, head, <<"enc", job[j].src[2] + 1>>, 0)
    <2> HIDE DEF GoesOn
    <2>1. <<"enc", job[j].src[2] + 1>>[1] = "enc"
      OBVIOUS
    <2> QED  BY <1>10, <1>11, <2>1
  <1>12. CASE /\ ~job[j].encode /\ Valid(head) /\ RealKey(head) = job[j].key
              /\ GoesOn(limit, head, <<"dec", head.name>>, HeadSize)
    <2> HIDE DEF GoesOn
    <2>1. <<"dec", head.name>>[1] = "dec" /\ HeadSize \in Nat
      BY CryptoAssumption DEF CryptoAssumption
    <2> QED  BY <1>10, <1>12, <2>1
  <1> HIDE DEF GoesOn
  <1> QED  BY <1>3, <1>7, <1>8, <1>9, <1>11, <1>12

\* Close.
LEMMA CloseStep == ASSUME IInv, NEW j \in Jobs, Close(j) PROVE IInv'
  <1>1. Running(j) /\ Ends(j, "none") /\ UNCHANGED <<files, buff, sets>> /\ parsed' = parsed
    BY DEF Close, At, Running
  <1>2. NoHead \in parsed' /\ \A h \in parsed' : HeadOK(h)
    BY <1>1 DEF IInv, TypeOK, HeadsInv
  <1> QED  BY <1>1, <1>2, EndsStep DEF Errors

\* OpenOut.
LEMMA OpenOutStep == ASSUME IInv, NEW j \in Jobs, OpenOut(j) PROVE IInv'
  <1>0. ShapeInv /\ TypeOK /\ HeadsInv /\ OutInv /\ FoundInv
    BY DEF IInv
  <1> DEFINE first == IF job[j].eof THEN "close" ELSE "loop"
             Opened(head, pc) ==
                /\ files' = Written(job[j].out, [head |-> head, body |-> <<>>])
                /\ job' = [job EXCEPT ![j].pc = pc]
  <1>1. /\ job[j].pc = "open" /\ UNCHANGED <<buff, sets>> /\ parsed' = parsed /\ Running(j)
        /\ job[j].encode \in BOOLEAN /\ job[j].err \in Errors
    BY <1>0 DEF OpenOut, At, Running, TypeOK, ShapeInv
  <1>2. NoHead \in parsed' /\ \A h \in parsed' : HeadOK(h)
    BY <1>0, <1>1 DEF TypeOK, HeadsInv
  <1>3. CASE Ends(j, "out open") /\ UNCHANGED files
    BY <1>1, <1>2, <1>3, EndsStep DEF Errors
  <1>4. ASSUME NEW head, NEW pc \in {"loop", "close", "crashed"}, Opened(head, pc),
               HeadOK(head) \/ (job[j].encode /\ head = Attach(job[j].key, j, head.name)
                                /\ head.stamp = j)
        PROVE  IInv'
    <2>1. Only(j)
      BY <1>0, <1>4 DEF Only, ShapeInv
    <2>2. /\ job'[j].pc = pc /\ job'[j].encode = job[j].encode /\ job'[j].key = job[j].key
          /\ job'[j].src = job[j].src /\ job'[j].found = job[j].found /\ job'[j].out = job[j].out
          /\ job'[j].head = job[j].head /\ job'[j].pos = job[j].pos /\ job'[j].err = job[j].err
      BY <1>0, <1>4 DEF ShapeInv, Fields
    <2>3. job[j].pc \in Early
      BY <1>1 DEF Early
    <2>4. \A h : HeadOK(h) => HeadOKNext(h)
      BY <2>1, <2>3, HeadsStay DEF Only
    <2>5. HeadOKNext(head)
      BY <1>4, <2>2, <2>4 DEF HeadOKNext, Early
    <2>6. /\ DOMAIN files' = DOMAIN files \cup {job[j].out}
          /\ files'[job[j].out] = [head |-> head, body |-> <<>>]
          /\ \A p \in DOMAIN files \ {job[j].out} : files'[p] = files[p]
      BY <1>4 DEF Written
    <2>7. ASSUME NEW p \in DOMAIN files'
          PROVE  /\ DOMAIN files'[p] = {"head", "body"}
                 /\ files'[p].body \in Seq(Chars)
                 /\ HeadOKNext(files'[p].head)
      <3>1. CASE p = job[j].out
        <4>1. DOMAIN [head |-> head, body |-> <<>>] = {"head", "body"} /\ <<>> \in Seq(Chars)
          BY EmptySeq
        <4>2. files'[p] = [head |-> head, body |-> <<>>]
          BY ONLY <2>6, <3>1
        <4>3. files'[p].head = head /\ files'[p].body = <<>>
          BY ONLY <4>2
        <4> QED  BY ONLY <2>5, <4>1, <4>2, <4>3
      <3>2. CASE p # job[j].out
        BY <1>0, <2>4, <2>6, <3>2 DEF ShapeInv, TypeOK, HeadsInv
      <3> QED  BY <3>1, <3>2
    <2>8. ~job[j].encode => \A p \in Paths \cap DOMAIN files : files'[p].head = files[p].head
      <3>1. SUFFICES ASSUME ~job[j].encode, NEW p \in Paths \cap DOMAIN files
                     PROVE  p # job[j].out
        BY <2>6
      <3>2. p # <<>> /\ p[1] # "dec"
        <4>1. Input[1] = "in" /\ <<"enc", 1>>[1] = "enc" /\ <<"enc", 2>>[1] = "enc"
          BY DEF Input
        <4>2. p[1] # "dec"
          BY <4>1 DEF Paths
        <4>3. p # <<>>
          BY DEF Paths, Input
        <4> QED  BY <4>2, <4>3
      <3> QED  BY <1>0, <3>1, <3>2 DEF OutInv
    <2>9. /\ job[j].out # <<>> => job[j].out[1] = IF job[j].encode THEN "enc" ELSE "dec"
          /\ ~job[j].encode /\ job[j].out # <<>> =>
                  Valid(job[j].head) /\ RealKey(job[j].head) = job[j].key
          /\ HeadOK(job[j].head) /\ job[j].pos \in Nat
      BY <1>0 DEF OutInv, HeadsInv, TypeOK
    <2>10. ~job[j].encode /\ job[j].found \in Jobs
           /\ job[j].key = job[job[j].found].key /\ Holds(job[j].key)
           => job'[j].err \in {"none", "out open"}
      BY <1>0, <1>1, <2>2 DEF FoundInv
    <2> QED  BY <1>1, <1>2, <1>4, <2>1, <2>2, <2>6, <2>7, <2>8, <2>9, <2>10, RunningStep
  <1>5. CASE Opened(NoHead, "crashed") \/ Opened(NoHead, first)
    <2>1. first \in {"loop", "close", "crashed"}
      OBVIOUS
    <2> HIDE DEF Opened, first
    <2> QED  BY <1>4, <1>5, <2>1, NoHeadOK
  <1>6. CASE job[j].encode /\ Opened(Attach(job[j].key, j, job[j].src[2]), first)
    <2>1. first \in {"loop", "close", "crashed"}
      OBVIOUS
    <2>2. /\ Attach(job[j].key, j, job[j].src[2]).name = job[j].src[2]
          /\ Attach(job[j].key, j, job[j].src[2]).stamp = j
      BY DEF Attach, Signed
    <2> HIDE DEF Opened, first
    <2> QED  BY <1>4, <1>6, <2>1, <2>2
  <1> QED  BY <1>3, <1>5, <1>6 DEF OpenOut

\* CodeBlock.
LEMMA CodeBlockStep == ASSUME IInv, NEW j \in Jobs, CodeBlock(j) PROVE IInv'
  <1>0. ShapeInv /\ TypeOK /\ HeadsInv /\ OutInv /\ FoundInv
    BY DEF IInv
  <1> DEFINE p == job[j].pos
             o == job[j].out
             content == Bytes(FileAt(job[j].src))
             next(limit) == MinOf(limit, p + buff)
             block(limit) == SubSeq(content, p + 1, next(limit))
  <1>1. PICK limit \in Limits(job[j].src, p) :
            /\ p < limit
            /\ \/ /\ job[j].key = <<>>
                  /\ job' = [job EXCEPT ![j].pc = "crashed"]
                  /\ UNCHANGED files
               \/ /\ job[j].key # <<>>
                  /\ files' = [files EXCEPT ![o].body = @ \o XorKey(block(limit), job[j].key)]
                  /\ job' = [job EXCEPT ![j].pos = next(limit),
                                        ![j].pc = IF next(limit) < p + buff THEN "close" ELSE @]
    BY DEF CodeBlock
  <1>2. /\ job[j].pc = "loop" /\ UNCHANGED <<buff, sets>> /\ parsed' = parsed /\ Running(j)
        /\ o \in DOMAIN files /\ p \in Nat /\ buff \in Nat
        /\ job[j].key \in Keys \cup {<<>>} /\ job[j].err \in Errors
    BY <1>0, CryptoAssumption DEF CodeBlock, At, Running, TypeOK, Exists, CryptoAssumption
  <1>3. NoHead \in parsed' /\ \A h \in parsed' : HeadOK(h)
    BY <1>0, <1>2 DEF TypeOK, HeadsInv
  <1>4. content \in Seq(Chars) /\ limit \in Nat /\ limit <= Len(content) /\ Len(content) \in Nat
    <2>1. content \in Seq(Chars) /\ limit \in Nat /\ limit <= Len(content)
      BY <1>0, <1>2, LimitsTyped
    <2> QED  BY <2>1, LenProperties
  <1> HIDE DEF content
  <1>5. next(limit) \in Nat /\ next(limit) <= Len(content)
    BY <1>2, <1>4 DEF MinOf
  <1>6. block(limit) \in Seq(Chars)
    <2>1. \A i \in (p + 1)..next(limit) : content[i] \in Chars
      <3>1. \A i \in (p + 1)..next(limit) : i \in 1..Len(content)
        BY <1>2, <1>4, <1>5
      <3> QED  BY <1>4, <3>1, ElementOfSeq
    <2>2. p + 1 \in Nat \ {0}
      BY <1>2
    <2> HIDE DEF next
    <2> QED  BY <1>4, <1>5, <2>1, <2>2, SubSeqProperties
  <1> HIDE DEF next, block
  <1>7. Only(j)
    <2>1. DOMAIN job' = Jobs /\ DOMAIN job'[j] = Fields
      BY <1>0, <1>1 DEF ShapeInv
    <2>2. \A k \in Jobs \ {j} : job'[k] = job[k]
      BY <1>0, <1>1 DEF ShapeInv
    <2> QED  BY <2>1, <2>2 DEF Only
  <1>8. /\ job'[j].encode = job[j].encode /\ job'[j].key = job[j].key
        /\ job'[j].src = job[j].src /\ job'[j].found = job[j].found /\ job'[j].out = o
        /\ job'[j].head = job[j].head /\ job'[j].err = job[j].err
    BY <1>0, <1>1 DEF ShapeInv, Fields
  <1>9. job'[j].pc \in {"loop", "close", "crashed"} /\ job'[j].pos \in Nat
    BY <1>0, <1>1, <1>2, <1>5 DEF ShapeInv, Fields
  <1>10. \A h : HeadOK(h) => HeadOKNext(h)
    <2>1. job'[j].pc \notin Early
      BY <1>9 DEF Early
    <2> QED  BY <1>7, <1>8, <2>1, HeadsStay DEF Only
  <1>11. /\ DOMAIN files' = DOMAIN files
         /\ \A q \in DOMAIN files : DOMAIN files'[q] = {"head", "body"}
                                    /\ files'[q].head = files[q].head
    BY <1>0, <1>1, <1>2 DEF ShapeInv
  <1>12. ASSUME NEW q \in DOMAIN files
         PROVE  files'[q].body \in Seq(Chars)
    <2>1. CASE files' = files \/ q # o
      BY <1>0, <1>1, <2>1 DEF TypeOK, ShapeInv
    <2>2. CASE job[j].key # <<>> /\ q = o
      <3>1. files'[q].body = files[q].body \o XorKey(block(limit), job[j].key)
        <4> DEFINE x == XorKey(block(limit), job[j].key)
        <4>1. files' = [files EXCEPT ![o].body = @ \o x]
          BY <1>1, <2>2
        <4> HIDE DEF x
        <4>2. files'[o].body = files[o].body \o x
          BY ONLY <1>0, <1>2, <4>1 DEF ShapeInv
        <4> QED  BY ONLY <2>2, <4>2 DEF x
      <3>2. XorKey(block(limit), job[j].key) \in Seq(Chars)
        BY <1>2, <1>6, <2>2, CodedTwice, KeysAreStrings
      <3>3. files[q].body \in Seq(Chars)
        BY <1>0 DEF TypeOK
      <3> QED  BY <3>1, <3>2, <3>3, ConcatProperties
    <2> QED  BY <1>1, <2>1, <2>2
  <1>13. \A q \in DOMAIN files' : /\ DOMAIN files'[q] = {"head", "body"}
                                  /\ files'[q].body \in Seq(Chars)
                                  /\ HeadOKNext(files'[q].head)
    BY <1>0, <1>10, <1>11, <1>12 DEF HeadsInv
  <1>14. /\ o # <<>> => o[1] = IF job[j].encode THEN "enc" ELSE "dec"
         /\ ~job[j].encode /\ o # <<>> =>
                  Valid(job[j].head) /\ RealKey(job[j].head) = job[j].key
         /\ HeadOK(job[j].head)
    BY <1>0 DEF OutInv, HeadsInv
  <1>15. ~job[j].encode /\ job[j].found \in Jobs
         /\ job[j].key = job[job[j].found].key /\ Holds(job[j].key)
         => job'[j].err \in {"none", "out open"}
    BY <1>0, <1>2, <1>8 DEF FoundInv
  <1> QED  BY <1>2, <1>3, <1>7, <1>8, <1>9, <1>11, <1>13, <1>14, <1>15, RunningStep

-------------------------------------------------------------------------------
(* The theorems *)

\* In the beginning nobody has asked for anything, and no header in the input
\* is one of the operations'.
LEMMA InitIInv == ASSUME Init PROVE IInv
  <1>1. PICK f \in Inputs : files = [p \in {Input} |-> f]
    BY DEF Init
  <1>2. /\ DOMAIN f = {"head", "body"} /\ f.body \in Seq(Chars) /\ f.head.stamp \notin Jobs
    BY CryptoAssumption DEF CryptoAssumption
  <1>3. /\ DOMAIN job = Jobs
        /\ \A j \in Jobs : /\ DOMAIN job[j] = Fields
                           /\ job[j].pc = "idle" /\ job[j].encode = FALSE /\ job[j].key = <<>>
                           /\ job[j].src = Input /\ job[j].found = "none" /\ job[j].out = <<>>
                           /\ job[j].head = NoHead /\ job[j].pos = 0 /\ job[j].err = "none"
    BY DEF Init, Fields
  <1>4. ShapeInv
    BY <1>1, <1>2, <1>3 DEF ShapeInv
  <1>5. TypeOK
    <2>1. buff \in Buffs /\ sets \in 0..MaxSets /\ NoHead \in parsed
      BY CryptoAssumption DEF Init, CryptoAssumption
    <2>2. Input \in DOMAIN files /\ \A p \in DOMAIN files : files[p].body \in Seq(Chars)
      BY <1>1, <1>2
    <2>3. "none" \in Errors /\ Input \in Paths
      BY DEF Errors, Paths
    <2>4. ASSUME NEW j \in Jobs
          PROVE  job[j].pos \in Nat /\ job[j].pc = "idle" /\ "idle" \notin {"loop", "close"}
      <3>1. job[j].pos = 0 /\ job[j].pc = "idle"
        BY <1>3
      <3> QED  BY ONLY <3>1
    <2> QED  BY <1>3, <2>1, <2>2, <2>3, <2>4 DEF TypeOK
  <1>6. HeadsInv
    <2>1. parsed = {NoHead}
      BY DEF Init
    <2> QED  BY <1>1, <1>2, <1>3, <2>1, NoHeadOK DEF HeadsInv, HeadOK
  <1>7. OutInv /\ FoundInv
    BY <1>3 DEF OutInv, FoundInv
  <1> QED  BY <1>4, <1>5, <1>6, <1>7 DEF IInv

\* Every step keeps the invariant.
LEMMA StepIInv == ASSUME IInv, [Next]_vars PROVE IInv'
  <1>1. CASE UNCHANGED vars
    <2>1. UNCHANGED <<files, buff, sets, parsed, job>>
      BY <1>1 DEF vars
    <2>2. ShapeInv' /\ TypeOK'
      BY <2>1 DEF IInv, ShapeInv, TypeOK, Exists
    <2>3. HeadsInv' /\ OutInv'
      BY <2>1 DEF IInv, HeadsInv, HeadOK, OutInv
    <2>4. FoundInv'
      BY <2>1 DEF IInv, FoundInv, Running, Encoding, Exists
    <2> QED  BY <2>2, <2>3, <2>4 DEF IInv
  <1>2. ASSUME NEW j \in Jobs, NEW src \in Paths, NEW key \in Keys,
               AskEncode(j, src, key) \/ AskDecode(j, src, key)
        PROVE  IInv'
    BY <1>2, AskEncodeStep, AskDecodeStep
  <1>3. ASSUME NEW b \in Buffs, Set(b) PROVE IInv'
    BY <1>3, SetStep
  <1>4. ASSUME NEW j \in Jobs, JobStep(j) PROVE IInv'
    BY <1>4, PrepareStep, OpenOutStep, CodeBlockStep, CloseStep DEF JobStep
  <1> QED  BY <1>1, <1>2, <1>3, <1>4 DEF Next

\* A decoder that has opened its output has the password of the operation that
\* wrote the header it found.
LEMMA RightKey == ASSUME IInv PROVE RightKeyOnly
  <1> SUFFICES ASSUME NEW d \in Jobs, ~job[d].encode, job[d].out # <<>>,
                      job[d].head.stamp \in Jobs
               PROVE  job[d].key = job[job[d].head.stamp].key
    BY DEF RightKeyOnly
  <1> DEFINE h == job[d].head
             e == job[h.stamp]
  <1>1. Valid(h) /\ RealKey(h) = job[d].key
    BY DEF IInv, OutInv
  <1>2. h = Attach(e.key, h.stamp, h.name)
    BY DEF IInv, HeadsInv, HeadOK
  <1>3. e.key \in Keys \cup {<<>>}
    BY DEF IInv, TypeOK
  <1>4. Valid(Attach(e.key, h.stamp, h.name))
    BY ONLY <1>1, <1>2
  <1>5. RealKey(Attach(e.key, h.stamp, h.name)) = e.key
    BY <1>3, <1>4, AttachedKey
  <1> QED  BY ONLY <1>1, <1>2, <1>5

\* The inductive invariant holds in every state.
THEOREM Inductive == Spec => []IInv
  <1>1. Init => IInv
    BY InitIInv
  <1>2. IInv /\ [Next]_vars => IInv'
    BY StepIInv
  <1> QED  BY <1>1, <1>2, PTL DEF Spec

\* The files hold characters, and every operation is where it can be: one that
\* codes blocks has its output.
THEOREM TypeCorrect == Spec => []TypeOK
  <1>1. IInv => TypeOK
    BY DEF IInv
  <1> QED  BY <1>1, Inductive, PTL

\* A decoder that has opened its output has the password of the operation that
\* wrote the header it found, whatever the header's array holds of that
\* password: the signature covers the whole of it.
THEOREM OnlyWithTheKey == Spec => []RightKeyOnly
  <1>1. IInv => RightKeyOnly
    BY RightKey
  <1> QED  BY <1>1, Inductive, PTL

\* Who decodes with the password what was encoded without an error, after it was
\* and not while anything is encoded, is not refused, if the header can hold the
\* password.
THEOREM KnownKeyServes == Spec => []NotRefused
  <1>1. ASSUME IInv PROVE NotRefused
    <2>1. SUFFICES ASSUME NEW d \in Jobs, ~job[d].encode, At(d, "done"), job[d].found \in Jobs,
                          job[d].key = job[job[d].found].key, Holds(job[job[d].found].key)
                   PROVE  job[d].err \in {"none", "out open"}
      BY DEF NotRefused
    <2>2. Holds(job[d].key) /\ job[d].pc # "idle"
      <3>1. Holds(job[d].key)
        BY ONLY <2>1
      <3> QED  BY <2>1, <3>1 DEF At
    <2> QED  BY <1>1, <2>1, <2>2 DEF IInv, FoundInv
  <1> QED  BY <1>1, Inductive, PTL

-------------------------------------------------------------------------------
(* What has been coded *)

\* The second inductive invariant, CInv /\ TracesInv.  A file coded in blocks is
\* compared with the input character by character, so that the key starts anew
\* with each block, of whatever size, and no induction over blocks is needed.

Enc1 == <<"enc", 1>>
Source == Bytes(files[Input])

\* The blocks that a key codes start where it does.
Good(key) == sets = 0 \/ (key # <<>> /\ \A size \in Buffs : size % Len(key) = 0)

\* The character of the key that falls on the i-th one of a file.
Pad(key, i) == key[(((i - 1) % buff) % Len(key)) + 1]

Coded(body, key) == \A i \in 1..Len(body) : body[i] = Xor(Source[i], Pad(key, i))

\* One encoder runs at a time, and one decoder.
OneEach ==
    \A j, k \in Jobs : Running(j) /\ Running(k) /\ job[j].encode = job[k].encode => j = k

\* What is encoded is the input, to one name; what an operation has encoded is
\* decoded from there.
FilePlace(p) == p = Input \/ (p = Enc1 /\ (files[p].head.stamp \in Jobs \/ Crashed))

JobPlace(j) ==
    /\ job[j].pc = "idle" => ~job[j].encode
    /\ job[j].pc = "queued" => Exists(job[j].src)
    /\ job[j].out # <<>> =>
          /\ job[j].encode => job[j].src = Input /\ job[j].out = Enc1
          /\ ~job[j].encode /\ ~job[j].eof /\ job[j].head.stamp \in Jobs =>
                job[j].src = Enc1 /\ Exists(Enc1)
    /\ job[j].pc \in {"open", "loop", "close"} => job[j].out # <<>>
    /\ job[j].pc = "done" /\ job[j].err = "none" => job[j].out # <<>>
    /\ job[j].pc = "open" => job[j].pos = IF job[j].encode THEN 0 ELSE HeadSize

PlacesInv ==
    /\ files[Input].head.stamp \notin Jobs
    /\ \A p \in DOMAIN files \cap Paths : FilePlace(p)
    /\ \A j \in Jobs : JobPlace(j)

\* What e has encoded is the beginning of the input, in the end all of it.
EncodedOK(e) ==
    /\ Len(files[Enc1].body) <= Len(Source)
    /\ Good(job[e].key) => Coded(files[Enc1].body, job[e].key)
    /\ job[e].pc \in {"loop", "close"} => job[e].pos = Len(files[Enc1].body)
    /\ job[e].pc = "loop" => Len(files[Enc1].body) % buff = 0
    /\ job[e].pc \in {"close", "done"} /\ ~job[e].eof => Len(files[Enc1].body) = Len(Source)

EncodedInv(e) ==
    /\ job[e].encode /\ job[e].pc \in {"loop", "close"} =>
            Exists(Enc1) /\ files[Enc1].head.stamp = e
    /\ Exists(Enc1) /\ files[Enc1].head.stamp = e => EncodedOK(e)

\* d has decoded something, from one operation or from several with one key.
Decodes(d) ==
    /\ ~job[d].encode /\ job[d].out # <<>>
    /\ job[d].pc \in {"loop", "close"} \/ (job[d].pc = "done" /\ job[d].err = "none")
    /\ job[d].head.stamp \in Jobs /\ ~job[d].eof
    /\ Good(job[d].key)
    /\ \A j \in Jobs \ {d} : job[j].out # job[d].out
    /\ \/ job[d].found = job[d].head.stamp
       \/ \A e \in Jobs : job[e].encode => job[e].key = job[d].key

DecodedOK(d) ==
    LET body == files[job[d].out].body
    IN  /\ Exists(job[d].out) /\ files[job[d].out].head = NoHead
        /\ Len(body) <= Len(Source)
        /\ \A i \in 1..Len(body) : body[i] = Source[i]
        /\ job[d].pc = "loop" => job[d].pos = HeadSize + Len(body) /\ Len(body) % buff = 0
        /\ /\ job[d].pc \in {"close", "done"}
           /\ job[d].found = job[d].head.stamp /\ ~job[job[d].found].eof
           => Len(body) = Len(Source)

DecodedInv(d) == Decodes(d) => DecodedOK(d)

\* Who has written a header had a name to write to.
Traced(h) == h.stamp \in Jobs => job[h.stamp].out # <<>>

TracesInv ==
    /\ \A p \in DOMAIN files : Traced(files[p].head)
    /\ \A h \in parsed : Traced(h)
    /\ \A j \in Jobs : Traced(job[j].head)

CInv ==
    /\ OneEach
    /\ PlacesInv
    /\ \A e \in Jobs : EncodedInv(e)
    /\ \A d \in Jobs : DecodedInv(d)

\* What is coded twice.
LEMMA XorTwice == \A x, y : Xor(Xor(x, y), y) = x
  BY DEF Xor

-------------------------------------------------------------------------------
(* Places in blocks *)

\* A quotient and what remains.
LEMMA Remains ==
    ASSUME NEW n \in Nat, NEW b \in Nat \ {0}
    PROVE  /\ n % b \in 0..(b - 1) /\ n \div b \in Nat
           /\ n = b * (n \div b) + (n % b)
  OBVIOUS

\* There is one such quotient.
LEMMA OneRemainder ==
    ASSUME NEW q \in Int, NEW p \in Int, NEW b \in Nat \ {0},
           NEW r \in 0..(b - 1), NEW s \in 0..(b - 1), b * q + r = b * p + s
    PROVE  r = s
  <1>1. b * (q - p) = s - r
    OBVIOUS
  <1>2. CASE q = p
    BY <1>1, <1>2
  <1>3. CASE q > p
    <2>1. b * (q - p) >= b
      BY <1>3
    <2> QED  BY <1>1, <2>1
  <1>4. CASE q < p
    <2>1. b * (p - q) >= b
      BY <1>4
    <2>2. b * (p - q) = r - s
      BY <1>1
    <2> QED  BY <2>1, <2>2
  <1> QED  BY <1>2, <1>3, <1>4

\* Blocks begin at multiples of their size.
LEMMA InBlock ==
    ASSUME NEW n \in Nat, NEW b \in Nat \ {0}, NEW k \in Nat, n % b = 0
    PROVE  /\ k < b => (n + k) % b = k
           /\ (n + b) % b = 0
  <1> DEFINE q == n \div b
  <1>1. q \in Nat /\ n = b * q
    BY Remains
  <1>2. CASE k < b
    <2>1. n + k \in Nat /\ k \in 0..(b - 1)
      BY <1>2
    <2>2. n + k = b * q + k
      BY <1>1
    <2>3. /\ (n + k) % b \in 0..(b - 1) /\ (n + k) \div b \in Nat
          /\ n + k = b * ((n + k) \div b) + ((n + k) % b)
      BY <2>1, Remains
    <2> HIDE DEF q
    <2> QED  BY <1>1, <2>1, <2>2, <2>3, OneRemainder
  <1>3. (n + b) % b = 0
    <2>1. n + b \in Nat /\ 0 \in 0..(b - 1)
      OBVIOUS
    <2>2. n + b = b * (q + 1) + 0 /\ q + 1 \in Nat
      BY <1>1
    <2>3. /\ (n + b) % b \in 0..(b - 1) /\ (n + b) \div b \in Nat
          /\ n + b = b * ((n + b) \div b) + ((n + b) % b)
      BY <2>1, Remains
    <2> HIDE DEF q
    <2> QED  BY <2>1, <2>2, <2>3, OneRemainder
  <1> QED  BY <1>2, <1>3

\* A multiple of the length of the key does not move the key.
LEMMA MultipleBlocks ==
    ASSUME NEW n \in Nat, NEW b \in Nat \ {0}, NEW l \in Nat \ {0}, b % l = 0
    PROVE  (n % b) % l = n % l
  <1>1. PICK q \in Nat, r \in 0..(b - 1) : n = b * q + r /\ r = n % b
    BY Remains
  <1>2. PICK c \in Nat : b = l * c
    <2>1. b \div l \in Nat /\ b = l * (b \div l) + (b % l)
      BY Remains
    <2>2. b = l * (b \div l)
      BY <2>1
    <2> QED  BY ONLY <2>1, <2>2
  <1>3. PICK d \in Nat, s \in 0..(l - 1) : r = l * d + s /\ s = r % l
    <2>1. r \in Nat
      OBVIOUS
    <2> QED  BY <2>1, Remains
  <1>4. PICK e \in Nat, t \in 0..(l - 1) : n = l * e + t /\ t = n % l
    BY Remains
  <1>5. n = l * (c * q + d) + s /\ c * q + d \in Nat
    <2>1. b * q = l * (c * q)
      BY <1>2
    <2>2. c * q \in Nat
      OBVIOUS
    <2>3. PICK m \in Nat : m = c * q
      BY <2>2
    <2>4. l * (m + d) = l * m + l * d
      BY ONLY l \in Nat \ {0}, m \in Nat, d \in Nat
    <2>5. n = l * m + (l * d + s)
      BY ONLY <1>1, <1>3, <2>1, <2>3
    <2>6. n = (l * m + l * d) + s
      <3>1. PICK u \in Nat, v \in Nat : u = l * m /\ v = l * d
        OBVIOUS
      <3> QED  BY ONLY <2>5, <3>1, s \in 0..(l - 1), l \in Nat \ {0}
    <2>7. m + d \in Nat
      OBVIOUS
    <2> QED  BY ONLY <2>3, <2>4, <2>6, <2>7
  <1>6. s = t
    <2>1. PICK g \in Nat : g = c * q + d
      BY <1>5
    <2>2. l * g + s = l * e + t
      BY <1>4, <1>5, <2>1
    <2> QED  BY ONLY <2>1, <2>2, OneRemainder, g \in Nat, e \in Nat, l \in Nat \ {0},
                     s \in 0..(l - 1), t \in 0..(l - 1)
  <1> QED  BY <1>1, <1>3, <1>4, <1>6

\* o2 is o and what was read of c from pos on to next, coded with the characters
\* of the key that its places in the file say.
Added(o, c, key, pos, next, o2) ==
    /\ o2 \in Seq(Chars) /\ Len(o2) = Len(o) + (next - pos)
    /\ \A i \in 1..Len(o) : o2[i] = o[i]
    /\ \A i \in (Len(o) + 1)..Len(o2) :
          /\ pos + (i - Len(o)) \in 1..Len(c)
          /\ o2[i] = Xor(c[pos + (i - Len(o))], Pad(key, i))

\* A block is coded from the beginning of the key on, where whole blocks precede it.
LEMMA BlockAdded ==
    ASSUME TypeOK, NEW o \in Seq(Chars), NEW c \in Seq(Chars), NEW key \in Seq(Chars), key # <<>>,
           NEW pos \in Nat, NEW next \in Nat, pos < next, next <= Len(c), next <= pos + buff,
           Len(o) % buff = 0, NEW o2, o2 = o \o XorKey(SubSeq(c, pos + 1, next), key)
    PROVE  Added(o, c, key, pos, next, o2)
  <1> DEFINE block == SubSeq(c, pos + 1, next)
             x == XorKey(block, key)
             m == Len(o)
  <1>1. buff \in Nat \ {0} /\ m \in Nat /\ Len(c) \in Nat
    BY CryptoAssumption, LenProperties DEF CryptoAssumption, TypeOK
  <1>2. block \in Seq(Chars) /\ Len(block) = next - pos
        /\ \A i \in 1..(next - pos) : block[i] = c[pos + i]
    <2>1. \A i \in (pos + 1)..next : c[i] \in Chars
      BY <1>1, ElementOfSeq
    <2>2. pos + 1 \in Nat \ {0} /\ pos + 1 <= next
      OBVIOUS
    <2>3. block \in Seq(Chars) /\ Len(block) = (next - (pos + 1)) + 1
          /\ \A i \in 1..((next - (pos + 1)) + 1) : block[i] = c[((pos + 1) + i) - 1]
      <3>1. (pos + 1)..next \subseteq 1..Len(c)
        BY <1>1
      <3>2. block \in Seq(Chars)
        BY <2>1, <2>2, SubSeqProperties
      <3>3. Len(block) = (next - (pos + 1)) + 1
        BY <1>1, <2>2
      <3>4. ASSUME NEW i \in 1..((next - (pos + 1)) + 1)
            PROVE  block[i] = c[((pos + 1) + i) - 1]
        BY <1>1, <2>2, <3>4
      <3> QED  BY <3>2, <3>3, <3>4
    <2>4. (next - (pos + 1)) + 1 = next - pos
      OBVIOUS
    <2>5. ASSUME NEW i \in 1..(next - pos)
          PROVE  block[i] = c[pos + i]
      <3>1. ((pos + 1) + i) - 1 = pos + i
        OBVIOUS
      <3> QED  BY <2>3, <2>4, <3>1
    <2> QED  BY <2>3, <2>4, <2>5
  <1>3. x \in Seq(Chars) /\ Len(x) = next - pos
        /\ \A i \in 1..(next - pos) : x[i] = Xor(block[i], key[((i - 1) % Len(key)) + 1])
    <2>1. x \in Seq(Chars)
      BY <1>2, CodedTwice
    <2>2. DOMAIN block = 1..(next - pos)
      BY <1>2, LenProperties
    <2>3. x = [i \in 1..(next - pos) |-> Xor(block[i], key[((i - 1) % Len(key)) + 1])]
      BY <2>2 DEF XorKey
    <2>4. DOMAIN x = 1..(next - pos)
      BY <2>3
    <2>5. Len(x) \in Nat /\ DOMAIN x = 1..Len(x)
      BY <2>1, LenProperties
    <2>6. Len(x) = next - pos
      <3> HIDE DEF x
      <3>1. next - pos \in Nat
        OBVIOUS
      <3>2. next - pos \in 1..Len(x) /\ 1 \in 1..Len(x)
        BY <2>4, <2>5, <3>1
      <3>3. Len(x) \in 1..(next - pos)
        BY <2>4, <2>5, <3>2
      <3>4. PICK d \in Nat, l \in Nat : d = next - pos /\ l = Len(x)
        BY <2>5, <3>1
      <3> QED  BY ONLY <3>2, <3>3, <3>4
    <2> QED  BY <2>1, <2>3, <2>6
  <1> HIDE DEF x, block
  <1>4. PICK d \in Nat, l \in Nat : d = next - pos /\ l = Len(o)
    <2>1. next - pos \in Nat
      OBVIOUS
    <2>2. Len(o) \in Nat
      BY <1>1
    <2> QED  BY ONLY <2>1, <2>2
  <1>5. /\ o2 \in Seq(Chars) /\ Len(o2) = l + d
        /\ \A i \in 1..(l + d) : o2[i] = IF i <= l THEN o[i] ELSE x[i - l]
    <2>1. o2 = o \o x
      BY DEF x, block
    <2>2. Len(x) = d
      BY <1>3, <1>4
    <2>3. /\ o \o x \in Seq(Chars) /\ Len(o \o x) = Len(o) + Len(x)
          /\ \A i \in 1..(Len(o) + Len(x)) :
                (o \o x)[i] = IF i <= Len(o) THEN o[i] ELSE x[i - Len(o)]
      BY ONLY <1>3, o \in Seq(Chars), ConcatProperties, Zenon
    <2> QED  BY ONLY <1>4, <2>1, <2>2, <2>3, Zenon
  <1>6. ASSUME NEW i \in 1..l
        PROVE  o2[i] = o[i]
    <2>1. i \in 1..(l + d) /\ i <= l
      BY ONLY i \in 1..l, l \in Nat, d \in Nat
    <2> QED  BY <1>5, <2>1
  <1>7. ASSUME NEW i \in (l + 1)..Len(o2)
        PROVE  /\ pos + (i - l) \in 1..Len(c)
               /\ o2[i] = Xor(c[pos + (i - l)], Pad(key, i))
    <2>1. PICK k \in Nat : k = (i - l) - 1
      BY <1>5
    <2>2. k < d /\ i = l + (k + 1) /\ i \in 1..(l + d) /\ ~(i <= l) /\ i - l = k + 1
      BY ONLY <1>5, <2>1, l \in Nat, d \in Nat, i \in (l + 1)..Len(o2)
    <2>3. d <= buff /\ pos + d <= Len(c)
      BY <1>1, <1>4
    <2>4. pos + (k + 1) \in 1..Len(c)
      BY ONLY <1>1, <2>2, <2>3, k \in Nat, d \in Nat, pos \in Nat
    <2>5. o2[i] = x[k + 1] /\ k + 1 \in 1..d
      BY ONLY <1>5, <2>2, k \in Nat, d \in Nat
    <2>6. x[k + 1] = Xor(c[pos + (k + 1)], key[(k % Len(key)) + 1])
      <3>1. (k + 1) - 1 = k
        OBVIOUS
      <3> QED  BY <1>2, <1>3, <1>4, <2>5, <3>1
    <2>7. (i - 1) % buff = k
      <3>1. i - 1 = l + k
        BY ONLY <2>2, l \in Nat, k \in Nat
      <3>2. l % buff = 0 /\ k < buff
        BY <1>1, <1>4, <2>2, <2>3
      <3>3. (l + k) % buff = k
        BY ONLY <1>1, <3>2, InBlock, l \in Nat, k \in Nat
      <3> QED  BY ONLY <3>1, <3>3
    <2> QED  BY ONLY <2>2, <2>4, <2>5, <2>6, <2>7 DEF Pad
  <1> QED  BY ONLY <1>4, <1>5, <1>6, <1>7 DEF Added

-------------------------------------------------------------------------------
(* What a step leaves alone *)

\* Only the output of j is written.
Kept(j) ==
    /\ DOMAIN files \subseteq DOMAIN files'
    /\ \A p \in DOMAIN files' : p # job[j].out => p \in DOMAIN files /\ files'[p] = files[p]

\* The input is never written.
LEMMA SourceStays ==
    ASSUME IInv, NEW j \in Jobs, Kept(j)
    PROVE  /\ Input \in DOMAIN files /\ Input \in DOMAIN files'
           /\ files'[Input] = files[Input] /\ Source' = Source
  <1>1. Input \in DOMAIN files /\ Input \in DOMAIN files'
    BY DEF IInv, TypeOK, Kept
  <1>2. Input # job[j].out
    <2>1. Input # <<>> /\ Input[1] # "enc" /\ Input[1] # "dec"
      BY DEF Input
    <2> QED  BY <2>1 DEF IInv, OutInv
  <1>3. files'[Input] = files[Input]
    BY <1>1, <1>2 DEF Kept
  <1> QED  BY <1>1, <1>3 DEF Source, Bytes

\* No operation begins, and so no more run at a time.
LEMMA OneEachStays ==
    ASSUME OneEach, \A k \in Jobs : job'[k].pc \notin {"idle", "done"} =>
                                        Running(k) /\ job'[k].encode = job[k].encode
    PROVE  OneEach'
  BY DEF OneEach, Running

\* The places of the other operations.
LEMMA OthersPlaced ==
    ASSUME PlacesInv, NEW j \in Jobs, Kept(j), NEW k \in Jobs, job'[k] = job[k]
    PROVE  JobPlace(k)'
  BY DEF PlacesInv, JobPlace, Exists, Kept

\* The files that a step leaves alone.
LEMMA PlacesStay ==
    ASSUME IInv, CInv, ~Crashed, NEW j \in Jobs, Kept(j), \A k \in Jobs \ {j} : job'[k] = job[k],
           JobPlace(j)',
           job[j].out \in (DOMAIN files') \cap Paths =>
                job[j].out \in DOMAIN files /\ files'[job[j].out].head = files[job[j].out].head
    PROVE  PlacesInv'
  <1>1. files'[Input].head.stamp \notin Jobs
    BY SourceStays DEF CInv, PlacesInv
  <1>2. ASSUME NEW p \in (DOMAIN files') \cap Paths
        PROVE  FilePlace(p)'
    <2>1. p \in DOMAIN files \cap Paths /\ files'[p].head = files[p].head
      BY DEF Kept
    <2>2. FilePlace(p)
      BY <2>1 DEF CInv, PlacesInv
    <2> QED  BY <2>1, <2>2 DEF FilePlace
  <1>3. ASSUME NEW k \in Jobs
        PROVE  JobPlace(k)'
    BY OthersPlaced DEF CInv
  <1> QED
    <2>1. (DOMAIN files \cap Paths)' = (DOMAIN files') \cap Paths
      BY DEF Paths
    <2> QED  BY <1>1, <1>2, <1>3, <2>1 DEF PlacesInv

\* What has been encoded stays so in a step of j, unless j is its encoder.
LEMMA EncodedStays ==
    ASSUME IInv, CInv, NEW j \in Jobs, Kept(j), UNCHANGED <<buff, sets>>,
           NEW e \in Jobs, job'[e] = job[e],
           Exists(Enc1) <=> Enc1 \in DOMAIN files', files'[Enc1] = files[Enc1]
    PROVE  EncodedInv(e)'
  <1>1. Source' = Source /\ EncodedInv(e)
    BY SourceStays DEF CInv
  <1>2. PICK f, s, k : f = files[Enc1] /\ f = files'[Enc1] /\ s = Source /\ s = Source'
                       /\ k = job[e].key /\ k = job'[e].key
    BY <1>1
  <1>4. EncodedOK(e) => EncodedOK(e)'
    BY ONLY <1>2, UNCHANGED <<buff, sets>>, job'[e] = job[e] DEF EncodedOK, Coded, Pad, Good
  <1> QED  BY <1>1, <1>4 DEF EncodedInv, Exists

\* What others have decoded stays so.
LEMMA DecodedStays ==
    ASSUME IInv, CInv, NEW j \in Jobs, Kept(j), UNCHANGED <<buff, sets>>,
           \A k \in Jobs \ {j} : job'[k] = job[k],
           job[j].out # <<>> => job'[j].out = job[j].out,
           job[j].encode => job'[j].encode /\ job'[j].key = job[j].key,
           job[j].pc \notin Early => job'[j].eof = job[j].eof,
           NEW d \in Jobs \ {j}
    PROVE  DecodedInv(d)'
  <1>1. Source' = Source /\ DecodedInv(d)
    BY SourceStays DEF CInv
  <1> SUFFICES ASSUME Decodes(d)'
               PROVE  DecodedOK(d)'
    BY DEF DecodedInv
  <1>2. job'[d] = job[d]
    OBVIOUS
  <1>3. Decodes(d)
    <2>1. \A k \in Jobs \ {d} : job[k].out # job[d].out
      BY <1>2 DEF Decodes
    <2>2. (\A k \in Jobs : job'[k].encode => job'[k].key = job[d].key)
          => (\A k \in Jobs : job[k].encode => job[k].key = job[d].key)
      OBVIOUS
    <2> QED  BY <1>2, <2>1, <2>2 DEF Decodes, Good
  <1>4. DecodedOK(d) /\ job[d].out # job[j].out
    BY <1>1, <1>3 DEF DecodedInv, Decodes
  <1>5. job[d].out \in DOMAIN files' /\ files'[job[d].out] = files[job[d].out]
    BY <1>4 DEF DecodedOK, Exists, Kept
  <1>6. job[d].found = job[d].head.stamp => job'[job[d].found].eof = job[job[d].found].eof
    <2>1. HeadOK(job[d].head) /\ job[d].head.stamp \in Jobs
      BY <1>3 DEF IInv, HeadsInv, Decodes
    <2>2. job[job[d].head.stamp].pc \notin Early
      BY <2>1 DEF HeadOK, Early
    <2> QED  BY <2>1, <2>2
  <1> QED  BY <1>1, <1>2, <1>4, <1>5, <1>6 DEF DecodedOK, Exists

-------------------------------------------------------------------------------
(* The steps *)

\* A step that neither writes nor encodes nor decodes.
LEMMA QuietStep ==
    ASSUME IInv, CInv, ~Crashed, NEW j \in Jobs, UNCHANGED <<files, buff, sets>>,
           \A k \in Jobs \ {j} : job'[k] = job[k],
           job[j].pc \in Early, job'[j].pc \notin {"loop", "close"},
           job'[j].pc = "done" => job'[j].out = <<>> \/ job'[j].err # "none",
           job[j].out # <<>> => job'[j].out = job[j].out,
           job[j].encode => job'[j].encode /\ job'[j].key = job[j].key,
           OneEach', JobPlace(j)'
    PROVE  CInv'
  <1>1. Kept(j)
    BY DEF Kept
  <1>2. PlacesInv'
    BY <1>1, PlacesStay
  <1>3. ASSUME NEW e \in Jobs
        PROVE  EncodedInv(e)'
    <2>1. CASE e = j
      <3>1. ~(job'[j].encode /\ job'[j].pc \in {"loop", "close"})
        OBVIOUS
      <3>2. ASSUME Enc1 \in DOMAIN files', files'[Enc1].head.stamp = j
            PROVE  FALSE
        <4>1. HeadOK(files[Enc1].head)
          BY <3>2 DEF IInv, HeadsInv
        <4> QED  BY <3>2, <4>1 DEF HeadOK, Early
      <3> QED  BY <2>1, <3>1, <3>2 DEF EncodedInv, Exists
    <2>2. CASE e # j
      <3>1. job'[e] = job[e] /\ (Exists(Enc1) <=> Enc1 \in DOMAIN files') /\ files'[Enc1] = files[Enc1]
        BY <2>2 DEF Exists
      <3> QED  BY <1>1, <3>1, EncodedStays
    <2> QED  BY <2>1, <2>2
  <1>4. ASSUME NEW d \in Jobs
        PROVE  DecodedInv(d)'
    <2>1. CASE d = j
      <3>1. ~Decodes(j)'
        BY DEF Decodes
      <3> QED  BY <2>1, <3>1 DEF DecodedInv
    <2>2. CASE d # j
      <3>1. job[j].pc \notin Early => job'[j].eof = job[j].eof
        OBVIOUS
      <3> QED  BY <1>1, <2>2, <3>1, DecodedStays
    <2> QED  BY <2>1, <2>2
  <1> QED  BY <1>2, <1>3, <1>4 DEF CInv

\* AskEncode and AskDecode.
LEMMA AskingCodes ==
    ASSUME IInv, CInv, ~Crashed, NEW j \in Jobs, At(j, "idle"), UNCHANGED <<files, buff, sets>>,
           NEW encode \in BOOLEAN, NEW src, NEW key, NEW pc \in {"queued", "done"}, NEW err,
           Asks(j, encode, src, key, pc, err), pc = "queued" => Exists(src),
           pc = "done" => err # "none",
           encode => ~Encoding, ~encode => ~Decoding
    PROVE  CInv'
  <1>1. /\ job'[j].pc = pc /\ job'[j].encode = encode /\ job'[j].key = key
        /\ job'[j].src = src /\ job'[j].out = job[j].out /\ job'[j].err = err
        /\ \A k \in Jobs \ {j} : job'[k] = job[k]
    BY DEF Asks, IInv, ShapeInv, Fields
  <1>2. job[j].out = <<>> /\ ~job[j].encode /\ job[j].pc \in Early
    BY DEF IInv, OutInv, CInv, PlacesInv, JobPlace, At, Early
  <1>3. JobPlace(j)'
    <2>1. job'[j].out = <<>> /\ (pc = "queued" => src \in DOMAIN files')
      BY <1>1, <1>2 DEF Exists
    <2> QED  BY <1>1, <2>1 DEF JobPlace, Exists
  <1>4. OneEach'
    <2> SUFFICES ASSUME NEW k \in Jobs, NEW l \in Jobs, Running(k)', Running(l)',
                        job'[k].encode = job'[l].encode
                 PROVE  k = l
      BY DEF OneEach
    <2>1. \A i \in Jobs \ {j} : Running(i)' => Running(i) /\ job'[i].encode = job[i].encode
                                              /\ job[i].encode \in BOOLEAN
      BY <1>1 DEF Running, IInv, ShapeInv
    <2>2. \A i \in Jobs \ {j} : Running(i)' => job'[i].encode # encode
      BY <2>1 DEF Encoding, Decoding
    <2>3. CASE k = j \/ l = j
      BY <1>1, <2>2, <2>3
    <2>4. CASE k # j /\ l # j
      BY <2>1, <2>4 DEF CInv, OneEach
    <2> QED  BY <2>3, <2>4
  <1> QED  BY <1>1, <1>2, <1>3, <1>4, QuietStep

\* Set: nobody is coding, and the blocks of whoever has coded with a key of this
\* length begin where the key does, however long they are.
LEMMA SetCodes == ASSUME IInv, CInv, NEW b \in Buffs, Set(b) PROVE CInv'
  <1>1. UNCHANGED <<files, job>> /\ buff' = b /\ sets' = sets + 1 /\ sets \in Nat /\ buff \in Buffs
    BY DEF Set, IInv, TypeOK
  <1>2. \A k \in Jobs : ~Running(k)
    BY DEF Set, Encoding, Decoding
  <1>3. OneEach' /\ PlacesInv'
    <2>1. OneEach'
      BY <1>1, <1>2 DEF OneEach, Running
    <2>2. PlacesInv'
      BY <1>1 DEF CInv, PlacesInv, FilePlace, JobPlace, Exists, Crashed, At
    <2> QED  BY <2>1, <2>2
  <1>4. ASSUME NEW key \in Keys \cup {<<>>}, Good(key)'
        PROVE  Good(key) /\ \A i \in Nat \ {0} : Pad(key, i)' = Pad(key, i)
    <2>1. key # <<>> /\ \A size \in Buffs : size % Len(key) = 0
      BY <1>1, <1>4 DEF Good
    <2>2. Len(key) \in Nat \ {0}
      BY <2>1, KeysAreStrings, LenProperties, EmptySeq
    <2>3. ASSUME NEW i \in Nat \ {0}
          PROVE  ((i - 1) % b) % Len(key) = ((i - 1) % buff) % Len(key)
      <3>1. i - 1 \in Nat /\ b \in Nat \ {0} /\ buff \in Nat \ {0}
        BY <1>1, CryptoAssumption DEF CryptoAssumption
      <3>2. b % Len(key) = 0 /\ buff % Len(key) = 0
        BY <1>1, <2>1
      <3>3. ((i - 1) % b) % Len(key) = (i - 1) % Len(key)
        BY ONLY <2>2, <3>1, <3>2, MultipleBlocks
      <3>4. ((i - 1) % buff) % Len(key) = (i - 1) % Len(key)
        BY ONLY <2>2, <3>1, <3>2, MultipleBlocks
      <3> QED  BY ONLY <3>3, <3>4
    <2>4. ASSUME NEW i \in Nat \ {0}
          PROVE  Pad(key, i)' = Pad(key, i)
      BY <1>1, <2>3 DEF Pad
    <2> QED  BY <2>1, <2>4 DEF Good
  <1>5. Source' = Source
    BY <1>1 DEF Source, Bytes
  <1>6. ASSUME NEW e \in Jobs
        PROVE  EncodedInv(e)'
    <2>1. EncodedInv(e) /\ job'[e] = job[e] /\ files'[Enc1] = files[Enc1]
          /\ job[e].pc \notin {"loop", "close"}
      BY <1>1, <1>2 DEF CInv, Running
    <2>2. PICK f, k, s : f = files[Enc1] /\ f = files'[Enc1] /\ k = job[e].key /\ k = job'[e].key
                         /\ s = Source /\ s = Source'
      BY <1>5, <2>1
    <2>3. k \in Keys \cup {<<>>}
      BY <2>2 DEF IInv, TypeOK
    <2>4. EncodedOK(e) => EncodedOK(e)'
      <3>1. Good(k)' => Good(k) /\ \A i \in Nat \ {0} : Pad(k, i)' = Pad(k, i)
        BY <1>4, <2>3
      <3>2. Good(job[e].key)' = Good(k)'
        BY <2>2 DEF Good
      <3>3. ASSUME Good(k)', Coded(f.body, k)
            PROVE  Coded(files[Enc1].body, job[e].key)'
        <4>1. \A i \in 1..Len(f.body) : i \in Nat \ {0} /\ f.body[i] = Xor(s[i], Pad(k, i))
          BY <2>2, <3>3 DEF Coded
        <4>2. \A i \in 1..Len(f.body) : f.body[i] = Xor(s[i], Pad(k, i)')
          BY <3>1, <3>3, <4>1
        <4> QED  BY <2>2, <4>2 DEF Coded, Pad
      <3> QED  BY <2>1, <2>2, <3>1, <3>2, <3>3 DEF EncodedOK
    <2> QED  BY <1>1, <2>1, <2>4 DEF EncodedInv, Exists
  <1>7. ASSUME NEW d \in Jobs
        PROVE  DecodedInv(d)'
    <2>1. DecodedInv(d) /\ job[d].pc # "loop"
      BY <1>2 DEF CInv, Running
    <2>2. job[d].key \in Keys \cup {<<>>}
      BY DEF IInv, TypeOK
    <2>3. PICK k : k = job[d].key /\ k = job'[d].key
      BY <1>1
    <2>4. Good(k)' => Good(k)
      BY <1>4, <2>2, <2>3
    <2>5. Good(job[d].key)' => Good(job[d].key)
      BY <2>3, <2>4 DEF Good
    <2>6. Decodes(d)' => Decodes(d)
      BY <1>1, <2>5 DEF Decodes
    <2>7. DecodedOK(d) => DecodedOK(d)'
      BY <1>1, <1>5, <2>1 DEF DecodedOK, Exists
    <2> QED  BY <2>1, <2>6, <2>7 DEF DecodedInv
  <1> QED  BY <1>3, <1>6, <1>7 DEF CInv

\* What an operation that is not between its steps has in hand.
LEMMA RunningFields ==
    ASSUME IInv, NEW j \in Jobs, NEW pc, NEW err, job' = [job EXCEPT ![j].pc = pc, ![j].err = err]
    PROVE  /\ \A k \in Jobs \ {j} : job'[k] = job[k]
           /\ job'[j].pc = pc /\ job'[j].encode = job[j].encode /\ job'[j].key = job[j].key
           /\ job'[j].src = job[j].src /\ job'[j].found = job[j].found /\ job'[j].out = job[j].out
           /\ job'[j].head = job[j].head /\ job'[j].pos = job[j].pos /\ job'[j].eof = job[j].eof
           /\ job'[j].err = err
  BY DEF IInv, ShapeInv, Fields

\* An operation that ends before its output is open.
LEMMA EndsEarly ==
    ASSUME IInv, CInv, ~Crashed, NEW j \in Jobs, NEW err, Ends(j, err),
           UNCHANGED <<files, buff, sets>>,
           job[j].pc \in {"queued", "open"}, err # "none"
    PROVE  CInv'
  <1>1. /\ \A k \in Jobs \ {j} : job'[k] = job[k]
        /\ job'[j].pc = "done" /\ job'[j].encode = job[j].encode /\ job'[j].key = job[j].key
        /\ job'[j].src = job[j].src /\ job'[j].out = job[j].out /\ job'[j].head = job[j].head
        /\ job'[j].eof = job[j].eof /\ job'[j].err = err
    <2>1. job' = [job EXCEPT ![j].pc = "done", ![j].err = err]
      BY DEF Ends
    <2>2. DOMAIN job = Jobs /\ DOMAIN job[j] = Fields
      BY DEF IInv, ShapeInv
    <2> QED  BY ONLY <2>1, <2>2, j \in Jobs DEF Fields
  <1>2. job[j].pc \in Early /\ (job[j].pc = "queued" => job[j].out = <<>>)
    BY DEF Early, IInv, OutInv
  <1>3. OneEach'
    <2>1. \A k \in Jobs : job'[k].pc \notin {"idle", "done"} =>
                Running(k) /\ job'[k].encode = job[k].encode
      BY <1>1 DEF Running
    <2> QED  BY <2>1, OneEachStays DEF CInv
  <1>4. JobPlace(j)'
    BY <1>1 DEF CInv, PlacesInv, JobPlace, Exists
  <1> QED  BY <1>1, <1>2, <1>3, <1>4, QuietStep

\* What is found of a file that nobody is writing, and of the input.
LEMMA WholeFound ==
    ASSUME IInv, NEW p, NEW pos, NEW limit \in Limits(p, pos),
           p = Input \/ ~\E w \in Jobs : job[w].encode /\ job[w].pc \in {"loop", "close"},
           p \in Paths
    PROVE  limit = Len(Bytes(FileAt(p)))
  <1>1. ~BeingWritten(p)
    <2> SUFFICES ASSUME NEW w \in Jobs, job[w].out = p, job[w].pc \in {"loop", "close"}
                 PROVE  FALSE
      BY DEF BeingWritten
    <2>1. p # <<>> /\ p[1] # "dec" /\ (p = Input => p[1] # "enc")
      <3>1. Input[1] = "in" /\ <<"enc", 1>>[1] = "enc" /\ <<"enc", 2>>[1] = "enc"
        BY DEF Input
      <3>2. p # <<>>
        BY DEF Paths, Input
      <3> QED  BY <3>1, <3>2 DEF Paths
    <2> QED  BY <2>1 DEF IInv, OutInv
  <1> QED  BY <1>1 DEF Limits

\* A file with the header of an operation is as long as that header and what
\* has been encoded.
LEMMA EncodedBytes ==
    ASSUME IInv, Exists(Enc1), files[Enc1].head.stamp \in Jobs
    PROVE  /\ FileAt(Enc1) = files[Enc1]
           /\ Bytes(files[Enc1]) \in Seq(Chars) /\ files[Enc1].body \in Seq(Chars)
           /\ HeadSize \in Nat \ {0} /\ Len(files[Enc1].body) \in Nat
           /\ Len(Bytes(files[Enc1])) = HeadSize + Len(files[Enc1].body)
           /\ \A i \in 1..Len(files[Enc1].body) :
                 Bytes(files[Enc1])[HeadSize + i] = files[Enc1].body[i]
  <1>1. FileAt(Enc1) = files[Enc1] /\ files[Enc1].head # NoHead /\ files[Enc1].body \in Seq(Chars)
    BY NoHeadOK DEF FileAt, IInv, TypeOK, Exists
  <1>2. HeadSize \in Nat \ {0} /\ HeadBytes \in Seq(Chars) /\ Len(HeadBytes) = HeadSize
    <2>1. HeadSize \in Nat \ {0} /\ {} \in Chars
      BY CryptoAssumption DEF CryptoAssumption, Chars
    <2>2. HeadBytes \in [1..HeadSize -> Chars]
      BY <2>1 DEF HeadBytes
    <2> QED  BY <2>1, <2>2
  <1>3. PICK body \in Seq(Chars) : body = files[Enc1].body
    BY <1>1
  <1>4. Bytes(files[Enc1]) = HeadBytes \o body /\ Len(body) \in Nat
    BY <1>1, <1>3, LenProperties DEF Bytes
  <1>5. /\ HeadBytes \o body \in Seq(Chars) /\ Len(HeadBytes \o body) = HeadSize + Len(body)
        /\ \A i \in 1..(HeadSize + Len(body)) :
              (HeadBytes \o body)[i] = IF i <= HeadSize THEN HeadBytes[i] ELSE body[i - HeadSize]
    BY <1>2, ConcatProperties
  <1>6. ASSUME NEW i \in 1..Len(body)
        PROVE  (HeadBytes \o body)[HeadSize + i] = body[i]
    <2>1. HeadSize + i \in 1..(HeadSize + Len(body)) /\ ~(HeadSize + i <= HeadSize)
          /\ (HeadSize + i) - HeadSize = i
      BY <1>2, <1>4
    <2> QED  BY <1>5, <2>1
  <1> QED  BY ONLY <1>1, <1>2, <1>3, <1>4, <1>5, <1>6

\* Of two that run, encode and write the one is the other; and what an encoder
\* that runs has not been asked to do twice.
LEMMA Encoded1 ==
    ASSUME IInv, CInv, Exists(Enc1), files[Enc1].head.stamp \in Jobs
    PROVE  HeadOK(files[Enc1].head) /\ files[Enc1].head.ext = ".spc"
           /\ EncodedOK(files[Enc1].head.stamp) /\ job[files[Enc1].head.stamp].encode
           /\ job[files[Enc1].head.stamp].pc \notin Early
  <1>1. HeadOK(files[Enc1].head)
    BY DEF IInv, HeadsInv, Exists
  <1>2. PICK h : h = files[Enc1].head /\ h.stamp \in Jobs /\ h = Attach(job[h.stamp].key, h.stamp, h.name)
    BY <1>1 DEF HeadOK
  <1>3. \A key, stamp, name : Attach(key, stamp, name).ext = ".spc"
    BY DEF Attach, Signed
  <1> QED  BY <1>1, <1>2, <1>3 DEF HeadOK, Early, CInv, EncodedInv

\* While an encoder looks at its source no other writes one.
LEMMA AloneEarly ==
    ASSUME IInv, CInv, NEW j \in Jobs, job[j].encode, job[j].pc \in {"queued", "open"}
    PROVE  ~\E w \in Jobs : job[w].encode /\ job[w].pc \in {"loop", "close"}
  BY DEF CInv, OneEach, Running

\* Prepare: what has been encoded is refused, so that the input is encoded; and
\* a decoder that has found a whole header has found it in what has been encoded.
LEMMA PrepareCodes == ASSUME IInv, CInv, ~Crashed, NEW j \in Jobs, Prepare(j) PROVE CInv'
  <1> DEFINE GoesOn(limit, head, out, pos) ==
                job' = [job EXCEPT ![j].pc = "open", ![j].out = out, ![j].head = head,
                                   ![j].pos = pos, ![j].eof = limit < HeadSize]
             Taken(limit, head) ==
                \/ /\ job[j].encode
                   /\ \/ Refuses(j, head) /\ Ends(j, "repeat")
                      \/ /\ ~Refuses(j, head)
                         /\ GoesOn(limit, head, <<"enc", job[j].src[2] + 1>>, 0)
                \/ /\ ~job[j].encode
                   /\ \/ Ends(j, "parse") \/ Ends(j, "passwd")
                      \/ GoesOn(limit, head, <<"dec", head.name>>, HeadSize)
  <1>1. job[j].pc = "queued" /\ UNCHANGED <<files, buff, sets>> /\ job[j].src \in Paths
        /\ job[j].out = <<>> /\ job[j].encode \in BOOLEAN /\ HeadSize \in Nat
    BY CryptoAssumption DEF Prepare, At, IInv, TypeOK, OutInv, ShapeInv, CryptoAssumption
  <1>2. PICK limit \in Limits(job[j].src, 0) :
            \E head \in HeadsFound(job[j].src, limit) : Taken(limit, head)
    BY DEF Prepare
  <1>3. PICK head \in HeadsFound(job[j].src, limit) : Taken(limit, head)
    BY <1>2
  <1>4. Exists(job[j].src)
    BY <1>1 DEF CInv, PlacesInv, JobPlace
  <1>5. CASE Ends(j, "repeat") \/ Ends(j, "parse") \/ Ends(j, "passwd")
    BY <1>1, <1>5, EndsEarly
  <1>6. limit >= HeadSize => head = files[job[j].src].head
    BY <1>4 DEF HeadsFound, FileAt
  <1>7. ASSUME NEW out, NEW pos, GoesOn(limit, head, out, pos), out # <<>>,
               pos = IF job[j].encode THEN 0 ELSE HeadSize,
               job[j].encode => job[j].src = Input /\ out = Enc1
        PROVE  CInv'
    <2>1. /\ \A k \in Jobs \ {j} : job'[k] = job[k]
          /\ job'[j].pc = "open" /\ job'[j].encode = job[j].encode /\ job'[j].key = job[j].key
          /\ job'[j].src = job[j].src /\ job'[j].out = out /\ job'[j].pos = pos
          /\ job'[j].head = head /\ job'[j].eof = (limit < HeadSize)
      BY <1>7 DEF IInv, ShapeInv, Fields
    <2>2. OneEach'
      <3>1. \A k \in Jobs : job'[k].pc \notin {"idle", "done"} =>
                  Running(k) /\ job'[k].encode = job[k].encode
        BY <1>1, <2>1 DEF Running
      <3> QED  BY <3>1, OneEachStays DEF CInv
    <2>3. ASSUME ~(limit < HeadSize), head.stamp \in Jobs
          PROVE  job[j].src = Enc1 /\ Exists(Enc1)
      <3>1. limit >= HeadSize
        <4>1. limit \in Nat
          <5>1. TypeOK /\ 0 \in Nat
            BY DEF IInv
          <5> QED  BY <5>1, LimitsTyped
        <4> QED  BY <1>1, <2>3, <4>1
      <3>2. files[job[j].src].head.stamp \in Jobs
        BY <1>6, <2>3, <3>1
      <3> QED  BY <1>1, <1>4, <3>2 DEF CInv, PlacesInv, FilePlace, Exists
    <2>4. JobPlace(j)'
      <3>1. job'[j].out # <<>> => /\ job'[j].encode => job'[j].src = Input /\ job'[j].out = Enc1
                                  /\ ~job'[j].encode /\ ~job'[j].eof /\ job'[j].head.stamp \in Jobs =>
                                        job'[j].src = Enc1 /\ Enc1 \in DOMAIN files'
        BY <1>1, <1>7, <2>1, <2>3 DEF Exists
      <3> QED  BY <1>7, <2>1, <3>1 DEF JobPlace, Exists
    <2> QED  BY <1>1, <2>1, <2>2, <2>4, QuietStep DEF Early
  <1>8. CASE job[j].encode /\ ~Refuses(j, head)
             /\ GoesOn(limit, head, <<"enc", job[j].src[2] + 1>>, 0)
    <2>1. job[j].src = Input
      <3> SUFFICES ASSUME job[j].src # Input
                   PROVE  FALSE
        OBVIOUS
      <3>1. job[j].src = Enc1 /\ files[Enc1].head.stamp \in Jobs
        BY <1>1, <1>4 DEF CInv, PlacesInv, FilePlace, Exists
      <3>2. limit = Len(Bytes(FileAt(Enc1)))
        BY <1>1, <1>8, <3>1, AloneEarly, WholeFound
      <3>3. limit >= HeadSize
        BY <1>4, <3>1, <3>2, EncodedBytes
      <3>4. files[Enc1].head.ext = ".spc"
        BY <1>4, <3>1, Encoded1
      <3> QED  BY <1>6, <1>8, <3>1, <3>3, <3>4 DEF Refuses
    <2>2. <<"enc", job[j].src[2] + 1>> = Enc1 /\ Enc1 # <<>>
      BY <2>1 DEF Input, Enc1
    <2> HIDE DEF GoesOn
    <2> QED  BY <1>7, <1>8, <2>1, <2>2
  <1>9. CASE ~job[j].encode /\ GoesOn(limit, head, <<"dec", head.name>>, HeadSize)
    <2>1. <<"dec", head.name>> # <<>>
      OBVIOUS
    <2> HIDE DEF GoesOn
    <2> QED  BY <1>7, <1>9, <2>1
  <1> HIDE DEF GoesOn
  <1> QED  BY <1>3, <1>5, <1>8, <1>9

\* Close: who has read to the end has coded everything.
LEMMA CloseCodes == ASSUME IInv, CInv, ~Crashed, NEW j \in Jobs, Close(j) PROVE CInv'
  <1>0. /\ \A k \in Jobs \ {j} : job'[k] = job[k]
        /\ job'[j].pc = "done" /\ job'[j].encode = job[j].encode /\ job'[j].key = job[j].key
        /\ job'[j].src = job[j].src /\ job'[j].found = job[j].found /\ job'[j].out = job[j].out
        /\ job'[j].head = job[j].head /\ job'[j].pos = job[j].pos /\ job'[j].eof = job[j].eof
        /\ job'[j].err = "none"
    <2>1. PICK err : err = "none" /\ Ends(j, err)
      BY DEF Close
    <2>2. /\ \A k \in Jobs \ {j} : job'[k] = job[k]
          /\ job'[j].pc = "done" /\ job'[j].encode = job[j].encode /\ job'[j].key = job[j].key
          /\ job'[j].src = job[j].src /\ job'[j].found = job[j].found /\ job'[j].out = job[j].out
          /\ job'[j].head = job[j].head /\ job'[j].pos = job[j].pos /\ job'[j].eof = job[j].eof
          /\ job'[j].err = err
      BY <2>1 DEF Ends, IInv, ShapeInv, Fields
    <2> QED  BY <2>1, <2>2
  <1>1. job[j].pc \in {"loop", "close"} /\ UNCHANGED <<files, buff, sets>>
        /\ job[j].src \in Paths /\ job[j].encode \in BOOLEAN
    BY DEF Close, At, IInv, TypeOK, ShapeInv
  <1>2. Kept(j) /\ Source' = Source
    <2>1. Kept(j)
      BY <1>1 DEF Kept
    <2> QED  BY <2>1, SourceStays
  <1>3. OneEach'
    <2>1. \A k \in Jobs : job'[k].pc \notin {"idle", "done"} =>
                Running(k) /\ job'[k].encode = job[k].encode
      BY <1>0 DEF Running
    <2> QED  BY <2>1, OneEachStays DEF CInv
  <1>4. PlacesInv'
    <2>1. JobPlace(j)'
      BY <1>0, <1>1 DEF CInv, PlacesInv, JobPlace, Exists
    <2> QED  BY <1>0, <1>1, <1>2, <2>1, PlacesStay
  <1>5. ASSUME job[j].pc = "loop"
        PROVE  \E limit \in Limits(job[j].src, job[j].pos) : limit <= job[j].pos
    BY <1>5 DEF Close, At
  <1>6. ASSUME NEW e \in Jobs
        PROVE  EncodedInv(e)'
    <2>1. CASE e # j
      <3>1. job'[e] = job[e] /\ (Exists(Enc1) <=> Enc1 \in DOMAIN files') /\ files'[Enc1] = files[Enc1]
        BY <1>0, <1>1, <2>1 DEF Exists
      <3> QED  BY <1>1, <1>2, <3>1, EncodedStays
    <2>2. CASE e = j
      <3> SUFFICES ASSUME Exists(Enc1), files[Enc1].head.stamp = j
                   PROVE  EncodedOK(j)'
        BY <1>0, <1>1, <2>2 DEF EncodedInv, Exists
      <3>1. EncodedOK(j) /\ job[j].encode
        BY Encoded1
      <3>2. ASSUME ~job[j].eof
            PROVE  Len(files[Enc1].body) = Len(Source)
        <4>1. CASE job[j].pc = "close"
          BY <3>1, <3>2, <4>1 DEF EncodedOK
        <4>2. CASE job[j].pc = "loop"
          <5>1. job[j].src = Input
            BY <3>1, <4>2 DEF CInv, PlacesInv, JobPlace
          <5>2. PICK limit \in Limits(Input, job[j].pos) : limit <= job[j].pos
            BY <1>5, <4>2, <5>1
          <5>3. limit = Len(Source)
            <6>1. limit = Len(Bytes(FileAt(Input))) /\ Input \in DOMAIN files
              BY <1>1, <1>2, <5>1, <5>2, WholeFound, SourceStays
            <6> QED  BY <6>1 DEF Source, FileAt, Exists
          <5>4. Len(Source) <= Len(files[Enc1].body) /\ Len(files[Enc1].body) <= Len(Source)
            BY <3>1, <4>2, <5>2, <5>3 DEF EncodedOK
          <5>5. Len(files[Enc1].body) \in Nat /\ Len(Source) \in Nat
            <6>1. TypeOK /\ Input \in DOMAIN files /\ 0 \in Nat
              BY DEF IInv, TypeOK
            <6>2. Bytes(FileAt(Input)) \in Seq(Chars) /\ FileAt(Input) = files[Input]
              BY <6>1, LimitsTyped DEF FileAt, Exists
            <6> QED  BY <6>2, EncodedBytes, LenProperties DEF Source
          <5> QED  BY ONLY <5>4, <5>5
        <4> QED  BY <1>1, <4>1, <4>2
      <3>3. PICK f, s, k : f = files[Enc1] /\ f = files'[Enc1] /\ s = Source /\ s = Source'
                           /\ k = job[j].key /\ k = job'[j].key
        BY <1>0, <1>1, <1>2
      <3>4. job'[j].pc = "done" /\ job'[j].eof = job[j].eof /\ UNCHANGED <<buff, sets>>
        BY <1>0, <1>1
      <3> QED  BY ONLY <3>1, <3>2, <3>3, <3>4 DEF EncodedOK, Coded, Pad, Good
    <2> QED  BY <2>1, <2>2
  <1>7. ASSUME NEW d \in Jobs
        PROVE  DecodedInv(d)'
    <2>1. CASE d # j
      <3>1. d \in Jobs \ {j} /\ (job[j].out # <<>> => job'[j].out = job[j].out)
            /\ (job[j].encode => job'[j].encode /\ job'[j].key = job[j].key)
            /\ (job[j].pc \notin Early => job'[j].eof = job[j].eof)
        BY <1>0, <2>1
      <3> QED  BY <1>0, <1>1, <1>2, <3>1, DecodedStays
    <2>2. CASE d = j
      <3> SUFFICES ASSUME Decodes(j)'
                   PROVE  DecodedOK(j)'
        BY <2>2 DEF DecodedInv
      <3>1. Decodes(j)
        <4>1. \A k \in Jobs : job'[k].encode = job[k].encode /\ job'[k].key = job[k].key
                              /\ job'[k].out = job[k].out
          BY <1>0
        <4> QED  BY <1>0, <1>1, <4>1 DEF Decodes, Good
      <3>2. DecodedOK(j)
        BY <3>1 DEF CInv, DecodedInv
      <3>3. PICK body : body = files[job[j].out].body
        OBVIOUS
      <3>4. ASSUME job[j].found = job[j].head.stamp, ~job[job[j].found].eof
            PROVE  Len(body) = Len(Source)
        <4>1. CASE job[j].pc = "close"
          BY <3>2, <3>3, <3>4, <4>1 DEF DecodedOK
        <4>2. CASE job[j].pc = "loop"
          <5>1. ~job[j].encode /\ job[j].found \in Jobs /\ Running(j) /\ job[j].src = Enc1
                /\ Exists(Enc1)
            BY <3>1, <3>4, <4>2 DEF Decodes, Running, CInv, PlacesInv, JobPlace
          <5>2. ~Encoding /\ files[Enc1].head.stamp = job[j].found
            BY <5>1, <4>2 DEF IInv, FoundInv
          <5>3. PICK e \in Jobs : e = job[j].found
            BY <5>1
          <5>4. EncodedOK(e) /\ job[e].encode /\ job[e].pc \notin Early
            BY <5>1, <5>2, <5>3, Encoded1
          <5>5. job[e].pc = "done" /\ ~job[e].eof
            BY <3>4, <5>2, <5>3, <5>4 DEF Encoding, Running, Early
          <5>6. Len(files[Enc1].body) = Len(Source)
            BY <5>4, <5>5 DEF EncodedOK
          <5>7. PICK limit \in Limits(Enc1, job[j].pos) : limit <= job[j].pos
            BY <1>5, <4>2, <5>1
          <5>8. limit = Len(Bytes(FileAt(Enc1)))
            <6>1. ~\E w \in Jobs : job[w].encode /\ job[w].pc \in {"loop", "close"}
              BY <5>2 DEF Encoding, Running
            <6> QED  BY <1>1, <5>1, <5>7, <6>1, WholeFound
          <5>9. limit = HeadSize + Len(Source) /\ Len(Source) \in Nat /\ HeadSize \in Nat
            BY <5>1, <5>2, <5>3, <5>6, <5>8, EncodedBytes
          <5>10. job[j].pos = HeadSize + Len(body) /\ Len(body) <= Len(Source)
            BY <3>2, <3>3, <4>2 DEF DecodedOK
          <5>11. Len(body) \in Nat
            <6>1. body \in Seq(Chars)
              BY <3>2, <3>3 DEF DecodedOK, IInv, TypeOK, Exists
            <6> QED  BY <6>1, LenProperties
          <5> QED  BY ONLY <5>7, <5>9, <5>10, <5>11
        <4> QED  BY <1>1, <4>1, <4>2
      <3>5. job[j].found = job[j].head.stamp => job'[job[j].found].eof = job[job[j].found].eof
        BY <1>0, <3>1 DEF Decodes
      <3> QED  BY <1>0, <1>1, <1>2, <3>2, <3>3, <3>4, <3>5 DEF DecodedOK, Exists
    <2> QED  BY <2>1, <2>2
  <1> QED  BY <1>3, <1>4, <1>6, <1>7 DEF CInv

\* OpenOut: the output is empty.
LEMMA OpenOutCodes == ASSUME IInv, CInv, ~Crashed, NEW j \in Jobs, OpenOut(j) PROVE CInv'
  <1> DEFINE first == IF job[j].eof THEN "close" ELSE "loop"
             Opened(head, pc) ==
                /\ files' = Written(job[j].out, [head |-> head, body |-> <<>>])
                /\ job' = [job EXCEPT ![j].pc = pc]
  <1>1. job[j].pc = "open" /\ UNCHANGED <<buff, sets>> /\ job[j].encode \in BOOLEAN
    BY DEF OpenOut, At, IInv, ShapeInv
  <1>2. /\ job[j].out # <<>> /\ job[j].pos = IF job[j].encode THEN 0 ELSE HeadSize
        /\ job[j].encode => job[j].src = Input /\ job[j].out = Enc1
        /\ ~job[j].encode => job[j].out[1] = "dec"
        /\ JobPlace(j)
    BY <1>1 DEF CInv, PlacesInv, JobPlace, IInv, OutInv
  <1>3. CASE Ends(j, "out open") /\ UNCHANGED files
    BY <1>1, <1>3, EndsEarly
  <1>4. \/ job[j].encode /\ Opened(NoHead, "crashed")
        \/ job[j].encode /\ Opened(Attach(job[j].key, j, job[j].src[2]), first)
        \/ ~job[j].encode /\ Opened(NoHead, first)
        \/ Ends(j, "out open") /\ UNCHANGED files
    BY DEF OpenOut
  <1>5. ASSUME NEW head, NEW pc \in {"crashed", "close", "loop"}, Opened(head, pc),
               job[j].encode => head.stamp = IF pc = "crashed" THEN "none" ELSE j,
               ~job[j].encode => head = NoHead /\ pc # "crashed",
               pc = "close" => job[j].eof
        PROVE  CInv'
    <2>1. /\ \A k \in Jobs \ {j} : job'[k] = job[k]
          /\ job'[j].pc = pc /\ job'[j].encode = job[j].encode /\ job'[j].key = job[j].key
          /\ job'[j].src = job[j].src /\ job'[j].found = job[j].found /\ job'[j].out = job[j].out
          /\ job'[j].head = job[j].head /\ job'[j].pos = job[j].pos /\ job'[j].eof = job[j].eof
      BY <1>5 DEF IInv, ShapeInv, Fields
    <2>2. /\ DOMAIN files' = DOMAIN files \cup {job[j].out}
          /\ files'[job[j].out] = [head |-> head, body |-> <<>>]
          /\ \A p \in DOMAIN files \ {job[j].out} : files'[p] = files[p]
      BY <1>5 DEF Written
    <2>3. Kept(j)
      BY <2>2 DEF Kept
    <2>4. Source' = Source /\ files'[Input] = files[Input] /\ Len(Source) \in Nat
      <3>1. Source' = Source /\ files'[Input] = files[Input] /\ Input \in DOMAIN files
        BY <2>3, SourceStays
      <3>2. TypeOK /\ 0 \in Nat
        BY DEF IInv
      <3>3. Bytes(FileAt(Input)) \in Seq(Chars) /\ FileAt(Input) = files[Input]
        BY <3>1, <3>2, LimitsTyped DEF FileAt, Exists
      <3> QED  BY <3>1, <3>3, LenProperties DEF Source
    <2>5. OneEach'
      <3>1. \A k \in Jobs : job'[k].pc \notin {"idle", "done"} =>
                  Running(k) /\ job'[k].encode = job[k].encode
        BY <1>1, <2>1 DEF Running
      <3> QED  BY <3>1, OneEachStays DEF CInv
    <2>6. job[j].encode => ~\E w \in Jobs : job[w].encode /\ job[w].pc \in {"loop", "close"}
      BY <1>1, AloneEarly
    <2>7. ~job[j].encode => job[j].out \notin Paths /\ job[j].out # Enc1
      <3>1. Input[1] = "in" /\ <<"enc", 1>>[1] = "enc" /\ <<"enc", 2>>[1] = "enc"
        BY DEF Input
      <3>2. \A p \in Paths : p[1] # "dec"
        BY <3>1 DEF Paths
      <3> QED  BY <1>2, <3>1, <3>2 DEF Enc1
    <2>8. files'[job[j].out].head = head /\ files'[job[j].out].body = <<>> /\ Len(<<>>) = 0
      BY <2>2
    <2>9. PlacesInv'
      <3>1. files'[Input].head.stamp \notin Jobs
        BY <2>4 DEF CInv, PlacesInv
      <3>2. ASSUME NEW k \in Jobs
            PROVE  JobPlace(k)'
        <4>1. CASE k = j
          BY <1>1, <1>2, <2>1, <2>2, <4>1 DEF JobPlace, Exists
        <4>2. CASE k # j
          BY <2>1, <2>3, <4>2, OthersPlaced DEF CInv
        <4> QED  BY <4>1, <4>2
      <3>3. ASSUME NEW p \in (DOMAIN files') \cap Paths
            PROVE  p = Input \/ (p = Enc1 /\ (files'[p].head.stamp \in Jobs \/ Crashed'))
        <4>1. CASE p = job[j].out
          <5>1. job[j].encode /\ p = Enc1
            BY <1>1, <1>2, <2>7, <4>1
          <5>2. pc = "crashed" => Crashed'
            BY <2>1 DEF Crashed, At
          <5> QED  BY <1>5, <2>8, <4>1, <5>1, <5>2
        <4>2. CASE p # job[j].out
          <5>1. p \in DOMAIN files /\ files'[p] = files[p]
            BY <2>2, <4>2
          <5> QED  BY <5>1 DEF CInv, PlacesInv, FilePlace
        <4> QED  BY <4>1, <4>2
      <3>4. (DOMAIN files \cap Paths)' = (DOMAIN files') \cap Paths
        BY DEF Paths
      <3> QED  BY <3>1, <3>2, <3>3, <3>4 DEF PlacesInv, FilePlace
    <2>10. ASSUME NEW e \in Jobs
           PROVE  EncodedInv(e)'
      <3>1. CASE job[j].encode
        <4>1. Enc1 \in DOMAIN files' /\ files'[Enc1].head = head /\ files'[Enc1].body = <<>>
          BY <1>2, <2>2, <2>8, <3>1
        <4>2. ASSUME job'[e].encode, job'[e].pc \in {"loop", "close"}
              PROVE  head.stamp = e
          BY <1>5, <2>1, <2>6, <3>1, <4>2
        <4>3. ASSUME head.stamp = e
              PROVE  EncodedOK(e)'
          <5>0. Len(files'[Enc1].body) = 0
            BY <2>8, <4>1
          <5>1. Good(job[e].key)' => Coded(files[Enc1].body, job[e].key)'
            BY <5>0 DEF Coded
          <5>2. buff \in Nat \ {0} /\ 0 % buff = 0
            <6>1. buff \in Nat \ {0}
              BY CryptoAssumption DEF CryptoAssumption, IInv, TypeOK
            <6> QED  BY <6>1
          <5>3. CASE e = j
            BY <1>1, <1>2, <1>5, <2>1, <2>4, <3>1, <5>0, <5>1, <5>2, <5>3 DEF EncodedOK
          <5>4. CASE e # j
            BY <1>5, <3>1, <4>3, <5>4, NoHeadOK
          <5> QED  BY <5>3, <5>4
        <4> QED  BY <4>1, <4>2, <4>3 DEF EncodedInv, Exists
      <3>2. CASE ~job[j].encode
        <4>1. (Exists(Enc1) <=> Enc1 \in DOMAIN files') /\ (Exists(Enc1) => files'[Enc1] = files[Enc1])
          BY <2>2, <2>7, <3>2 DEF Exists
        <4>2. CASE e # j /\ Exists(Enc1)
          <5>1. job'[e] = job[e] /\ files'[Enc1] = files[Enc1]
            BY <2>1, <4>1, <4>2
          <5> QED  BY <1>1, <2>3, <4>1, <5>1, EncodedStays
        <4>3. CASE ~Exists(Enc1)
          BY <2>1, <3>2, <4>1, <4>3 DEF CInv, EncodedInv, Exists
        <4>4. CASE e = j /\ Exists(Enc1)
          <5>1. files[Enc1].head.stamp # j
            BY <3>2, <4>4, Encoded1
          <5> QED  BY <2>1, <3>2, <4>1, <4>4, <5>1 DEF EncodedInv
        <4> QED  BY <4>2, <4>3, <4>4
      <3> QED  BY <1>1, <3>1, <3>2
    <2>11. ASSUME NEW d \in Jobs
           PROVE  DecodedInv(d)'
      <3>1. CASE d # j
        <4>1. d \in Jobs \ {j} /\ (job[j].out # <<>> => job'[j].out = job[j].out)
              /\ (job[j].encode => job'[j].encode /\ job'[j].key = job[j].key)
              /\ (job[j].pc \notin Early => job'[j].eof = job[j].eof)
          BY <2>1, <3>1
        <4> QED  BY <1>1, <2>1, <2>3, <4>1, DecodedStays
      <3>2. CASE d = j
        <4> SUFFICES ASSUME Decodes(j)'
                     PROVE  DecodedOK(j)'
          BY <3>2 DEF DecodedInv
        <4>1. ~job[j].encode /\ ~job[j].eof /\ pc = "loop" /\ head = NoHead
          BY <1>5, <2>1 DEF Decodes
        <4>2. job'[j].pc = "loop" /\ job'[j].pos = HeadSize /\ job'[j].out = job[j].out
          BY <1>2, <2>1, <4>1
        <4>3. HeadSize \in Nat /\ 0 % buff = 0 /\ buff' = buff
          <5>1. buff \in Nat \ {0} /\ HeadSize \in Nat
            BY CryptoAssumption DEF CryptoAssumption, IInv, TypeOK
          <5> QED  BY <1>1, <5>1
        <4>4. job[j].out \in DOMAIN files' /\ files'[job[j].out].head = NoHead
              /\ files'[job[j].out].body = <<>>
          BY <2>2, <2>8, <4>1
        <4> QED  BY <2>4, <2>8, <4>2, <4>3, <4>4 DEF DecodedOK, Exists
      <3> QED  BY <3>1, <3>2
    <2> QED  BY <2>5, <2>9, <2>10, <2>11 DEF CInv
  <1>6. first \in {"close", "loop"} /\ (first = "close" => job[j].eof)
        /\ NoHead.stamp = "none" /\ Attach(job[j].key, j, job[j].src[2]).stamp = j
    BY NoHeadOK DEF Attach, Signed
  <1> HIDE DEF Opened, first
  <1> QED  BY <1>1, <1>3, <1>4, <1>5, <1>6

\* CodeBlock.
LEMMA CodeBlockCodes == ASSUME IInv, CInv, ~Crashed, NEW j \in Jobs, CodeBlock(j) PROVE CInv'
  <1> DEFINE p == job[j].pos
             o == job[j].out
             content == Bytes(FileAt(job[j].src))
             next(limit) == MinOf(limit, p + buff)
             block(limit) == SubSeq(content, p + 1, next(limit))
  <1>1. PICK limit \in Limits(job[j].src, p) :
            /\ p < limit
            /\ \/ /\ job[j].key = <<>>
                  /\ job' = [job EXCEPT ![j].pc = "crashed"]
                  /\ UNCHANGED files
               \/ /\ job[j].key # <<>>
                  /\ files' = [files EXCEPT ![o].body = @ \o XorKey(block(limit), job[j].key)]
                  /\ job' = [job EXCEPT ![j].pos = next(limit),
                                        ![j].pc = IF next(limit) < p + buff THEN "close" ELSE @]
    BY DEF CodeBlock
  <1>2. /\ job[j].pc = "loop" /\ UNCHANGED <<buff, sets>> /\ Running(j) /\ job[j].src \in Paths
        /\ o \in DOMAIN files /\ p \in Nat /\ buff \in Nat \ {0} /\ job[j].encode \in BOOLEAN
        /\ job[j].key \in Seq(Chars) /\ files[o].body \in Seq(Chars)
    BY CryptoAssumption, KeysAreStrings
       DEF CodeBlock, At, Running, IInv, TypeOK, ShapeInv, Exists, CryptoAssumption
  <1>3. content \in Seq(Chars) /\ limit \in Nat /\ limit <= Len(content) /\ Len(content) \in Nat
    <2>1. TypeOK
      BY DEF IInv
    <2>2. content \in Seq(Chars) /\ limit \in Nat /\ limit <= Len(content)
      BY <1>2, <2>1, LimitsTyped
    <2> QED  BY <2>2, LenProperties
  <1> HIDE DEF content
  <1>4. /\ next(limit) \in Nat /\ p < next(limit) /\ next(limit) <= Len(content)
        /\ next(limit) <= p + buff
        /\ next(limit) < p + buff => next(limit) = limit
        /\ ~(next(limit) < p + buff) => next(limit) = p + buff
    BY <1>1, <1>2, <1>3 DEF MinOf
  <1> HIDE DEF next
  <1>5. /\ \A k \in Jobs \ {j} : job'[k] = job[k]
        /\ job'[j].encode = job[j].encode /\ job'[j].key = job[j].key
        /\ job'[j].src = job[j].src /\ job'[j].found = job[j].found /\ job'[j].out = o
        /\ job'[j].head = job[j].head /\ job'[j].eof = job[j].eof /\ job'[j].err = job[j].err
        /\ job'[j].pc \in {"loop", "close", "crashed"}
        /\ job'[j].pc \in {"loop", "close"} => /\ job[j].key # <<>>
                                               /\ job'[j].pos = next(limit)
                                               /\ job'[j].pc = "close" => next(limit) < p + buff
                                               /\ job'[j].pc = "loop" => ~(next(limit) < p + buff)
    BY <1>1, <1>2 DEF IInv, ShapeInv, Fields
  <1>6. /\ DOMAIN files' = DOMAIN files
        /\ \A q \in DOMAIN files : files'[q].head = files[q].head
        /\ \A q \in DOMAIN files \ {o} : files'[q] = files[q]
        /\ job[j].key = <<>> => files' = files
        /\ job[j].key # <<>> => files'[o].body = files[o].body \o XorKey(block(limit), job[j].key)
    <2> DEFINE x == XorKey(block(limit), job[j].key)
    <2>1. \/ job[j].key = <<>> /\ UNCHANGED files
          \/ job[j].key # <<>> /\ files' = [files EXCEPT ![o].body = @ \o x]
      BY <1>1
    <2>2. DOMAIN files[o] = {"head", "body"}
      BY <1>2 DEF IInv, ShapeInv
    <2> HIDE DEF x
    <2>3. CASE job[j].key = <<>>
      BY <2>1, <2>3
    <2>4. CASE job[j].key # <<>>
      <3>1. files' = [files EXCEPT ![o].body = @ \o x]
        BY <2>1, <2>4
      <3>2. files'[o].body = files[o].body \o x
        BY ONLY <1>2, <2>2, <3>1
      <3>3. /\ DOMAIN files' = DOMAIN files
            /\ \A q \in DOMAIN files : files'[q].head = files[q].head
            /\ \A q \in DOMAIN files \ {o} : files'[q] = files[q]
        BY ONLY <1>2, <2>2, <3>1
      <3> QED  BY <2>4, <3>2, <3>3 DEF x
    <2> QED  BY <2>3, <2>4
  <1> HIDE DEF block
  <1>7. Kept(j) /\ Source' = Source
    <2>1. Kept(j)
      BY <1>6 DEF Kept
    <2> QED  BY <2>1, SourceStays
  <1>8. OneEach'
    <2>1. \A k \in Jobs : job'[k].pc \notin {"idle", "done"} =>
                Running(k) /\ job'[k].encode = job[k].encode
      BY <1>2, <1>5 DEF Running
    <2> QED  BY <2>1, OneEachStays DEF CInv
  <1>9. PlacesInv'
    <2>1. JobPlace(j)'
      BY <1>2, <1>5, <1>6 DEF CInv, PlacesInv, JobPlace, Exists
    <2>2. o \in (DOMAIN files') \cap Paths => o \in DOMAIN files /\ files'[o].head = files[o].head
      BY <1>6
    <2> QED  BY <1>5, <1>7, <2>1, <2>2, PlacesStay
  \* What the block adds, if the file began with whole blocks.
  <1>10. ASSUME job[j].key # <<>>, Len(files[o].body) % buff = 0
         PROVE  /\ Len(files'[o].body) = Len(files[o].body) + (next(limit) - p)
                /\ Len(files[o].body) \in Nat /\ Len(files'[o].body) \in Nat
                /\ \A i \in 1..Len(files[o].body) : files'[o].body[i] = files[o].body[i]
                /\ \A i \in (Len(files[o].body) + 1)..Len(files'[o].body) :
                      /\ p + (i - Len(files[o].body)) \in 1..Len(content)
                      /\ files'[o].body[i] = Xor(content[p + (i - Len(files[o].body))],
                                                 Pad(job[j].key, i))
                /\ ~(next(limit) < p + buff) => Len(files'[o].body) % buff = 0
    <2>1. PICK b, b2, k, n :
              /\ b = files[o].body /\ b2 = files'[o].body /\ k = job[j].key /\ n = next(limit)
              /\ b \in Seq(Chars) /\ k \in Seq(Chars) /\ n \in Nat
      BY <1>2, <1>4
    <2>2. b2 = b \o XorKey(SubSeq(content, p + 1, n), k)
      BY <1>6, <1>10, <2>1 DEF block
    <2>3. TypeOK /\ k # <<>> /\ Len(b) % buff = 0 /\ p < n /\ n <= Len(content) /\ n <= p + buff
      BY <1>4, <1>10, <2>1 DEF IInv
    <2>4. /\ b2 \in Seq(Chars) /\ Len(b2) = Len(b) + (n - p)
          /\ \A i \in 1..Len(b) : b2[i] = b[i]
          /\ \A i \in (Len(b) + 1)..Len(b2) :
                 /\ p + (i - Len(b)) \in 1..Len(content)
                 /\ b2[i] = Xor(content[p + (i - Len(b))], Pad(k, i))
      <3>1. Added(b, content, k, p, n, b2)
        BY ONLY <1>2, <1>3, <2>1, <2>2, <2>3, BlockAdded
      <3> QED  BY ONLY <3>1 DEF Added
    <2>5. Len(b) \in Nat /\ Len(b2) \in Nat
      BY <2>4, LenProperties
    <2>6. ASSUME ~(n < p + buff)
          PROVE  Len(b2) % buff = 0
      <3>1. Len(b2) = Len(b) + buff
        <4>1. n = p + buff
          BY ONLY <1>2, <2>1, <2>3, <2>6
        <4> QED  BY ONLY <1>2, <2>1, <2>4, <2>5, <4>1
      <3> QED  BY ONLY <1>2, <2>3, <2>5, <3>1, InBlock
    <2> QED  BY ONLY <2>1, <2>4, <2>5, <2>6

  <1>11. ASSUME NEW e \in Jobs
         PROVE  EncodedInv(e)'
    <2>1. CASE job[j].encode
      <3>1. o = Enc1 /\ job[j].src = Input /\ Exists(Enc1) /\ files[Enc1].head.stamp = j
            /\ EncodedOK(j)
        BY <1>2, <2>1 DEF CInv, PlacesInv, JobPlace, EncodedInv
      <3>2. Enc1 \in DOMAIN files' /\ files'[Enc1].head.stamp = j
        BY <1>6, <3>1 DEF Exists
      <3>3. CASE e # j
        <4>1. ~(job'[e].encode /\ job'[e].pc \in {"loop", "close"})
          BY <1>2, <1>5, <2>1, <3>3 DEF CInv, OneEach, Running
        <4> QED  BY <3>2, <3>3, <4>1 DEF EncodedInv
      <3>4. content = Source /\ limit = Len(Source)
        <4>1. limit = Len(Bytes(FileAt(Input))) /\ Input \in DOMAIN files
          BY <1>2, <1>7, <3>1, WholeFound, SourceStays
        <4> QED  BY <3>1, <4>1 DEF content, Source, FileAt, Exists
      <3>5. PICK s, k, b, b2 : s = Source /\ s = Source' /\ k = job[j].key /\ k = job'[j].key
                               /\ b = files[Enc1].body /\ b2 = files'[Enc1].body
        BY <1>5, <1>7
      <3>6. /\ Len(b) <= Len(s) /\ p = Len(b) /\ Len(b) % buff = 0
            /\ Good(k) => \A i \in 1..Len(b) : b[i] = Xor(s[i], Pad(k, i))
        BY <1>2, <3>1, <3>5 DEF EncodedOK, Coded
      <3>7. Good(k)' <=> Good(k)
        BY <1>2 DEF Good
      <3>8. ASSUME k # <<>>
            PROVE  /\ Len(b2) = next(limit) /\ Len(b2) \in Nat
                   /\ Good(k) => \A i \in 1..Len(b2) : b2[i] = Xor(s[i], Pad(k, i))
                   /\ ~(next(limit) < p + buff) => Len(b2) % buff = 0
        <4>1. /\ Len(b2) = Len(b) + (next(limit) - p)
              /\ Len(b) \in Nat /\ Len(b2) \in Nat
              /\ \A i \in 1..Len(b) : b2[i] = b[i]
              /\ \A i \in (Len(b) + 1)..Len(b2) :
                    b2[i] = Xor(s[p + (i - Len(b))], Pad(k, i))
              /\ ~(next(limit) < p + buff) => Len(b2) % buff = 0
          BY <1>10, <3>1, <3>4, <3>5, <3>6, <3>8
        <4>2. Len(b2) = next(limit)
          BY ONLY <1>4, <3>6, <4>1
        <4>3. ASSUME Good(k), NEW i \in 1..Len(b2)
              PROVE  b2[i] = Xor(s[i], Pad(k, i))
          <5>1. CASE i <= Len(b)
            <6>1. i \in 1..Len(b)
              BY ONLY <4>1, <5>1, i \in 1..Len(b2)
            <6> QED  BY ONLY <3>6, <4>1, <4>3, <6>1
          <5>2. CASE ~(i <= Len(b))
            <6>1. i \in (Len(b) + 1)..Len(b2) /\ p + (i - Len(b)) = i
              BY ONLY <1>2, <3>6, <4>1, <5>2, i \in 1..Len(b2)
            <6>2. b2[i] = Xor(s[p + (i - Len(b))], Pad(k, i))
              BY ONLY <4>1, <6>1
            <6> QED  BY ONLY <6>1, <6>2
          <5> QED  BY <5>1, <5>2
        <4> QED  BY <4>1, <4>2, <4>3
      <3>9. CASE e = j
        <4>1. EncodedOK(j)'
          <5>1. CASE k = <<>>
            <6>1. b2 = b /\ job'[j].pc = "crashed"
              BY <1>5, <1>6, <3>5, <5>1
            <6>2. (Good(job[j].key) => Coded(files[Enc1].body, job[j].key))'
              BY <1>2, <3>5, <3>6, <6>1 DEF Good, Coded, Pad
            <6> QED  BY ONLY <3>5, <3>6, <6>1, <6>2 DEF EncodedOK
          <5>2. CASE k # <<>>
            <6>1. job'[j].pc \in {"loop", "close"} /\ job'[j].pos = Len(b2) /\ Len(b2) <= Len(s)
              <7>1. job'[j].pc \in {"loop", "close"}
                BY <1>1, <1>2, <3>5, <5>2 DEF IInv, ShapeInv, Fields
              <7> QED  BY <1>4, <1>5, <3>4, <3>5, <3>8, <5>2, <7>1
            <6>2. job'[j].pc = "loop" => Len(b2) % buff = 0
              BY <1>5, <3>8, <5>2
            <6>3. job'[j].pc = "close" => Len(b2) = Len(s)
              BY <1>4, <1>5, <3>4, <3>5, <3>8, <5>2
            <6>4. (Good(job[j].key) => Coded(files[Enc1].body, job[j].key))'
              BY <1>2, <3>5, <3>8, <5>2 DEF Good, Coded, Pad
            <6>5. buff' = buff /\ job'[j].pc # "done"
              BY <1>2, <6>1
            <6> QED  BY ONLY <3>5, <6>1, <6>2, <6>3, <6>4, <6>5 DEF EncodedOK
          <5> QED  BY <5>1, <5>2
        <4> QED  BY <3>2, <3>9, <4>1 DEF EncodedInv, Exists
      <3> QED  BY <3>3, <3>9
    <2>2. CASE ~job[j].encode
      <3>1. o # Enc1
        <4>1. o # <<>> => o[1] = "dec"
          BY <2>2 DEF IInv, OutInv
        <4>2. Enc1 # <<>> /\ Enc1[1] = "enc"
          BY DEF Enc1
        <4> QED  BY ONLY <4>1, <4>2
      <3>2. (Exists(Enc1) <=> Enc1 \in DOMAIN files') /\ (Exists(Enc1) => files'[Enc1] = files[Enc1])
        BY <1>6, <3>1 DEF Exists
      <3>3. CASE e # j /\ Exists(Enc1)
        <4>1. job'[e] = job[e] /\ files'[Enc1] = files[Enc1]
          BY <1>5, <3>2, <3>3
        <4> QED  BY <1>2, <1>7, <3>2, <4>1, EncodedStays
      <3>4. CASE ~Exists(Enc1)
        BY <1>5, <2>2, <3>2, <3>4 DEF CInv, EncodedInv, Exists
      <3>5. CASE e = j /\ Exists(Enc1)
        <4>1. files[Enc1].head.stamp # j
          BY <2>2, <3>5, Encoded1
        <4> QED  BY <1>5, <2>2, <3>2, <3>5, <4>1 DEF EncodedInv
      <3> QED  BY <3>3, <3>4, <3>5
    <2> QED  BY <1>2, <2>1, <2>2
  <1>12. ASSUME NEW d \in Jobs \ {j}
         PROVE  DecodedInv(d)'
    <2>1. (job[j].out # <<>> => job'[j].out = job[j].out)
          /\ (job[j].encode => job'[j].encode /\ job'[j].key = job[j].key)
          /\ (job[j].pc \notin Early => job'[j].eof = job[j].eof)
      BY <1>5
    <2> QED  BY <1>2, <1>5, <1>7, <2>1, DecodedStays
  <1>13. ASSUME Decodes(j)'
         PROVE  DecodedOK(j)'
    <2>1. Decodes(j)
      <3>1. \A k \in Jobs : job'[k].encode = job[k].encode /\ job'[k].key = job[k].key
                            /\ job'[k].out = job[k].out
        BY <1>5
      <3> QED  BY <1>2, <1>5, <1>13, <3>1 DEF Decodes, Good
    <2>2. DecodedOK(j) /\ job'[j].pc \in {"loop", "close"} /\ job[j].key # <<>>
      BY <1>2, <1>5, <1>13, <2>1 DEF CInv, DecodedInv, Decodes
    <2>3. ~job[j].encode /\ job[j].src = Enc1 /\ Exists(Enc1) /\ files[Enc1].head.stamp \in Jobs
      <3>1. ~job[j].encode /\ job[j].src = Enc1 /\ Exists(Enc1)
        BY <2>1 DEF Decodes, CInv, PlacesInv, JobPlace
      <3>2. Enc1 \in DOMAIN files \cap Paths /\ Enc1 # Input
        BY <3>1 DEF Enc1, Paths, Input, Exists
      <3> QED  BY <3>1, <3>2 DEF CInv, PlacesInv, FilePlace
    <2>4. PICK e \in Jobs : e = files[Enc1].head.stamp
      BY <2>3
    <2>5. EncodedOK(e) /\ job[e].encode /\ job[e].pc \notin Early
      BY <2>3, <2>4, Encoded1
    <2>6. job[j].found = job[j].head.stamp => job[j].found = e /\ ~Encoding
      BY <1>2, <2>1, <2>3, <2>4 DEF Decodes, IInv, FoundInv
    <2>7. job[e].key = job[j].key
      <3>1. CASE job[j].found = job[j].head.stamp
        BY <2>1, <2>6, <3>1, RightKey DEF Decodes, RightKeyOnly
      <3>2. CASE \A i \in Jobs : job[i].encode => job[i].key = job[j].key
        BY <2>5, <3>2
      <3> QED  BY <2>1, <3>1, <3>2 DEF Decodes
    <2>8. PICK k, b, b2, s, c : /\ k = job[j].key /\ b = files[o].body /\ b2 = files'[o].body
                                /\ s = Source /\ s = Source' /\ c = files[Enc1].body
      BY <1>7
    <2>9. /\ FileAt(Enc1) = files[Enc1] /\ Len(c) \in Nat /\ HeadSize \in Nat
          /\ Len(content) = HeadSize + Len(c)
          /\ \A i \in 1..Len(c) : content[HeadSize + i] = c[i]
      BY <2>3, <2>8, EncodedBytes DEF content
    <2>10. /\ Len(c) <= Len(s)
           /\ \A i \in 1..Len(c) : c[i] = Xor(s[i], Pad(k, i))
      BY <2>1, <2>5, <2>7, <2>8 DEF EncodedOK, Coded, Decodes
    <2>11. /\ Len(b) <= Len(s) /\ \A i \in 1..Len(b) : b[i] = s[i]
           /\ p = HeadSize + Len(b) /\ Len(b) % buff = 0
      BY <1>2, <2>2, <2>8 DEF DecodedOK
    <2>12. /\ Len(b2) = Len(b) + (next(limit) - p)
           /\ Len(b) \in Nat /\ Len(b2) \in Nat
           /\ \A i \in 1..Len(b) : b2[i] = b[i]
           /\ \A i \in (Len(b) + 1)..Len(b2) :
                 b2[i] = Xor(content[p + (i - Len(b))], Pad(k, i))
           /\ ~(next(limit) < p + buff) => Len(b2) % buff = 0
      BY <1>10, <2>2, <2>8, <2>11
    <2>13. next(limit) = HeadSize + Len(b2) /\ Len(b2) <= Len(c)
      BY ONLY <1>4, <2>9, <2>11, <2>12
    <2>14. ASSUME NEW i \in 1..Len(b2)
           PROVE  b2[i] = s[i]
      <3>1. CASE i <= Len(b)
        <4>1. i \in 1..Len(b)
          BY ONLY <2>12, <3>1, i \in 1..Len(b2)
        <4> QED  BY ONLY <2>11, <2>12, <4>1
      <3>2. CASE ~(i <= Len(b))
        <4>1. i \in (Len(b) + 1)..Len(b2) /\ p + (i - Len(b)) = HeadSize + i /\ i \in 1..Len(c)
          BY ONLY <2>9, <2>11, <2>12, <2>13, <3>2, i \in 1..Len(b2)
        <4>2. b2[i] = Xor(content[HeadSize + i], Pad(k, i))
          <5>1. b2[i] = Xor(content[p + (i - Len(b))], Pad(k, i))
            BY ONLY <2>12, <4>1
          <5> QED  BY ONLY <4>1, <5>1
        <4>3. b2[i] = Xor(Xor(s[i], Pad(k, i)), Pad(k, i))
          BY ONLY <2>9, <2>10, <4>1, <4>2
        <4> QED  BY ONLY <4>3, XorTwice
      <3> QED  BY <3>1, <3>2
    <2>15. ASSUME job'[j].pc = "close", job[j].found = job[j].head.stamp, ~job[job[j].found].eof
           PROVE  Len(b2) = Len(s)
      <3>1. job[e].pc = "done" /\ ~job[e].eof
        BY <2>5, <2>6, <2>15 DEF Encoding, Running, Early
      <3>2. Len(c) = Len(s)
        BY <2>5, <2>8, <3>1 DEF EncodedOK
      <3>3. limit = Len(content)
        <4>1. ~\E w \in Jobs : job[w].encode /\ job[w].pc \in {"loop", "close"}
          BY <2>6, <2>15 DEF Encoding, Running
        <4> QED  BY <1>2, <2>3, <4>1, WholeFound DEF content
      <3>4. next(limit) = limit
        BY <1>4, <1>5, <2>15
      <3>5. HeadSize + Len(b2) = HeadSize + Len(c)
        BY ONLY <2>9, <2>13, <3>3, <3>4
      <3>6. HeadSize \in Nat /\ Len(b2) \in Nat /\ Len(c) \in Nat
        BY <2>9, <2>12
      <3>7. Len(b2) = Len(c)
        BY ONLY <3>5, <3>6
      <3> QED  BY ONLY <3>2, <3>7
    <2>16. job'[j].pos = next(limit) /\ (job'[j].pc = "loop" => ~(next(limit) < p + buff))
      BY <1>5, <2>2
    <2>17. o \in DOMAIN files' /\ files'[o].head = NoHead /\ job'[j].out = o
           /\ job'[j].found = job[j].found /\ job'[j].head = job[j].head /\ buff' = buff
      BY <1>2, <1>5, <1>6, <2>2 DEF DecodedOK
    <2>18. job[j].found = job[j].head.stamp => job'[job[j].found].eof = job[job[j].found].eof
      BY <1>5, <2>1 DEF Decodes
    <2>19. Len(b2) <= Len(s)
      <3>1. Len(s) \in Nat
        <4>1. TypeOK /\ Input \in DOMAIN files /\ 0 \in Nat
          BY DEF IInv, TypeOK
        <4>2. Bytes(FileAt(Input)) \in Seq(Chars) /\ FileAt(Input) = files[Input]
          BY <4>1, LimitsTyped DEF FileAt, Exists
        <4> QED  BY <2>8, <4>2, LenProperties DEF Source
      <3> QED  BY ONLY <2>9, <2>10, <2>12, <2>13, <3>1
    <2> QED  BY <2>2, <2>8, <2>12, <2>13, <2>14, <2>15, <2>16, <2>17, <2>18, <2>19
             DEF DecodedOK, Exists
  <1> QED  BY <1>8, <1>9, <1>11, <1>12, <1>13 DEF CInv, DecodedInv

\* In the beginning nothing has been coded.
LEMMA InitCInv == ASSUME Init PROVE CInv
  <1>1. PICK f \in Inputs : files = [q \in {Input} |-> f]
    BY DEF Init
  <1>2. DOMAIN files = {Input} /\ files[Input].head.stamp \notin Jobs
    BY <1>1, CryptoAssumption DEF CryptoAssumption
  <1>3. \A j \in Jobs : job[j].pc = "idle" /\ job[j].encode = FALSE /\ job[j].out = <<>>
    BY DEF Init
  <1>4. ~Exists(Enc1)
    BY <1>2 DEF Exists, Enc1, Input
  <1>5. OneEach
    BY <1>3 DEF OneEach, Running
  <1>6. PlacesInv
    BY <1>2, <1>3 DEF PlacesInv, FilePlace, JobPlace
  <1>7. ASSUME NEW j \in Jobs
        PROVE  EncodedInv(j) /\ DecodedInv(j)
    BY <1>3, <1>4 DEF EncodedInv, DecodedInv, Decodes
  <1> QED  BY <1>5, <1>6, <1>7 DEF CInv

\* Every step keeps what has been coded what it was.
LEMMA StepCInv == ASSUME IInv, CInv, [Next]_vars PROVE CInv'
  <1>1. CASE UNCHANGED vars
    <2>1. UNCHANGED <<files, buff, sets, parsed, job>>
      BY <1>1 DEF vars
    <2>2. OneEach' /\ PlacesInv'
      BY <2>1 DEF CInv, OneEach, Running, PlacesInv, FilePlace, JobPlace, Exists, Crashed, At
    <2>3. Source' = Source
      BY <2>1 DEF Source, Bytes
    <2>4. ASSUME NEW j \in Jobs
          PROVE  EncodedInv(j)' /\ DecodedInv(j)'
      <3>1. EncodedInv(j)'
        <4>1. EncodedInv(j)
          BY DEF CInv
        <4> QED  BY <2>1, <2>3, <4>1 DEF EncodedInv, EncodedOK, Coded, Pad, Good, Exists
      <3>2. DecodedInv(j)'
        <4>1. DecodedInv(j)
          BY DEF CInv
        <4> QED  BY <2>1, <2>3, <4>1 DEF DecodedInv, DecodedOK, Decodes, Good, Exists
      <3> QED  BY <3>1, <3>2
    <2> QED  BY <2>2, <2>4 DEF CInv
  <1>2. ASSUME ~Crashed, NEW j \in Jobs, NEW src \in Paths, NEW key \in Keys,
               AskEncode(j, src, key)
        PROVE  CInv'
    <2>1. At(j, "idle") /\ ~Encoding /\ UNCHANGED <<files, buff, sets>> /\ TRUE \in BOOLEAN
      BY <1>2 DEF AskEncode
    <2>2. \/ Exists(src) /\ Asks(j, TRUE, src, key, "queued", "none")
          \/ Asks(j, TRUE, src, key, "done", "no input")
      BY <1>2 DEF AskEncode
    <2> QED  BY <1>2, <2>1, <2>2, AskingCodes
  <1>3. ASSUME ~Crashed, NEW j \in Jobs, NEW src \in Paths, NEW key \in Keys,
               AskDecode(j, src, key)
        PROVE  CInv'
    <2>1. At(j, "idle") /\ ~Decoding /\ UNCHANGED <<files, buff, sets>> /\ FALSE \in BOOLEAN
      BY <1>3 DEF AskDecode
    <2>2. \/ Exists(src) /\ Asks(j, FALSE, src, key, "queued", "none")
          \/ Asks(j, FALSE, src, key, "done", "no decoder")
      BY <1>3 DEF AskDecode
    <2> QED  BY <1>3, <2>1, <2>2, AskingCodes
  <1>4. ASSUME NEW b \in Buffs, Set(b) PROVE CInv'
    BY <1>4, SetCodes
  <1>5. ASSUME ~Crashed, NEW j \in Jobs, JobStep(j) PROVE CInv'
    BY <1>5, PrepareCodes, OpenOutCodes, CodeBlockCodes, CloseCodes DEF JobStep
  <1> QED  BY <1>1, <1>2, <1>3, <1>4, <1>5 DEF Next

-------------------------------------------------------------------------------
(* Who wrote a header *)

\* A header that is found has been written.
LEMMA FoundTraced ==
    ASSUME TracesInv, NEW p, NEW limit, NEW head \in HeadsFound(p, limit)
    PROVE  Traced(head)
  BY NoHeadOK DEF TracesInv, Traced, HeadsFound, FileAt, Exists, Empty

\* What a step may do to names and headers.
LEMMA TracesKept ==
    ASSUME TracesInv, \A k \in Jobs : job[k].out # <<>> => job'[k].out # <<>>,
           \A p \in DOMAIN files' : \/ Traced(files'[p].head)
                                    \/ \E k \in Jobs : files'[p].head.stamp = k /\ job'[k].out # <<>>,
           \A h \in parsed' : Traced(h),
           \A k \in Jobs : Traced(job'[k].head)
    PROVE  TracesInv'
  <1>1. \A h : Traced(h) => (h.stamp \in Jobs => job'[h.stamp].out # <<>>)
    BY DEF Traced
  <1> QED  BY <1>1 DEF TracesInv, Traced

\* A step that changes neither files nor headers.
LEMMA TracesSame ==
    ASSUME TracesInv, \A k \in Jobs : job'[k].out = job[k].out /\ job'[k].head = job[k].head,
           \A p \in DOMAIN files' : p \in DOMAIN files /\ files'[p].head = files[p].head,
           \A h \in parsed' : Traced(h)
    PROVE  TracesInv'
  BY TracesKept DEF TracesInv

\* A step of an operation.
LEMMA TracesOfJob == ASSUME IInv, CInv, TracesInv, ~Crashed, NEW j \in Jobs, JobStep(j) PROVE TracesInv'
  <1>0. /\ DOMAIN job = Jobs /\ \A k \in Jobs : DOMAIN job[k] = Fields
        /\ \A p \in DOMAIN files : DOMAIN files[p] = {"head", "body"}
    BY DEF IInv, ShapeInv
  <1>1. ASSUME NEW err, Ends(j, err)
        PROVE  \A k \in Jobs : job'[k].out = job[k].out /\ job'[k].head = job[k].head
    BY <1>0, <1>1 DEF Ends, Fields
  <1>2. CASE Prepare(j)
    <2> DEFINE GoesOn(limit, head, out, pos) ==
                  job' = [job EXCEPT ![j].pc = "open", ![j].out = out, ![j].head = head,
                                     ![j].pos = pos, ![j].eof = limit < HeadSize]
               Taken(limit, head) ==
                  /\ parsed' = parsed \cup {head}
                  /\ \/ \E err : Ends(j, err)
                     \/ GoesOn(limit, head, <<"enc", job[j].src[2] + 1>>, 0)
                     \/ GoesOn(limit, head, <<"dec", head.name>>, HeadSize)
    <2>1. UNCHANGED files
      BY <1>2 DEF Prepare
    <2>2. PICK limit \in Limits(job[j].src, 0) :
              \E head \in HeadsFound(job[j].src, limit) : Taken(limit, head)
      BY <1>2 DEF Prepare
    <2>3. PICK head \in HeadsFound(job[j].src, limit) : Taken(limit, head)
      BY <2>2
    <2>4. Traced(head) /\ \A h \in parsed' : Traced(h)
      <3>1. Traced(head)
        BY FoundTraced
      <3> QED  BY <2>3, <3>1 DEF TracesInv
    <2>5. CASE \E err : Ends(j, err)
      BY <1>1, <2>1, <2>4, <2>5, TracesSame
    <2>6. ASSUME NEW out, NEW pos, GoesOn(limit, head, out, pos), out # <<>>
          PROVE  TracesInv'
      <3>1. \A k \in Jobs : /\ job'[k].out = IF k = j THEN out ELSE job[k].out
                            /\ job'[k].head = IF k = j THEN head ELSE job[k].head
        BY <1>0, <2>6 DEF Fields
      <3> HIDE DEF GoesOn
      <3> QED  BY <2>1, <2>4, <2>6, <3>1, TracesKept DEF TracesInv
    <2>7. <<"enc", job[j].src[2] + 1>> # <<>> /\ <<"dec", head.name>> # <<>>
      OBVIOUS
    <2> HIDE DEF GoesOn
    <2> QED  BY <2>3, <2>5, <2>6, <2>7
  <1>3. CASE OpenOut(j)
    <2> DEFINE Opened(head, pc) ==
                  /\ files' = Written(job[j].out, [head |-> head, body |-> <<>>])
                  /\ job' = [job EXCEPT ![j].pc = pc]
    <2>1. parsed' = parsed /\ \A h \in parsed' : Traced(h)
      BY <1>3 DEF OpenOut, TracesInv
    <2>2. \/ Ends(j, "out open") /\ UNCHANGED files
          \/ \E pc : Opened(NoHead, pc)
          \/ \E pc : Opened(Attach(job[j].key, j, job[j].src[2]), pc)
      BY <1>3 DEF OpenOut
    <2>3. job[j].out # <<>>
      BY <1>3 DEF OpenOut, At, CInv, PlacesInv, JobPlace
    <2>4. CASE Ends(j, "out open") /\ UNCHANGED files
      BY <1>1, <2>1, <2>4, TracesSame
    <2>5. ASSUME NEW head, NEW pc, Opened(head, pc), head = NoHead \/ head.stamp = j
          PROVE  TracesInv'
      <3>1. \A k \in Jobs : job'[k].out = job[k].out /\ job'[k].head = job[k].head
        BY <1>0, <2>5 DEF Fields
      <3>2. \A p \in DOMAIN files' : \/ p = job[j].out /\ files'[p].head = head
                                     \/ p \in DOMAIN files /\ files'[p] = files[p]
        BY <2>5 DEF Written
      <3>3. Traced(NoHead)
        BY NoHeadOK DEF Traced
      <3> HIDE DEF Opened
      <3> QED  BY <2>1, <2>3, <2>5, <3>1, <3>2, <3>3, TracesKept DEF TracesInv
    <2>6. Attach(job[j].key, j, job[j].src[2]).stamp = j
      BY DEF Attach, Signed
    <2> HIDE DEF Opened
    <2> QED  BY <2>2, <2>4, <2>5, <2>6
  <1>4. CASE CodeBlock(j)
    <2> DEFINE x(limit) == XorKey(SubSeq(Bytes(FileAt(job[j].src)), job[j].pos + 1,
                                         MinOf(limit, job[j].pos + buff)), job[j].key)
    <2>1. parsed' = parsed /\ job[j].out \in DOMAIN files
      BY <1>4 DEF CodeBlock, At, IInv, TypeOK, Exists
    <2>2. PICK limit : \/ job' = [job EXCEPT ![j].pc = "crashed"] /\ UNCHANGED files
                       \/ /\ files' = [files EXCEPT ![job[j].out].body = @ \o x(limit)]
                          /\ \E pos, pc : job' = [job EXCEPT ![j].pos = pos, ![j].pc = pc]
      BY <1>4 DEF CodeBlock
    <2> HIDE DEF x
    <2>3. \A k \in Jobs : job'[k].out = job[k].out /\ job'[k].head = job[k].head
      <3>1. CASE job' = [job EXCEPT ![j].pc = "crashed"]
        BY ONLY <1>0, <3>1 DEF Fields
      <3>2. CASE \E pos, pc : job' = [job EXCEPT ![j].pos = pos, ![j].pc = pc]
        <4>1. PICK pos, pc : job' = [job EXCEPT ![j].pos = pos, ![j].pc = pc]
          BY <3>2
        <4> QED  BY ONLY <1>0, <4>1 DEF Fields
      <3> QED  BY <2>2, <3>1, <3>2
    <2>4. \A p \in DOMAIN files' : p \in DOMAIN files /\ files'[p].head = files[p].head
      BY <1>0, <2>1, <2>2
    <2>5. \A h \in parsed' : Traced(h)
      BY <2>1 DEF TracesInv
    <2> QED  BY <2>3, <2>4, <2>5, TracesSame
  <1>5. CASE Close(j)
    <2>1. Ends(j, "none") /\ UNCHANGED <<files, parsed>> /\ \A h \in parsed' : Traced(h)
      BY <1>5 DEF Close, TracesInv
    <2> QED  BY <1>1, <2>1, TracesSame
  <1> QED  BY <1>2, <1>3, <1>4, <1>5 DEF JobStep

\* Every step.
LEMMA StepTraces == ASSUME IInv, CInv, TracesInv, [Next]_vars PROVE TracesInv'
  <1>1. CASE UNCHANGED <<files, parsed, job>>
    BY <1>1 DEF TracesInv, Traced
  <1>2. ASSUME NEW j \in Jobs, NEW encode, NEW src, NEW key, NEW pc, NEW err,
               Asks(j, encode, src, key, pc, err), UNCHANGED files,
               \A h \in parsed' : Traced(h)
        PROVE  TracesInv'
    <2>1. \A k \in Jobs : job'[k].out = job[k].out /\ job'[k].head = job[k].head
      BY <1>2 DEF Asks, IInv, ShapeInv, Fields
    <2> QED  BY <1>2, <2>1, TracesSame
  <1>3. ASSUME NEW j \in Jobs, NEW src \in Paths, NEW key \in Keys, AskEncode(j, src, key)
        PROVE  TracesInv'
    <2>1. UNCHANGED files /\ \A h \in parsed' : Traced(h)
      BY <1>3 DEF AskEncode, TracesInv
    <2> QED  BY <1>2, <1>3, <2>1 DEF AskEncode
  <1>4. ASSUME NEW j \in Jobs, NEW src \in Paths, NEW key \in Keys, AskDecode(j, src, key)
        PROVE  TracesInv'
    <2>1. UNCHANGED files
      BY <1>4 DEF AskDecode
    <2>2. CASE /\ UNCHANGED parsed
               /\ Asks(j, FALSE, src, key, "done", "no decoder")
      BY <1>2, <2>1, <2>2 DEF TracesInv
    <2>3. CASE \E limit \in Limits(src, 0) : \E head \in HeadsFound(src, limit) :
                  /\ parsed' = parsed \cup {head}
                  /\ \E pc, err : Asks(j, FALSE, src, key, pc, err)
      <3>1. PICK limit \in Limits(src, 0) : \E head \in HeadsFound(src, limit) :
                  /\ parsed' = parsed \cup {head}
                  /\ \E pc, err : Asks(j, FALSE, src, key, pc, err)
        BY <2>3
      <3>2. PICK head \in HeadsFound(src, limit) :
                  /\ parsed' = parsed \cup {head}
                  /\ \E pc, err : Asks(j, FALSE, src, key, pc, err)
        BY <3>1
      <3>3. \A h \in parsed' : Traced(h)
        BY <3>2, FoundTraced DEF TracesInv
      <3> QED  BY <1>2, <2>1, <3>2, <3>3
    <2> QED  BY <1>4, <2>2, <2>3 DEF AskDecode
  <1> QED  BY <1>1, <1>3, <1>4, TracesOfJob DEF Next, Set, vars

\* In the beginning nobody has written anything.
LEMMA InitTraces == ASSUME Init PROVE TracesInv
  <1>1. PICK f \in Inputs : files = [q \in {Input} |-> f]
    BY DEF Init
  <1>2. DOMAIN files = {Input} /\ files[Input].head.stamp \notin Jobs
    BY <1>1, CryptoAssumption DEF CryptoAssumption
  <1>3. \A j \in Jobs : job[j].head = NoHead
    BY DEF Init
  <1> QED  BY <1>2, <1>3, NoHeadOK DEF Init, TracesInv, Traced

-------------------------------------------------------------------------------
(* What comes back *)

\* The invariants hold in every state.
LEMMA CodesInductive == Spec => [](IInv /\ CInv /\ TracesInv)
  <1>1. Init => IInv /\ CInv /\ TracesInv
    BY InitIInv, InitCInv, InitTraces
  <1>2. (IInv /\ CInv /\ TracesInv) /\ [Next]_vars => (IInv /\ CInv /\ TracesInv)'
    BY StepIInv, StepCInv, StepTraces
  <1> QED  BY <1>1, <1>2, PTL DEF Spec

\* Sequences of the same characters.
LEMMA SameCharacters ==
    ASSUME NEW s \in Seq(Chars), NEW t \in Seq(Chars), Len(s) <= Len(t),
           \A i \in 1..Len(s) : s[i] = t[i]
    PROVE  /\ s = SubSeq(t, 1, Len(s))
           /\ Len(s) = Len(t) => s = t
  <1>1. Len(s) \in Nat /\ Len(t) \in Nat /\ s \in [1..Len(s) -> Chars] /\ t \in [1..Len(t) -> Chars]
    BY LenProperties
  <1>2. s = SubSeq(t, 1, Len(s))
    <2>1. \A i \in 1..Len(s) : t[i] \in Chars
      BY <1>1
    <2>2. /\ SubSeq(t, 1, Len(s)) \in Seq(Chars)
          /\ Len(SubSeq(t, 1, Len(s))) = IF 1 <= Len(s) THEN (Len(s) - 1) + 1 ELSE 0
          /\ \A i \in 1..((Len(s) - 1) + 1) : SubSeq(t, 1, Len(s))[i] = t[(1 + i) - 1]
      BY <1>1, <2>1, SubSeqProperties
    <2>3. PICK n, u : n = Len(s) /\ u = SubSeq(t, 1, Len(s))
      OBVIOUS
    <2>4. u \in Seq(Chars) /\ Len(u) = n /\ \A i \in 1..n : u[i] = t[i]
      <3>1. (n - 1) + 1 = n /\ (IF 1 <= n THEN (n - 1) + 1 ELSE 0) = n
        BY ONLY <1>1, <2>3
      <3>2. \A i \in 1..n : (1 + i) - 1 = i
        OBVIOUS
      <3> QED  BY ONLY <2>2, <2>3, <3>1, <3>2
    <2>5. u \in [1..n -> Chars]
      BY ONLY <2>4, LenProperties
    <2>6. s = u
      BY <1>1, <2>3, <2>4, <2>5
    <2> QED  BY ONLY <2>3, <2>6
  <1>3. Len(s) = Len(t) => s = t
    BY <1>1
  <1> QED  BY <1>2, <1>3

\* What has been decoded, of what has been encoded.
LEMMA DecodedIsSource ==
    ASSUME IInv, CInv, TracesInv, NEW d \in Jobs, Decoded(d), LongEnough(d), SameStarts(d),
           \/ job[d].found = job[d].head.stamp
           \/ \A e \in Jobs : job[e].encode => job[e].key = job[d].key
    PROVE  /\ Original(d) \in Seq(Chars) /\ Restored(d) \in Seq(Chars)
           /\ Len(Restored(d)) <= Len(Original(d))
           /\ \A i \in 1..Len(Restored(d)) : Restored(d)[i] = Original(d)[i]
           /\ job[d].found = job[d].head.stamp => Len(Restored(d)) = Len(Original(d))
  <1> DEFINE e == job[d].head.stamp
  <1>1. /\ ~job[d].encode /\ job[d].pc = "done" /\ job[d].err = "none" /\ e \in Jobs
        /\ \A j \in Jobs \ {d} : job[j].out # job[d].out
        /\ ~job[d].eof /\ ~job[e].eof
    BY DEF Decoded, LongEnough, At
  <1>2. HeadOK(job[d].head) /\ job[e].encode /\ job[e].out # <<>> /\ job[d].out # <<>>
    BY <1>1 DEF IInv, HeadsInv, HeadOK, TracesInv, Traced, CInv, PlacesInv, JobPlace
  <1>3. Good(job[d].key)
    BY DEF Good, SameStarts
  <1>4. Decodes(d)
    BY <1>1, <1>2, <1>3 DEF Decodes
  <1>5. DecodedOK(d)
    BY <1>4 DEF CInv, DecodedInv
  <1>6. job[e].src = Input
    BY <1>1, <1>2 DEF CInv, PlacesInv, JobPlace
  <1>7. Original(d) = Source
    BY <1>6 DEF Original, Source
  <1>8. Source \in Seq(Chars)
    <2>1. TypeOK /\ Input \in DOMAIN files /\ 0 \in Nat
      BY DEF IInv, TypeOK
    <2>2. Bytes(FileAt(Input)) \in Seq(Chars) /\ FileAt(Input) = files[Input]
      BY <2>1, LimitsTyped DEF FileAt, Exists
    <2> QED  BY <2>2 DEF Source
  <1>9. PICK b : b = files[job[d].out].body /\ b \in Seq(Chars) /\ Restored(d) = b
    <2>1. files[job[d].out].body \in Seq(Chars) /\ files[job[d].out].head = NoHead
      BY <1>5 DEF DecodedOK, IInv, TypeOK, Exists
    <2>2. Restored(d) = <<>> \o files[job[d].out].body
      BY <2>1 DEF Restored, Bytes
    <2> QED  BY <2>1, <2>2, ConcatEmptySeq
  <1>10. /\ Len(b) <= Len(Source) /\ \A i \in 1..Len(b) : b[i] = Source[i]
         /\ job[d].found = e => Len(b) = Len(Source)
    BY <1>1, <1>5, <1>9 DEF DecodedOK
  <1> QED  BY ONLY <1>7, <1>8, <1>9, <1>10

\* What is decoded with its password after it has been encoded is what it was,
\* whatever the key, the sizes of the buffers and the file: both start the key
\* with every buffer, at the same characters.
THEOREM WholeRestored == Spec => []Restores
  <1>1. ASSUME IInv, CInv, TracesInv PROVE Restores
    <2> SUFFICES ASSUME NEW d \in Jobs, Decoded(d), LongEnough(d), SameStarts(d),
                        job[d].found = job[d].head.stamp
                 PROVE  Restored(d) = Original(d)
      BY DEF Restores
    <2> QED  BY <1>1, DecodedIsSource, SameCharacters
  <1> QED  BY <1>1, CodesInductive, PTL

\* What is decoded while it is encoded, or encoded anew with the same password,
\* is the beginning of what it was.
THEOREM BeginningRestored == Spec => []RestoresPrefix
  <1>1. ASSUME IInv, CInv, TracesInv PROVE RestoresPrefix
    <2> SUFFICES ASSUME NEW d \in Jobs, Decoded(d), LongEnough(d), SameStarts(d),
                        \A e \in Jobs : job[e].encode => job[e].key = job[d].key
                 PROVE  \E n \in 0..Len(Original(d)) : Restored(d) = SubSeq(Original(d), 1, n)
      BY DEF RestoresPrefix
    <2>1. PICK r, o : r = Restored(d) /\ o = Original(d)
      OBVIOUS
    <2>2. /\ o \in Seq(Chars) /\ r \in Seq(Chars) /\ Len(r) <= Len(o)
          /\ \A i \in 1..Len(r) : r[i] = o[i]
      BY <1>1, <2>1, DecodedIsSource
    <2>3. r = SubSeq(o, 1, Len(r)) /\ Len(r) \in 0..Len(o)
      BY ONLY <2>2, SameCharacters, LenProperties
    <2> QED  BY ONLY <2>1, <2>3
  <1> QED  BY <1>1, CodesInductive, PTL
=================================================================================
