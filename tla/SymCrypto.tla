------------------------------- MODULE SymCrypto -------------------------------
(***************************************************************************)
(* CSymCrypto::SymEncode without RPC, the header that CFileUtilHead puts   *)
(* before what it encodes, and the look that CreateDecoder takes at that   *)
(* header.  A client encodes and decodes files one after another or, with  *)
(* the asynchronous factory, while earlier operations still run.           *)
(*                                                                         *)
(* A character is the set of its bits, so that XOR is the symmetric        *)
(* difference and {} the character that ends a C string.  A path is a      *)
(* directory and the number of times ".spc" was appended to the name.      *)
(***************************************************************************)
EXTENDS Integers, Sequences

CONSTANTS
    Jobs,
    Bits,           \* of a character
    EncodeKey,      \* Constants::ENCODE_KEY
    Keys,           \* passwords
    KeyRoom,        \* sizeof(FileHead::szKey)
    HeadSize,       \* sizeof(FileHead), in characters of a file
    Inputs,         \* what the input file may be
    Buffs,          \* buffer sizes
    MaxSets         \* bound: how often the buffer size is set

Chars == SUBSET Bits

ASSUME CryptoAssumption ==
    /\ EncodeKey \in Seq(Chars \ {{}}) /\ EncodeKey # <<>>
    /\ Keys \subseteq Seq(Chars \ {{}})
    /\ KeyRoom \in Nat \ {0} /\ HeadSize \in Nat \ {0}
    /\ Buffs \subseteq Nat \ {0}
    /\ MaxSets \in Nat
    /\ "none" \notin Jobs
    /\ \A f \in Inputs : /\ f = [head |-> f.head, body |-> f.body]
                         /\ f.body \in Seq(Chars) /\ f.head.stamp \notin Jobs

VARIABLES
    files,      \* by path
    buff,       \* GetBuffSize()
    sets,       \* counts the calls of Set
    parsed,     \* headers that an examination has left in memory
    job

vars == <<files, buff, sets, parsed, job>>

MinOf(a, b) == IF a < b THEN a ELSE b

-------------------------------------------------------------------------------
(* Keys and headers *)

Xor(a, b) == (a \ b) \cup (b \ a)

\* The loops that encode the key, decode it, and encode or decode a buffer: the
\* key is repeated as often as necessary.
XorKey(s, key) == [i \in DOMAIN s |-> Xor(s[i], key[((i - 1) % Len(key)) + 1])]

\* What is left of a string in an array of characters.
CString(s) ==
    SubSeq(s, 1, CHOOSE n \in 0..Len(s) :
                    /\ \A i \in 1..n : s[i] # {}
                    /\ n < Len(s) => s[n + 1] = {})

NoSign == <<>>
Digest(minor, key, stamp, ext, name) == <<minor, key, stamp, ext, name>>

\* No header: characters that make no sense as one.
NoHead == [minor |-> 0, key |-> <<>>, stamp |-> "none", ext |-> "", name |-> 0,
           sign |-> NoSign]

Signed(minor, key, stamp, ext, name) ==
    [minor |-> minor, key |-> CString(key), stamp |-> stamp, ext |-> ext, name |-> name,
     sign |-> Digest(minor, key, stamp, ext, name)]

Minor == 1

\* Faulty form: the signature covers the key as it is stored.
AttachStored(key, stamp, name) ==
    LET head == Signed(Minor, CString(XorKey(key, EncodeKey)), stamp, ".spc", name)
    IN  IF Len(key) = KeyRoom THEN [head EXCEPT !.sign = NoSign] ELSE head

\* Faulty form: the room for the end of the string is counted twice.
AttachTight(key, stamp, name) ==
    LET head == Signed(Minor, XorKey(key, EncodeKey), stamp, ".spc", name)
    IN  IF Len(key) >= KeyRoom - 1 THEN [head EXCEPT !.sign = NoSign] ELSE head

\* Attach: the signature covers the whole encoded key, whatever of it is stored;
\* the character that ends a key filling its array falls on the signature.
Attach(key, stamp, name) ==
    LET head == Signed(Minor, XorKey(key, EncodeKey), stamp, ".spc", name)
    IN  IF Len(key) = KeyRoom THEN [head EXCEPT !.sign = NoSign] ELSE head

Valid(head) == head.sign = Digest(head.minor, head.key, head.stamp, head.ext, head.name)
RealKey(head) == XorKey(head.key, EncodeKey)

-------------------------------------------------------------------------------
(* Files *)

HeadBytes == [i \in 1..HeadSize |-> {}]
Bytes(f) == (IF f.head = NoHead THEN <<>> ELSE HeadBytes) \o f.body
Empty == [head |-> NoHead, body |-> <<>>]

Exists(p) == p \in DOMAIN files
FileAt(p) == IF Exists(p) THEN files[p] ELSE Empty
Written(p, f) == [q \in DOMAIN files \cup {p} |-> IF q = p THEN f ELSE files[q]]

At(j, pc) == job[j].pc = pc
BeingWritten(p) == \E w \in Jobs : job[w].out = p /\ job[w].pc \in {"loop", "close"}

\* How much of a file a reader finds that has read pos characters of it: all, or
\* any part of what has been written to a file still open.
Limits(p, pos) ==
    LET length == Len(Bytes(FileAt(p)))
    IN  IF BeingWritten(p) THEN MinOf(pos, length)..length ELSE {length}

\* The header found in a file of which limit characters are found.  If they are
\* too few the FileHead stays uninitialized: its memory holds what an earlier
\* examination has left there, or nothing that makes sense.
HeadsFound(p, limit) == IF limit >= HeadSize THEN {FileAt(p).head} ELSE parsed

Input == <<"in", 0>>

Init ==
    /\ files \in {[p \in {Input} |-> f] : f \in Inputs}
    /\ buff \in Buffs
    /\ sets = 0
    /\ parsed = {NoHead}
    /\ job = [j \in Jobs |-> [pc |-> "idle", encode |-> FALSE, key |-> <<>>, src |-> Input,
                              found |-> "none", out |-> <<>>, head |-> NoHead, pos |-> 0,
                              eof |-> FALSE, err |-> "none"]]

Running(j) == job[j].pc \notin {"idle", "done"}
Encoding == \E j \in Jobs : Running(j) /\ job[j].encode
Decoding == \E j \in Jobs : Running(j) /\ ~job[j].encode

\* Who wrote the header of a file that nobody is writing, for the properties.
Found(p) == IF Encoding THEN "none" ELSE FileAt(p).head.stamp

-------------------------------------------------------------------------------
(* The client.  It encodes when nothing else runs, and does not decode twice   *)
(* at a time, so no two operations write one file; it may decode what is still *)
(* being encoded.  It sets the buffer size only between operations: buffers    *)
(* are not allocated anew.                                                     *)

Asks(j, encode, src, key, pc, err) ==
    job' = [job EXCEPT ![j] = [@ EXCEPT !.pc = pc, !.encode = encode, !.key = key,
                                        !.src = src, !.found = Found(src), !.err = err]]

\* CreateEncoder and Execute.
AskEncode(j, src, key) ==
    /\ At(j, "idle") /\ ~Encoding /\ ~Decoding
    /\ \/ Exists(src) /\ Asks(j, TRUE, src, key, "queued", "none")
       \/ ~Exists(src) /\ Asks(j, TRUE, src, key, "done", "no input")
    /\ UNCHANGED <<files, buff, sets, parsed>>

\* CreateDecoder, which makes no object unless it finds a signed header of a
\* version it knows, and Execute.
AskDecode(j, src, key) ==
    /\ At(j, "idle") /\ ~Decoding
    /\ \/ /\ Exists(src)
          /\ \E limit \in Limits(src, 0) : \E head \in HeadsFound(src, limit) :
                /\ parsed' = parsed \cup {head}
                /\ \/ /\ Valid(head) /\ head.minor = Minor
                      /\ Asks(j, FALSE, src, key, "queued", "none")
                   \/ /\ ~(Valid(head) /\ head.minor = Minor)
                      /\ Asks(j, FALSE, src, key, "done", "no decoder")
       \/ /\ ~Exists(src)
          /\ Asks(j, FALSE, src, key, "done", "no decoder")
          /\ UNCHANGED parsed
    /\ UNCHANGED <<files, buff, sets>>

\* CCustomParamManager::Set.
Set(b) ==
    /\ ~Encoding /\ ~Decoding
    /\ sets < MaxSets
    /\ b # buff
    /\ buff' = b
    /\ sets' = sets + 1
    /\ UNCHANGED <<files, parsed, job>>

-------------------------------------------------------------------------------
(* SymEncode *)

Ends(j, err) == job' = [job EXCEPT ![j].pc = "done", ![j].err = err]

\* A file is not encoded twice.
Refuses(j, head) == head.ext = ".spc"

\* The header of the source is examined.  In a source shorter than a header the
\* examination leaves a stream that has failed, which seekg does not mend.
Prepare(j) ==
    /\ At(j, "queued")
    /\ \E limit \in Limits(job[j].src, 0) : \E head \in HeadsFound(job[j].src, limit) :
        LET GoesOn(out, pos) ==
                job' = [job EXCEPT ![j].pc = "open", ![j].out = out, ![j].head = head,
                                   ![j].pos = pos, ![j].eof = limit < HeadSize]
        IN  /\ parsed' = parsed \cup {head}
            /\ \/ /\ job[j].encode
                  /\ \/ Refuses(j, head) /\ Ends(j, "repeat")
                     \/ ~Refuses(j, head) /\ GoesOn(<<"enc", job[j].src[2] + 1>>, 0)
               \/ /\ ~job[j].encode
                  /\ \/ ~(Valid(head) /\ head.ext = ".spc") /\ Ends(j, "parse")
                     \/ /\ Valid(head) /\ head.ext = ".spc"
                        /\ RealKey(head) # job[j].key
                        /\ Ends(j, "passwd")
                     \/ /\ Valid(head) /\ head.ext = ".spc"
                        /\ RealKey(head) = job[j].key
                        /\ GoesOn(<<"dec", head.name>>, HeadSize)
    /\ UNCHANGED <<files, buff, sets>>

\* Faulty form: that the output did not open is not looked at.
OpenOutUnchecked(j) ==
    /\ At(j, "open")
    /\ job' = [job EXCEPT ![j].pc = IF job[j].eof THEN "close" ELSE "loop"]
    /\ \/ UNCHANGED files
       \/ files' = Written(job[j].out, [head |-> NoHead, body |-> <<>>])
    /\ UNCHANGED <<buff, sets, parsed>>

\* The output is opened and emptied, and given a header; a key that is longer
\* than its array fails an assertion.
OpenOut(j) ==
    LET key == job[j].key
        Opened(head, pc) ==
            /\ files' = Written(job[j].out, [head |-> head, body |-> <<>>])
            /\ job' = [job EXCEPT ![j].pc = pc]
        first == IF job[j].eof THEN "close" ELSE "loop"
    IN  /\ At(j, "open")
        /\ \/ Ends(j, "out open") /\ UNCHANGED files
           \/ job[j].encode /\ Len(key) > KeyRoom /\ Opened(NoHead, "crashed")
           \/ /\ job[j].encode /\ Len(key) <= KeyRoom
              /\ Opened(Attach(key, j, job[j].src[2]), first)
           \/ ~job[j].encode /\ Opened(NoHead, first)
        /\ UNCHANGED <<buff, sets, parsed>>

\* Faulty form: a read that found less than a buffer is not the last one.
CodeBlockGoingOn(j) ==
    /\ At(j, "loop")
    /\ job[j].key # <<>>
    /\ \E limit \in Limits(job[j].src, job[j].pos) :
        LET pos   == job[j].pos
            next  == MinOf(limit, pos + buff)
            block == SubSeq(Bytes(FileAt(job[j].src)), pos + 1, next)
        IN  /\ pos < limit
            /\ files' = [files EXCEPT ![job[j].out].body = @ \o XorKey(block, job[j].key)]
            /\ job' = [job EXCEPT ![j].pos = next]
    /\ UNCHANGED <<buff, sets, parsed>>

\* One round of the loop.  The key starts anew with every buffer; a read that
\* found less than a buffer has met the end of the file, and is the last one.
\* With an empty key the position in the key is a remainder by zero.
CodeBlock(j) ==
    /\ At(j, "loop")
    /\ \E limit \in Limits(job[j].src, job[j].pos) :
        LET pos   == job[j].pos
            next  == MinOf(limit, pos + buff)
            block == SubSeq(Bytes(FileAt(job[j].src)), pos + 1, next)
        IN  /\ pos < limit
            /\ \/ /\ job[j].key = <<>>
                  /\ job' = [job EXCEPT ![j].pc = "crashed"]
                  /\ UNCHANGED files
               \/ /\ job[j].key # <<>>
                  /\ files' = [files EXCEPT ![job[j].out].body = @ \o XorKey(block, job[j].key)]
                  /\ job' = [job EXCEPT ![j].pos = next,
                                        ![j].pc = IF next < pos + buff THEN "close" ELSE @]
    /\ UNCHANGED <<buff, sets, parsed>>

\* Faulty form: the loop ends before the last character.
CloseEarly(j) ==
    /\ \/ At(j, "close")
       \/ /\ At(j, "loop")
          /\ \E limit \in Limits(job[j].src, job[j].pos) : limit <= job[j].pos + 1
    /\ Ends(j, "none")
    /\ UNCHANGED <<files, buff, sets, parsed>>

\* The end of the file, if the loop was entered at all, and the callback.
Close(j) ==
    /\ \/ At(j, "close")
       \/ /\ At(j, "loop")
          /\ \E limit \in Limits(job[j].src, job[j].pos) : limit <= job[j].pos
    /\ Ends(j, "none")
    /\ UNCHANGED <<files, buff, sets, parsed>>

-------------------------------------------------------------------------------
Crashed == \E j \in Jobs : At(j, "crashed")
Paths == {Input, <<"enc", 1>>, <<"enc", 2>>}
JobStep(j) == Prepare(j) \/ OpenOut(j) \/ CodeBlock(j) \/ Close(j)

Next ==
    /\ ~Crashed
    /\ \/ \E j \in Jobs, src \in Paths, key \in Keys : AskEncode(j, src, key) \/ AskDecode(j, src, key)
       \/ \E b \in Buffs : Set(b)
       \/ \E j \in Jobs : JobStep(j)

Spec == Init /\ [][Next]_vars

-------------------------------------------------------------------------------
(* Properties *)

Errors == {"none", "no input", "no decoder", "parse", "passwd", "repeat", "out open"}

TypeOK ==
    /\ \A p \in DOMAIN files : files[p].body \in Seq(Chars)
    /\ Input \in DOMAIN files
    /\ buff \in Buffs
    /\ sets \in 0..MaxSets
    /\ NoHead \in parsed
    /\ \A j \in Jobs :
        /\ job[j].pc \in {"idle", "queued", "open", "loop", "close", "done", "crashed"}
        /\ job[j].key \in Keys \cup {<<>>}
        /\ job[j].src \in Paths
        /\ job[j].pos \in Nat
        /\ job[j].err \in Errors
        /\ job[j].pc \in {"loop", "close"} => Exists(job[j].out)

\* No file is opened for what was encoded by an operation unless the password is
\* that operation's, whatever became of either in the header.
RightKeyOnly ==
    \A d \in Jobs :
        /\ ~job[d].encode
        /\ job[d].out # <<>>
        /\ job[d].head.stamp \in Jobs
        => job[d].key = job[job[d].head.stamp].key

\* A password that the header can hold: it leaves room for the end of the
\* string, and does not contain its own end once encoded.
Holds(key) == Len(key) < KeyRoom /\ CString(XorKey(key, EncodeKey)) = XorKey(key, EncodeKey)

\* With such a password, what was encoded without an error is not refused to
\* whoever knows it.
NotRefused ==
    \A d \in Jobs : LET e == job[d].found IN
        /\ ~job[d].encode /\ At(d, "done")
        /\ e \in Jobs
        /\ job[e].err = "none"
        /\ job[d].key = job[e].key /\ Holds(job[e].key)
        => job[d].err \in {"none", "out open"}

\* d has decoded what the operation that wrote the header has encoded, both
\* having found a whole header's length in their sources, and nobody has
\* decoded to the same file since.
Decoded(d) ==
    LET e == job[d].head.stamp IN
    /\ ~job[d].encode /\ At(d, "done") /\ job[d].err = "none"
    /\ e \in Jobs
    /\ \A j \in Jobs \ {d} : job[j].out # job[d].out

LongEnough(d) == ~job[d].eof /\ ~job[job[d].head.stamp].eof

\* The key, which starts anew with every buffer, falls on the same characters.
SameStarts(d) ==
    sets = 0 \/ (job[d].key # <<>> /\ \A b \in Buffs : b % Len(job[d].key) = 0)

Original(d) == Bytes(files[job[job[d].head.stamp].src])
Restored(d) == Bytes(files[job[d].out])

\* Whatever the key, the buffer and the file, decoding restores what was encoded
\* if it starts when encoding has ended.
Restores ==
    \A d \in Jobs :
        Decoded(d) /\ LongEnough(d) /\ SameStarts(d) /\ job[d].found = job[d].head.stamp
            => Restored(d) = Original(d)

\* If it starts earlier it restores a part from the beginning on, provided that
\* nobody encodes with another key meanwhile.
RestoresPrefix ==
    \A d \in Jobs :
        /\ Decoded(d) /\ LongEnough(d) /\ SameStarts(d)
        /\ \A e \in Jobs : job[e].encode => job[e].key = job[d].key
        => \E n \in 0..Len(Original(d)) : Restored(d) = SubSeq(Original(d), 1, n)

-------------------------------------------------------------------------------
(* What a comment says, and the code does not do *)

\* If the passwords agree the contents are decoded with it: what comes back is
\* what was encoded.
SameKeyRestores ==
    \A d \in Jobs : Decoded(d) /\ job[d].found = job[d].head.stamp => Restored(d) = Original(d)
===============================================================================
