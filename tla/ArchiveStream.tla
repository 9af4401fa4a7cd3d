----------------------------- MODULE ArchiveStream -----------------------------
(***************************************************************************)
(* CFileUtilBase::Archive and Dearchive.  An archive is one stream: for    *)
(* each file a header that announces its size and then its bytes, for each *)
(* directory a header alone.  Nothing marks where an entry ends, so a      *)
(* reader finds the next header only if the archiver wrote exactly the     *)
(* bytes it had announced.  The files belong to somebody else, who may     *)
(* change them while they are archived.                                    *)
(*                                                                         *)
(* An entry is a position in the list of inputs; byte k of the file of     *)
(* entry e is the token <<"byte", e, k>>.  Paths are left out.             *)
(***************************************************************************)
EXTENDS Integers, Sequences, FiniteSets

CONSTANTS
    Trees,      \* possible inputs: sequences of entries [type, size]
    NewSizes,   \* sizes a file may be changed to while it is archived
    Buff        \* GetBuffSize()

EntryTypes ==
    {"file", "dir", "other", "unreadable", "unreachable", "unknown", "missing", "throwing"}

ASSUME StreamAssumption ==
    /\ Trees \subseteq Seq([type : EntryTypes, size : Nat])
    /\ NewSizes \subseteq Nat
    /\ Buff \in Nat \ {0}

VARIABLES
    tree,       \* the inputs
    now,        \* the size of each file at this moment
    stream,     \* the archive
    entry,      \* the entry being archived
    measured,   \* the size announced for each file, or NotMeasured
    pos,        \* bytes read from the file being archived
    open,       \* it is open
    nError,     \* the result of Archive
    pc,
    rpos,       \* tokens of the archive read by Dearchive
    restored    \* what Dearchive has made of each entry it read

vars == <<tree, now, stream, entry, measured, pos, open, nError, pc, rpos, restored>>

NotMeasured == -1
\* tellg() of a stream that did not open is -1, here as a uint64_t.
Huge == 1000000

Header(e, type, size) == <<"header", e, type, size>>
Bytes(e, lo, hi) == [k \in 1..(hi - lo) |-> <<"byte", e, lo + k>>]
Junk == <<"junk">>

Entries == DOMAIN tree
Files == {e \in Entries : tree[e].type = "file"}
MinOf(a, b) == IF a < b THEN a ELSE b

Init ==
    /\ tree \in Trees
    /\ now = [e \in DOMAIN tree |-> tree[e].size]
    /\ stream = <<>>
    /\ entry = 1
    /\ measured = [e \in DOMAIN tree |-> NotMeasured]
    /\ pos = 0
    /\ open = FALSE
    /\ nError = "none"
    /\ pc = "archive"
    /\ rpos = 0
    /\ restored = <<>>

-------------------------------------------------------------------------------
(* The owner of the files: any file may change size once while the archive is  *)
(* being written.                                                              *)
Change(e) ==
    /\ pc = "archive"
    /\ e \in Files
    /\ now[e] = tree[e].size
    /\ \E n \in NewSizes : now' = [now EXCEPT ![e] = n]
    /\ UNCHANGED <<tree, stream, entry, measured, pos, open, nError, pc, rpos, restored>>

-------------------------------------------------------------------------------
(* Archive *)

At(type) == pc = "archive" /\ ~open /\ entry \in Entries /\ tree[entry].type = type

\* ArchiveOneFileOrDir up to the header: the size is taken by seeking to the
\* end of the file.
OpenFile ==
    /\ At("file")
    /\ measured' = [measured EXCEPT ![entry] = now[entry]]
    /\ stream' = Append(stream, Header(entry, "file", now[entry]))
    /\ pos' = 0
    /\ open' = TRUE
    /\ UNCHANGED <<tree, now, entry, nError, pc, rpos, restored>>

\* The copy goes by what the file holds when it is read.  A file announced to
\* be larger than the buffer is read to its end ...
\* (Faulty form: writes a whole buffer for a short read.)
CopyBlockPadding ==
    /\ open
    /\ measured[entry] > Buff
    /\ pos < now[entry]
    /\ pos' = pos + Buff
    /\ stream' = stream \o Bytes(entry, pos, pos')
    /\ UNCHANGED <<tree, now, entry, measured, open, nError, pc, rpos, restored>>

CopyBlock ==
    /\ open
    /\ measured[entry] > Buff
    /\ pos < now[entry]
    /\ pos' = MinOf(pos + Buff, now[entry])
    /\ stream' = stream \o Bytes(entry, pos, pos')
    /\ UNCHANGED <<tree, now, entry, measured, open, nError, pc, rpos, restored>>

\* (Faulty form: goes on to the next entry with the file still open.)
CloseFileLate ==
    /\ open
    /\ measured[entry] > Buff
    /\ pos >= now[entry]
    /\ entry' = entry + 1
    /\ nError' = "none"
    /\ UNCHANGED <<tree, now, stream, measured, pos, open, pc, rpos, restored>>

CloseFile ==
    /\ open
    /\ measured[entry] > Buff
    /\ pos >= now[entry]
    /\ open' = FALSE
    /\ entry' = entry + 1
    /\ nError' = "none"
    /\ UNCHANGED <<tree, now, stream, measured, pos, pc, rpos, restored>>

\* ... and a smaller one by a single read, which takes up to a whole buffer.
CopyOnce ==
    /\ open
    /\ measured[entry] <= Buff
    /\ stream' = stream \o Bytes(entry, 0, MinOf(Buff, now[entry]))
    /\ open' = FALSE
    /\ entry' = entry + 1
    /\ nError' = "none"
    /\ UNCHANGED <<tree, now, measured, pos, pc, rpos, restored>>

\* A regular file that cannot be opened gets a header, and is no error.
SkipUnreadable ==
    /\ At("unreadable")
    /\ stream' = Append(stream, Header(entry, "file", Huge))
    /\ entry' = entry + 1
    /\ nError' = "none"
    /\ UNCHANGED <<tree, now, measured, pos, open, pc, rpos, restored>>

PackDir ==
    /\ At("dir")
    /\ stream' = Append(stream, Header(entry, "dir", 0))
    /\ entry' = entry + 1
    /\ nError' = "none"
    /\ UNCHANGED <<tree, now, measured, pos, open, pc, rpos, restored>>

\* Devices, sockets and the like: nothing is written, and nothing said.  One
\* inside a directory replaces the error of an earlier entry, an input does not.
SkipOther ==
    /\ At("other")
    /\ entry' = entry + 1
    /\ nError' \in {nError, "none"}
    /\ UNCHANGED <<tree, now, stream, measured, pos, open, pc, rpos, restored>>

\* The file system refuses to walk into an input: the next input goes on.
Unreachable ==
    /\ At("unreachable")
    /\ entry' = entry + 1
    /\ nError' = "file system"
    /\ UNCHANGED <<tree, now, stream, measured, pos, open, pc, rpos, restored>>

\* The file system does not say what an entry of a directory is, or there is no
\* memory for it: the exception is caught before anything is written.
SkipUnknown ==
    /\ At("unknown")
    /\ entry' = entry + 1
    /\ nError' = "unknown"
    /\ UNCHANGED <<tree, now, stream, measured, pos, open, pc, rpos, restored>>

\* It does not say whether an input exists: this exception leaves Archive.
ExistsThrows ==
    /\ At("throwing")
    /\ pc' = "thrown"
    /\ UNCHANGED <<tree, now, stream, entry, measured, pos, open, nError, rpos, restored>>

\* An input has gone since Execute looked: the rest of the inputs is skipped.
\* The archive is closed at the end of the inputs, too, and then read back.
CloseArchive ==
    /\ pc = "archive"
    /\ \/ At("missing") /\ nError' = "not exist"
       \/ ~open /\ entry \notin Entries /\ UNCHANGED nError
    /\ pc' = "restore"
    /\ UNCHANGED <<tree, now, stream, entry, measured, pos, open, rpos, restored>>

-------------------------------------------------------------------------------
(* Dearchive: while the archive is not at its end, DearchiveOneFileOrDir       *)

Token == stream[rpos + 1]
More == pc = "restore" /\ rpos < Len(stream)

RestoreDir ==
    /\ More
    /\ Token[1] = "header" /\ Token[3] = "dir"
    /\ restored' = Append(restored, <<Token[2], <<>>>>)
    /\ rpos' = rpos + 1
    /\ UNCHANGED <<tree, now, stream, entry, measured, pos, open, nError, pc>>

\* Faulty form: reads whole buffers.
RestoreFileByBuffers ==
    /\ More
    /\ Token[1] = "header" /\ Token[3] = "file"
    /\ LET whole   == Buff * ((Token[4] + Buff - 1) \div Buff)
           last    == MinOf(rpos + 1 + whole, Len(stream))
           content == SubSeq(stream, rpos + 2, last)
       IN  /\ restored' = Append(restored,
                <<Token[2], IF Len(content) = Token[4] THEN content
                            ELSE Append(content, Junk)>>)
           /\ rpos' = last
    /\ UNCHANGED <<tree, now, stream, entry, measured, pos, open, nError, pc>>

\* Exactly the announced size is read, whatever it is, and written; where the
\* archive ends too early, what was in the buffer is written instead.  How the size
\* is divided into reads is in FileBlocks.  An output that does not open goes
\* unnoticed, too; this is left out.
RestoreFile ==
    /\ More
    /\ Token[1] = "header" /\ Token[3] = "file"
    /\ LET last    == MinOf(rpos + 1 + Token[4], Len(stream))
           content == SubSeq(stream, rpos + 2, last)
       IN  /\ restored' = Append(restored,
                <<Token[2], IF Len(content) = Token[4] THEN content
                            ELSE Append(content, Junk)>>)
           /\ rpos' = last
    /\ UNCHANGED <<tree, now, stream, entry, measured, pos, open, nError, pc>>

\* Bytes of a file are taken for a header; what follows is arbitrary.
Misread ==
    /\ More
    /\ Token[1] # "header"
    /\ pc' = "lost"
    /\ UNCHANGED <<tree, now, stream, entry, measured, pos, open, nError, rpos, restored>>

RestoreEnd ==
    /\ pc = "restore"
    /\ rpos = Len(stream)
    /\ pc' = "done"
    /\ UNCHANGED <<tree, now, stream, entry, measured, pos, open, nError, rpos, restored>>

-------------------------------------------------------------------------------
Archive ==
    \/ OpenFile \/ CopyBlock \/ CloseFile \/ CopyOnce
    \/ SkipUnreadable \/ PackDir \/ SkipOther \/ Unreachable \/ SkipUnknown
    \/ ExistsThrows \/ CloseArchive

Dearchive == RestoreDir \/ RestoreFile \/ Misread \/ RestoreEnd

Next == Archive \/ Dearchive \/ \E e \in Entries : Change(e)

Spec == Init /\ [][Next]_vars

-------------------------------------------------------------------------------
(* Properties *)

TypeOK ==
    /\ tree \in Trees
    /\ now \in [Entries -> Nat]
    /\ \A k \in DOMAIN stream : stream[k][1] \in {"header", "byte"} /\ stream[k][2] \in Entries
    /\ measured \in [Entries -> Nat \cup {NotMeasured}]
    /\ pos \in Nat
    /\ open => entry \in Files
    /\ nError \in {"none", "file system", "unknown", "not exist"}
    /\ rpos \in 0..Len(stream)
    /\ \A k \in DOMAIN restored : restored[k][1] \in Entries

\* The entries that reach the archive at all.
Packed == {e \in Entries : e < entry /\ tree[e].type \in {"file", "dir"}}

\* The archiver wrote of this entry what it had announced.
BytesOf(e) == {k \in DOMAIN stream : stream[k][1] = "byte" /\ stream[k][2] = e}
Steady(e) == tree[e].type = "file" => Cardinality(BytesOf(e)) = measured[e]

\* Every entry up to e was there to be read and kept its size.
SteadyUpTo(e) == \A d \in 1..e : tree[d].type # "unreadable" /\ Steady(d)

IntactAs(e, r) ==
    r = <<e, IF tree[e].type = "file" THEN Bytes(e, 0, measured[e]) ELSE <<>>>>

\* Whatever happens to a later file while it is archived, an entry that was
\* archived before it comes out as it went in, at its place in the order; if
\* nothing was disturbed at all, that is the whole tree.
PrefixIntact ==
    pc \in {"done", "lost"} =>
        \A e \in Packed : SteadyUpTo(e) =>
            LET k == Cardinality({d \in Packed : d <= e})
            IN  k <= Len(restored) /\ IntactAs(e, restored[k])

\* A file that changes before it is measured, or after it was copied, does no harm:
\* if the archiver wrote other than it had announced, the file has changed since it
\* was measured.
OnlyChangesUnsettle ==
    \A e \in Packed : ~Steady(e) => now[e] # measured[e]
===============================================================================
