---------------------------- MODULE MCArchiveStream ----------------------------
(* Trees of up to three entries, files of zero to three buffers.               *)
EXTENDS ArchiveStream

Entry(type, size) == [type |-> type, size |-> size]

SmallFiles == {Entry("file", n) : n \in {0, 1, 2, 3, 5}}
AnyEntry == SmallFiles \cup {Entry(t, 0) : t \in EntryTypes \ {"file"}}

MCTrees ==
    {<<a, b, c>> : a, b \in {Entry("file", 0), Entry("file", 3), Entry("dir", 0)},
                   c \in {Entry("file", 2), Entry("file", 5)}}
        \cup {<<a, b>> : a, b \in AnyEntry}
MCNewSizes == {0, 2, 4}
===============================================================================
