----------------------------- MODULE MCRemoteJobs -----------------------------
(* Two operations and a server that is pointed at one library, at two, at a    *)
(* directory that holds something else, or at nothing.                         *)
EXTENDS RemoteJobs

CONSTANTS j1, j2
TwoJobs == {j1, j2}

Dir(readable, files, below) ==
    [readable |-> readable, files |-> files, below |-> below]
NoDir == [readable |-> FALSE, files |-> <<>>]

MCLibDirs == {
    Dir(TRUE, <<"services">>, NoDir),
    Dir(TRUE, <<"services">>, [readable |-> TRUE, files |-> <<"services">>]),
    Dir(TRUE, <<"no symbol">>, NoDir),
    Dir(TRUE, <<>>, NoDir),
    Dir(FALSE, <<>>, NoDir)}

\* Operations are alike: they are asked for in order.  The longer file is compressed
\* first and nothing else is done at the same time.
Asked ==
    /\ (~At(j2, "idle") => ~At(j1, "idle"))'
    /\ (Len(job[j1].src) > 2 =>
            /\ job[j1].kind \in {"none", "compress"}
            /\ At(j2, "idle") \/ Done(j1))'
    /\ (Len(job[j2].src) > 2 => job[j2].kind = "uncompress")'
===============================================================================
