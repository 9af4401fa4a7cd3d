------------------------------ MODULE RemoteSpec ------------------------------
(***************************************************************************)
(* What a remote operation promises about the answers it writes to its     *)
(* output, one for each block it sends: first the right ones, in order;    *)
(* and only if its stream has broken, others in place of the rest.         *)
(***************************************************************************)
EXTENDS Naturals

CONSTANT Jobs

VARIABLES
    broken,     \* whether the stream of each job has broken
    right,      \* how many right answers its output begins with
    wrong       \* how many others follow

specVars == <<broken, right, wrong>>

Init ==
    /\ broken = [j \in Jobs |-> FALSE]
    /\ right = [j \in Jobs |-> 0]
    /\ wrong = [j \in Jobs |-> 0]

\* The server, or the way to it, is lost; several streams may break at once.
Break ==
    /\ \E lost \in SUBSET Jobs : broken' = [j \in Jobs |-> broken[j] \/ j \in lost]
    /\ UNCHANGED <<right, wrong>>

Answer(j) ==
    /\ wrong[j] = 0
    /\ right' = [right EXCEPT ![j] = @ + 1]
    /\ UNCHANGED <<broken, wrong>>

Fill(j) ==
    /\ broken[j]
    /\ wrong' = [wrong EXCEPT ![j] = @ + 1]
    /\ UNCHANGED <<broken, right>>

Next == Break \/ \E j \in Jobs : Answer(j) \/ Fill(j)

Spec == Init /\ [][Next]_specVars
===============================================================================
