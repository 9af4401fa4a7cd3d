------------------------------- MODULE AsyncOps -------------------------------
(***************************************************************************)
(* What the SDK promises to the thread that uses asynchronous operations   *)
(* (src/FileUtilSdk.h: WaitAsync, "the main thread waits for the end of    *)
(* the asynchronous operations"): operations are submitted, complete one   *)
(* by one in any order, and a wait ends only when none is outstanding.     *)
(***************************************************************************)
CONSTANT Tasks

VARIABLES
    pending,    \* operations submitted and not yet complete
    finished,   \* operations that have completed
    waiting     \* the caller is inside WaitAsync

opsVars == <<pending, finished, waiting>>

OpsInit ==
    /\ pending = {}
    /\ finished = {}
    /\ waiting = FALSE

Submit(t) ==
    /\ t \notin pending \cup finished
    /\ pending' = pending \cup {t}
    /\ UNCHANGED <<finished, waiting>>

Complete(t) ==
    /\ t \in pending
    /\ pending' = pending \ {t}
    /\ finished' = finished \cup {t}
    /\ UNCHANGED waiting

StartWait ==
    /\ ~waiting
    /\ waiting' = TRUE
    /\ UNCHANGED <<pending, finished>>

EndWait ==
    /\ waiting
    /\ pending = {}
    /\ waiting' = FALSE
    /\ UNCHANGED <<pending, finished>>

OpsNext ==
    \/ \E t \in Tasks : Submit(t) \/ Complete(t)
    \/ StartWait
    \/ EndWait

OpsSpec == OpsInit /\ [][OpsNext]_opsVars
===============================================================================
