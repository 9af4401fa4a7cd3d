----------------------------- MODULE MCThreadPool -----------------------------
(* Model values for ThreadPool. *)
EXTENDS ThreadPool

CONSTANTS w1, w2, t1, t2, t3

MCWorkers == {w1, w2}
MCTasks == {t1, t2, t3}
===============================================================================
