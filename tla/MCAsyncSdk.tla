------------------------------ MODULE MCAsyncSdk ------------------------------
(* Model values for AsyncSdk, and what a client that breaks a rule does.       *)
EXTENDS AsyncSdk

CONSTANTS w1, w2, t1, t2, u1, u2, o1, o2

TwoWorkers == {w1, w2}
TwoTasks == {t1, t2}
TwoUtils == {u1, u2}
OneOut == {o1}
TwoOuts == {o1, o2}

Reuses == {"reuses busy object"}
Shares == {"shares output string"}
===============================================================================
