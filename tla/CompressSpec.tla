----------------------------- MODULE CompressSpec -----------------------------
(***************************************************************************)
(* What a compression promises to its caller, whatever the number of       *)
(* threads and the size of the buffer: the output file grows from nothing  *)
(* to the whole archive, success is reported only when it is whole, and    *)
(* nothing touches it after the report.                                    *)
(***************************************************************************)
CONSTANT Jobs

VARIABLES
    report,     \* what the caller has been told of each job
    output      \* how much of the input the output file of each job holds

specVars == <<report, output>>

Init ==
    /\ report = [j \in Jobs |-> "pending"]
    /\ output = [j \in Jobs |-> "none"]

Write(j) ==
    /\ report[j] = "pending"
    /\ output[j] # "whole"
    /\ \E o \in {"partial", "whole"} : output' = [output EXCEPT ![j] = o]
    /\ UNCHANGED report

Succeed(j) ==
    /\ report[j] = "pending"
    /\ output[j] = "whole"
    /\ report' = [report EXCEPT ![j] = "ok"]
    /\ UNCHANGED output

Fail(j) ==
    /\ report[j] = "pending"
    /\ report' = [report EXCEPT ![j] = "error"]
    /\ UNCHANGED output

Next == \E j \in Jobs : Write(j) \/ Succeed(j) \/ Fail(j)

Spec == Init /\ [][Next]_specVars
===============================================================================
