---------------------------- MODULE MCCompressJobs ----------------------------
(* Instances of CompressJobs and UncompressJobs: one job with every             *)
(* combination of core count, buffer size, archive size and input, and two     *)
(* jobs side by side.                                                          *)
EXTENDS UncompressJobs

CONSTANTS j1, j2

OneJob == {j1}
TwoJobs == {j1, j2}

With(cores, buffs) == [cores : cores, buff : buffs]
OneToThreeCores == With({1, 2, 3}, {3, 4})
CoresAndBuffs == OneToThreeCores \cup {[cores |-> 2, buff |-> 2]}
TwoCores == With({2}, {2, 3})
OneOrTwoCores == With({1}, {2, 3}) \cup With({2}, {2})

AllKinds == {"plain", "packed", "short", "missing"}

\* Two jobs are compressed by two threads each, to one output or to two; otherwise
\* the second is refused at once.
BothPlay == \A j \in TwoJobs : input[j].kind = "plain"
TwoJobsInit ==
    /\ UInit
    /\ input[j1].name = "a"
    /\ \/ /\ input[j2].kind = "missing" /\ input[j2].size = 0 /\ input[j2].name = "b"
          /\ param.cores = 3 => param.buff = 4 /\ input[j1].size \in {0, 2, 5}
       \/ BothPlay /\ param = [cores |-> 2, buff |-> 2]
          /\ input[j1].size = 2 /\ input[j2].size = 3
Pass == TwoJobsInit /\ [][UNext]_allVars /\ UFairness

\* Two jobs run without being uncompressed meanwhile, and a job that is refused
\* is refused first.
OneAtATime ==
    /\ (BothPlay => \A j \in Jobs : Ready(j, "idle"))'
    /\ BothPlay \/ Done(j2) \/ job'[j2] # job[j2]

\* Where anything may fail, at most two things do that show, or the archive is not
\* what it should be, exceptions not counted.
Failed(j) ==
    {s \in {-1, -5} : ~At(j, "check") /\ ~At(j, "archive") /\ job[j].made # Archived(j)}
    \cup {s \in {-2} : At(j, "dispatch") /\ job[j].out = NoPath}
    \cup {s \in {-3} : job[j].bad}
    \cup {i \in DOMAIN comp[j] : comp[j][i].bad \/ comp[j][i].err # "none"}
    \cup {s \in {-4} : reader[j].bad \/ reader[j].err # "none"}

\* Then an output is uncompressed when it is complete, and Set is called where
\* something reads the parameters before it is called again; not in the loop of
\* CompressFileWithZlib, where "block" fails whatever they are.
ParametersRead(j) ==
    \/ job[j].pc \in {"dispatch", "mt", "done"}
    \/ At(j, "cut") /\ NoMorePieces(j)
FewFail == \A j \in Jobs :
    /\ Cardinality(Failed(j)') <= 2
    /\ (Ready(j, "idle") \/ reader[j].found)'
    /\ param' # param => ParametersRead(j)
===============================================================================
