---------------------------- MODULE MCRunLifecycle ----------------------------
(* Instances of RunLifecycle for TLC: the pipelines the runs are about.        *)
EXTENDS RunLifecycle

CONSTANTS c1, k1, k2, o1, w1

\* Crash points: everywhere, at points where the process owns the run.
Everywhere == Points \ {"idle"}
EverywhereAndWorkers == Everywhere \cup {"worker"}
WhileOwning == OwnerPoints \ {"park_schedule"}
OwningOrBetween == WhileOwning \cup {"saved", "tick_joins", "park_status", "worker"}

\* A task whose result may be one that the collector's validator refuses.
OneRejected == {<<2, 1>>}

=============================================================================
