---------------------------- MODULE MCTrustStore ----------------------------
(* Model values and bounds for TrustStore. *)
EXTENDS TrustStore, TLC

MCAgents == {10}
MCVersions == {1, 2}
MCKids == {1, 2}
ClientSymmetry == Permutations(Clients)
=============================================================================
