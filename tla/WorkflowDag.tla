---------------------------- MODULE WorkflowDag ----------------------------
(***************************************************************************)
(* WorkflowDefinition._validate_dag (workflows/definition.py): a workflow  *)
(* is loaded only if no step depends on an unknown step and Kahn's         *)
(* algorithm removes every step, round by round.                           *)
(***************************************************************************)
EXTENDS Integers, FiniteSets

CONSTANTS
    Names,       \* everything depends_on may name
    Ids,         \* ids of the steps of the definition
    Definitions  \* what is written: depends_on of each step

ASSUME DagAssumption ==
    /\ Ids \subseteq Names /\ IsFiniteSet(Ids)
    /\ Definitions \subseteq [Ids -> SUBSET Names]

VARIABLES
    deps,       \* depends_on of each step
    remaining,  \* the steps still in the algorithm's dictionary
    left,       \* the dependencies the dictionary still holds for each of them
    verdict     \* "checking", "loaded", "unknown" or "cycle"

dagVars == <<deps, remaining, left, verdict>>

\* Steps that depend on each other so that none of them can ever come first.
Knot(S) == S # {} /\ S \subseteq Ids /\ \A s \in S : deps[s] \cap S # {}

Free == {s \in remaining : left[s] = {}}

-----------------------------------------------------------------------------
RejectUnknown ==
    /\ verdict = "checking"
    /\ \E s \in Ids : ~(deps[s] \subseteq Ids)
    /\ verdict' = "unknown"
    /\ UNCHANGED <<deps, remaining, left>>

\* Mutant of Round: the removed steps stay among the others' dependencies.
RoundKeepsEdges ==
    /\ verdict = "checking"
    /\ \A s \in Ids : deps[s] \subseteq Ids
    /\ remaining # {}
    /\ IF Free = {}
       THEN verdict' = "cycle" /\ UNCHANGED remaining
       ELSE remaining' = remaining \ Free /\ UNCHANGED verdict
    /\ UNCHANGED <<deps, left>>

\* Mutant of Round: the dictionary is emptied although a round found nothing ready.
RoundIgnoresCycle ==
    /\ verdict = "checking"
    /\ \A s \in Ids : deps[s] \subseteq Ids
    /\ remaining # {}
    /\ remaining' = IF Free = {} THEN {} ELSE remaining \ Free
    /\ left' = [s \in Ids |-> left[s] \ Free]
    /\ UNCHANGED <<deps, verdict>>

\* Mutant of Round: the steps that are ready are not deleted from the dictionary.
RoundKeepsSteps ==
    /\ verdict = "checking"
    /\ \A s \in Ids : deps[s] \subseteq Ids
    /\ remaining # {}
    /\ left' = [s \in Ids |-> left[s] \ Free]
    /\ verdict' = IF Free = {} THEN "cycle" ELSE verdict
    /\ UNCHANGED <<deps, remaining>>

\* One round of the while loop.
Round ==
    /\ verdict = "checking"
    /\ \A s \in Ids : deps[s] \subseteq Ids
    /\ remaining # {}
    /\ IF Free = {}
       THEN verdict' = "cycle" /\ UNCHANGED <<remaining, left>>
       ELSE /\ remaining' = remaining \ Free
            /\ left' = [s \in Ids |-> left[s] \ Free]
            /\ UNCHANGED verdict
    /\ UNCHANGED deps

Load ==
    /\ verdict = "checking"
    /\ \A s \in Ids : deps[s] \subseteq Ids
    /\ remaining = {}
    /\ verdict' = "loaded"
    /\ UNCHANGED <<deps, remaining, left>>

DagInit ==
    /\ deps \in Definitions
    /\ remaining = Ids
    /\ left = deps
    /\ verdict = "checking"

DagNext == RejectUnknown \/ Round \/ Load

DagSpec == DagInit /\ [][DagNext]_dagVars
DagFairSpec == DagSpec /\ WF_dagVars(DagNext)

-----------------------------------------------------------------------------
\* A definition that loads has no knot: whatever part of it is left to execute,
\* some step of that part has all its dependencies outside of it.
LoadedIsAcyclic == verdict = "loaded" => \A S \in SUBSET Ids : ~Knot(S)

\* A definition refused as cyclic really is: the steps left form a knot.
RefusalIsJustified == verdict = "cycle" => Knot(remaining)

\* _validate_dag tells the definitions that can be executed from those that cannot.
VerdictIsRight == LoadedIsAcyclic /\ RefusalIsJustified

\* The loop ends, for every graph.
Decided == <>(verdict # "checking")

\* The inductive invariant: no knot loses a step, and the dictionary holds the
\* dependencies among the steps that are left.
DagInv ==
    /\ deps \in [Ids -> SUBSET Names]
    /\ left \in [Ids -> SUBSET Names]
    /\ remaining \subseteq Ids
    /\ verdict \in {"checking", "loaded", "unknown", "cycle"}
    /\ verdict \in {"loaded", "cycle"} => \A s \in Ids : deps[s] \subseteq Ids
    /\ verdict = "loaded" => remaining = {}
    /\ verdict = "cycle" => remaining # {} /\ Free = {}
    /\ (\A s \in Ids : deps[s] \subseteq Ids)
          => \A s \in remaining : left[s] = deps[s] \cap remaining
    /\ \A S \in SUBSET Ids : Knot(S) => S \subseteq remaining

=============================================================================
