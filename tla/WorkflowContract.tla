-------------------------- MODULE WorkflowContract --------------------------
(***************************************************************************)
(* What the execution of a declarative workflow promises to the outside,   *)
(* whatever dies on the way: nothing is asked for, waited for or published *)
(* before everything that comes before it in the graph, however far, has   *)
(* come true; and the workflow completes only when all of it has.  A death *)
(* has a price: it may cost the wait for one gate that was due.            *)
(*                                                                         *)
(* The state is what the outside sees: tasks, stored results, gates that   *)
(* opened and approvals that were granted.  A step that is executed within *)
(* the process leaves no trace there, and no gap either: what comes before *)
(* it comes before its successors.                                         *)
(***************************************************************************)
EXTENDS Integers

CONSTANTS Steps, Deps, QueueSteps, Gates, NeedsApproval

VARIABLES
    published,  \* queue steps that a task is out for
    settled,    \* queue steps with a result and gates that opened
    granted,    \* steps that a person approved
    slipped,    \* gates whose wait a death has cost
    deaths,     \* of the driver
    phase       \* "running", "done", "failed"

vars == <<published, settled, granted, slipped, deaths, phase>>

Closed(S) == \A s \in S : Deps[s] \subseteq S

\* The steps before a step: the least closed set with its dependencies.
Before == [s \in Steps |->
              {a \in Steps : \A S \in SUBSET Steps : Deps[s] \subseteq S /\ Closed(S) => a \in S}]

\* A step has come true, as far as the outside can tell.
True(s) ==
    /\ s \in QueueSteps => s \in settled
    /\ s \in Gates => s \in settled \cup slipped
    /\ s \in NeedsApproval => s \in granted

Due(s) == \A a \in Before[s] : True(a)

Init ==
    /\ published = {} /\ settled = {} /\ granted = {} /\ slipped = {}
    /\ deaths = 0
    /\ phase = "running"

\* A person grants the approval of a step, who is not asked before it is due.
Grant(s) ==
    /\ phase = "running"
    /\ s \in NeedsApproval /\ Due(s)
    /\ granted' = granted \cup {s}
    /\ UNCHANGED <<published, settled, slipped, deaths, phase>>

Publish(s) ==
    /\ phase = "running"
    /\ s \in QueueSteps /\ Due(s)
    /\ s \in NeedsApproval => s \in granted
    /\ published' = published \cup {s}
    /\ UNCHANGED <<settled, granted, slipped, deaths, phase>>

\* A worker answers, also after the run is over.
Answer(s) ==
    /\ s \in published \ settled
    /\ settled' = settled \cup {s}
    /\ UNCHANGED <<published, granted, slipped, deaths, phase>>

\* A gate opens for a run that waits for it.
Open(g) ==
    /\ phase = "running"
    /\ g \in Gates \ settled /\ Due(g)
    /\ settled' = settled \cup {g}
    /\ UNCHANGED <<published, granted, slipped, deaths, phase>>

\* The driver dies, at worst between the note that it waits for a gate and the wakeup.
Die ==
    /\ phase = "running"
    /\ deaths' = deaths + 1
    /\ UNCHANGED slipped \/ \E g \in Gates : Due(g) /\ slipped' = slipped \cup {g}
    /\ UNCHANGED <<published, settled, granted, phase>>

Finish ==
    /\ phase = "running"
    /\ \A s \in Steps : True(s)
    /\ phase' = "done"
    /\ UNCHANGED <<published, settled, granted, slipped, deaths>>

\* An approval is denied.
Fail ==
    /\ phase = "running"
    /\ phase' = "failed"
    /\ UNCHANGED <<published, settled, granted, slipped, deaths>>

Next ==
    \/ \E s \in Steps : Grant(s) \/ Publish(s) \/ Answer(s) \/ Open(s)
    \/ Die \/ Finish \/ Fail

Spec == Init /\ [][Next]_vars
=============================================================================
