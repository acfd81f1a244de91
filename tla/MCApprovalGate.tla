--------------------------- MODULE MCApprovalGate ---------------------------
EXTENDS ApprovalGate

\* Two qualified roles, one that does not count; two principals share a role.
ManyRoles == [p \in Principals |->
    CASE p = "frank" -> {"finance"}
      [] p = "fred" -> {"finance"}
      [] p = "omar" -> {"ops"}
      [] OTHER -> {"guest"}]
Tokens == [p \in Remote |-> IF p = "gina" THEN "this" ELSE "other"]

\* A quorum of two with a deadline and an open service, a quorum without deadline, and
\* an approval by anybody without deadline.
AllRequests == {
    [roles |-> {"finance", "ops"}, parties |-> 2, timeout |-> TRUE, secured |-> FALSE],
    [roles |-> {"finance", "ops"}, parties |-> 2, timeout |-> FALSE, secured |-> TRUE],
    [roles |-> {}, parties |-> 1, timeout |-> FALSE, secured |-> TRUE]}
=============================================================================
