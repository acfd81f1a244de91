------------------------- MODULE MCIdempotencyGuard -------------------------
(* An instance of IdempotencyGuard for TLC: each key hashes to a lock of its  *)
(* own, so callers of different keys run side by side and callers of one key  *)
(* wait for each other.                                                       *)
EXTENDS IdempotencyGuard, TLC

CONSTANTS c1, c2, k1, k2, l1, l2

Distinct == (k1 :> l1) @@ (k2 :> l2)

=============================================================================
