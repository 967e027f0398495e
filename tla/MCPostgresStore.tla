-------------------------- MODULE MCPostgresStore --------------------------
(* Two clients on one message key and one recipient: every interleaving of *)
(* two calls, statement by statement, with TTLs short enough for a row to  *)
(* expire between the purge and the last statement of a call.              *)
EXTENDS PostgresStore

CONSTANTS c1, c2, r1, r2, p1, p2

Symmetry == Permutations({c1, c2}) \cup Permutations({r1, r2}) \cup Permutations({p1, p2})
============================================================================
