--------------------------- MODULE MCMemoryStore ---------------------------
(* Small instance of MemoryStore: one message key, two recipients, two     *)
(* runs; TTLs of one and two ticks so that the boundary instants of both   *)
(* comparisons are reached and an entry can expire, be replaced and expire *)
(* again before the clock stops.                                           *)
EXTENDS MemoryStore

CONSTANTS r1, r2, p1, p2, k1, k2

(* Runs, payloads and recipients are interchangeable. *)
Symmetry ==
    Permutations({r1, r2}) \cup Permutations({p1, p2}) \cup Permutations({k1, k2})
============================================================================
