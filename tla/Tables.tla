------------------------------ MODULE Tables -------------------------------
(* A Go map, a Redis key space or an SQL table with a primary key, as a    *)
(* function whose DOMAIN is the set of keys that are present.              *)
EXTENDS Functions

IsTable(f, K, V) == DOMAIN f \subseteq K /\ f \in [DOMAIN f -> V]

EmptyTable == [k \in {} |-> {}]

Put(f, k, v) == [j \in DOMAIN f \cup {k} |-> IF j = k THEN v ELSE f[j]]

(* The entries of f, and those of g under other keys. *)
PutOver(f, g) == [k \in DOMAIN f \cup DOMAIN g |-> IF k \in DOMAIN f THEN f[k] ELSE g[k]]

Drop(f, k) == Restrict(f, DOMAIN f \ {k})
============================================================================
