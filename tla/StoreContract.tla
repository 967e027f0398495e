--------------------------- MODULE StoreContract ---------------------------
(***************************************************************************)
(* What ports.Store promises its callers (internal/core/ports/store.go):   *)
(* a buffer of received messages and a table of recipient reservations,    *)
(* both with a time to live.  It is what RedisStore does, each operation   *)
(* being one Redis command; entries vanish on their own when their TTL     *)
(* runs out, which is all a client can know of time.                       *)
(*                                                                         *)
(* The backend is behind a network: a command may fail, and a command that *)
(* fails may still have been carried out.                                  *)
(***************************************************************************)
EXTENDS StoreTypes

VARIABLES messages,      \* the live messages, by key
          reservations,  \* the live reservations: key -> the run it was made for
          reply          \* what the last call returned

cvars == <<messages, reservations, reply>>

Answers(op, k) == {Reply(op, k, err, {}) : err \in {"ok", "failed"}}

----------------------------------------------------------------------------
Init ==
    /\ messages = EmptyTable
    /\ reservations = EmptyTable
    /\ reply \in NoReply

(* SET key data EX ttl: the last deposit wins. *)
Deposit(k, p) ==
    /\ messages' = Put(messages, k, p)
    /\ reply' \in Answers("Deposit", k)
    /\ UNCHANGED reservations

(* GET: the message stays where it is; a miss is a nil message, no error. *)
Claim(k) ==
    /\ reply' = Reply("Claim", k, "ok",
                      IF k \in DOMAIN messages THEN {messages[k]} ELSE {})
    /\ UNCHANGED <<messages, reservations>>

(* SET NX: refused while the key is there, whoever owns it. *)
Reserve(k, r) ==
    /\ IF k \in DOMAIN reservations
       THEN /\ reply' = Reply("Reserve", k, "conflict", {})
            /\ UNCHANGED reservations
       ELSE /\ reply' \in Answers("Reserve", k)
            /\ reservations' = Put(reservations, k, r)
    /\ UNCHANGED messages

(* DEL, with no question asked about the owner. *)
Release(k) ==
    /\ reservations' = Drop(reservations, k)
    /\ reply' \in Answers("Release", k)
    /\ UNCHANGED messages

Delete(k) ==
    /\ messages' = Drop(messages, k)
    /\ reply' \in Answers("Delete", k)
    /\ UNCHANGED reservations

(* The command never reached the backend. *)
Fail(op, k) ==
    /\ reply' = Reply(op, k, "failed", {})
    /\ UNCHANGED <<messages, reservations>>

(* The TTL of some entries runs out. *)
Expire ==
    \E M \in SUBSET DOMAIN messages, R \in SUBSET DOMAIN reservations :
        /\ messages' = Restrict(messages, M)
        /\ reservations' = Restrict(reservations, R)
        /\ UNCHANGED reply

Next ==
    \/ \E k \in MsgKeys, p \in Payloads : Deposit(k, p)
    \/ \E k \in MsgKeys : Claim(k)
    \/ \E k \in ResKeys, r \in Runs : Reserve(k, r)
    \/ \E k \in ResKeys : Release(k)
    \/ \E k \in MsgKeys : Delete(k)
    \/ \E k \in MsgKeys, op \in {"Deposit", "Claim", "Delete"} : Fail(op, k)
    \/ \E k \in ResKeys, op \in {"Reserve", "Release"} : Fail(op, k)
    \/ Expire

Spec == Init /\ [][Next]_cvars

----------------------------------------------------------------------------
(* A reservation is never handed from one run to another: between two      *)
(* owners the key has been free (released, or expired).  This is the NX    *)
(* of Reserve seen by an observer of the table.                            *)
NoHandover ==
    [][\A k \in DOMAIN reservations \cap DOMAIN reservations' :
           reservations'[k] = reservations[k]]_cvars
============================================================================
