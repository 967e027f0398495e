---------------------------- MODULE MemoryStore ----------------------------
(***************************************************************************)
(* internal/adapters/secondary/store/memory.go: the single-process store.  *)
(* Every method holds s.mu from its first to its last access of the maps,  *)
(* so a method is one step.  Nothing ever removes an expired entry: time   *)
(* is compared with expiresAt when the entry is read.                      *)
(*                                                                         *)
(* time.Now() is the variable now.  A method that reads it twice (Reserve) *)
(* does so within one tick.                                                *)
(***************************************************************************)
EXTENDS StoreTypes

CONSTANTS MsgTTL,           \* cfg.TTL, 300s unless configured
          ReservationTTL,   \* reservationTTL, one hour (redis.go)
          MaxTime           \* bound on the clock

ASSUME TTLAssumption ==
    /\ MsgTTL \in Nat \ {0}             \* LoadConfig replaces 0 by 300s
    /\ ReservationTTL \in Nat \ {0}
    /\ MaxTime \in Nat

VARIABLES messages,       \* map[string]memEntry
          reservations,   \* map[string]memReservation
          now,            \* time.Now()
          reply           \* what the last call returned

vars == <<messages, reservations, now, reply>>

Entries == [payload : Payloads, expiresAt : Nat]

Reservations == [runID : Runs, expiresAt : Nat]

----------------------------------------------------------------------------
Init ==
    /\ messages = EmptyTable
    /\ reservations = EmptyTable
    /\ now = 0
    /\ reply \in NoReply

\* Mutant of Deposit: the stamp is taken on the wrong side of the clock.
DepositBackdated(k, p) ==
    /\ messages' = Put(messages, k, [payload |-> p, expiresAt |-> now - MsgTTL])
    /\ reply' = Reply("Deposit", k, "ok", {})
    /\ UNCHANGED <<reservations, now>>

Deposit(k, p) ==
    /\ messages' = Put(messages, k, [payload |-> p, expiresAt |-> now + MsgTTL])
    /\ reply' = Reply("Deposit", k, "ok", {})
    /\ UNCHANGED <<reservations, now>>

\* Mutant of Claim: expired entries are compared with the wrong strictness.
ClaimStrict(k) ==
    /\ reply' = Reply("Claim", k, "ok",
                      IF k \in DOMAIN messages /\ messages[k].expiresAt > now
                      THEN {messages[k].payload} ELSE {})
    /\ UNCHANGED <<messages, reservations, now>>

(* entry.expiresAt.Before(now) hides the entry: at expiresAt it is still seen. *)
Claim(k) ==
    /\ reply' = Reply("Claim", k, "ok",
                      IF k \in DOMAIN messages /\ ~(messages[k].expiresAt < now)
                      THEN {messages[k].payload} ELSE {})
    /\ UNCHANGED <<messages, reservations, now>>

\* Mutant of Reserve: the map is written without looking at what is there.
ReserveOverwrites(k, r) ==
    /\ reply' = Reply("Reserve", k, "ok", {})
    /\ reservations' =
           Put(reservations, k, [runID |-> r, expiresAt |-> now + ReservationTTL])
    /\ UNCHANGED <<messages, now>>

(* existing.expiresAt.After(now) refuses: at expiresAt the key is free again. *)
Reserve(k, r) ==
    /\ IF k \in DOMAIN reservations /\ reservations[k].expiresAt > now
       THEN /\ reply' = Reply("Reserve", k, "conflict", {})
            /\ UNCHANGED reservations
       ELSE /\ reply' = Reply("Reserve", k, "ok", {})
            /\ reservations' =
                   Put(reservations, k, [runID |-> r, expiresAt |-> now + ReservationTTL])
    /\ UNCHANGED <<messages, now>>

Release(k) ==
    /\ reservations' = Drop(reservations, k)
    /\ reply' = Reply("Release", k, "ok", {})
    /\ UNCHANGED <<messages, now>>

Delete(k) ==
    /\ messages' = Drop(messages, k)
    /\ reply' = Reply("Delete", k, "ok", {})
    /\ UNCHANGED <<reservations, now>>

Tick ==
    /\ now < MaxTime
    /\ now' = now + 1
    /\ UNCHANGED <<messages, reservations, reply>>

Next ==
    \/ \E k \in MsgKeys, p \in Payloads : Deposit(k, p)
    \/ \E k \in MsgKeys : Claim(k)
    \/ \E k \in ResKeys, r \in Runs : Reserve(k, r)
    \/ \E k \in ResKeys : Release(k)
    \/ \E k \in MsgKeys : Delete(k)
    \/ Tick

Spec == Init /\ [][Next]_vars

----------------------------------------------------------------------------
(* The maps hold entries of their types, and no entry outlives its TTL     *)
(* counted from now: Deposit and Reserve stamp expiresAt from the clock.   *)
TypeOK ==
    /\ IsTable(messages, MsgKeys, Entries)
    /\ IsTable(reservations, ResKeys, Reservations)
    /\ now \in Nat
    /\ reply.msg \in SUBSET Payloads
    /\ \A k \in DOMAIN messages : messages[k].expiresAt <= now + MsgTTL
    /\ \A k \in DOMAIN reservations : reservations[k].expiresAt <= now + ReservationTTL

(* The refinement mapping: what is in the maps and has not expired.  The   *)
(* two tests differ at the boundary, as they do in Claim and Reserve.      *)
LiveMessages ==
    [k \in {j \in DOMAIN messages : now <= messages[j].expiresAt} |-> messages[k].payload]

LiveReservations ==
    [k \in {j \in DOMAIN reservations : now < reservations[j].expiresAt} |->
        reservations[k].runID]

Contract == INSTANCE StoreContract
                WITH messages <- LiveMessages, reservations <- LiveReservations

(* The in-memory store implements ports.Store: with expiry done lazily, at *)
(* read time, no caller can tell it from a store whose entries vanish on   *)
(* time, and every reply is the one the contract gives (memory.go claims   *)
(* to reproduce the Redis semantics).                                      *)
ImplementsContract == Contract!Spec

(* Through the mapping: no live reservation passes from one run to another. *)
NoHandover == Contract!NoHandover
============================================================================
