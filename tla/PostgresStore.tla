--------------------------- MODULE PostgresStore ---------------------------
(***************************************************************************)
(* internal/adapters/secondary/store/postgres.go: the store shared through *)
(* a database.  A method is a sequence of SQL statements on a pool, each a *)
(* transaction of its own, so the statements of concurrent calls           *)
(* interleave: Deposit, Claim and Reserve first purge the expired rows of  *)
(* both tables (errors ignored), the two writers then compute expires_at,  *)
(* and the last statement does the work.                                   *)
(*                                                                         *)
(* The database's now() and the process's time.Now() are one clock.  The   *)
(* SELECT that looks up the owner after a refused INSERT only words the    *)
(* error message and is left out.                                          *)
(***************************************************************************)
EXTENDS StoreTypes

CONSTANTS Clients,          \* goroutines (of one or several processes) with a call
          MsgTTL, ReservationTTL,
          MaxTime,          \* bound on the clock
          SqlMayFail        \* whether statements can return an error

ASSUME TTLAssumption ==
    /\ MsgTTL \in Nat \ {0}
    /\ ReservationTTL \in Nat \ {0}
    /\ MaxTime \in Nat
    /\ SqlMayFail \in BOOLEAN

VARIABLES messages,       \* e2e_messages: key -> [payload, expiresAt]
          reservations,   \* e2e_reservations: key -> [runID, expiresAt]
          now,
          call,           \* the method each client is in, and how far
          reply           \* what the last call returned

vars == <<messages, reservations, now, call, reply>>

Entries == [payload : Payloads, expiresAt : Nat]

Reservations == [runID : Runs, expiresAt : Nat]

Idle == [pc |-> "idle"]

(* The methods with their arguments. *)
Methods ==
    [op : {"Deposit"}, key : MsgKeys, arg : Payloads]
    \cup [op : {"Claim", "Delete"}, key : MsgKeys, arg : {"-"}]
    \cup [op : {"Reserve"}, key : ResKeys, arg : Runs]
    \cup [op : {"Release"}, key : ResKeys, arg : {"-"}]

At(c, pc) == call[c].pc = pc

Goto(c, pc) == call' = [call EXCEPT ![c].pc = pc]

Return(c, answer) == reply' = answer /\ call' = [call EXCEPT ![c] = Idle]

(* The replies to a statement that was carried out: its error may still be *)
(* that of a connection lost before the answer came.                       *)
Answers(op, k) ==
    {Reply(op, k, err, {}) : err \in IF SqlMayFail THEN {"ok", "failed"} ELSE {"ok"}}

----------------------------------------------------------------------------
Init ==
    /\ messages = EmptyTable
    /\ reservations = EmptyTable
    /\ now = 0
    /\ call = [c \in Clients |-> Idle]
    /\ reply \in NoReply

Begin(c, m) ==
    /\ At(c, "idle")
    /\ call' = [call EXCEPT ![c] =
                   [pc |-> IF m.op \in {"Release", "Delete"} THEN "exec" ELSE "purgeMessages",
                    method |-> m, expiresAt |-> 0]]
    /\ UNCHANGED <<messages, reservations, now, reply>>

(* purgeExpired ends, well or not: its error is dropped. *)
AfterPurge(c) == IF call[c].method.op = "Claim" THEN "exec" ELSE "stamp"

(* DELETE FROM e2e_messages WHERE expires_at <= now() *)
PurgeMessages(c) ==
    /\ At(c, "purgeMessages")
    /\ messages' = Restrict(messages, {k \in DOMAIN messages : messages[k].expiresAt > now})
    /\ Goto(c, "purgeReservations")
    /\ UNCHANGED <<reservations, now, reply>>

(* DELETE FROM e2e_reservations WHERE expires_at <= now() *)
PurgeReservations(c) ==
    /\ At(c, "purgeReservations")
    /\ reservations' =
           Restrict(reservations, {k \in DOMAIN reservations : reservations[k].expiresAt > now})
    /\ Goto(c, AfterPurge(c))
    /\ UNCHANGED <<messages, now, reply>>

PurgeFails(c) ==
    /\ SqlMayFail
    /\ At(c, "purgeMessages") \/ At(c, "purgeReservations")
    /\ Goto(c, AfterPurge(c))
    /\ UNCHANGED <<messages, reservations, now, reply>>

\* Mutant of Stamp: reservations get the TTL of messages.
StampMessageTTL(c) ==
    /\ At(c, "stamp")
    /\ call' = [call EXCEPT ![c].pc = "exec", ![c].expiresAt = now + MsgTTL]
    /\ UNCHANGED <<messages, reservations, now, reply>>

(* expiresAt := time.Now().Add(ttl), in the process, before the statement. *)
Stamp(c) ==
    /\ At(c, "stamp")
    /\ call' = [call EXCEPT ![c].pc = "exec",
                            ![c].expiresAt =
                                now + IF call[c].method.op = "Reserve" THEN ReservationTTL
                                                                      ELSE MsgTTL]
    /\ UNCHANGED <<messages, reservations, now, reply>>

Executes(c, op) == At(c, "exec") /\ call[c].method.op = op

(* INSERT ... ON CONFLICT DO UPDATE *)
Deposit(c) ==
    LET m == call[c].method IN
    /\ Executes(c, "Deposit")
    /\ messages' = Put(messages, m.key, [payload |-> m.arg, expiresAt |-> call[c].expiresAt])
    /\ \E a \in Answers("Deposit", m.key) : Return(c, a)
    /\ UNCHANGED <<reservations, now>>

\* Mutant of Claim: the SELECT trusts the purge and drops its own condition.
ClaimStale(c) ==
    LET k == call[c].method.key IN
    /\ Executes(c, "Claim")
    /\ Return(c, Reply("Claim", k, "ok",
                       IF k \in DOMAIN messages THEN {messages[k].payload} ELSE {}))
    /\ UNCHANGED <<messages, reservations, now>>

(* SELECT ... WHERE expires_at > now() *)
Claim(c) ==
    LET k == call[c].method.key IN
    /\ Executes(c, "Claim")
    /\ Return(c, Reply("Claim", k, "ok",
                       IF k \in DOMAIN messages /\ messages[k].expiresAt > now
                       THEN {messages[k].payload} ELSE {}))
    /\ UNCHANGED <<messages, reservations, now>>

(* INSERT ... ON CONFLICT DO NOTHING: no row affected is a conflict, even  *)
(* with a row that has expired since the purge.                            *)
Reserve(c) ==
    LET m == call[c].method IN
    /\ Executes(c, "Reserve")
    /\ IF m.key \in DOMAIN reservations
       THEN /\ Return(c, Reply("Reserve", m.key, "conflict", {}))
            /\ UNCHANGED reservations
       ELSE /\ reservations' = Put(reservations, m.key,
                                   [runID |-> m.arg, expiresAt |-> call[c].expiresAt])
            /\ \E a \in Answers("Reserve", m.key) : Return(c, a)
    /\ UNCHANGED <<messages, now>>

Release(c) ==
    LET k == call[c].method.key IN
    /\ Executes(c, "Release")
    /\ reservations' = Drop(reservations, k)
    /\ \E a \in Answers("Release", k) : Return(c, a)
    /\ UNCHANGED <<messages, now>>

Delete(c) ==
    LET k == call[c].method.key IN
    /\ Executes(c, "Delete")
    /\ messages' = Drop(messages, k)
    /\ \E a \in Answers("Delete", k) : Return(c, a)
    /\ UNCHANGED <<reservations, now>>

(* The statement never reached the database. *)
ExecFails(c) ==
    /\ SqlMayFail
    /\ At(c, "exec")
    /\ Return(c, Reply(call[c].method.op, call[c].method.key, "failed", {}))
    /\ UNCHANGED <<messages, reservations, now>>

(* Timing assumption: a deposit's INSERT ends before the message it carries *)
(* would expire (300s); a longer stall would insert a row that is already   *)
(* dead, a deposit reported as done that no Claim ever sees.                *)
DepositsOutpaceTTL ==
    \A c \in Clients : Executes(c, "Deposit") => call[c].expiresAt > now + 1

Tick ==
    /\ now < MaxTime
    /\ DepositsOutpaceTTL
    /\ now' = now + 1
    /\ UNCHANGED <<messages, reservations, call, reply>>

ClientStep(c) ==
    \/ \E m \in Methods : Begin(c, m)
    \/ PurgeMessages(c) \/ PurgeReservations(c) \/ PurgeFails(c) \/ Stamp(c)
    \/ Deposit(c) \/ Claim(c) \/ Reserve(c) \/ Release(c) \/ Delete(c) \/ ExecFails(c)

Next == Tick \/ \E c \in Clients : ClientStep(c)

Spec == Init /\ [][Next]_vars

----------------------------------------------------------------------------
(* The rows have their types, and a call in progress carries the method it *)
(* was made for with a stamp taken at most one TTL ahead of the clock.     *)
TypeOK ==
    /\ IsTable(messages, MsgKeys, Entries)
    /\ IsTable(reservations, ResKeys, Reservations)
    /\ now \in Nat
    /\ reply \in Replies
    /\ \A c \in Clients :
          \/ call[c] = Idle
          \/ /\ call[c].pc \in {"purgeMessages", "purgeReservations", "stamp", "exec"}
             /\ call[c].method \in Methods
             /\ call[c].expiresAt \in 0 .. now + (IF call[c].method.op = "Reserve"
                                                  THEN ReservationTTL ELSE MsgTTL)

(* A message is gone when its row no longer passes the SELECT's condition; *)
(* a reservation stays, expired or not, until its row is deleted.          *)
LiveMessages ==
    [k \in {j \in DOMAIN messages : messages[j].expiresAt > now} |-> messages[k].payload]

RowReservations == [k \in DOMAIN reservations |-> reservations[k].runID]

Contract == INSTANCE StoreContract
                WITH messages <- LiveMessages, reservations <- RowReservations

(* The Postgres store implements ports.Store although its methods are not  *)
(* transactions: whatever purges, expiries and other calls come between    *)
(* two statements of a method, the last statement decides the outcome      *)
(* atomically (postgres.go, "NX Reserve, non-deleting Claim").             *)
ImplementsContract == Contract!Spec

============================================================================
