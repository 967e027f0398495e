------------------------ MODULE PostgresStoreProofs ------------------------
(* The Postgres store implements ports.Store although its methods are      *)
(* several statements: for every set of keys, runs, payloads and clients,  *)
(* every pair of TTLs, with statements that fail and with ones that don't. *)
EXTENDS PostgresStore, TLAPS

CallStates ==
    [pc : {"purgeMessages", "purgeReservations", "stamp", "exec"},
     method : Methods, expiresAt : Nat]

(* Every client is idle or in a method. *)
CallsTyped == call \in [Clients -> CallStates \cup {Idle}]

(* What a deposit is about to insert has not expired: its stamp was taken  *)
(* from the clock and no tick has caught up with it.                       *)
StampsLive == \A c \in Clients : Executes(c, "Deposit") => call[c].expiresAt > now

Inv == TypeOK /\ CallsTyped /\ StampsLive

----------------------------------------------------------------------------
LEMMA PutIsTable ==
    ASSUME NEW K, NEW V, NEW f, IsTable(f, K, V), NEW k \in K, NEW v \in V
    PROVE  IsTable(Put(f, k, v), K, V)
  BY DEF IsTable, Put

LEMMA RestrictIsTable ==
    ASSUME NEW K, NEW V, NEW f, IsTable(f, K, V), NEW S \in SUBSET DOMAIN f
    PROVE  IsTable(Restrict(f, S), K, V)
  BY DEF IsTable, Restrict

LEMMA DropIsTable ==
    ASSUME NEW K, NEW V, NEW f, IsTable(f, K, V), NEW k
    PROVE  IsTable(Drop(f, k), K, V)
  BY RestrictIsTable DEF Drop

(* A method's key and argument are those of its operation. *)
LEMMA MethodsTyped ==
    ASSUME NEW m \in Methods
    PROVE  /\ m.op \in {"Deposit", "Claim", "Delete", "Reserve", "Release"}
           /\ m.op \in {"Deposit", "Claim", "Delete"} => m.key \in MsgKeys
           /\ m.op \in {"Reserve", "Release"} => m.key \in ResKeys
           /\ m.op = "Deposit" => m.arg \in Payloads
           /\ m.op = "Reserve" => m.arg \in Runs
  BY DEF Methods

LEMMA RepliesTyped ==
    ASSUME NEW op \in Ops, NEW k \in MsgKeys \cup ResKeys,
           NEW err \in {"ok", "conflict", "failed"}, NEW msg \in SUBSET Payloads
    PROVE  Reply(op, k, err, msg) \in Replies
  BY DEF Reply, Replies

(* The time to live an operation gives what it writes. *)
TTL(op) == IF op = "Reserve" THEN ReservationTTL ELSE MsgTTL

(* A call that is not idle, in full. *)
LEMMA CallTyped ==
    ASSUME Inv, NEW c \in Clients, call[c].pc # "idle"
    PROVE  /\ call[c] \in CallStates
           /\ call[c].method \in Methods
           /\ call[c].expiresAt \in Nat /\ call[c].expiresAt <= now + TTL(call[c].method.op)
<1>1. call[c] # Idle
  BY DEF Idle
<1> QED
  BY <1>1 DEF Inv, TypeOK, CallsTyped, CallStates, TTL

(* A step of one client's call: it becomes idle, or stays in its method    *)
(* with a stamp the clock allows, and a deposit's stamp is ahead of it.    *)
CallSound(l, t) ==
    \/ l = Idle
    \/ /\ l \in CallStates
       /\ l.expiresAt <= t + TTL(l.method.op)
       /\ l.pc = "exec" /\ l.method.op = "Deposit" => l.expiresAt > t

LEMMA CallFrame ==
    ASSUME Inv, NEW c \in Clients, NEW l, CallSound(l, now),
           call' = [call EXCEPT ![c] = l], now' = now,
           IsTable(messages', MsgKeys, Entries),
           IsTable(reservations', ResKeys, Reservations), reply' \in Replies
    PROVE  Inv'
<1>1. now \in Nat /\ TTLAssumption
  BY TTLAssumption DEF Inv, TypeOK
<1>2. l \in CallStates \cup {Idle}
  BY DEF CallSound
<1>3. CallsTyped' /\ \A d \in Clients : call'[d] = IF d = c THEN l ELSE call[d]
  BY <1>2 DEF Inv, CallsTyped
<1>4. StampsLive'
  <2> SUFFICES ASSUME NEW d \in Clients, Executes(d, "Deposit")' PROVE call'[d].expiresAt > now
    BY DEF StampsLive
  <2>1. CASE d = c
    BY <1>3, <2>1 DEF CallSound, Executes, At, Idle
  <2>2. CASE d # c
    BY <1>3, <2>2 DEF Inv, StampsLive, Executes, At
  <2> QED
    BY <2>1, <2>2
<1>5. ASSUME NEW d \in Clients
      PROVE  \/ call'[d] = Idle
             \/ /\ call'[d].pc \in {"purgeMessages", "purgeReservations", "stamp", "exec"}
                /\ call'[d].method \in Methods
                /\ call'[d].expiresAt \in 0 .. now' + (IF call'[d].method.op = "Reserve"
                                                       THEN ReservationTTL ELSE MsgTTL)
  <2>1. CASE d = c
    BY <1>1, <1>3, <2>1 DEF CallSound, CallStates, TTL, TTLAssumption
  <2>2. CASE d # c
    BY <1>3, <2>2 DEF Inv, TypeOK
  <2> QED
    BY <2>1, <2>2
<1>6. TypeOK'
  BY <1>1, <1>5 DEF TypeOK
<1> QED
  BY <1>3, <1>4, <1>6 DEF Inv

(* What the statements leave in the tables and answer. *)
LEMMA ReturnKeepsInv ==
    ASSUME Inv, NEW c \in Clients, NEW a \in Replies, Return(c, a), now' = now,
           IsTable(messages', MsgKeys, Entries),
           IsTable(reservations', ResKeys, Reservations)
    PROVE  Inv'
<1>1. CallSound(Idle, now)
  BY DEF CallSound
<1>2. call' = [call EXCEPT ![c] = Idle] /\ reply' \in Replies
  BY DEF Return
<1> QED
  BY <1>1, <1>2, CallFrame

(* The answers of a statement that was carried out are among the contract's. *)
LEMMA AnswersTyped ==
    ASSUME NEW op \in Ops, NEW k \in MsgKeys \cup ResKeys, NEW a \in Answers(op, k)
    PROVE  a \in Replies /\ \E err \in {"ok", "failed"} : a = Reply(op, k, err, {})
<1>1. PICK err \in {"ok", "failed"} : a = Reply(op, k, err, {})
  BY DEF Answers
<1>2. a \in Replies
  BY <1>1, RepliesTyped
<1> QED
  BY <1>1, <1>2

(* The statements that end a method keep the invariant. *)
LEMMA ExecKeepsInv ==
    ASSUME Inv, NEW c \in Clients,
           Deposit(c) \/ Claim(c) \/ Reserve(c) \/ Release(c) \/ Delete(c) \/ ExecFails(c)
    PROVE  Inv'
<1> DEFINE m == call[c].method
<1>1. At(c, "exec")
  BY DEF Deposit, Claim, Reserve, Release, Delete, ExecFails, Executes
<1>2. m \in Methods /\ call[c].expiresAt \in Nat
  BY <1>1, CallTyped DEF At
<1>3. IsTable(messages, MsgKeys, Entries) /\ IsTable(reservations, ResKeys, Reservations)
  BY DEF Inv, TypeOK
<1>4. {"Deposit", "Claim", "Reserve", "Release", "Delete"} \subseteq Ops
  BY DEF Ops
<1> HIDE DEF m
<1>5. CASE Deposit(c)
  <2>1. m.op = "Deposit" /\ m.key \in MsgKeys /\ m.arg \in Payloads
    BY <1>2, <1>5, MethodsTyped DEF Deposit, Executes, m
  <2>2. [payload |-> m.arg, expiresAt |-> call[c].expiresAt] \in Entries
    BY <1>2, <2>1 DEF Entries
  <2>3. IsTable(messages', MsgKeys, Entries) /\ UNCHANGED <<reservations, now>>
    BY <1>3, <1>5, <2>1, <2>2, PutIsTable DEF Deposit, m
  <2>4. PICK a \in Answers("Deposit", m.key) : Return(c, a)
    BY <1>5 DEF Deposit, m
  <2>5. a \in Replies
    BY <1>4, <2>1, <2>4, AnswersTyped
  <2> QED
    BY <1>3, <2>3, <2>4, <2>5, ReturnKeepsInv
<1>6. CASE Claim(c)
  <2> DEFINE found == IF m.key \in DOMAIN messages /\ messages[m.key].expiresAt > now
                      THEN {messages[m.key].payload} ELSE {}
  <2>1. m.op = "Claim" /\ m.key \in MsgKeys
    BY <1>2, <1>6, MethodsTyped DEF Claim, Executes, m
  <2>2. found \in SUBSET Payloads
    BY <1>3 DEF IsTable, Entries
  <2>3. Reply("Claim", m.key, "ok", found) \in Replies
    BY <1>4, <2>1, <2>2, RepliesTyped
  <2>4. Return(c, Reply("Claim", m.key, "ok", found)) /\ UNCHANGED <<messages, reservations, now>>
    BY <1>6 DEF Claim, m
  <2> HIDE DEF found
  <2> QED
    BY <1>3, <2>3, <2>4, ReturnKeepsInv
<1>7. CASE Reserve(c)
  <2>1. m.op = "Reserve" /\ m.key \in ResKeys /\ m.arg \in Runs
    BY <1>2, <1>7, MethodsTyped DEF Reserve, Executes, m
  <2>2. UNCHANGED <<messages, now>>
    BY <1>7 DEF Reserve
  <2>3. CASE m.key \in DOMAIN reservations
    <3>1. Return(c, Reply("Reserve", m.key, "conflict", {})) /\ UNCHANGED reservations
      BY <1>7, <2>3 DEF Reserve, m
    <3>2. Reply("Reserve", m.key, "conflict", {}) \in Replies
      BY <1>4, <2>1, RepliesTyped
    <3> QED
      BY <1>3, <2>2, <3>1, <3>2, ReturnKeepsInv
  <2>4. CASE m.key \notin DOMAIN reservations
    <3>1. [runID |-> m.arg, expiresAt |-> call[c].expiresAt] \in Reservations
      BY <1>2, <2>1 DEF Reservations
    <3>2. IsTable(reservations', ResKeys, Reservations)
      BY <1>3, <1>7, <2>1, <2>4, <3>1, PutIsTable DEF Reserve, m
    <3>3. PICK a \in Answers("Reserve", m.key) : Return(c, a)
      BY <1>7, <2>4 DEF Reserve, m
    <3>4. a \in Replies
      BY <1>4, <2>1, <3>3, AnswersTyped
    <3> QED
      BY <1>3, <2>2, <3>2, <3>3, <3>4, ReturnKeepsInv
  <2> QED
    BY <2>3, <2>4
<1>8. CASE Release(c)
  <2>1. m.op = "Release" /\ m.key \in ResKeys
    BY <1>2, <1>8, MethodsTyped DEF Release, Executes, m
  <2>2. IsTable(reservations', ResKeys, Reservations) /\ UNCHANGED <<messages, now>>
    BY <1>3, <1>8, DropIsTable DEF Release
  <2>3. PICK a \in Answers("Release", m.key) : Return(c, a)
    BY <1>8 DEF Release, m
  <2>4. a \in Replies
    BY <1>4, <2>1, <2>3, AnswersTyped
  <2> QED
    BY <1>3, <2>2, <2>3, <2>4, ReturnKeepsInv
<1>9. CASE Delete(c)
  <2>1. m.op = "Delete" /\ m.key \in MsgKeys
    BY <1>2, <1>9, MethodsTyped DEF Delete, Executes, m
  <2>2. IsTable(messages', MsgKeys, Entries) /\ UNCHANGED <<reservations, now>>
    BY <1>3, <1>9, DropIsTable DEF Delete
  <2>3. PICK a \in Answers("Delete", m.key) : Return(c, a)
    BY <1>9 DEF Delete, m
  <2>4. a \in Replies
    BY <1>4, <2>1, <2>3, AnswersTyped
  <2> QED
    BY <1>3, <2>2, <2>3, <2>4, ReturnKeepsInv
<1>10. CASE ExecFails(c)
  <2>1. m.op \in Ops /\ m.key \in MsgKeys \cup ResKeys
    BY <1>2, MethodsTyped DEF Ops
  <2>2. Reply(m.op, m.key, "failed", {}) \in Replies
    BY <2>1, RepliesTyped
  <2>3. Return(c, Reply(m.op, m.key, "failed", {})) /\ UNCHANGED <<messages, reservations, now>>
    BY <1>10 DEF ExecFails, m
  <2> QED
    BY <1>3, <2>2, <2>3, ReturnKeepsInv
<1> QED
  BY <1>5, <1>6, <1>7, <1>8, <1>9, <1>10

(* A call that moves on inside its method keeps the invariant. *)
LEMMA MoveKeepsInv ==
    ASSUME Inv, NEW c \in Clients, At(c, "purgeMessages") \/ At(c, "purgeReservations"),
           NEW pc \in {"purgeReservations", "stamp", "exec"}, Goto(c, pc),
           pc = "exec" => call[c].method.op = "Claim", UNCHANGED <<now, reply>>,
           IsTable(messages', MsgKeys, Entries),
           IsTable(reservations', ResKeys, Reservations)
    PROVE  Inv'
<1> DEFINE l == [call[c] EXCEPT !.pc = pc]
<1>1. call[c] \in CallStates /\ call[c].expiresAt <= now + TTL(call[c].method.op)
  BY CallTyped DEF At
<1>2. l \in CallStates /\ l.pc = pc /\ l.method = call[c].method /\ l.expiresAt = call[c].expiresAt
  BY <1>1 DEF CallStates
<1>3. call' = [call EXCEPT ![c] = l]
  BY DEF Goto, Inv, CallsTyped
<1>4. reply' \in Replies
  BY DEF Inv, TypeOK
<1> HIDE DEF l
<1>5. CallSound(l, now)
  BY <1>1, <1>2 DEF CallSound
<1> QED
  BY <1>3, <1>4, <1>5, CallFrame

LEMMA StepKeepsInv ==
    ASSUME Inv, [Next]_vars
    PROVE  Inv'
<1>1. IsTable(messages, MsgKeys, Entries) /\ IsTable(reservations, ResKeys, Reservations)
      /\ reply \in Replies /\ now \in Nat
  BY DEF Inv, TypeOK
<1>2. ASSUME NEW c \in Clients, NEW m \in Methods, Begin(c, m)
      PROVE  Inv'
  <2> DEFINE l == [pc |-> IF m.op \in {"Release", "Delete"} THEN "exec" ELSE "purgeMessages",
                   method |-> m, expiresAt |-> 0]
  <2>1. l \in CallStates /\ l.expiresAt = 0 /\ l.method = m
        /\ (l.pc = "exec" => m.op \in {"Release", "Delete"})
    BY DEF CallStates
  <2>2. call' = [call EXCEPT ![c] = l] /\ UNCHANGED <<messages, reservations, now, reply>>
    BY <1>2 DEF Begin
  <2> HIDE DEF l
  <2>3. CallSound(l, now)
    BY <1>1, <2>1, TTLAssumption DEF CallSound, TTL
  <2> QED
    BY <1>1, <2>2, <2>3, CallFrame
<1>3. ASSUME NEW c \in Clients, PurgeMessages(c)
      PROVE  Inv'
  <2>1. IsTable(messages', MsgKeys, Entries)
    BY <1>1, <1>3, RestrictIsTable DEF PurgeMessages
  <2>2. Goto(c, "purgeReservations") /\ At(c, "purgeMessages")
        /\ UNCHANGED <<reservations, now, reply>>
    BY <1>3 DEF PurgeMessages
  <2> QED
    BY <1>1, <2>1, <2>2, MoveKeepsInv
<1>4. ASSUME NEW c \in Clients, PurgeReservations(c)
      PROVE  Inv'
  <2>1. IsTable(reservations', ResKeys, Reservations)
    BY <1>1, <1>4, RestrictIsTable DEF PurgeReservations
  <2>2. Goto(c, AfterPurge(c)) /\ At(c, "purgeReservations") /\ UNCHANGED <<messages, now, reply>>
    BY <1>4 DEF PurgeReservations
  <2>3. AfterPurge(c) \in {"purgeReservations", "stamp", "exec"}
        /\ (AfterPurge(c) = "exec" => call[c].method.op = "Claim")
    BY DEF AfterPurge
  <2> QED
    BY <1>1, <2>1, <2>2, <2>3, MoveKeepsInv
<1>5. ASSUME NEW c \in Clients, PurgeFails(c)
      PROVE  Inv'
  <2>1. Goto(c, AfterPurge(c)) /\ (At(c, "purgeMessages") \/ At(c, "purgeReservations"))
        /\ UNCHANGED <<messages, reservations, now, reply>>
    BY <1>5 DEF PurgeFails
  <2>2. AfterPurge(c) \in {"purgeReservations", "stamp", "exec"}
        /\ (AfterPurge(c) = "exec" => call[c].method.op = "Claim")
    BY DEF AfterPurge
  <2> QED
    BY <1>1, <2>1, <2>2, MoveKeepsInv
<1>6. ASSUME NEW c \in Clients, Stamp(c)
      PROVE  Inv'
  <2> DEFINE at == now + TTL(call[c].method.op)
             l == [call[c] EXCEPT !.pc = "exec", !.expiresAt = at]
  <2>1. call[c] \in CallStates
    BY <1>6, CallTyped DEF Stamp, At
  <2>2. at \in Nat /\ at > now
    BY <1>1, TTLAssumption DEF TTL
  <2>3. l \in CallStates /\ l.method = call[c].method /\ l.expiresAt = at
    BY <2>1, <2>2 DEF CallStates
  <2>4. call' = [call EXCEPT ![c] = l] /\ UNCHANGED <<messages, reservations, now, reply>>
    BY <1>6 DEF Stamp, Inv, CallsTyped, TTL
  <2> HIDE DEF l
  <2>5. CallSound(l, now)
    BY <2>2, <2>3 DEF CallSound
  <2> QED
    BY <1>1, <2>4, <2>5, CallFrame
<1>7. ASSUME NEW c \in Clients,
             Deposit(c) \/ Claim(c) \/ Reserve(c) \/ Release(c) \/ Delete(c) \/ ExecFails(c)
      PROVE  Inv'
  BY <1>7, ExecKeepsInv
<1>8. CASE Tick
  <2>1. now' = now + 1 /\ UNCHANGED <<messages, reservations, call, reply>> /\ DepositsOutpaceTTL
    BY <1>8 DEF Tick
  <2>2. StampsLive'
    BY <1>1, <2>1 DEF DepositsOutpaceTTL, StampsLive, Executes, At
  <2>3. ASSUME NEW d \in Clients, call[d] # Idle
        PROVE  /\ call[d].pc \in {"purgeMessages", "purgeReservations", "stamp", "exec"}
               /\ call[d].method \in Methods
               /\ call[d].expiresAt \in 0 .. now + 1 + TTL(call[d].method.op)
    BY <1>1, <2>3, TTLAssumption DEF Inv, TypeOK, TTL
  <2>4. TypeOK'
    BY <1>1, <2>1, <2>3 DEF TypeOK, TTL
  <2> QED
    BY <2>1, <2>2, <2>4 DEF Inv, CallsTyped
<1>9. CASE UNCHANGED vars
  BY <1>9 DEF vars, Inv, TypeOK, CallsTyped, StampsLive, Executes, At
<1> QED
  BY <1>2, <1>3, <1>4, <1>5, <1>6, <1>7, <1>8, <1>9 DEF Next, ClientStep

LEMMA InitInv ==
    ASSUME Init
    PROVE  Inv
<1>1. TypeOK
  <2>1. PICK k \in MsgKeys : reply = Reply("none", k, "ok", {})
    BY DEF Init, NoReply
  <2>2. reply \in Replies
    BY <2>1, RepliesTyped DEF Ops
  <2> QED
    BY <2>2 DEF Init, TypeOK, IsTable, EmptyTable
<1> QED
  BY <1>1 DEF Init, Inv, CallsTyped, StampsLive, Executes, At, Idle

(* The statements that end a method are the contract's operations. *)
LEMMA ExecSimulation ==
    ASSUME Inv, NEW c \in Clients,
           Deposit(c) \/ Claim(c) \/ Reserve(c) \/ Release(c) \/ Delete(c) \/ ExecFails(c)
    PROVE  Contract!Next
<1> DEFINE m == call[c].method
<1>1. At(c, "exec")
  BY DEF Deposit, Claim, Reserve, Release, Delete, ExecFails, Executes
<1>2. m \in Methods /\ call[c].expiresAt \in Nat
  BY <1>1, CallTyped DEF At
<1>3. IsTable(messages, MsgKeys, Entries) /\ IsTable(reservations, ResKeys, Reservations)
      /\ now \in Nat
  BY DEF Inv, TypeOK
<1>4. \A op, k : Answers(op, k) \subseteq Contract!Answers(op, k)
  BY DEF Answers, Contract!Answers, Reply, Contract!Reply
<1>5. \A op, k, err, msg : Contract!Reply(op, k, err, msg) = Reply(op, k, err, msg)
  BY DEF Reply, Contract!Reply
<1> HIDE DEF m
<1>6. CASE Deposit(c)
  <2>1. m.op = "Deposit" /\ m.key \in MsgKeys /\ m.arg \in Payloads
    BY <1>2, <1>6, MethodsTyped DEF Deposit, Executes, m
  <2>2. call[c].expiresAt > now
    BY <1>6 DEF Deposit, Inv, StampsLive
  <2>3. messages' = Put(messages, m.key, [payload |-> m.arg, expiresAt |-> call[c].expiresAt])
        /\ UNCHANGED <<reservations, now>>
    BY <1>6 DEF Deposit, m
  <2>4. LiveMessages' = Put(LiveMessages, m.key, m.arg)
    BY <2>2, <2>3 DEF LiveMessages, Put
  <2>5. RowReservations' = RowReservations
    BY <2>3 DEF RowReservations
  <2>6. reply' \in Contract!Answers("Deposit", m.key)
    BY <1>4, <1>6 DEF Deposit, Return, m
  <2>7. Contract!Deposit(m.key, m.arg)
    BY <2>4, <2>5, <2>6 DEF Contract!Deposit, Put, Contract!Put
  <2> QED
    BY <2>1, <2>7 DEF Contract!Next
<1>7. CASE Claim(c)
  <2>1. m.op = "Claim" /\ m.key \in MsgKeys
    BY <1>2, <1>7, MethodsTyped DEF Claim, Executes, m
  <2>2. UNCHANGED <<LiveMessages, RowReservations>>
    BY <1>7 DEF Claim, LiveMessages, RowReservations
  <2>3. (m.key \in DOMAIN messages /\ messages[m.key].expiresAt > now) <=> m.key \in DOMAIN LiveMessages
    BY DEF LiveMessages
  <2>4. m.key \in DOMAIN LiveMessages => LiveMessages[m.key] = messages[m.key].payload
    BY DEF LiveMessages
  <2>5. reply' = Reply("Claim", m.key, "ok",
                       IF m.key \in DOMAIN LiveMessages THEN {LiveMessages[m.key]} ELSE {})
    BY <1>7, <2>3, <2>4 DEF Claim, Return, m
  <2>6. Contract!Claim(m.key)
    BY <1>5, <2>2, <2>5 DEF Contract!Claim
  <2> QED
    BY <2>1, <2>6 DEF Contract!Next
<1>8. CASE Reserve(c)
  <2>1. m.op = "Reserve" /\ m.key \in ResKeys /\ m.arg \in Runs
    BY <1>2, <1>8, MethodsTyped DEF Reserve, Executes, m
  <2>2. LiveMessages' = LiveMessages /\ DOMAIN RowReservations = DOMAIN reservations
    BY <1>8 DEF Reserve, LiveMessages, RowReservations
  <2>3. CASE m.key \in DOMAIN reservations
    <3>1. reply' = Reply("Reserve", m.key, "conflict", {}) /\ UNCHANGED reservations
      BY <1>8, <2>3 DEF Reserve, Return, m
    <3>2. RowReservations' = RowReservations
      BY <3>1 DEF RowReservations
    <3> QED
      BY <1>5, <2>1, <2>2, <2>3, <3>1, <3>2 DEF Contract!Reserve, Contract!Next
  <2>4. CASE m.key \notin DOMAIN reservations
    <3>1. reservations' = Put(reservations, m.key, [runID |-> m.arg, expiresAt |-> call[c].expiresAt])
      BY <1>8, <2>4 DEF Reserve, m
    <3>2. RowReservations' = Put(RowReservations, m.key, m.arg)
      BY <3>1 DEF RowReservations, Put
    <3>3. reply' \in Contract!Answers("Reserve", m.key)
      BY <1>4, <1>8, <2>4 DEF Reserve, Return, m
    <3>4. Contract!Reserve(m.key, m.arg)
      BY <2>2, <2>4, <3>2, <3>3 DEF Contract!Reserve, Put, Contract!Put
    <3> QED
      BY <2>1, <3>4 DEF Contract!Next
  <2> QED
    BY <2>3, <2>4
<1>9. CASE Release(c)
  <2>1. m.op = "Release" /\ m.key \in ResKeys
    BY <1>2, <1>9, MethodsTyped DEF Release, Executes, m
  <2>2. LiveMessages' = LiveMessages /\ reservations' = Drop(reservations, m.key)
    BY <1>9 DEF Release, LiveMessages, m
  <2>3. RowReservations' = Drop(RowReservations, m.key)
    BY <2>2 DEF RowReservations, Drop, Restrict
  <2>4. reply' \in Contract!Answers("Release", m.key)
    BY <1>4, <1>9 DEF Release, Return, m
  <2>5. Contract!Release(m.key)
    BY <2>2, <2>3, <2>4 DEF Contract!Release, Drop, Contract!Drop, Restrict, Contract!Restrict
  <2> QED
    BY <2>1, <2>5 DEF Contract!Next
<1>10. CASE Delete(c)
  <2>1. m.op = "Delete" /\ m.key \in MsgKeys
    BY <1>2, <1>10, MethodsTyped DEF Delete, Executes, m
  <2>2. RowReservations' = RowReservations /\ messages' = Drop(messages, m.key) /\ now' = now
    BY <1>10 DEF Delete, RowReservations, m
  <2>3. LiveMessages' = Drop(LiveMessages, m.key)
    BY <2>2 DEF LiveMessages, Drop, Restrict
  <2>4. reply' \in Contract!Answers("Delete", m.key)
    BY <1>4, <1>10 DEF Delete, Return, m
  <2>5. Contract!Delete(m.key)
    BY <2>2, <2>3, <2>4 DEF Contract!Delete, Drop, Contract!Drop, Restrict, Contract!Restrict
  <2> QED
    BY <2>1, <2>5 DEF Contract!Next
<1>11. CASE ExecFails(c)
  <2>1. reply' = Reply(m.op, m.key, "failed", {}) /\ UNCHANGED <<messages, reservations, now>>
    BY <1>11 DEF ExecFails, Return, m
  <2>2. UNCHANGED <<LiveMessages, RowReservations>>
    BY <2>1 DEF LiveMessages, RowReservations
  <2>3. Contract!Fail(m.op, m.key)
    BY <1>5, <2>1, <2>2 DEF Contract!Fail
  <2> QED
    BY <1>2, <2>3, MethodsTyped DEF Contract!Next
<1> QED
  BY <1>6, <1>7, <1>8, <1>9, <1>10, <1>11

(* A statement seen through the mapping: the last one of a method is the   *)
(* contract's operation, a purge of reservations and a tick are expiries,  *)
(* and nobody can see the rest.                                            *)
LEMMA StepSimulation == Inv /\ [Next]_vars => [Contract!Next]_(Contract!cvars)
<1> SUFFICES ASSUME Inv, [Next]_vars PROVE [Contract!Next]_(Contract!cvars)
  OBVIOUS
<1>1. IsTable(messages, MsgKeys, Entries) /\ IsTable(reservations, ResKeys, Reservations)
      /\ now \in Nat
  BY DEF Inv, TypeOK
<1>2. ASSUME UNCHANGED <<messages, reservations, now, reply>>
      PROVE  UNCHANGED Contract!cvars
  BY <1>2 DEF Contract!cvars, LiveMessages, RowReservations
<1>3. ASSUME NEW c \in Clients, NEW m \in Methods, Begin(c, m)
      PROVE  UNCHANGED Contract!cvars
  BY <1>2, <1>3 DEF Begin
<1>4. ASSUME NEW c \in Clients, PurgeFails(c) \/ Stamp(c)
      PROVE  UNCHANGED Contract!cvars
  BY <1>2, <1>4 DEF PurgeFails, Stamp
<1>5. ASSUME NEW c \in Clients, PurgeMessages(c)
      PROVE  UNCHANGED Contract!cvars
  <2>1. LiveMessages' = LiveMessages
    BY <1>5 DEF PurgeMessages, LiveMessages, Restrict
  <2>2. UNCHANGED <<RowReservations, reply>>
    BY <1>5 DEF PurgeMessages, RowReservations
  <2> QED
    BY <2>1, <2>2 DEF Contract!cvars
<1>6. ASSUME NEW c \in Clients, PurgeReservations(c)
      PROVE  Contract!Expire
  <2> DEFINE kept == {k \in DOMAIN reservations : reservations[k].expiresAt > now}
  <2>1. RowReservations' = Restrict(RowReservations, kept) /\ kept \in SUBSET DOMAIN RowReservations
    BY <1>6 DEF PurgeReservations, RowReservations, Restrict
  <2>2. LiveMessages' = Restrict(LiveMessages, DOMAIN LiveMessages) /\ reply' = reply
    BY <1>6 DEF PurgeReservations, LiveMessages, Restrict
  <2> HIDE DEF kept
  <2> QED
    BY <2>1, <2>2 DEF Contract!Expire, Restrict, Contract!Restrict
<1>7. CASE Tick
  <2>1. now' = now + 1 /\ UNCHANGED <<messages, reservations, reply>>
    BY <1>7 DEF Tick
  <2>2. \A k \in DOMAIN messages : messages[k].expiresAt \in Nat
    BY <1>1 DEF IsTable, Entries
  <2>3. LiveMessages' = Restrict(LiveMessages, DOMAIN LiveMessages')
        /\ DOMAIN LiveMessages' \in SUBSET DOMAIN LiveMessages
    BY <1>1, <2>1, <2>2 DEF LiveMessages, Restrict
  <2>4. RowReservations' = Restrict(RowReservations, DOMAIN RowReservations)
    BY <2>1 DEF RowReservations, Restrict
  <2> QED
    BY <2>1, <2>3, <2>4 DEF Contract!Expire, Restrict, Contract!Restrict, Contract!Next
<1>8. CASE UNCHANGED vars
  BY <1>2, <1>8 DEF vars
<1>9. ASSUME NEW c \in Clients,
             Deposit(c) \/ Claim(c) \/ Reserve(c) \/ Release(c) \/ Delete(c) \/ ExecFails(c)
      PROVE  Contract!Next
  BY <1>9, ExecSimulation
<1> QED
  BY <1>3, <1>4, <1>5, <1>6, <1>7, <1>8, <1>9 DEF Next, ClientStep, Contract!Next

(* The invariant of the calls: each is in one of its statements, with a    *)
(* stamp of the clock, and no deposit inserts what has already expired.    *)
THEOREM PostgresInvariant == Spec => []Inv
<1>1. Init => Inv
  BY InitInv
<1>2. Inv /\ [Next]_vars => Inv'
  BY StepKeepsInv
<1> QED
  BY <1>1, <1>2, PTL DEF Spec

(* Rows, replies and the calls in progress have their types, whatever      *)
(* statements of however many clients interleave.                          *)
THEOREM PostgresTypeCorrect == Spec => []TypeOK
<1>1. Inv => TypeOK
  BY DEF Inv
<1> QED
  BY <1>1, PostgresInvariant, PTL

(* The Postgres store implements the contract of ports.Store: the purges   *)
(* and stamps between the statements of concurrent calls are invisible.    *)
THEOREM PostgresRefinement == Spec => ImplementsContract
<1>1. Init => Contract!Init
  BY DEF Init, Contract!Init, LiveMessages, RowReservations, EmptyTable,
         Contract!EmptyTable, NoReply, Contract!NoReply, Reply, Contract!Reply
<1> QED
  BY <1>1, PostgresInvariant, StepSimulation, PTL DEF Spec, ImplementsContract, Contract!Spec
============================================================================
