------------------------- MODULE MemoryStoreProofs -------------------------
(* The in-memory store implements ports.Store, for every set of keys, runs *)
(* and payloads and every pair of TTLs.                                    *)
EXTENDS MemoryStore, TLAPS

(* Writing and dropping an entry of a table, as the stores do it. *)
LEMMA PutIsTable ==
    ASSUME NEW K, NEW V, NEW f, IsTable(f, K, V), NEW k \in K, NEW v \in V
    PROVE  IsTable(Put(f, k, v), K, V)
  BY DEF IsTable, Put

LEMMA DropIsTable ==
    ASSUME NEW K, NEW V, NEW f, IsTable(f, K, V), NEW k
    PROVE  IsTable(Drop(f, k), K, V)
  BY DEF IsTable, Drop, Restrict

(* The type invariant: Deposit and Reserve stamp entries from the clock,   *)
(* so no entry is dated beyond its TTL from now.                           *)
THEOREM TypeCorrect == Spec => []TypeOK
<1>1. Init => TypeOK
  BY DEF Init, TypeOK, IsTable, EmptyTable, NoReply, Reply
<1>2. TypeOK /\ [Next]_vars => TypeOK'
  <2> SUFFICES ASSUME TypeOK, [Next]_vars PROVE TypeOK'
    OBVIOUS
  <2> USE TTLAssumption
  <2>1. ASSUME NEW k \in MsgKeys, NEW p \in Payloads, Deposit(k, p) PROVE TypeOK'
    <3>1. [payload |-> p, expiresAt |-> now + MsgTTL] \in Entries
      BY DEF Entries, TypeOK
    <3>2. IsTable(messages', MsgKeys, Entries)
      BY <2>1, <3>1, PutIsTable DEF Deposit, TypeOK
    <3>3. \A j \in DOMAIN messages' : messages'[j].expiresAt <= now' + MsgTTL
      BY <2>1 DEF Deposit, TypeOK, IsTable, Entries, Put
    <3> QED
      BY <2>1, <3>2, <3>3 DEF Deposit, TypeOK, Reply
  <2>2. ASSUME NEW k \in MsgKeys, Claim(k) PROVE TypeOK'
    BY <2>2 DEF Claim, TypeOK, Reply, IsTable, Entries
  <2>3. ASSUME NEW k \in ResKeys, NEW r \in Runs, Reserve(k, r) PROVE TypeOK'
    <3>1. [runID |-> r, expiresAt |-> now + ReservationTTL] \in Reservations
      BY DEF Reservations, TypeOK
    <3>2. IsTable(reservations', ResKeys, Reservations)
      BY <2>3, <3>1, PutIsTable DEF Reserve, TypeOK
    <3>3. \A j \in DOMAIN reservations' :
              reservations'[j].expiresAt <= now' + ReservationTTL
      BY <2>3 DEF Reserve, TypeOK, IsTable, Reservations, Put
    <3>4. UNCHANGED <<messages, now>> /\ reply'.msg = {}
      BY <2>3 DEF Reserve, Reply
    <3> QED
      BY <3>2, <3>3, <3>4 DEF TypeOK
  <2>4. ASSUME NEW k \in ResKeys, Release(k) PROVE TypeOK'
    <3>1. IsTable(reservations', ResKeys, Reservations)
      BY <2>4, DropIsTable DEF Release, TypeOK
    <3> QED
      BY <2>4, <3>1 DEF Release, TypeOK, Reply, Drop, Restrict
  <2>5. ASSUME NEW k \in MsgKeys, Delete(k) PROVE TypeOK'
    <3>1. IsTable(messages', MsgKeys, Entries)
      BY <2>5, DropIsTable DEF Delete, TypeOK
    <3> QED
      BY <2>5, <3>1 DEF Delete, TypeOK, Reply, Drop, Restrict
  <2>6. CASE Tick
    BY <2>6 DEF Tick, TypeOK, IsTable, Entries, Reservations
  <2>7. CASE UNCHANGED vars
    BY <2>7 DEF vars, TypeOK
  <2> QED
    BY <2>1, <2>2, <2>3, <2>4, <2>5, <2>6, <2>7 DEF Next
<1> QED
  BY <1>1, <1>2, PTL DEF Spec

(* A step of the store is, seen through the mapping, a step of the         *)
(* contract: the same operation, or the expiry of what a tick outdates.    *)
LEMMA StepSimulation == TypeOK /\ [Next]_vars => [Contract!Next]_(Contract!cvars)
<1> SUFFICES ASSUME TypeOK, [Next]_vars PROVE [Contract!Next]_(Contract!cvars)
  OBVIOUS
<1> USE TTLAssumption
<1>1. ASSUME NEW k \in MsgKeys, NEW p \in Payloads, Deposit(k, p)
      PROVE  Contract!Deposit(k, p)
  <2>1. LiveMessages' = Put(LiveMessages, k, p)
    BY <1>1 DEF Deposit, LiveMessages, Put, TypeOK
  <2>2. LiveReservations' = LiveReservations
    BY <1>1 DEF Deposit, LiveReservations
  <2> QED
    BY <1>1, <2>1, <2>2 DEF Deposit, Contract!Deposit, Contract!Answers,
           Put, Contract!Put, Reply, Contract!Reply
<1>2. ASSUME NEW k \in MsgKeys, Claim(k) PROVE Contract!Claim(k)
  <2>1. UNCHANGED <<LiveMessages, LiveReservations>>
    BY <1>2 DEF Claim, LiveMessages, LiveReservations
  <2>2. (k \in DOMAIN messages /\ ~(messages[k].expiresAt < now))
            <=> k \in DOMAIN LiveMessages
    BY DEF LiveMessages, TypeOK, IsTable, Entries
  <2>3. k \in DOMAIN LiveMessages => LiveMessages[k] = messages[k].payload
    BY DEF LiveMessages
  <2> QED
    BY <1>2, <2>1, <2>2, <2>3 DEF Claim, Contract!Claim, Reply, Contract!Reply
<1>3. ASSUME NEW k \in ResKeys, NEW r \in Runs, Reserve(k, r)
      PROVE  Contract!Reserve(k, r)
  <2>1. LiveMessages' = LiveMessages
    BY <1>3 DEF Reserve, LiveMessages
  <2>2. (k \in DOMAIN reservations /\ reservations[k].expiresAt > now)
            <=> k \in DOMAIN LiveReservations
    BY DEF LiveReservations, TypeOK, IsTable, Reservations
  <2>3. CASE k \in DOMAIN LiveReservations
    BY <1>3, <2>1, <2>2, <2>3 DEF Reserve, Contract!Reserve, LiveReservations,
           Reply, Contract!Reply
  <2>4. CASE k \notin DOMAIN LiveReservations
    <3>1. LiveReservations' = Put(LiveReservations, k, r)
      BY <1>3, <2>2, <2>4 DEF Reserve, LiveReservations, Put, TypeOK
    <3> QED
      BY <1>3, <2>1, <2>2, <2>4, <3>1 DEF Reserve, Contract!Reserve,
           Contract!Answers, Put, Contract!Put, Reply, Contract!Reply
  <2> QED
    BY <2>3, <2>4
<1>4. ASSUME NEW k \in ResKeys, Release(k) PROVE Contract!Release(k)
  <2>1. LiveReservations' = Drop(LiveReservations, k)
    BY <1>4 DEF Release, LiveReservations, Drop, Restrict
  <2> QED
    BY <1>4, <2>1 DEF Release, Contract!Release, Contract!Answers, LiveMessages,
           Drop, Contract!Drop, Restrict, Contract!Restrict, Reply, Contract!Reply
<1>5. ASSUME NEW k \in MsgKeys, Delete(k) PROVE Contract!Delete(k)
  <2>1. LiveMessages' = Drop(LiveMessages, k)
    BY <1>5 DEF Delete, LiveMessages, Drop, Restrict
  <2> QED
    BY <1>5, <2>1 DEF Delete, Contract!Delete, Contract!Answers, LiveReservations,
           Drop, Contract!Drop, Restrict, Contract!Restrict, Reply, Contract!Reply
<1>6. CASE Tick
  <2>1. LiveMessages' = Restrict(LiveMessages, DOMAIN LiveMessages')
    BY <1>6 DEF Tick, LiveMessages, Restrict, TypeOK, IsTable, Entries
  <2>2. DOMAIN LiveMessages' \in SUBSET DOMAIN LiveMessages
    BY <1>6 DEF Tick, LiveMessages, TypeOK, IsTable, Entries
  <2>3. LiveReservations' = Restrict(LiveReservations, DOMAIN LiveReservations')
    BY <1>6 DEF Tick, LiveReservations, Restrict, TypeOK, IsTable, Reservations
  <2>4. DOMAIN LiveReservations' \in SUBSET DOMAIN LiveReservations
    BY <1>6 DEF Tick, LiveReservations, TypeOK, IsTable, Reservations
  <2>5. Contract!Expire
    BY <1>6, <2>1, <2>2, <2>3, <2>4 DEF Tick, Contract!Expire, Restrict, Contract!Restrict
  <2> QED
    BY <2>5 DEF Contract!Next
<1>7. CASE UNCHANGED vars
  BY <1>7 DEF vars, Contract!cvars, LiveMessages, LiveReservations
<1> QED
  BY <1>1, <1>2, <1>3, <1>4, <1>5, <1>6, <1>7 DEF Next, Contract!Next

(* The in-memory store implements the contract of ports.Store. *)
THEOREM Refinement == Spec => ImplementsContract
<1>1. Init => Contract!Init
  BY DEF Init, Contract!Init, LiveMessages, LiveReservations, EmptyTable,
         Contract!EmptyTable, NoReply, Contract!NoReply, Reply, Contract!Reply
<1>2. Spec => []TypeOK
  BY TypeCorrect
<1> QED
  BY <1>1, <1>2, StepSimulation, PTL DEF Spec, ImplementsContract, Contract!Spec

(* The contract gives a reservation a new owner only after the key has     *)
(* been free; the in-memory store inherits it, expiry included.            *)
THEOREM MemoryNoHandover == Spec => NoHandover
<1> DEFINE Kept == \A k \in DOMAIN LiveReservations \cap DOMAIN LiveReservations' :
                       LiveReservations'[k] = LiveReservations[k]
<1>1. [Contract!Next]_(Contract!cvars) => [Kept]_(Contract!cvars)
  <2> SUFFICES ASSUME Contract!Next PROVE Kept
    OBVIOUS
  <2>1. ASSUME NEW k \in ResKeys, NEW r \in Runs, Contract!Reserve(k, r) PROVE Kept
    BY <2>1 DEF Contract!Reserve, Contract!Put
  <2>2. ASSUME NEW k \in ResKeys, Contract!Release(k) PROVE Kept
    BY <2>2 DEF Contract!Release, Contract!Drop, Contract!Restrict
  <2>3. CASE Contract!Expire
    BY <2>3 DEF Contract!Expire, Contract!Restrict
  <2>4. ASSUME LiveReservations' = LiveReservations PROVE Kept
    BY <2>4
  <2> QED
    BY <2>1, <2>2, <2>3, <2>4
       DEF Contract!Next, Contract!Deposit, Contract!Claim, Contract!Delete, Contract!Fail
<1>2. Spec => []TypeOK
  BY TypeCorrect
<1> QED
  BY <1>1, <1>2, StepSimulation, PTL DEF Spec, NoHandover, Contract!NoHandover
============================================================================
