-------------------------- MODULE ApiServerProofs --------------------------
(* The cache of results and the handlers that fill it: for every number of *)
(* clients, requests and runs, and every bound on the cache.               *)
EXTENDS ApiServer, SequenceTheorems, FiniteSetTheorems, TLAPS

Statuses == Final \cup {"running"}

HandlerStates ==
    [pc : {"idle", "start", "placeholder", "wait", "store"},
     req : Requests \cup {<< >>}, ids : Seq(Nat), stored : Nat]

(* What a handler knows of its own request at each of its steps, rs being  *)
(* the runs: how far the list of tests has come and which of its runs have *)
(* ended.  The bound on ids keeps the next test inside the list, the bound *)
(* on stored keeps the storing loop inside the results.                    *)
HandlerSound(h, rs) ==
    /\ h.ids \in Seq(DOMAIN rs)
    /\ h.pc # "idle" => h.req \in Requests /\ Len(h.ids) <= Len(h.req.tests)
    /\ h.pc = "start" => Len(h.ids) < Len(h.req.tests)
    /\ h.pc \in {"placeholder", "wait", "store"} => h.ids # << >>
    /\ IF h.pc = "store" THEN h.stored < Len(h.ids) ELSE h.stored = 0
    /\ h.pc \in {"start", "store"} => \A n \in 1 .. Len(h.ids) : rs[h.ids[n]] \in Final
    /\ h.pc = "wait" => \A n \in 1 .. Len(h.ids) - 1 : rs[h.ids[n]] \in Final
    /\ h.pc = "start" /\ h.req.skip => \A n \in 1 .. Len(h.ids) : rs[h.ids[n]] # "failed"
    /\ h.pc = "wait" /\ h.req.skip => \A n \in 1 .. Len(h.ids) - 1 : rs[h.ids[n]] # "failed"

HandlersSound ==
    /\ handler \in [Clients -> HandlerStates]
    /\ \A c \in Clients : HandlerSound(handler[c], runs)

(* A run whose placeholder is still to be stored is known to its handler   *)
(* only: no result of it is cached, no goroutine collects it.              *)
PlaceholderFresh ==
    \A c \in Clients : handler[c].pc = "placeholder" =>
        /\ LastID(c) \notin DOMAIN results \cup collectors
        /\ \A d \in Clients \ {c} : \A n \in 1 .. Len(handler[d].ids) :
              handler[d].ids[n] # LastID(c)

(* A final result in the cache is the one the run ended with. *)
CachedIsResult ==
    \A id \in DOMAIN results : results[id] \in Final => results[id] = runs[id]

(* The order lists the keys of the map, each once, within the bound. *)
OrderListsResults ==
    /\ \A m, n \in 1 .. Len(resultOrder) : resultOrder[m] = resultOrder[n] => m = n
    /\ DOMAIN results = {resultOrder[n] : n \in 1 .. Len(resultOrder)}
    /\ Len(resultOrder) <= MaxStoredResults

DataTyped ==
    /\ runs \in Seq(Statuses)
    /\ IsTable(results, DOMAIN runs, Statuses)
    /\ resultOrder \in Seq(DOMAIN runs)
    /\ collectors \subseteq accepted
    /\ accepted \subseteq DOMAIN runs
    /\ requests \in 0 .. MaxRequests

Inv == DataTyped /\ HandlersSound /\ PlaceholderFresh /\ CachedIsResult /\ OrderListsResults

----------------------------------------------------------------------------
(* What storeResult does: the run's entry is the new one, every other      *)
(* entry is as it was or evicted, and the order still lists the map.       *)
LEMMA StoreResultSound ==
    ASSUME IsTable(results, DOMAIN runs, Statuses), resultOrder \in Seq(DOMAIN runs),
           OrderListsResults, NEW id \in DOMAIN runs, NEW st \in Statuses, StoreResult(id, st)
    PROVE  /\ IsTable(results', DOMAIN runs, Statuses)
           /\ resultOrder' \in Seq(DOMAIN runs)
           /\ OrderListsResults'
           /\ \A j \in DOMAIN results' :
                 IF j = id THEN results'[j] = st ELSE j \in DOMAIN results /\ results'[j] = results[j]
<1> DEFINE all == Put(results, id, st)
           order == OrderWith(id)
           Keys(o) == {o[n] : n \in 1 .. Len(o)}
           Distinct(o) == \A m, n \in 1 .. Len(o) : o[m] = o[n] => m = n
<1>1. /\ IsTable(all, DOMAIN runs, Statuses)
      /\ DOMAIN all = DOMAIN results \cup {id}
      /\ \A j \in DOMAIN all : all[j] = IF j = id THEN st ELSE results[j]
  BY DEF IsTable, Put
<1>2. order \in Seq(DOMAIN runs) /\ Distinct(order) /\ DOMAIN all = Keys(order)
      /\ Len(order) <= MaxStoredResults + 1
  <2>1. CASE id \in DOMAIN results
    BY <1>1, <2>1, ApiAssumption DEF OrderWith, OrderListsResults
  <2>2. CASE id \notin DOMAIN results
    <3>1. order = Append(resultOrder, id)
      BY <2>2 DEF OrderWith
    <3>2. /\ order \in Seq(DOMAIN runs) /\ Len(order) = Len(resultOrder) + 1
          /\ \A n \in 1 .. Len(resultOrder) : order[n] = resultOrder[n]
          /\ order[Len(resultOrder) + 1] = id
          /\ Len(resultOrder) \in Nat
      BY <3>1, AppendProperties, LenProperties
    <3>3. \A n \in 1 .. Len(order) : n \in 1 .. Len(resultOrder) \/ n = Len(resultOrder) + 1
      BY <3>2
    <3>4. \A n \in 1 .. Len(resultOrder) : resultOrder[n] # id
      BY <2>2 DEF OrderListsResults
    <3>5. Distinct(order)
      BY <3>2, <3>3, <3>4 DEF OrderListsResults
    <3>6. Keys(order) = Keys(resultOrder) \cup {id}
      BY <3>2, <3>3
    <3>7. Keys(order) = DOMAIN all
      BY <3>6, <1>1 DEF OrderListsResults
    <3> QED
      BY <3>2, <3>5, <3>7, ApiAssumption DEF OrderListsResults
  <2> QED
    BY <2>1, <2>2
<1>3. CASE Len(order) > MaxStoredResults
  <2>1. results' = Drop(all, Head(order)) /\ resultOrder' = Tail(order)
    BY <1>3 DEF StoreResult
  <2>2. order # << >> /\ Len(order) \in Nat /\ Len(order) = MaxStoredResults + 1
    BY <1>2, <1>3, ApiAssumption, EmptySeq, LenProperties
  <2>3. /\ Head(order) = order[1] /\ Tail(order) \in Seq(DOMAIN runs)
        /\ Len(Tail(order)) = Len(order) - 1
        /\ \A i \in 1 .. Len(Tail(order)) : Tail(order)[i] = order[i + 1]
    BY <1>2, <2>2, HeadTailProperties
  <2>4. DOMAIN results' = DOMAIN all \ {order[1]} /\ \A j \in DOMAIN results' : results'[j] = all[j]
    BY <2>1, <2>3 DEF Drop, Restrict
  <2>5. IsTable(results', DOMAIN runs, Statuses)
    BY <1>1, <2>1, <2>4 DEF IsTable, Drop, Restrict
  <2>6. Distinct(Tail(order))
    <3> SUFFICES ASSUME NEW m \in 1 .. Len(Tail(order)), NEW n \in 1 .. Len(Tail(order)),
                        Tail(order)[m] = Tail(order)[n]
                 PROVE  m = n
      OBVIOUS
    <3>1. m + 1 \in 1 .. Len(order) /\ n + 1 \in 1 .. Len(order) /\ order[m + 1] = order[n + 1]
      BY <2>2, <2>3
    <3>2. m + 1 = n + 1
      BY <1>2, <3>1
    <3> QED
      BY <3>2
  <2>7. Keys(Tail(order)) = Keys(order) \ {order[1]}
    <3>1. ASSUME NEW n \in 1 .. Len(Tail(order))
          PROVE  Tail(order)[n] \in Keys(order) \ {order[1]}
      <4>1. n + 1 \in 1 .. Len(order) /\ 1 \in 1 .. Len(order) /\ n + 1 # 1
            /\ Tail(order)[n] = order[n + 1]
        BY <2>2, <2>3
      <4>2. order[n + 1] # order[1]
        BY <1>2, <4>1
      <4> QED
        BY <4>1, <4>2
    <3>2. ASSUME NEW n \in 1 .. Len(order), order[n] # order[1]
          PROVE  order[n] \in Keys(Tail(order))
      <4>1. n # 1
        BY <3>2
      <4>2. n - 1 \in 1 .. Len(Tail(order)) /\ (n - 1) + 1 = n
        BY <4>1, <2>2, <2>3
      <4>3. Tail(order)[n - 1] = order[n]
        BY <4>2, <2>3
      <4> QED
        BY <4>2, <4>3
    <3> QED
      BY <3>1, <3>2
  <2>8. OrderListsResults'
    <3>1. DOMAIN results' = Keys(Tail(order))
      BY <1>2, <2>4, <2>7
    <3>2. Len(Tail(order)) <= MaxStoredResults
      BY <2>2, <2>3, ApiAssumption
    <3>3. DOMAIN results' = Keys(resultOrder') /\ Distinct(resultOrder')
      BY <2>1, <2>6, <3>1, Zenon
    <3>4. Len(resultOrder') <= MaxStoredResults
      BY <2>1, <3>2, Zenon
    <3> QED
      BY <3>3, <3>4, Zenon DEF OrderListsResults
  <2> QED
    BY <1>1, <2>1, <2>3, <2>4, <2>5, <2>8
<1>4. CASE ~(Len(order) > MaxStoredResults)
  <2>1. results' = all /\ resultOrder' = order
    BY <1>4 DEF StoreResult
  <2>2. OrderListsResults'
    BY <1>2, <1>4, <2>1, ApiAssumption, LenProperties DEF OrderListsResults
  <2> QED
    BY <1>1, <1>2, <2>1, <2>2
<1> QED
  BY <1>3, <1>4

----------------------------------------------------------------------------
LEMMA RequestsTyped ==
    ASSUME NEW q \in Requests
    PROVE  q.kind \in {"run", "sequence"} /\ q.tests \in Seq(STRING) /\ q.skip \in BOOLEAN
           /\ Len(q.tests) \in Nat
  BY ApiAssumption, LenProperties

(* What a handler knows stays true when runs are started and running ones  *)
(* end.                                                                    *)
LEMMA RunsGrow ==
    ASSUME NEW h \in HandlerStates, NEW rs \in Seq(Statuses), NEW rt \in Seq(Statuses),
           DOMAIN rs \subseteq DOMAIN rt,
           \A i \in DOMAIN rs : rs[i] \in Final => rt[i] = rs[i],
           HandlerSound(h, rs)
    PROVE  HandlerSound(h, rt)
<1>1. h.ids \in Seq(DOMAIN rt)
  BY SeqMonotonic DEF HandlerSound
<1>2. \A n \in 1 .. Len(h.ids) : h.ids[n] \in DOMAIN rs
  BY ElementOfSeq DEF HandlerSound
<1>3. Len(h.ids) \in Nat
  BY <1>1, LenProperties
<1> QED
  BY <1>1, <1>2, <1>3, SMTT(30) DEF HandlerSound

(* A step of one handler leaves what the others know alone. *)
LEMMA HandlerFrame ==
    ASSUME HandlersSound, NEW c \in Clients, NEW h \in HandlerStates,
           handler' = [handler EXCEPT ![c] = h], UNCHANGED runs, HandlerSound(h, runs)
    PROVE  HandlersSound'
  BY DEF HandlersSound

(* A handler that stores a result of its own, or moves on without starting *)
(* a run, cannot make another handler's placeholder stale.                 *)
LEMMA FreshFrame ==
    ASSUME HandlersSound, PlaceholderFresh, NEW c \in Clients, NEW h \in HandlerStates,
           handler' = [handler EXCEPT ![c] = h],
           h.pc # "placeholder", h.ids = << >> \/ h.ids = handler[c].ids,
           NEW S, \A id \in S : \E n \in 1 .. Len(handler[c].ids) : id = handler[c].ids[n],
           DOMAIN results' \subseteq DOMAIN results \cup S,
           collectors' \subseteq collectors \cup S
    PROVE  PlaceholderFresh'
<1> SUFFICES ASSUME NEW d \in Clients, handler'[d].pc = "placeholder"
             PROVE  /\ LastID(d)' \notin DOMAIN results' \cup collectors'
                    /\ \A e \in Clients \ {d} : \A n \in 1 .. Len(handler'[e].ids) :
                          handler'[e].ids[n] # LastID(d)'
  BY DEF PlaceholderFresh
<1>1. d # c /\ handler'[d] = handler[d] /\ LastID(d)' = LastID(d) /\ handler'[c] = h
      /\ handler[d].pc = "placeholder"
  BY DEF HandlersSound, LastID
<1>2. \A n \in 1 .. Len(handler[c].ids) : handler[c].ids[n] # LastID(d)
  BY <1>1 DEF PlaceholderFresh
<1>3. LastID(d) \notin S
  BY <1>2
<1>4. ASSUME NEW e \in Clients \ {d}, NEW n \in 1 .. Len(handler'[e].ids)
      PROVE  handler'[e].ids[n] # LastID(d)
  <2>1. CASE e = c
    <3>1. CASE h.ids = << >>
      BY <1>1, <1>4, <2>1, <3>1
    <3>2. CASE h.ids = handler[c].ids
      BY <1>1, <1>2, <1>4, <2>1, <3>2
    <3> QED
      BY <3>1, <3>2
  <2>2. CASE e # c
    BY <1>1, <1>4, <2>2 DEF PlaceholderFresh, HandlersSound
  <2> QED
    BY <2>1, <2>2
<1> QED
  BY <1>1, <1>3, <1>4 DEF PlaceholderFresh

(* A final result is not replaced by another one. *)
ResultsStable ==
    \A id \in DOMAIN results \cap DOMAIN results' :
        results[id] \in Final => results'[id] = results[id]

(* Storing what the run ended with, or a placeholder for a run that has    *)
(* nothing in the cache, keeps the cache typed, ordered, right and stable. *)
LEMMA StoreKeepsCache ==
    ASSUME DataTyped, CachedIsResult, OrderListsResults, NEW id \in DOMAIN runs,
           NEW st \in Statuses, StoreResult(id, st), UNCHANGED runs,
           st = runs[id] \/ (st = "running" /\ id \notin DOMAIN results)
    PROVE  /\ IsTable(results, DOMAIN runs, Statuses)'
           /\ (resultOrder \in Seq(DOMAIN runs))'
           /\ OrderListsResults' /\ CachedIsResult' /\ ResultsStable
           /\ DOMAIN results' \subseteq DOMAIN results \cup {id}
<1>1. /\ IsTable(results', DOMAIN runs, Statuses)
      /\ resultOrder' \in Seq(DOMAIN runs)
      /\ OrderListsResults'
      /\ \A j \in DOMAIN results' :
            IF j = id THEN results'[j] = st ELSE j \in DOMAIN results /\ results'[j] = results[j]
  BY StoreResultSound DEF DataTyped
<1>2. CachedIsResult'
  BY <1>1 DEF CachedIsResult, Final
<1>3. ResultsStable
  BY <1>1 DEF ResultsStable, CachedIsResult
<1> QED
  BY <1>1, <1>2, <1>3

(* The idle handler, and the one that has just accepted a request. *)
LEMMA FreshHandlers ==
    /\ Idle \in HandlerStates
    /\ HandlerSound(Idle, runs)
    /\ Idle.pc = "idle" /\ Idle.ids = << >>
<1>1. << >> \in Seq(Nat) /\ << >> \in Seq(DOMAIN runs)
  BY EmptySeq
<1> QED
  BY <1>1 DEF Idle, HandlerStates, HandlerSound

(* The last run of a handler that has one was started. *)
LEMMA LastIDKnown ==
    ASSUME HandlersSound, NEW c \in Clients, handler[c].ids # << >>
    PROVE  /\ Len(handler[c].ids) \in Nat \ {0}
           /\ LastID(c) \in DOMAIN runs
           /\ \E n \in 1 .. Len(handler[c].ids) : LastID(c) = handler[c].ids[n]
<1>1. handler[c].ids \in Seq(DOMAIN runs)
  BY DEF HandlersSound, HandlerSound
<1>2. Len(handler[c].ids) \in Nat \ {0}
  BY <1>1, EmptySeq
<1>3. Len(handler[c].ids) \in 1 .. Len(handler[c].ids)
  BY <1>2
<1> QED
  BY <1>1, <1>2, <1>3, ElementOfSeq DEF LastID

(* The cache of a step that does not touch it. *)
LEMMA CacheFrame ==
    ASSUME Inv, UNCHANGED <<runs, results, resultOrder, collectors, accepted>>,
           requests' \in 0 .. MaxRequests
    PROVE  DataTyped' /\ CachedIsResult' /\ OrderListsResults' /\ ResultsStable
<1>1. DataTyped'
  BY DEF Inv, DataTyped, IsTable
<1>2. CachedIsResult' /\ OrderListsResults' /\ ResultsStable
  BY DEF Inv, CachedIsResult, OrderListsResults, ResultsStable
<1> QED
  BY <1>1, <1>2

LEMMA AcceptKeepsInv ==
    ASSUME Inv, NEW c \in Clients, NEW q \in Requests, Accept(c, q)
    PROVE  Inv' /\ ResultsStable
<1> DEFINE h == [Idle EXCEPT !.pc = "start", !.req = q]
<1>1. h \in HandlerStates /\ h.ids = << >> /\ h.pc = "start" /\ h.req = q /\ h.stored = 0
  BY FreshHandlers DEF HandlerStates, Idle
<1>2. q.tests # << >> => Len(q.tests) > 0
  BY RequestsTyped, EmptySeq
<1>3. HandlerSound(h, runs)
  <2>1. h.ids \in Seq(DOMAIN runs) /\ Len(h.ids) = 0
    BY <1>1, EmptySeq
  <2> HIDE DEF h
  <2> QED
    BY <1>1, <1>2, <2>1, RequestsTyped DEF Accept, HandlerSound
<1>4. HandlersSound'
  BY <1>1, <1>3, HandlerFrame DEF Accept, Inv
<1>5. PlaceholderFresh'
  <2> DEFINE none == {}
  <2>1. /\ \A id \in none : \E n \in 1 .. Len(handler[c].ids) : id = handler[c].ids[n]
        /\ DOMAIN results' \subseteq DOMAIN results \cup none
        /\ collectors' \subseteq collectors \cup none
        /\ handler' = [handler EXCEPT ![c] = h] /\ HandlersSound /\ PlaceholderFresh
    BY DEF Accept, Inv
  <2> HIDE DEF h, none
  <2> QED
    BY <1>1, <2>1, FreshFrame, ZenonT(60)
<1>6. DataTyped' /\ CachedIsResult' /\ OrderListsResults' /\ ResultsStable
  <2>1. requests' \in 0 .. MaxRequests
    BY ApiAssumption DEF Accept, Inv, DataTyped
  <2>2. UNCHANGED <<runs, results, resultOrder, collectors, accepted>>
    BY DEF Accept
  <2> QED
    BY <2>1, <2>2, CacheFrame
<1> QED
  BY <1>4, <1>5, <1>6 DEF Inv

LEMMA StartRunKeepsInv ==
    ASSUME Inv, NEW c \in Clients, StartRun(c)
    PROVE  Inv' /\ ResultsStable
<1> DEFINE h == handler[c]
           id == Len(runs) + 1
           next == handler'[c]
<1>1. /\ runs \in Seq(Statuses) /\ Len(runs) \in Nat /\ DOMAIN runs = 1 .. Len(runs)
      /\ runs' = Append(runs, "running") /\ "running" \in Statuses
  BY LenProperties DEF Inv, DataTyped, StartRun, Statuses
<1>2. /\ runs' \in Seq(Statuses) /\ DOMAIN runs' = 1 .. id
      /\ \A i \in DOMAIN runs : runs'[i] = runs[i]
  BY <1>1, AppendProperties, LenProperties
<1>3. DOMAIN runs \subseteq DOMAIN runs' /\ id \in DOMAIN runs' \ DOMAIN runs
  BY <1>1, <1>2
<1>4. h \in HandlerStates /\ HandlerSound(h, runs) /\ h.pc = "start" /\ Len(h.ids) \in Nat
      /\ h.ids \in Seq(Nat) /\ h.ids \in Seq(DOMAIN runs) /\ h.req \in Requests
  BY LenProperties DEF Inv, HandlersSound, HandlerSound, StartRun, HandlerStates
<1>5. PICK pc \in {"placeholder", "wait"} :
          handler' = [handler EXCEPT ![c] = [h EXCEPT !.ids = Append(h.ids, id), !.pc = pc]]
  <2>1. ASSUME NEW b PROVE (IF b THEN "placeholder" ELSE "wait") \in {"placeholder", "wait"}
    OBVIOUS
  <2>2. \E pc \in {"placeholder", "wait"} :
            handler' = [handler EXCEPT ![c].ids = Append(@, id), ![c].pc = pc]
    BY <2>1, Zenon DEF StartRun
  <2>3. PICK pc \in {"placeholder", "wait"} :
            handler' = [handler EXCEPT ![c].ids = Append(@, id), ![c].pc = pc]
    BY <2>2
  <2>4. handler \in [Clients -> HandlerStates]
    BY DEF Inv, HandlersSound
  <2> QED
    BY <2>3, <2>4, <1>4 DEF HandlerStates
<1>6. /\ Append(h.ids, id) \in Seq(Nat) /\ Append(h.ids, id) \in Seq(DOMAIN runs')
      /\ Append(h.ids, id) # << >> /\ Len(Append(h.ids, id)) = Len(h.ids) + 1
      /\ \A n \in 1 .. Len(h.ids) : Append(h.ids, id)[n] = h.ids[n]
      /\ Append(h.ids, id)[Len(h.ids) + 1] = id
  <2>1. id \in Nat /\ h.ids \in Seq(DOMAIN runs')
    BY <1>1, <1>3, <1>4, SeqMonotonic
  <2> QED
    BY <1>3, <1>4, <2>1, AppendProperties
<1>7. /\ next = [h EXCEPT !.ids = Append(h.ids, id), !.pc = pc] /\ next \in HandlerStates
      /\ next.ids = Append(h.ids, id) /\ next.pc = pc /\ next.req = h.req /\ next.stored = h.stored
      /\ \A d \in Clients \ {c} : handler'[d] = handler[d]
      /\ handler' \in [Clients -> HandlerStates]
  BY <1>4, <1>5, <1>6 DEF Inv, HandlersSound, HandlerStates
<1>8. HandlersSound'
  <2>1. ASSUME NEW d \in Clients \ {c} PROVE HandlerSound(handler'[d], runs')
    <3>1. handler'[d] = handler[d] /\ handler[d] \in HandlerStates /\ HandlerSound(handler[d], runs)
      BY <1>7 DEF Inv, HandlersSound
    <3>2. HandlerSound(handler[d], runs')
      BY <1>1, <1>2, <1>3, <3>1, RunsGrow
    <3> QED
      BY <3>1, <3>2
  <2>2. HandlerSound(h, runs')
    BY <1>1, <1>2, <1>3, <1>4, RunsGrow
  <2>3. HandlerSound(next, runs')
    <3>1. Len(next.ids) - 1 = Len(h.ids) /\ Len(h.req.tests) \in Nat
      BY <1>4, <1>6, <1>7, RequestsTyped
    <3>2. /\ Len(h.ids) < Len(h.req.tests) /\ h.stored = 0
          /\ \A n \in 1 .. Len(h.ids) : runs'[h.ids[n]] \in Final
          /\ h.req.skip => \A n \in 1 .. Len(h.ids) : runs'[h.ids[n]] # "failed"
      BY <1>4, <2>2 DEF HandlerSound
    <3> HIDE DEF next, h
    <3>3. /\ next.ids \in Seq(DOMAIN runs') /\ next.ids # << >> /\ next.pc \in {"placeholder", "wait"}
          /\ next.req \in Requests /\ next.stored = 0
      BY <1>4, <1>6, <1>7, <3>2
    <3>4. Len(next.ids) <= Len(next.req.tests)
      BY <1>4, <1>6, <1>7, <3>1, <3>2
    <3>5. /\ \A n \in 1 .. Len(next.ids) - 1 : runs'[next.ids[n]] \in Final
          /\ next.req.skip => \A n \in 1 .. Len(next.ids) - 1 : runs'[next.ids[n]] # "failed"
      BY <1>6, <1>7, <3>1, <3>2
    <3> QED
      BY <3>3, <3>4, <3>5 DEF HandlerSound
  <2> QED
    BY <1>7, <2>1, <2>3 DEF HandlersSound
<1>9. PlaceholderFresh'
  <2> SUFFICES ASSUME NEW d \in Clients, handler'[d].pc = "placeholder"
               PROVE  /\ LastID(d)' \notin DOMAIN results' \cup collectors'
                      /\ \A e \in Clients \ {d} : \A n \in 1 .. Len(handler'[e].ids) :
                            handler'[e].ids[n] # LastID(d)'
    BY DEF PlaceholderFresh
  <2>1. \A e \in Clients : \A n \in 1 .. Len(handler[e].ids) : handler[e].ids[n] \in DOMAIN runs
    BY ElementOfSeq DEF Inv, HandlersSound, HandlerSound
  <2>2. CASE d = c
    <3>1. LastID(d)' = id
      BY <1>6, <1>7, <2>2 DEF LastID
    <3>2. DOMAIN results' \subseteq DOMAIN runs /\ collectors' \subseteq DOMAIN runs
      BY DEF StartRun, Inv, DataTyped, IsTable
    <3> QED
      BY <1>3, <1>7, <2>1, <2>2, <3>1, <3>2
  <2>3. CASE d # c
    <3>1. handler[d].pc = "placeholder" /\ LastID(d)' = LastID(d)
      BY <1>7, <2>3 DEF LastID
    <3>2. LastID(d) \in DOMAIN runs
      BY <3>1, LastIDKnown DEF Inv, HandlersSound, HandlerSound
    <3>3. LastID(d) \notin DOMAIN results' \cup collectors'
      BY <3>1 DEF Inv, PlaceholderFresh, StartRun
    <3>4. \A e \in Clients \ {d} : \A n \in 1 .. Len(handler[e].ids) : handler[e].ids[n] # LastID(d)
      BY <3>1 DEF Inv, PlaceholderFresh
    <3>5. ASSUME NEW n \in 1 .. Len(next.ids)
          PROVE  next.ids[n] # LastID(d)
      <4>1. n \in 1 .. Len(h.ids) \/ n = Len(h.ids) + 1
        <5>1. Len(next.ids) = Len(h.ids) + 1
          BY <1>6, <1>7
        <5> HIDE DEF next
        <5> QED
          BY <1>4, <3>5, <5>1
      <4> QED
        BY <1>3, <1>6, <1>7, <2>3, <3>2, <3>4, <4>1
    <3>6. ASSUME NEW e \in Clients \ {d}, NEW n \in 1 .. Len(handler'[e].ids)
          PROVE  handler'[e].ids[n] # LastID(d)
      <4>1. CASE e = c
        BY <3>5, <3>6, <4>1
      <4>2. CASE e # c
        BY <1>7, <3>4, <3>6, <4>2
      <4> QED
        BY <4>1, <4>2
    <3> QED
      BY <3>1, <3>3, <3>6
  <2> QED
    BY <2>2, <2>3
<1>10. DataTyped'
  <2>1. UNCHANGED <<results, resultOrder, collectors, accepted, requests>>
    BY DEF StartRun
  <2>2. resultOrder \in Seq(DOMAIN runs')
    BY <1>3, SeqMonotonic DEF Inv, DataTyped
  <2> QED
    BY <1>2, <1>3, <2>1, <2>2 DEF Inv, DataTyped, IsTable
<1>11. CachedIsResult' /\ OrderListsResults' /\ ResultsStable
  BY <1>2 DEF StartRun, Inv, DataTyped, IsTable, CachedIsResult, OrderListsResults, ResultsStable
<1> QED
  BY <1>8, <1>9, <1>10, <1>11 DEF Inv

LEMMA RunEndsKeepsInv ==
    ASSUME Inv, NEW id \in DOMAIN runs, RunEnds(id)
    PROVE  Inv' /\ ResultsStable
<1>1. PICK status \in Final : runs' = [runs EXCEPT ![id] = status]
  BY DEF RunEnds
<1>2. /\ runs \in Seq(Statuses) /\ status \in Statuses /\ runs[id] = "running"
      /\ DOMAIN runs = 1 .. Len(runs)
  BY LenProperties DEF Inv, DataTyped, RunEnds, Statuses
<1>3. runs' \in Seq(Statuses)
  BY <1>1, <1>2, ExceptSeq
<1>4. DOMAIN runs' = DOMAIN runs /\ \A i \in DOMAIN runs : runs[i] \in Final => runs'[i] = runs[i]
  BY <1>1, <1>2 DEF Final
<1>5. UNCHANGED <<handler, results, resultOrder, collectors, accepted, requests>>
  BY DEF RunEnds
<1>6. HandlersSound'
  <2>1. ASSUME NEW d \in Clients PROVE HandlerSound(handler[d], runs')
    <3>1. handler[d] \in HandlerStates /\ HandlerSound(handler[d], runs)
      BY DEF Inv, HandlersSound
    <3> QED
      BY <1>2, <1>3, <1>4, <3>1, RunsGrow
  <2> QED
    BY <1>5, <2>1 DEF Inv, HandlersSound
<1>7. PlaceholderFresh'
  BY <1>5 DEF Inv, PlaceholderFresh, LastID
<1>8. DataTyped'
  BY <1>3, <1>4, <1>5 DEF Inv, DataTyped, IsTable
<1>9. CachedIsResult' /\ OrderListsResults' /\ ResultsStable
  BY <1>4, <1>5 DEF Inv, DataTyped, IsTable, CachedIsResult, OrderListsResults, ResultsStable
<1> QED
  BY <1>6, <1>7, <1>8, <1>9 DEF Inv

(* A handler stores a result, or the placeholder, of one of its runs and   *)
(* goes on as h.                                                           *)
LEMMA HandlerStores ==
    ASSUME Inv, NEW c \in Clients, NEW h \in HandlerStates, NEW id \in DOMAIN runs,
           NEW st \in Statuses, StoreResult(id, st),
           st = runs[id] \/ (st = "running" /\ id \notin DOMAIN results),
           \E n \in 1 .. Len(handler[c].ids) : id = handler[c].ids[n],
           handler' = [handler EXCEPT ![c] = h], HandlerSound(h, runs),
           h.pc # "placeholder", h.ids = << >> \/ h.ids = handler[c].ids,
           \/ UNCHANGED <<collectors, accepted>>
           \/ collectors' = collectors \cup {id} /\ accepted' = accepted \cup {id},
           UNCHANGED <<runs, requests>>
    PROVE  Inv' /\ ResultsStable
<1>1. /\ IsTable(results, DOMAIN runs, Statuses)'
      /\ (resultOrder \in Seq(DOMAIN runs))'
      /\ OrderListsResults' /\ CachedIsResult' /\ ResultsStable
      /\ DOMAIN results' \subseteq DOMAIN results \cup {id}
  BY StoreKeepsCache DEF Inv
<1>2. HandlersSound'
  BY HandlerFrame DEF Inv
<1>3. PlaceholderFresh'
  <2>1. /\ \A i \in {id} : \E n \in 1 .. Len(handler[c].ids) : i = handler[c].ids[n]
        /\ collectors' \subseteq collectors \cup {id}
        /\ HandlersSound /\ PlaceholderFresh
    BY DEF Inv
  <2> QED
    BY <1>1, <2>1, FreshFrame
<1>4. DataTyped'
  BY <1>1 DEF Inv, DataTyped
<1> QED
  BY <1>1, <1>2, <1>3, <1>4 DEF Inv

LEMMA StoreActionsKeepInv ==
    ASSUME Inv, NEW c \in Clients,
           StorePlaceholder(c) \/ FinishRun(c) \/ StoreSequenceResult(c)
    PROVE  Inv' /\ ResultsStable
<1>1. /\ handler[c] \in HandlerStates /\ HandlerSound(handler[c], runs)
      /\ runs \in Seq(Statuses) /\ DOMAIN runs = 1 .. Len(runs) /\ "running" \in Statuses
      /\ \A i \in DOMAIN runs : runs[i] \in Statuses
  BY LenProperties DEF Inv, HandlersSound, DataTyped, Statuses
<1>2. Idle \in HandlerStates /\ HandlerSound(Idle, runs) /\ Idle.pc # "placeholder"
      /\ Idle.ids = << >>
  BY FreshHandlers
<1>3. CASE StorePlaceholder(c)
  <2>1. /\ LastID(c) \in DOMAIN runs /\ LastID(c) \notin DOMAIN results
        /\ \E n \in 1 .. Len(handler[c].ids) : LastID(c) = handler[c].ids[n]
    BY <1>1, <1>3, LastIDKnown DEF Inv, StorePlaceholder, HandlerSound, PlaceholderFresh
  <2>2. /\ StoreResult(LastID(c), "running") /\ handler' = [handler EXCEPT ![c] = Idle]
        /\ collectors' = collectors \cup {LastID(c)} /\ accepted' = accepted \cup {LastID(c)}
        /\ UNCHANGED <<runs, requests>>
    BY <1>3 DEF StorePlaceholder
  <2> QED
    BY <1>1, <1>2, <2>1, <2>2, HandlerStores
<1>4. CASE FinishRun(c)
  <2>1. /\ LastID(c) \in DOMAIN runs
        /\ \E n \in 1 .. Len(handler[c].ids) : LastID(c) = handler[c].ids[n]
    BY <1>1, <1>4, LastIDKnown DEF Inv, FinishRun, HandlerSound
  <2>2. /\ StoreResult(LastID(c), runs[LastID(c)]) /\ handler' = [handler EXCEPT ![c] = Idle]
        /\ UNCHANGED <<collectors, accepted>> /\ UNCHANGED <<runs, requests>>
        /\ runs[LastID(c)] \in Statuses
    BY <1>1, <1>4, <2>1 DEF FinishRun
  <2> QED
    BY <1>2, <2>1, <2>2, HandlerStores
<1>5. CASE StoreSequenceResult(c)
  <2> DEFINE h == handler[c]
             id == h.ids[h.stored + 1]
             next == IF h.stored + 1 = Len(h.ids) THEN Idle ELSE [h EXCEPT !.stored = @ + 1]
  <2>1. h.pc = "store" /\ h.stored + 1 \in 1 .. Len(h.ids) /\ h.ids \in Seq(DOMAIN runs)
        /\ Len(h.ids) \in Nat
    BY <1>1, <1>5, LenProperties DEF StoreSequenceResult, HandlerSound, HandlerStates
  <2>2. id \in DOMAIN runs /\ runs[id] \in Statuses
        /\ \E n \in 1 .. Len(h.ids) : id = h.ids[n]
    BY <1>1, <2>1, ElementOfSeq
  <2>3. /\ next \in HandlerStates /\ next.pc # "placeholder"
        /\ next.ids = << >> \/ next.ids = h.ids
        /\ HandlerSound(next, runs)
    <3>1. CASE h.stored + 1 = Len(h.ids)
      BY <1>2, <3>1, Zenon
    <3>2. CASE h.stored + 1 # Len(h.ids)
      <4>1. next = [h EXCEPT !.stored = h.stored + 1]
        BY <3>2
      <4> HIDE DEF next
      <4>2. h.stored \in Nat /\ h.stored + 1 < Len(h.ids)
        BY <1>1, <2>1, <3>2 DEF HandlerStates
      <4>3. /\ next \in HandlerStates /\ next.stored = h.stored + 1
            /\ next.pc = h.pc /\ next.req = h.req /\ next.ids = h.ids
        <5>1. ASSUME NEW g \in HandlerStates, NEW k \in Nat
              PROVE  LET f == [g EXCEPT !.stored = k]
                     IN  /\ f \in HandlerStates /\ f.stored = k
                         /\ f.pc = g.pc /\ f.req = g.req /\ f.ids = g.ids
          BY DEF HandlerStates
        <5>2. h \in HandlerStates /\ h.stored + 1 \in Nat
          BY <1>1, <4>2
        <5> HIDE DEF h
        <5> QED
          BY <4>1, <5>1, <5>2
      <4> QED
        BY <1>1, <2>1, <4>2, <4>3 DEF HandlerSound
    <3> QED
      BY <3>1, <3>2
  <2>4. /\ StoreResult(id, runs[id]) /\ handler' = [handler EXCEPT ![c] = next]
        /\ UNCHANGED <<collectors, accepted>> /\ UNCHANGED <<runs, requests>>
    BY <1>5 DEF StoreSequenceResult
  <2> HIDE DEF next, id
  <2> QED
    BY <2>2, <2>3, <2>4, HandlerStores
<1> QED
  BY <1>3, <1>4, <1>5

LEMMA SequenceStepKeepsInv ==
    ASSUME Inv, NEW c \in Clients, SequenceStep(c)
    PROVE  Inv' /\ ResultsStable
<1> DEFINE h == handler[c]
           Over == (h.req.skip /\ runs[LastID(c)] = "failed") \/ Len(h.ids) = Len(h.req.tests)
           to == IF Over THEN "store" ELSE "start"
           next == [h EXCEPT !.pc = to]
<1>1. /\ h \in HandlerStates /\ HandlerSound(h, runs) /\ h.pc = "wait" /\ h.ids # << >>
      /\ h.req \in Requests /\ Len(h.req.tests) \in Nat /\ runs[LastID(c)] \in Final
      /\ Len(h.ids) <= Len(h.req.tests) /\ h.stored = 0
  BY RequestsTyped DEF Inv, HandlersSound, HandlerSound, SequenceStep
<1>2. Len(h.ids) \in Nat \ {0} /\ LastID(c) = h.ids[Len(h.ids)]
  BY <1>1, LastIDKnown DEF Inv, LastID
<1>3. to \in {"store", "start"} /\ handler' = [handler EXCEPT ![c] = next]
  BY DEF SequenceStep, Inv, HandlersSound, HandlerStates
<1>4. /\ next \in HandlerStates /\ next.pc = to /\ next.req = h.req /\ next.ids = h.ids
      /\ next.stored = h.stored
  BY <1>1, <1>3 DEF HandlerStates
<1>5. \A n \in 1 .. Len(h.ids) : n \in 1 .. Len(h.ids) - 1 \/ n = Len(h.ids)
  BY <1>2
<1>6. \A n \in 1 .. Len(h.ids) : runs[h.ids[n]] \in Final
  BY <1>1, <1>2, <1>5 DEF HandlerSound
<1>7. to = "start" => /\ Len(h.ids) < Len(h.req.tests)
                      /\ h.req.skip => \A n \in 1 .. Len(h.ids) : runs[h.ids[n]] # "failed"
  <2> SUFFICES ASSUME to = "start"
               PROVE  /\ Len(h.ids) < Len(h.req.tests)
                      /\ h.req.skip => \A n \in 1 .. Len(h.ids) : runs[h.ids[n]] # "failed"
    OBVIOUS
  <2>1. ~Over
    OBVIOUS
  <2>2. Len(h.ids) < Len(h.req.tests)
    BY <1>1, <1>2, <2>1
  <2>3. ASSUME h.req.skip, NEW n \in 1 .. Len(h.ids) PROVE runs[h.ids[n]] # "failed"
    BY <1>1, <1>2, <1>5, <2>1, <2>3 DEF HandlerSound
  <2> QED
    BY <2>2, <2>3
<1> HIDE DEF next, to
<1>8. HandlerSound(next, runs)
  BY <1>1, <1>2, <1>3, <1>4, <1>6, <1>7 DEF HandlerSound
<1>9. UNCHANGED <<runs, results, resultOrder, collectors, accepted>> /\ requests' = requests
  BY DEF SequenceStep
<1>10. HandlersSound'
  BY <1>3, <1>4, <1>8, <1>9, HandlerFrame DEF Inv
<1>11. PlaceholderFresh'
  <2> DEFINE none == {}
  <2>1. /\ \A id \in none : \E n \in 1 .. Len(handler[c].ids) : id = handler[c].ids[n]
        /\ DOMAIN results' \subseteq DOMAIN results \cup none
        /\ collectors' \subseteq collectors \cup none
        /\ HandlersSound /\ PlaceholderFresh
    BY <1>9 DEF Inv
  <2> HIDE DEF none
  <2> QED
    BY <1>3, <1>4, <2>1, FreshFrame
<1>12. DataTyped' /\ CachedIsResult' /\ OrderListsResults' /\ ResultsStable
  BY <1>9, CacheFrame DEF Inv, DataTyped
<1> QED
  BY <1>10, <1>11, <1>12 DEF Inv

LEMMA StoreAsyncResultKeepsInv ==
    ASSUME Inv, NEW id \in collectors, StoreAsyncResult(id)
    PROVE  Inv' /\ ResultsStable
<1>1. id \in DOMAIN runs /\ runs[id] \in Statuses
  BY DEF Inv, DataTyped, StoreAsyncResult, Statuses
<1>2. /\ StoreResult(id, runs[id]) /\ collectors' = collectors \ {id}
      /\ UNCHANGED <<handler, runs, accepted, requests>>
  BY DEF StoreAsyncResult
<1>3. /\ IsTable(results, DOMAIN runs, Statuses)'
      /\ (resultOrder \in Seq(DOMAIN runs))'
      /\ OrderListsResults' /\ CachedIsResult' /\ ResultsStable
      /\ DOMAIN results' \subseteq DOMAIN results \cup {id}
  BY <1>1, <1>2, StoreKeepsCache DEF Inv
<1>4. HandlersSound'
  BY <1>2 DEF Inv, HandlersSound
<1>5. PlaceholderFresh'
  BY <1>2, <1>3 DEF Inv, PlaceholderFresh, LastID
<1>6. DataTyped'
  BY <1>2, <1>3 DEF Inv, DataTyped
<1> QED
  BY <1>3, <1>4, <1>5, <1>6 DEF Inv

LEMMA StutterKeepsInv ==
    ASSUME Inv, UNCHANGED <<handler, runs, results, resultOrder, collectors, accepted>>,
           requests' \in 0 .. MaxRequests
    PROVE  Inv' /\ ResultsStable
<1>1. DataTyped' /\ CachedIsResult' /\ OrderListsResults' /\ ResultsStable
  BY CacheFrame
<1>2. HandlersSound'
  BY DEF Inv, HandlersSound
<1>3. PlaceholderFresh'
  BY DEF Inv, PlaceholderFresh, LastID
<1> QED
  BY <1>1, <1>2, <1>3 DEF Inv

LEMMA StepKeepsInv ==
    ASSUME Inv, [Next]_vars
    PROVE  Inv' /\ ResultsStable
<1>1. ASSUME NEW c \in Clients, NEW q \in Requests, Reject(c, q)
      PROVE  Inv' /\ ResultsStable
  <2>1. requests' \in 0 .. MaxRequests
    BY <1>1, ApiAssumption DEF Reject, Inv, DataTyped
  <2>2. UNCHANGED <<handler, runs, results, resultOrder, collectors, accepted>>
    BY <1>1 DEF Reject
  <2> QED
    BY <2>1, <2>2, StutterKeepsInv
<1>2. ASSUME NEW c \in Clients, HandlerStep(c)
      PROVE  Inv' /\ ResultsStable
  BY <1>2, StartRunKeepsInv, StoreActionsKeepInv, SequenceStepKeepsInv DEF HandlerStep
<1>3. ASSUME UNCHANGED vars
      PROVE  Inv' /\ ResultsStable
  BY <1>3, StutterKeepsInv DEF vars, Inv, DataTyped
<1> QED
  BY <1>1, <1>2, <1>3, AcceptKeepsInv, RunEndsKeepsInv, StoreAsyncResultKeepsInv DEF Next, Quiet

LEMMA InitInv ==
    ASSUME Init
    PROVE  Inv
<1>1. << >> \in Seq(Statuses) /\ Len(<< >>) = 0 /\ DOMAIN << >> = {} /\ << >> \in Seq(DOMAIN << >>)
  BY EmptySeq
<1>2. DataTyped
  BY <1>1, ApiAssumption DEF Init, DataTyped, IsTable, EmptyTable
<1>3. HandlersSound
  BY FreshHandlers DEF Init, HandlersSound
<1>4. PlaceholderFresh
  BY DEF Init, PlaceholderFresh, Idle
<1>5. CachedIsResult /\ OrderListsResults
  BY <1>1, ApiAssumption DEF Init, CachedIsResult, OrderListsResults, EmptyTable
<1> QED
  BY <1>2, <1>3, <1>4, <1>5 DEF Inv

----------------------------------------------------------------------------
(* What the invariant says of the properties the runs check. *)
LEMMA InvGivesTypeOK ==
    ASSUME Inv
    PROVE  TypeOK
  BY DEF Inv, DataTyped, HandlersSound, HandlerSound, HandlerStates, Statuses, TypeOK

LEMMA InvGivesOrder ==
    ASSUME Inv
    PROVE  OrderMatchesResults
<1>1. /\ Len(resultOrder) \in Nat /\ DOMAIN resultOrder = 1 .. Len(resultOrder)
      /\ resultOrder \in [1 .. Len(resultOrder) -> DOMAIN runs]
  BY LenProperties DEF Inv, DataTyped
<1>2. IsInjective(resultOrder)
  BY <1>1 DEF Inv, OrderListsResults, IsInjective
<1>3. "not found" \notin Range(ListResults)
  <2>1. ASSUME NEW n \in DOMAIN resultOrder PROVE ListResults[n] \in Statuses
    <3>1. resultOrder[n] \in DOMAIN results
      BY <1>1 DEF Inv, OrderListsResults
    <3> QED
      BY <3>1 DEF Inv, DataTyped, IsTable, ListResults, ResultByID
  <2> QED
    BY <2>1 DEF Range, ListResults, Statuses, Final
<1>4. Len(resultOrder) = Cardinality(DOMAIN results)
  <2>1. resultOrder \in Bijection(1 .. Len(resultOrder), DOMAIN results)
    BY <1>1 DEF Inv, OrderListsResults, Bijection, Injection, Surjection, IsInjective
  <2>2. ExistsBijection(1 .. Len(resultOrder), DOMAIN results)
    BY <2>1 DEF ExistsBijection
  <2>3. IsFiniteSet(1 .. Len(resultOrder)) /\ Cardinality(1 .. Len(resultOrder)) = Len(resultOrder)
    BY <1>1, FS_Interval
  <2> QED
    BY <2>2, <2>3, FS_Bijection
<1> QED
  BY <1>2, <1>3, <1>4 DEF Inv, OrderListsResults, OrderMatchesResults

LEMMA InvGivesSkip ==
    ASSUME Inv
    PROVE  SkipStopsSequence
<1> SUFFICES ASSUME NEW c \in Clients, handler[c].pc \in {"start", "wait"}, handler[c].req.skip,
                    NEW n \in 1 .. Len(handler[c].ids) - 1
             PROVE  runs[handler[c].ids[n]] # "failed"
  BY DEF SkipStopsSequence
<1>1. HandlerSound(handler[c], runs) /\ Len(handler[c].ids) \in Nat
  BY LenProperties DEF Inv, HandlersSound, HandlerSound
<1> QED
  BY <1>1 DEF HandlerSound

(* Every state the server reaches satisfies the invariant above: what the  *)
(* theorems below draw from it.                                            *)
THEOREM ApiInvariant == Spec => []Inv
<1>1. Init => Inv
  BY InitInv
<1>2. Inv /\ [Next]_vars => Inv'
  BY StepKeepsInv
<1> QED
  BY <1>1, <1>2, PTL DEF Spec

(* The cache, the order and the goroutines hold ids of runs that were      *)
(* started, whatever the requests.                                         *)
THEOREM ApiTypeCorrect == Spec => []TypeOK
<1>1. Inv => TypeOK
  BY InvGivesTypeOK
<1> QED
  BY <1>1, ApiInvariant, PTL

(* The order and the map of results agree, each result is listed once and  *)
(* no more than maxStoredResults are kept, for every bound on the cache    *)
(* and every interleaving of the handlers that fill it.                    *)
THEOREM OrderCorrect == Spec => []OrderMatchesResults
<1>1. Inv => OrderMatchesResults
  BY InvGivesOrder
<1> QED
  BY <1>1, ApiInvariant, PTL

(* A sequence with skip_fail_test starts no test after one that failed,    *)
(* for sequences of every length.                                          *)
THEOREM SkipCorrect == Spec => []SkipStopsSequence
<1>1. Inv => SkipStopsSequence
  BY InvGivesSkip
<1> QED
  BY <1>1, ApiInvariant, PTL

(* A client that has seen a run end never sees it running again: no step   *)
(* replaces a final result in the cache.                                   *)
THEOREM FinalResultsStable == Spec => FinalIsStable
<1>1. Inv /\ [Next]_vars =>
          [\A id \in DOMAIN results \cap DOMAIN results' :
               results[id] \in Final => results'[id] = results[id]]_vars
  BY StepKeepsInv DEF ResultsStable
<1> QED
  BY <1>1, ApiInvariant, PTL DEF Spec, FinalIsStable
============================================================================
