----------------------------- MODULE ApiServer -----------------------------
(***************************************************************************)
(* internal/adapters/primary/api/server.go: the handlers that start runs   *)
(* and the bounded cache of their results (results, resultOrder, under     *)
(* s.mu), with RunSequence of orchestrator.go, which a handler executes.   *)
(*                                                                         *)
(* Each request is a goroutine of net/http; a run is a goroutine of the    *)
(* orchestrator that ends, at some moment, with a result in its channel.   *)
(* Run identifiers are the order in which runs are started: RunTest makes  *)
(* them from the test's id and the clock in nanoseconds, and two runs are  *)
(* taken to get different ones.  "failed" stands for failed and error,     *)
(* "passed" for the outcomes that do not stop a sequence.                  *)
(***************************************************************************)
EXTENDS Integers, Sequences, FiniteSets, Tables

CONSTANTS Clients,             \* concurrent requests
          Tests,               \* test id -> [async : BOOLEAN]
          Requests,            \* what clients ask for
          MaxStoredResults,    \* maxStoredResults, 100 in the code
          MaxRequests          \* bound on the requests made

Final == {"passed", "failed"}

(* POST /run (one test) and POST /run-sequence (a list, from the body or a *)
(* group, with the effective skip_fail_test).                              *)
ASSUME ApiAssumption ==
    /\ Requests \subseteq [kind : {"run"}, tests : Seq(STRING), skip : BOOLEAN]
                     \cup [kind : {"sequence"}, tests : Seq(STRING), skip : BOOLEAN]
    /\ \A q \in Requests : q.kind = "run" => Len(q.tests) = 1
    /\ MaxStoredResults \in Nat \ {0}
    /\ MaxRequests \in Nat

VARIABLES handler,      \* the goroutine of each client's request
          runs,         \* run id -> "running", or the result in its channel
          results,      \* s.results: run id -> status of the stored result
          resultOrder,  \* s.resultOrder
          collectors,   \* async runs whose goroutine waits on the channel
          accepted,     \* run ids answered with 202
          requests      \* requests made so far

vars == <<handler, runs, results, resultOrder, collectors, accepted, requests>>

Idle == [pc |-> "idle", req |-> << >>, ids |-> << >>, stored |-> 0]

Init ==
    /\ handler = [c \in Clients |-> Idle]
    /\ runs = << >>
    /\ results = EmptyTable
    /\ resultOrder = << >>
    /\ collectors = {}
    /\ accepted = {}
    /\ requests = 0

----------------------------------------------------------------------------
\* Mutant of OrderWith: a result stored again is listed again.
OrderWithDuplicates(id) == Append(resultOrder, id)

(* storeResult: a run already in the map keeps its place in the order. *)
OrderWith(id) == IF id \in DOMAIN results THEN resultOrder ELSE Append(resultOrder, id)

(* storeResult, under s.mu: insert or replace, then evict the oldest entry *)
(* when the cache is over its bound.                                       *)
StoreResult(id, status) ==
    LET all == Put(results, id, status)
        order == OrderWith(id)
    IN IF Len(order) > MaxStoredResults
       THEN results' = Drop(all, Head(order)) /\ resultOrder' = Tail(order)
       ELSE results' = all /\ resultOrder' = order

(* A request: 404 (405, 400) and nothing else unless every test is known   *)
(* and the list is not empty.                                              *)
Reject(c, q) ==
    /\ handler[c].pc = "idle"
    /\ requests < MaxRequests
    /\ q.tests = << >> \/ \E n \in DOMAIN q.tests : q.tests[n] \notin DOMAIN Tests
    /\ requests' = requests + 1
    /\ UNCHANGED <<handler, runs, results, resultOrder, collectors, accepted>>

Accept(c, q) ==
    /\ handler[c].pc = "idle"
    /\ requests < MaxRequests
    /\ q.tests # << >> /\ \A n \in DOMAIN q.tests : q.tests[n] \in DOMAIN Tests
    /\ requests' = requests + 1
    /\ handler' = [handler EXCEPT ![c] = [Idle EXCEPT !.pc = "start", !.req = q]]
    /\ UNCHANGED <<runs, results, resultOrder, collectors, accepted>>

(* s.orchestrator.RunTest: the run's goroutine is off. *)
StartRun(c) ==
    LET h == handler[c]
        id == Len(runs) + 1
        t == h.req.tests[Len(h.ids) + 1]
    IN /\ h.pc = "start"
       /\ runs' = Append(runs, "running")
       /\ handler' = [handler EXCEPT
              ![c].ids = Append(@, id),
              ![c].pc = IF h.req.kind = "run" /\ Tests[t].async THEN "placeholder" ELSE "wait"]
       /\ UNCHANGED <<results, resultOrder, collectors, accepted, requests>>

(* The orchestrator puts the run's result in its buffered channel. *)
RunEnds(id) ==
    /\ runs[id] = "running"
    /\ \E status \in Final : runs' = [runs EXCEPT ![id] = status]
    /\ UNCHANGED <<handler, results, resultOrder, collectors, accepted, requests>>

LastID(c) == handler[c].ids[Len(handler[c].ids)]

\* Mutant of StorePlaceholder: the goroutine is started before the placeholder is stored.
SpawnBeforePlaceholder(c) ==
    LET id == LastID(c) IN
    /\ handler[c].pc = "placeholder"
    /\ IF id \notin collectors \cup DOMAIN results
       THEN collectors' = collectors \cup {id} /\ UNCHANGED <<handler, results, resultOrder, accepted>>
       ELSE /\ StoreResult(id, "running")
            /\ accepted' = accepted \cup {id}
            /\ handler' = [handler EXCEPT ![c] = Idle]
            /\ UNCHANGED collectors
    /\ UNCHANGED <<runs, requests>>

(* An async test: store the running placeholder, start the goroutine that  *)
(* waits for the result, answer 202.                                       *)
StorePlaceholder(c) ==
    LET id == LastID(c) IN
    /\ handler[c].pc = "placeholder"
    /\ StoreResult(id, "running")
    /\ collectors' = collectors \cup {id}
    /\ accepted' = accepted \cup {id}
    /\ handler' = [handler EXCEPT ![c] = Idle]
    /\ UNCHANGED <<runs, requests>>

\* Mutant of StoreAsyncResult: only a result that is still cached is replaced.
StoreAsyncIfCached(id) ==
    /\ id \in collectors
    /\ runs[id] \in Final
    /\ IF id \in DOMAIN results THEN StoreResult(id, runs[id])
       ELSE UNCHANGED <<results, resultOrder>>
    /\ collectors' = collectors \ {id}
    /\ UNCHANGED <<handler, runs, accepted, requests>>

(* go func() { s.storeResult(<-resultCh) }() *)
StoreAsyncResult(id) ==
    /\ id \in collectors
    /\ runs[id] \in Final
    /\ StoreResult(id, runs[id])
    /\ collectors' = collectors \ {id}
    /\ UNCHANGED <<handler, runs, accepted, requests>>

(* The result := <-resultCh of a synchronous run, stored and answered. *)
FinishRun(c) ==
    /\ handler[c].pc = "wait"
    /\ handler[c].req.kind = "run"
    /\ runs[LastID(c)] \in Final
    /\ StoreResult(LastID(c), runs[LastID(c)])
    /\ handler' = [handler EXCEPT ![c] = Idle]
    /\ UNCHANGED <<runs, collectors, accepted, requests>>

\* Mutant of SequenceStep: the loop goes on after a failure.
SequenceStepGoesOn(c) ==
    LET h == handler[c] IN
    /\ h.pc = "wait"
    /\ h.req.kind = "sequence"
    /\ runs[LastID(c)] \in Final
    /\ handler' = [handler EXCEPT ![c].pc =
           IF Len(h.ids) = Len(h.req.tests) THEN "store" ELSE "start"]
    /\ UNCHANGED <<runs, results, resultOrder, collectors, accepted, requests>>

(* RunSequence: wait for each test; with skip_fail_test stop at a failure. *)
SequenceStep(c) ==
    LET h == handler[c] IN
    /\ h.pc = "wait"
    /\ h.req.kind = "sequence"
    /\ runs[LastID(c)] \in Final
    /\ handler' = [handler EXCEPT ![c].pc =
           IF (h.req.skip /\ runs[LastID(c)] = "failed") \/ Len(h.ids) = Len(h.req.tests)
           THEN "store" ELSE "start"]
    /\ UNCHANGED <<runs, results, resultOrder, collectors, accepted, requests>>

(* The results of a sequence are stored at its end, one lock each, and     *)
(* answered together.                                                      *)
StoreSequenceResult(c) ==
    LET h == handler[c]
        id == h.ids[h.stored + 1]
    IN /\ h.pc = "store"
       /\ StoreResult(id, runs[id])
       /\ handler' = [handler EXCEPT ![c] =
              IF h.stored + 1 = Len(h.ids) THEN Idle ELSE [h EXCEPT !.stored = @ + 1]]
       /\ UNCHANGED <<runs, collectors, accepted, requests>>

(* GET /results/{run_id}, and GET /results: what the read-only handlers    *)
(* answer at this moment.                                                  *)
ResultByID(id) == IF id \in DOMAIN results THEN results[id] ELSE "not found"

ListResults == [n \in DOMAIN resultOrder |-> ResultByID(resultOrder[n])]

HandlerStep(c) ==
    \/ StartRun(c) \/ StorePlaceholder(c) \/ FinishRun(c)
    \/ SequenceStep(c) \/ StoreSequenceResult(c)

(* The requests are used up and every goroutine has ended. *)
Quiet ==
    /\ requests = MaxRequests
    /\ \A c \in Clients : handler[c].pc = "idle"
    /\ collectors = {}
    /\ \A id \in DOMAIN runs : runs[id] \in Final
    /\ UNCHANGED vars

Next ==
    \/ \E c \in Clients, q \in Requests : Reject(c, q) \/ Accept(c, q)
    \/ \E c \in Clients : HandlerStep(c)
    \/ \E id \in DOMAIN runs : RunEnds(id)
    \/ \E id \in collectors : StoreAsyncResult(id)
    \/ Quiet

(* Goroutines that can run do, and every run ends (RunsEnd of              *)
(* Orchestrator, for receivers with a timeout).                            *)
Fairness ==
    /\ \A c \in Clients : WF_vars(HandlerStep(c))
    /\ WF_vars(\E id \in DOMAIN runs : RunEnds(id))
    /\ WF_vars(\E id \in collectors : StoreAsyncResult(id))

Spec == Init /\ [][Next]_vars

FairSpec == Spec /\ Fairness

----------------------------------------------------------------------------
(* The cache, the order and the goroutines hold run ids and statuses of    *)
(* runs that were started; an accepted run was started.                    *)
TypeOK ==
    /\ runs \in Seq(Final \cup {"running"})
    /\ IsTable(results, DOMAIN runs, Final \cup {"running"})
    /\ resultOrder \in Seq(DOMAIN runs)
    /\ collectors \subseteq accepted
    /\ accepted \subseteq DOMAIN runs
    /\ requests \in 0 .. MaxRequests
    /\ \A c \in Clients :
          /\ handler[c].pc \in {"idle", "start", "placeholder", "wait", "store"}
          /\ handler[c].ids \in Seq(DOMAIN runs)
          /\ handler[c].pc \in {"placeholder", "wait", "store"} => handler[c].ids # << >>

(* resultOrder lists exactly the runs in the map, each once: GET /results  *)
(* never meets a missing entry, and an eviction takes out what it takes    *)
(* off the order, so that no more than maxStoredResults are kept.  A       *)
(* placeholder evicted before its run ends and stored again at the end     *)
(* must not break this.                                                    *)
OrderMatchesResults ==
    /\ "not found" \notin Range(ListResults)
    /\ Len(resultOrder) = Cardinality(DOMAIN results)
    /\ IsInjective(resultOrder)
    /\ Len(resultOrder) <= MaxStoredResults

(* A final result is never replaced by something else, least of all by the *)
(* running placeholder: a client that has seen a run end does not see it   *)
(* running again.                                                          *)
FinalIsStable ==
    [][\A id \in DOMAIN results \cap DOMAIN results' :
           results[id] \in Final => results'[id] = results[id]]_vars

(* A sequence with skip_fail_test starts no test after one that failed. *)
SkipStopsSequence ==
    \A c \in Clients :
        (handler[c].pc \in {"start", "wait"} /\ handler[c].req.skip) =>
            \A n \in 1 .. Len(handler[c].ids) - 1 : runs[handler[c].ids[n]] # "failed"

(* The most runs the requests can start. *)
MaxRuns ==
    MaxRequests * CHOOSE n \in {Len(q.tests) : q \in Requests} :
                      \A q \in Requests : Len(q.tests) <= n

(* A run whose id was given to a client with 202 gets its final result     *)
(* into the cache, even if its placeholder was evicted meanwhile.          *)
AcceptedRunsGetResults ==
    \A id \in 1 .. MaxRuns :
        id \in collectors ~> ResultByID(id) \in Final
============================================================================
