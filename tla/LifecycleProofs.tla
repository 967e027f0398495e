-------------------------- MODULE LifecycleProofs --------------------------
(* Crashes, restarts, schedules and shutdowns: for every number of         *)
(* processes, runs, tests and recipients.                                  *)
EXTENDS Lifecycle, TLAPS

LEMMA PutIsTable ==
    ASSUME NEW K, NEW V, NEW f, IsTable(f, K, V), NEW k \in K, NEW v \in V
    PROVE  IsTable(Put(f, k, v), K, V)
  BY DEF IsTable, Put

LEMMA DropIsTable ==
    ASSUME NEW K, NEW V, NEW f, IsTable(f, K, V), NEW k
    PROVE  IsTable(Drop(f, k), K, V)
  BY DEF IsTable, Drop, Restrict

LEMMA StoresTyped ==
    ASSUME NEW p \in Procs
    PROVE  StoreOf(p) \in Stores /\ p \in Stores /\ "shared" \in Stores /\ p # "shared"
  BY LifecycleAssumption DEF StoreOf, Stores

LEMMA UnusedTyped == Unused \in RunStates
<1>1. (CHOOSE k \in Recipients : TRUE) \in Recipients
  BY LifecycleAssumption
<1>2. (CHOOSE p \in Procs : TRUE) \in Procs
  BY LifecycleAssumption
<1> QED
  BY <1>1, <1>2 DEF Unused, RunStates

(* The shapes of a step: one process changes its state, one run its own,   *)
(* one store its table.                                                    *)
LEMMA ProcFrame ==
    ASSUME TypeOK, NEW p \in Procs, NEW q \in ProcStates,
           proc' = [proc EXCEPT ![p] = q], starts' \in 0 .. MaxStarts,
           UNCHANGED <<kind, run, reservations>>
    PROVE  TypeOK'
<1>1. proc' \in [Procs -> ProcStates]
  BY DEF TypeOK
<1>2. Stores' = Stores
  BY DEF Stores
<1> QED
  BY <1>1, <1>2 DEF TypeOK

LEMMA RunFrame ==
    ASSUME TypeOK, NEW r \in Runs, NEW l \in RunStates,
           run' = [run EXCEPT ![r] = l],
           UNCHANGED <<kind, starts, proc, reservations>>
    PROVE  TypeOK'
  BY DEF TypeOK, Stores

LEMMA StoreFrame ==
    ASSUME TypeOK, NEW s \in Stores, NEW t, IsTable(t, Recipients, Runs),
           reservations' = [reservations EXCEPT ![s] = t],
           run' \in [Runs -> RunStates],
           proc' \in [Procs -> ProcStates],
           UNCHANGED <<kind, starts>>
    PROVE  TypeOK'
<1>1. reservations' = [u \in Stores |-> reservations'[u]]
  BY DEF TypeOK
<1>2. \A u \in Stores : IsTable(reservations'[u], Recipients, Runs)
  BY DEF TypeOK
<1> QED
  BY <1>1, <1>2 DEF TypeOK

(* The states a run goes through. *)
LEMMA RunStateTyped ==
    ASSUME TypeOK, NEW r \in Runs,
           NEW st \in {"unused", "started", "holding", "returning", "ended", "lost"}
    PROVE  /\ run[r] \in RunStates
           /\ [run[r] EXCEPT !.state = st] \in RunStates
           /\ [run EXCEPT ![r].state = st] = [run EXCEPT ![r] = [run[r] EXCEPT !.state = st]]
           /\ [run EXCEPT ![r].state = st] \in [Runs -> RunStates]
  BY DEF TypeOK, RunStates

LEMMA StepTyped ==
    ASSUME TypeOK, Next
    PROVE  TypeOK'
<1> USE LifecycleAssumption
<1>1. ASSUME NEW p \in Procs, Boot(p) \/ BootFails(p)
      PROVE  TypeOK'
  <2>1. [Down EXCEPT !.phase = "up", !.serve = "serving", !.cron = "on"] \in ProcStates
    BY DEF Down, ProcStates
  <2>2. starts' \in 0 .. MaxStarts
    BY <1>1 DEF Boot, BootFails, TypeOK
  <2>3. CASE Boot(p)
    BY <2>1, <2>2, <2>3, ProcFrame DEF Boot
  <2>4. CASE BootFails(p)
    <3>1. proc[p] \in ProcStates /\ proc' = [proc EXCEPT ![p] = proc[p]]
      BY <2>4 DEF BootFails, TypeOK
    <3> QED
      BY <2>2, <2>4, <3>1, ProcFrame DEF BootFails
  <2> QED
    BY <1>1, <2>3, <2>4
<1>2. ASSUME NEW p \in Procs,
             \/ Signal(p) \/ ListenFails(p) \/ CloseListener(p) \/ ServeReturns(p)
             \/ Drained(p) \/ TimesOut(p) \/ StopCron(p) \/ CloseStore(p)
      PROVE  TypeOK'
  <2>1. UNCHANGED <<kind, starts, run, reservations>> /\ starts' \in 0 .. MaxStarts
    BY <1>2 DEF Signal, ListenFails, CloseListener, ServeReturns, Drained, TimesOut, StopCron,
                CloseStore, TypeOK
  <2>2. proc' \in [Procs -> ProcStates]
    <3>1. proc \in [Procs -> ProcStates]
      BY DEF TypeOK
    <3>2. CASE Signal(p) \/ ListenFails(p)
      BY <3>1, <3>2 DEF Signal, ListenFails, ProcStates
    <3>3. CASE CloseListener(p) \/ ServeReturns(p)
      BY <3>1, <3>3 DEF CloseListener, ServeReturns, ProcStates
    <3>4. CASE Drained(p) \/ TimesOut(p)
      BY <3>1, <3>4 DEF Drained, TimesOut, ProcStates
    <3>5. CASE StopCron(p) \/ CloseStore(p)
      BY <3>1, <3>5 DEF StopCron, CloseStore, ProcStates
    <3> QED
      BY <1>2, <3>2, <3>3, <3>4, <3>5
  <2>3. Stores' = Stores
    BY DEF Stores
  <2> QED
    BY <2>1, <2>2, <2>3 DEF TypeOK
<1>3. ASSUME NEW p \in Procs, NEW t \in Tests, NEW r \in Runs, Fire(p, t, r) \/ HandleRun(p, t, r)
      PROVE  TypeOK'
  <2>1. PICK w \in BOOLEAN : Started(r, p, t, w)
    BY <1>3 DEF Fire, HandleRun
  <2>2. [state |-> "started", waiter |-> w, recipient |-> Recipient[t], proc |-> p] \in RunStates
    BY DEF RunStates
  <2> QED
    BY <1>3, <2>1, <2>2, RunFrame DEF Started, Fire, HandleRun
<1>4. ASSUME NEW r \in Runs, ReserveFails(r) \/ Return(r)
      PROVE  TypeOK'
  <2>1. CASE ReserveFails(r)
    BY <2>1, RunFrame, RunStateTyped DEF ReserveFails
  <2>2. CASE Return(r)
    BY <2>2, RunFrame, RunStateTyped DEF Return
  <2> QED
    BY <1>4, <2>1, <2>2
<1>5. ASSUME NEW r \in Runs, Reserve(r)
      PROVE  TypeOK'
  <2>1. run[r].recipient \in Recipients /\ StoreOf(run[r].proc) \in Stores
    BY StoresTyped DEF TypeOK, RunStates
  <2>2. run' \in [Runs -> RunStates] /\ proc' \in [Procs -> ProcStates]
    BY <1>5, RunStateTyped DEF Reserve, Disabled, TypeOK
  <2>3. CASE kind = "disabled"
    BY <1>5, <2>3, RunFrame, RunStateTyped DEF Reserve, Disabled
  <2>4. CASE kind # "disabled"
    <3>1. IsTable(Put(reservations[StoreOf(run[r].proc)], run[r].recipient, r), Recipients, Runs)
      BY <2>1, PutIsTable DEF TypeOK
    <3> QED
      BY <1>5, <2>1, <2>2, <2>4, <3>1, StoreFrame DEF Reserve, Disabled
  <2> QED
    BY <2>3, <2>4
<1>6. ASSUME NEW r \in Runs, Release(r)
      PROVE  TypeOK'
  <2>1. run[r].recipient \in Recipients /\ StoreOf(run[r].proc) \in Stores
    BY StoresTyped DEF TypeOK, RunStates
  <2>2. run' \in [Runs -> RunStates] /\ proc' \in [Procs -> ProcStates]
    BY <1>6, RunStateTyped DEF Release, TypeOK
  <2>3. CASE ~Reachable(r)
    BY <1>6, <2>3, RunFrame, RunStateTyped DEF Release
  <2>4. CASE Reachable(r)
    <3>1. IsTable(Drop(reservations[StoreOf(run[r].proc)], run[r].recipient), Recipients, Runs)
      BY <2>1, DropIsTable DEF TypeOK
    <3> QED
      BY <1>6, <2>1, <2>2, <2>4, <3>1, StoreFrame DEF Release
  <2> QED
    BY <2>3, <2>4
<1>7. ASSUME NEW p \in Procs, Gone(p)
      PROVE  TypeOK'
  <2>1. Down \in ProcStates
    BY DEF Down, ProcStates
  <2>2. proc' \in [Procs -> ProcStates]
    BY <1>7, <2>1 DEF Gone, TypeOK
  <2>3. run' \in [Runs -> RunStates]
    BY <1>7, RunStateTyped DEF Gone, TypeOK
  <2>4. IsTable(EmptyTable, Recipients, Runs)
    BY DEF IsTable, EmptyTable
  <2> QED
    BY <1>7, <2>2, <2>3, <2>4, StoreFrame, StoresTyped DEF Gone
<1>8. ASSUME NEW k \in Recipients, Expire(k)
      PROVE  TypeOK'
  <2>1. "shared" \in Stores
    BY DEF Stores
  <2>2. IsTable(Drop(reservations["shared"], k), Recipients, Runs)
    BY <2>1, DropIsTable DEF TypeOK
  <2>3. run' \in [Runs -> RunStates] /\ proc' \in [Procs -> ProcStates]
    BY <1>8 DEF Expire, TypeOK
  <2> QED
    BY <1>8, <2>1, <2>2, <2>3, StoreFrame DEF Expire
<1> QED
  BY <1>1, <1>2, <1>3, <1>4, <1>5, <1>6, <1>7, <1>8
     DEF Next, RunStep, ShutdownStep, Exit, Crash

(* The states of processes, runs and stores keep their types. *)
THEOREM LifecycleTypeCorrect == Spec => []TypeOK
<1>1. Init => TypeOK
  <2> SUFFICES ASSUME Init PROVE TypeOK
    OBVIOUS
  <2>1. Down \in ProcStates
    BY DEF Down, ProcStates
  <2>2. IsTable(EmptyTable, Recipients, Runs)
    BY DEF IsTable, EmptyTable
  <2> QED
    BY <2>1, <2>2, UnusedTyped, LifecycleAssumption DEF Init, TypeOK
<1>2. TypeOK /\ [Next]_vars => TypeOK'
  <2>1. TypeOK /\ UNCHANGED vars => TypeOK'
    BY DEF TypeOK, vars, Stores
  <2> QED
    BY <2>1, StepTyped
<1> QED
  BY <1>1, <1>2, PTL DEF Spec

(* One step keeps what is recorded of the runs that hold their recipient,  *)
(* as long as no run outlives its reservation: a lost run's reservation    *)
(* expires, that of a live one does not.                                   *)
LEMMA HoldersStayRecorded ==
    ASSUME TypeOK, HoldersRecorded, Next, ~RunsOutliveTTL
    PROVE  HoldersRecorded'
<1>1. kind' = kind
  BY DEF Next, Boot, BootFails, Signal, ListenFails, Crash, Exit, Gone, ShutdownStep, CloseListener,
         ServeReturns, Drained, TimesOut, StopCron, CloseStore, Fire, HandleRun, RunStep, Reserve, Disabled,
         ReserveFails, Release, Return, Expire
<1> DEFINE Ok(r, rec, pr, res) ==
        rec \in DOMAIN res[StoreOf(pr)] /\ res[StoreOf(pr)][rec] = r
<1> SUFFICES ASSUME kind # "disabled", NEW s \in Runs, run'[s].state = "holding"
             PROVE  Ok(s, run'[s].recipient, run'[s].proc, reservations')
  BY <1>1 DEF HoldersRecorded, StoreOf
<1>4. \A r \in Runs : run[r].state = "holding" => Ok(r, run[r].recipient, run[r].proc, reservations)
  BY DEF HoldersRecorded
<1>6. ASSUME NEW p \in Procs, NEW t \in Tests, NEW r \in Runs, Fire(p, t, r) \/ HandleRun(p, t, r)
      PROVE  Ok(s, run'[s].recipient, run'[s].proc, reservations')
  <2>1. reservations' = reservations /\ run'[r].state = "started" /\ (s # r => run'[s] = run[s])
    BY <1>6 DEF Fire, HandleRun, Started, TypeOK
  <2> QED
    BY <1>4, <2>1
<1>7. ASSUME NEW r \in Runs, ReserveFails(r) \/ Return(r)
      PROVE  Ok(s, run'[s].recipient, run'[s].proc, reservations')
  <2>1. /\ reservations' = reservations
        /\ run'[r].state \in {"returning", "ended"}
        /\ s # r => run'[s] = run[s]
    BY <1>7 DEF ReserveFails, Return, TypeOK, RunStates
  <2> QED
    BY <1>4, <2>1
<1>8. ASSUME NEW r \in Runs, Reserve(r)
      PROVE  Ok(s, run'[s].recipient, run'[s].proc, reservations')
  <2>1. /\ run'[s].recipient = run[s].recipient /\ run'[s].proc = run[s].proc
        /\ s # r => run'[s] = run[s]
    BY <1>8 DEF Reserve, Disabled, TypeOK, RunStates
  <2>2. StoreOf(run[r].proc) \in Stores /\ StoreOf(run[s].proc) \in Stores
    BY StoresTyped DEF TypeOK, RunStates
  <2>3. /\ run[r].recipient \notin DOMAIN reservations[StoreOf(run[r].proc)]
        /\ reservations' = [reservations EXCEPT
               ![StoreOf(run[r].proc)] = Put(reservations[StoreOf(run[r].proc)], run[r].recipient, r)]
    BY <1>1, <1>8 DEF Reserve, Disabled, Reserved
  <2>4. CASE s = r
    BY <2>1, <2>2, <2>3, <2>4 DEF Put, TypeOK
  <2>5. CASE s # r
    <3>1. Ok(s, run[s].recipient, run[s].proc, reservations)
      BY <1>4, <2>1, <2>5
    <3>2. CASE StoreOf(run[s].proc) = StoreOf(run[r].proc)
      BY <2>1, <2>2, <2>3, <3>1, <3>2 DEF Put, TypeOK
    <3>3. CASE StoreOf(run[s].proc) # StoreOf(run[r].proc)
      BY <2>1, <2>2, <2>3, <3>1, <3>3 DEF TypeOK
    <3> QED
      BY <3>2, <3>3
  <2> QED
    BY <2>4, <2>5
<1>9. ASSUME NEW r \in Runs, Release(r)
      PROVE  Ok(s, run'[s].recipient, run'[s].proc, reservations')
  <2>1. run[r].state = "holding" /\ run'[r].state = "returning" /\ (s # r => run'[s] = run[s])
    BY <1>9 DEF Release, TypeOK, RunStates
  <2>2. s # r /\ run'[s] = run[s]
    BY <2>1
  <2>3. /\ Ok(s, run[s].recipient, run[s].proc, reservations)
        /\ Ok(r, run[r].recipient, run[r].proc, reservations)
    BY <1>4, <2>1, <2>2
  <2>4. StoreOf(run[r].proc) \in Stores /\ StoreOf(run[s].proc) \in Stores
    BY StoresTyped DEF TypeOK, RunStates
  <2>5. CASE reservations' = reservations
    BY <2>2, <2>3, <2>5
  <2>6. CASE reservations' = [reservations EXCEPT
                 ![StoreOf(run[r].proc)] = Drop(reservations[StoreOf(run[r].proc)], run[r].recipient)]
    <3>1. CASE StoreOf(run[s].proc) = StoreOf(run[r].proc)
      <4>1. run[s].recipient # run[r].recipient
        BY <2>2, <2>3, <3>1
      <4> QED
        BY <2>2, <2>3, <2>4, <2>6, <3>1, <4>1 DEF Drop, Restrict, TypeOK
    <3>2. CASE StoreOf(run[s].proc) # StoreOf(run[r].proc)
      BY <2>2, <2>3, <2>4, <2>6, <3>2 DEF TypeOK
    <3> QED
      BY <3>1, <3>2
  <2> QED
    BY <1>9, <2>5, <2>6 DEF Release
<1>10. ASSUME NEW p \in Procs, Gone(p)
       PROVE  Ok(s, run'[s].recipient, run'[s].proc, reservations')
  <2>1. run'[s] = run[s] /\ run[s].proc # p
    BY <1>10 DEF Gone, Live, TypeOK, RunStates
  <2>2. StoreOf(run[s].proc) # p /\ StoreOf(run[s].proc) \in Stores /\ p \in Stores
    BY <2>1, StoresTyped DEF TypeOK, RunStates, StoreOf
  <2>3. reservations'[StoreOf(run[s].proc)] = reservations[StoreOf(run[s].proc)]
    BY <1>10, <2>2 DEF Gone, TypeOK
  <2> QED
    BY <1>4, <2>1, <2>3
<1>11. ASSUME NEW k \in Recipients, Expire(k)
       PROVE  Ok(s, run'[s].recipient, run'[s].proc, reservations')
  <2>1. run' = run /\ Ok(s, run[s].recipient, run[s].proc, reservations) /\ Live(s)
    BY <1>4, <1>11 DEF Expire, Live
  <2>2. "shared" \in Stores /\ StoreOf(run[s].proc) \in Stores
    BY StoresTyped DEF TypeOK, RunStates, Stores
  <2>3. CASE StoreOf(run[s].proc) = "shared"
    <3>1. run[s].recipient # k
      BY <1>11, <2>1, <2>3 DEF Expire
    <3> QED
      BY <1>11, <2>1, <2>2, <2>3, <3>1 DEF Expire, Drop, Restrict, TypeOK
  <2>4. CASE StoreOf(run[s].proc) # "shared"
    BY <1>11, <2>1, <2>2, <2>4 DEF Expire, TypeOK
  <2> QED
    BY <2>3, <2>4
<1>12. \/ UNCHANGED <<run, reservations>>
       \/ \E p \in Procs : Gone(p)
       \/ \E p \in Procs, t \in Tests, r \in Runs : Fire(p, t, r) \/ HandleRun(p, t, r)
       \/ \E r \in Runs : RunStep(r)
       \/ \E k \in Recipients : Expire(k)
  BY DEF Next, Boot, BootFails, Signal, ListenFails, Crash, Exit, ShutdownStep, CloseListener,
         ServeReturns, Drained, TimesOut, StopCron, CloseStore
<1>13. CASE UNCHANGED <<run, reservations>>
  BY <1>4, <1>13
<1> HIDE DEF Ok
<1> QED
  BY <1>6, <1>7, <1>8, <1>9, <1>10, <1>11, <1>12, <1>13 DEF RunStep

(* Two live runs that share a store never hold one recipient, through any  *)
(* crashes, restarts and overlapping schedules, provided that no run       *)
(* outlives its reservation.                                               *)
THEOREM LiveRunsAreExclusive ==
    ASSUME ~RunsOutliveTTL
    PROVE  Spec => []LiveRunsExclusive
<1>1. Init => HoldersRecorded
  BY DEF Init, HoldersRecorded, Unused
<1>2. TypeOK /\ HoldersRecorded /\ [Next]_vars => HoldersRecorded'
  <2>1. HoldersRecorded /\ UNCHANGED vars => HoldersRecorded'
    BY DEF HoldersRecorded, StoreOf, vars
  <2> QED
    BY <2>1, HoldersStayRecorded
<1>3. TypeOK /\ HoldersRecorded => LiveRunsExclusive
  BY DEF HoldersRecorded, LiveRunsExclusive
<1>4. Spec => []TypeOK
  BY LifecycleTypeCorrect
<1> QED
  BY <1>1, <1>2, <1>3, <1>4, PTL DEF Spec

(* The order in which a process stops: a step that keeps it. *)
LEMMA StopOrderKept ==
    ASSUME TypeOK, StopOrder, Next
    PROVE  StopOrder'
<1> SUFFICES ASSUME NEW q \in Procs
             PROVE  /\ proc'[q].stop = "drained" => OpenRequests(q)' = {}
                    /\ proc'[q].phase = "closed" => proc'[q].stop \in {"drained", "timedout"}
  BY DEF StopOrder
<1>1. /\ proc[q].stop = "drained" => OpenRequests(q) = {}
      /\ proc[q].phase = "closed" => proc[q].stop \in {"drained", "timedout"}
  BY DEF StopOrder
<1>2. proc[q] \in ProcStates /\ proc \in [Procs -> ProcStates] /\ run \in [Runs -> RunStates]
  BY DEF TypeOK
<1> DEFINE Goal == /\ proc'[q].stop = "drained" => OpenRequests(q)' = {}
                   /\ proc'[q].phase = "closed" => proc'[q].stop \in {"drained", "timedout"}
<1>3. CASE proc'[q] = proc[q] /\ OpenRequests(q)' \subseteq OpenRequests(q)
  BY <1>1, <1>3
<1>4. ASSUME run' = run
      PROVE  OpenRequests(q)' = OpenRequests(q)
  BY <1>4 DEF OpenRequests, Live
<1>5. ASSUME NEW p \in Procs,
             \/ Boot(p) \/ BootFails(p) \/ Signal(p) \/ ListenFails(p) \/ CloseListener(p)
             \/ ServeReturns(p) \/ Drained(p) \/ TimesOut(p) \/ StopCron(p) \/ CloseStore(p)
      PROVE  Goal
  <2>1. OpenRequests(q)' = OpenRequests(q)
    BY <1>4, <1>5 DEF Boot, BootFails, Signal, ListenFails, CloseListener, ServeReturns, Drained,
                      TimesOut, StopCron, CloseStore
  <2>2. CASE p # q
    <3>1. proc'[q] = proc[q]
      BY <1>2, <1>5, <2>2 DEF Boot, BootFails, Signal, ListenFails, CloseListener, ServeReturns,
                              Drained, TimesOut, StopCron, CloseStore
    <3> QED
      BY <1>3, <2>1, <3>1
  <2>3. CASE p = q /\ (Boot(p) \/ BootFails(p))
    <3>1. \/ proc'[q].stop = "idle" /\ proc'[q].phase = "up"
          \/ proc'[q] = proc[q]
      BY <1>2, <2>3 DEF Boot, BootFails, Down
    <3> QED
      BY <1>1, <2>1, <3>1
  <2>4. CASE p = q /\ (Signal(p) \/ ListenFails(p) \/ ServeReturns(p) \/ StopCron(p))
    <3>1. proc'[q].stop = proc[q].stop /\ proc'[q].phase = proc[q].phase
      BY <1>2, <2>4 DEF Signal, ListenFails, ServeReturns, StopCron, ProcStates
    <3> QED
      BY <1>1, <2>1, <3>1
  <2>5. CASE p = q /\ (CloseListener(p) \/ TimesOut(p))
    <3>1. proc'[q].stop \in {"shutdown", "timedout"} /\ proc'[q].phase = "up"
      BY <1>2, <2>5 DEF CloseListener, TimesOut, ProcStates
    <3> QED
      BY <3>1
  <2>6. CASE p = q /\ Drained(p)
    <3>1. OpenRequests(q) = {} /\ proc'[q].phase = "up"
      BY <1>2, <2>6 DEF Drained, ProcStates
    <3> QED
      BY <2>1, <3>1
  <2>7. CASE p = q /\ CloseStore(p)
    <3>1. proc'[q].stop = proc[q].stop /\ proc[q].stop \in {"drained", "timedout"}
      BY <1>2, <2>7 DEF CloseStore, ProcStates
    <3> QED
      BY <1>1, <2>1, <3>1
  <2> QED
    BY <1>5, <2>2, <2>3, <2>4, <2>5, <2>6, <2>7
<1>6. ASSUME NEW p \in Procs, NEW t \in Tests, NEW r \in Runs, Fire(p, t, r)
      PROVE  Goal
  <2>1. proc' = proc /\ run'[r].waiter = FALSE /\ \A s \in Runs : s # r => run'[s] = run[s]
    BY <1>2, <1>6 DEF Fire, Started
  <2>2. OpenRequests(q)' \subseteq OpenRequests(q)
    BY <2>1 DEF OpenRequests, Live
  <2> QED
    BY <1>3, <2>1, <2>2
<1>7. ASSUME NEW p \in Procs, NEW t \in Tests, NEW r \in Runs, HandleRun(p, t, r)
      PROVE  Goal
  <2>1. /\ proc' = proc /\ proc[p].stop # "drained" /\ proc[p].phase = "up"
        /\ run'[r].proc = p /\ \A s \in Runs : s # r => run'[s] = run[s]
    BY <1>2, <1>7 DEF HandleRun, Started
  <2>2. CASE p = q
    BY <2>1, <2>2
  <2>3. CASE p # q
    <3>1. OpenRequests(q)' \subseteq OpenRequests(q)
      BY <2>1, <2>3 DEF OpenRequests, Live
    <3> QED
      BY <1>3, <2>1, <3>1
  <2> QED
    BY <2>2, <2>3
<1>8. ASSUME NEW r \in Runs, RunStep(r)
      PROVE  Goal
  <2>1. /\ proc' = proc /\ \A s \in Runs : s # r => run'[s] = run[s]
        /\ run'[r].waiter = run[r].waiter /\ run'[r].proc = run[r].proc
        /\ run[r].state \in {"started", "holding", "returning"}
    BY <1>2, <1>8 DEF RunStep, Reserve, Disabled, ReserveFails, Release, Return, RunStates
  <2>2. OpenRequests(q)' \subseteq OpenRequests(q)
    BY <2>1 DEF OpenRequests, Live
  <2> QED
    BY <1>3, <2>1, <2>2
<1>9. ASSUME NEW p \in Procs, Gone(p)
      PROVE  Goal
  <2>1. CASE p = q
    <3>1. proc'[q] = Down
      BY <1>2, <1>9, <2>1 DEF Gone
    <3> QED
      BY <3>1 DEF Down
  <2>2. CASE p # q
    <3>1. proc'[q] = proc[q]
      BY <1>2, <1>9, <2>2 DEF Gone
    <3>2. \A s \in Runs : run'[s] = run[s] \/ run'[s].state = "lost"
      BY <1>2, <1>9 DEF Gone, RunStates
    <3>3. OpenRequests(q)' \subseteq OpenRequests(q)
      BY <3>2 DEF OpenRequests, Live
    <3> QED
      BY <1>3, <3>1, <3>3
  <2> QED
    BY <2>1, <2>2
<1>10. ASSUME NEW k \in Recipients, Expire(k)
       PROVE  Goal
  BY <1>3, <1>4, <1>10 DEF Expire
<1> HIDE DEF Goal
<1>11. Goal
  BY <1>5, <1>6, <1>7, <1>8, <1>9, <1>10 DEF Next, ShutdownStep, Exit, Crash
<1> QED
  BY <1>11 DEF Goal

(* A process that ends in order has answered its requests, unless Shutdown *)
(* ran into its deadline: for every number of processes and runs.          *)
THEOREM OrderlyEnds == Spec => []OrderlyEndAnswers
<1>1. Init => StopOrder
  BY DEF Init, StopOrder, Down
<1>2. TypeOK /\ StopOrder /\ [Next]_vars => StopOrder'
  <2>1. StopOrder /\ UNCHANGED vars => StopOrder'
    BY DEF StopOrder, OpenRequests, Live, vars
  <2> QED
    BY <2>1, StopOrderKept
<1>3. StopOrder => OrderlyEndAnswers
  BY DEF StopOrder, OrderlyEndAnswers
<1>4. Spec => []TypeOK
  BY LifecycleTypeCorrect
<1> QED
  BY <1>1, <1>2, <1>3, <1>4, PTL DEF Spec

(* One reservation, k of store s, in the state (rn, pr, res): held by the  *)
(* run it names, or left by one whose process has ended or is ending.      *)
Accounted(s, k, rn, pr, res) ==
    LET r == res[s][k] IN
    \/ rn[r].state = "holding" /\ rn[r].recipient = k /\ StoreOf(rn[r].proc) = s
    \/ /\ s = "shared"
       /\ \/ rn[r].state \in {"ended", "lost"}
          \/ rn[r].state = "returning" /\ pr[rn[r].proc].phase = "closed"

LEMMA OrphansStayInterrupted ==
    ASSUME TypeOK, LiveRunsHosted, OrphansAreInterrupted, Next
    PROVE  OrphansAreInterrupted'
<1>1. kind' = kind
  BY DEF Next, Boot, BootFails, Signal, ListenFails, Crash, Exit, Gone, ShutdownStep, CloseListener,
         ServeReturns, Drained, TimesOut, StopCron, CloseStore, Fire, HandleRun, RunStep, Reserve, Disabled,
         ReserveFails, Release, Return, Expire
<1>2. \A p \in Procs : StoreOf(p)' = StoreOf(p)
  BY <1>1 DEF StoreOf
<1>3. /\ proc \in [Procs -> ProcStates] /\ run \in [Runs -> RunStates]
      /\ run' \in [Runs -> RunStates]
      /\ \A s \in Stores : IsTable(reservations[s], Recipients, Runs)
      /\ \A s \in Stores : IsTable(reservations'[s], Recipients, Runs)
  <2>1. TypeOK'
    BY StepTyped
  <2> QED
    BY <2>1 DEF TypeOK, Stores
<1> SUFFICES ASSUME NEW s \in Stores, NEW k \in DOMAIN reservations'[s]
             PROVE  Accounted(s, k, run', proc', reservations')
  <2>1. \A r \in Runs : run'[r].proc \in Procs
    BY <1>3 DEF RunStates
  <2>2. \A u \in Stores : \A j \in DOMAIN reservations'[u] : reservations'[u][j] \in Runs
    BY <1>3 DEF IsTable
  <2> QED
    BY <1>2, <2>1, <2>2 DEF OrphansAreInterrupted, Accounted, Stores, StoreOf
<1> DEFINE r == reservations[s][k]
           Goal == Accounted(s, k, run', proc', reservations')
<1>4. k \in DOMAIN reservations[s] =>
          /\ Accounted(s, k, run, proc, reservations)
          /\ r \in Runs /\ run[r] \in RunStates /\ run[r].proc \in Procs
  <2>1. k \in DOMAIN reservations[s] => r \in Runs
    BY <1>3 DEF IsTable
  <2> QED
    BY <1>3, <2>1 DEF OrphansAreInterrupted, Accounted, RunStates
<1>5. CASE /\ reservations' = reservations /\ run' = run
           /\ \A p \in Procs : proc[p].phase = "closed" => proc'[p].phase = "closed"
  BY <1>4, <1>5 DEF Accounted
<1>6. ASSUME NEW p \in Procs, NEW t \in Tests, NEW x \in Runs, Fire(p, t, x) \/ HandleRun(p, t, x)
      PROVE  Goal
  <2>1. /\ reservations' = reservations /\ proc' = proc /\ run[x].state = "unused"
        /\ \A y \in Runs : y # x => run'[y] = run[y]
    BY <1>3, <1>6 DEF Fire, HandleRun, Started
  <2>2. r # x
    BY <1>4, <2>1 DEF Accounted
  <2> QED
    BY <1>4, <2>1, <2>2 DEF Accounted
<1>7. ASSUME NEW x \in Runs, ReserveFails(x)
      PROVE  Goal
  <2>1. /\ reservations' = reservations /\ proc' = proc /\ run[x].state = "started"
        /\ \A y \in Runs : y # x => run'[y] = run[y]
    BY <1>3, <1>7 DEF ReserveFails
  <2>2. r # x
    BY <1>4, <2>1 DEF Accounted
  <2> QED
    BY <1>4, <2>1, <2>2 DEF Accounted
<1>8. ASSUME NEW x \in Runs, Return(x)
      PROVE  Goal
  <2>1. /\ reservations' = reservations /\ proc' = proc
        /\ run[x].state = "returning" /\ run'[x].state = "ended"
        /\ \A y \in Runs : y # x => run'[y] = run[y]
    BY <1>3, <1>8 DEF Return, RunStates
  <2> QED
    BY <1>4, <2>1 DEF Accounted
<1>9. ASSUME NEW x \in Runs, Reserve(x)
      PROVE  Goal
  <2>1. /\ proc' = proc /\ run[x].state = "started" /\ run'[x].state = "holding"
        /\ run'[x].recipient = run[x].recipient /\ run'[x].proc = run[x].proc
        /\ \A y \in Runs : y # x => run'[y] = run[y]
    BY <1>3, <1>9 DEF Reserve, Disabled, RunStates
  <2>2. StoreOf(run[x].proc) \in Stores
    BY <1>3, StoresTyped DEF RunStates
  <2>3. CASE reservations' = reservations
    <3>1. r # x
      BY <1>4, <2>1, <2>3 DEF Accounted
    <3> QED
      BY <1>4, <2>1, <2>3, <3>1 DEF Accounted
  <2>4. CASE reservations' = [reservations EXCEPT
                 ![StoreOf(run[x].proc)] = Put(reservations[StoreOf(run[x].proc)], run[x].recipient, x)]
    <3>1. CASE s = StoreOf(run[x].proc) /\ k = run[x].recipient
      <4>1. reservations'[s][k] = x
        BY <2>2, <2>4, <3>1 DEF Put, TypeOK
      <4> QED
        BY <2>1, <3>1, <4>1 DEF Accounted
    <3>2. CASE ~(s = StoreOf(run[x].proc) /\ k = run[x].recipient)
      <4>1. k \in DOMAIN reservations[s] /\ reservations'[s][k] = r
        <5>1. CASE s = StoreOf(run[x].proc)
          BY <2>2, <2>4, <3>2, <5>1 DEF Put, TypeOK
        <5>2. CASE s # StoreOf(run[x].proc)
          BY <2>2, <2>4, <5>2 DEF TypeOK
        <5> QED
          BY <5>1, <5>2
      <4>2. r # x
        BY <1>4, <2>1, <4>1 DEF Accounted
      <4> QED
        BY <1>4, <2>1, <4>1, <4>2 DEF Accounted
    <3> QED
      BY <3>1, <3>2
  <2> QED
    BY <1>9, <2>3, <2>4 DEF Reserve, Disabled
<1>10. ASSUME NEW x \in Runs, Release(x)
       PROVE  Goal
  <2>1. /\ proc' = proc /\ run[x].state = "holding" /\ run'[x].state = "returning"
        /\ run'[x].proc = run[x].proc
        /\ \A y \in Runs : y # x => run'[y] = run[y]
    BY <1>3, <1>10 DEF Release, RunStates
  <2>2. StoreOf(run[x].proc) \in Stores /\ run[x].proc \in Procs
    BY <1>3, StoresTyped DEF RunStates
  <2>3. CASE ~Reachable(x)
    <3>1. reservations' = reservations /\ kind = "shared" /\ proc[run[x].proc].phase # "up"
      BY <1>10, <2>3 DEF Release, Reachable
    <3>2. CASE r # x
      BY <1>4, <2>1, <3>1, <3>2 DEF Accounted
    <3>3. CASE r = x
      <4>1. s = "shared"
        BY <1>4, <2>1, <3>1, <3>3 DEF Accounted, StoreOf
      <4>2. proc[run[x].proc].phase = "closed"
        BY <1>3, <2>1, <2>2, <3>1 DEF LiveRunsHosted, Live, ProcStates
      <4> QED
        BY <2>1, <3>1, <3>3, <4>1, <4>2 DEF Accounted
    <3> QED
      BY <3>2, <3>3
  <2>4. CASE Reachable(x)
    <3>1. reservations' = [reservations EXCEPT
              ![StoreOf(run[x].proc)] = Drop(reservations[StoreOf(run[x].proc)], run[x].recipient)]
      BY <1>10, <2>4 DEF Release
    <3>2. k \in DOMAIN reservations[s] /\ reservations'[s][k] = r
      BY <2>2, <3>1 DEF Drop, Restrict, TypeOK
    <3>3. ~(s = StoreOf(run[x].proc) /\ k = run[x].recipient)
      BY <2>2, <3>1 DEF Drop, Restrict, TypeOK
    <3>4. r # x
      BY <1>4, <2>1, <3>2, <3>3 DEF Accounted
    <3> QED
      BY <1>4, <2>1, <3>2, <3>4 DEF Accounted
  <2> QED
    BY <2>3, <2>4
<1>11. ASSUME NEW p \in Procs, Gone(p)
       PROVE  Goal
  <2>1. /\ p \in Stores /\ p # "shared" /\ reservations' = [reservations EXCEPT ![p] = EmptyTable]
        /\ proc' = [proc EXCEPT ![p] = Down]
        /\ \A y \in Runs : run'[y] = IF Live(y) /\ run[y].proc = p
                                     THEN [run[y] EXCEPT !.state = "lost"] ELSE run[y]
    BY <1>11, StoresTyped DEF Gone
  <2>2. s # p /\ reservations'[s] = reservations[s]
    BY <2>1 DEF EmptyTable, TypeOK
  <2>3. CASE Live(r) /\ run[r].proc = p
    <3>1. run'[r].state = "lost"
      BY <1>4, <2>1, <2>2, <2>3 DEF RunStates
    <3>2. s = "shared"
      BY <1>4, <2>2, <2>3 DEF Accounted, StoreOf
    <3> QED
      BY <2>2, <3>1, <3>2 DEF Accounted
  <2>4. CASE ~(Live(r) /\ run[r].proc = p)
    <3>1. run'[r] = run[r]
      BY <1>4, <2>1, <2>2, <2>4
    <3>2. run[r].state = "returning" => proc'[run[r].proc] = proc[run[r].proc]
      BY <1>3, <1>4, <2>1, <2>2, <2>4 DEF Live
    <3> QED
      BY <1>4, <2>2, <3>1, <3>2 DEF Accounted
  <2> QED
    BY <2>3, <2>4
<1>12. ASSUME NEW j \in Recipients, Expire(j)
       PROVE  Goal
  <2>1. run' = run /\ proc' = proc
    BY <1>12 DEF Expire
  <2>2. k \in DOMAIN reservations[s] /\ reservations'[s][k] = r
    <3>1. "shared" \in Stores
      BY DEF Stores
    <3> QED
      BY <1>12, <3>1 DEF Expire, Drop, Restrict, TypeOK
  <2> QED
    BY <1>4, <2>1, <2>2 DEF Accounted
<1>13. ASSUME NEW p \in Procs,
              \/ Boot(p) \/ BootFails(p) \/ Signal(p) \/ ListenFails(p) \/ CloseListener(p)
              \/ ServeReturns(p) \/ Drained(p) \/ TimesOut(p) \/ StopCron(p) \/ CloseStore(p)
       PROVE  Goal
  <2>1. reservations' = reservations /\ run' = run
    BY <1>13 DEF Boot, BootFails, Signal, ListenFails, CloseListener, ServeReturns, Drained,
                 TimesOut, StopCron, CloseStore
  <2>2. \A q \in Procs : proc[q].phase = "closed" => proc'[q].phase = "closed"
    <3>1. \A q \in Procs : q # p => proc'[q] = proc[q]
      BY <1>3, <1>13 DEF Boot, BootFails, Signal, ListenFails, CloseListener, ServeReturns, Drained,
                         TimesOut, StopCron, CloseStore
    <3>2. proc[p].phase # "closed" \/ proc' = proc
      BY <1>13 DEF Boot, BootFails, Signal, ListenFails, CloseListener, ServeReturns, Drained,
                   TimesOut, StopCron, CloseStore
    <3> QED
      BY <3>1, <3>2
  <2> QED
    BY <1>5, <2>1, <2>2
<1> HIDE DEF Goal
<1>14. Goal
  BY <1>6, <1>7, <1>8, <1>9, <1>10, <1>11, <1>12, <1>13 DEF Next, RunStep, ShutdownStep, Exit, Crash
<1> QED
  BY <1>14 DEF Goal

LEMMA RunsStayHosted ==
    ASSUME TypeOK, LiveRunsHosted, Next
    PROVE  LiveRunsHosted'
<1>1. proc \in [Procs -> ProcStates] /\ run \in [Runs -> RunStates]
  BY DEF TypeOK
<1> SUFFICES ASSUME NEW r \in Runs, Live(r)'
             PROVE  proc'[run'[r].proc].phase # "down"
  BY DEF LiveRunsHosted
<1>2. run[r].proc \in Procs /\ (Live(r) => proc[run[r].proc].phase # "down")
  BY <1>1 DEF LiveRunsHosted, RunStates
<1>3. ASSUME NEW p \in Procs, NEW t \in Tests, NEW x \in Runs, Fire(p, t, x) \/ HandleRun(p, t, x)
      PROVE  proc'[run'[r].proc].phase # "down"
  <2>1. /\ proc' = proc /\ proc[p].phase = "up" /\ run'[x].proc = p
        /\ r # x => run'[r] = run[r]
    BY <1>1, <1>3 DEF Fire, HandleRun, Started
  <2> QED
    BY <1>2, <2>1 DEF Live
<1>4. ASSUME NEW x \in Runs, RunStep(x)
      PROVE  proc'[run'[r].proc].phase # "down"
  <2>1. /\ proc' = proc /\ Live(x) /\ run'[x].proc = run[x].proc
        /\ r # x => run'[r] = run[r]
    BY <1>1, <1>4 DEF RunStep, Reserve, Disabled, ReserveFails, Release, Return, RunStates, Live
  <2> QED
    BY <1>2, <2>1 DEF Live
<1>5. ASSUME NEW p \in Procs, Gone(p)
      PROVE  proc'[run'[r].proc].phase # "down"
  <2>1. run'[r] = run[r] /\ run[r].proc # p
    BY <1>1, <1>5 DEF Gone, Live, RunStates
  <2>2. proc'[run[r].proc] = proc[run[r].proc]
    BY <1>1, <1>2, <1>5, <2>1 DEF Gone
  <2> QED
    BY <1>2, <2>1, <2>2 DEF Live
<1>6. ASSUME NEW p \in Procs,
             \/ Boot(p) \/ BootFails(p) \/ Signal(p) \/ ListenFails(p) \/ CloseListener(p)
             \/ ServeReturns(p) \/ Drained(p) \/ TimesOut(p) \/ StopCron(p) \/ CloseStore(p)
      PROVE  proc'[run'[r].proc].phase # "down"
  <2>1. run' = run
    BY <1>6 DEF Boot, BootFails, Signal, ListenFails, CloseListener, ServeReturns, Drained,
                TimesOut, StopCron, CloseStore
  <2>2. \A q \in Procs : q # p => proc'[q] = proc[q]
    BY <1>1, <1>6 DEF Boot, BootFails, Signal, ListenFails, CloseListener, ServeReturns, Drained,
                      TimesOut, StopCron, CloseStore
  <2>3. proc'[p] = proc[p] \/ proc'[p].phase # "down"
    <3>1. CASE Boot(p) \/ BootFails(p)
      BY <1>1, <3>1 DEF Boot, BootFails, Down
    <3>2. CASE Signal(p) \/ ListenFails(p) \/ CloseListener(p) \/ ServeReturns(p)
      BY <1>1, <3>2 DEF Signal, ListenFails, CloseListener, ServeReturns, ProcStates
    <3>3. CASE Drained(p) \/ TimesOut(p) \/ StopCron(p) \/ CloseStore(p)
      BY <1>1, <3>3 DEF Drained, TimesOut, StopCron, CloseStore, ProcStates
    <3> QED
      BY <1>6, <3>1, <3>2, <3>3
  <2> QED
    BY <1>2, <2>1, <2>2, <2>3 DEF Live
<1>7. ASSUME NEW j \in Recipients, Expire(j)
      PROVE  proc'[run'[r].proc].phase # "down"
  BY <1>2, <1>7 DEF Expire, Live
<1> QED
  BY <1>3, <1>4, <1>5, <1>6, <1>7 DEF Next, ShutdownStep, Exit, Crash

(* A recipient stays reserved without its run only where the end of a      *)
(* process cut the run short, for every number of processes, runs and      *)
(* starts, and also when runs can outlive their reservations.              *)
THEOREM OrphansCorrect == Spec => []OrphansAreInterrupted
<1>1. Init => LiveRunsHosted /\ OrphansAreInterrupted
  BY DEF Init, LiveRunsHosted, OrphansAreInterrupted, Live, Unused, EmptyTable
<1>2. TypeOK /\ LiveRunsHosted /\ OrphansAreInterrupted /\ [Next]_vars
          => LiveRunsHosted' /\ OrphansAreInterrupted'
  <2>1. LiveRunsHosted /\ OrphansAreInterrupted /\ UNCHANGED vars
            => LiveRunsHosted' /\ OrphansAreInterrupted'
    BY DEF LiveRunsHosted, OrphansAreInterrupted, Live, StoreOf, Stores, vars
  <2> QED
    BY <2>1, OrphansStayInterrupted, RunsStayHosted
<1>3. Spec => []TypeOK
  BY LifecycleTypeCorrect
<1> QED
  BY <1>1, <1>2, <1>3, PTL DEF Spec
============================================================================
