------------------------------ MODULE Lifecycle ----------------------------
(***************************************************************************)
(* cmd/server/main.go and adapters/primary/cron: processes of the service  *)
(* that start, serve requests and schedules, get a signal or fail to       *)
(* listen, shut down, crash and start again, while the runs they have      *)
(* started hold recipients in a store that may outlive them.               *)
(*                                                                         *)
(* A run is what Orchestrator models in detail: it reserves its recipient  *)
(* or fails, works, releases, hands over its result.  A test has one       *)
(* recipient.  Configuration, registries and log lines are left out.       *)
(***************************************************************************)
EXTENDS Naturals, FiniteSets, Tables

CONSTANTS Procs,           \* processes of the service
          Runs,            \* run identifiers
          Tests,           \* def.ID of the enabled tests
          Scheduled,       \* the tests with a schedule cron accepts
          Async,           \* the tests with async: true
          Recipients,
          Recipient,       \* the recipient each test reserves
          RunsOutliveTTL,  \* whether a run can outlive reservationTTL
          MaxStarts        \* bound on the starts of processes

ASSUME LifecycleAssumption ==
    /\ Scheduled \subseteq Tests /\ Async \subseteq Tests
    /\ Recipient \in [Tests -> Recipients]
    /\ Recipients # {} /\ Procs # {} /\ "shared" \notin Procs
    /\ RunsOutliveTTL \in BOOLEAN
    /\ MaxStarts \in Nat

VARIABLES kind,           \* store.type: "shared" is redis or postgres
          starts,         \* processes started so far
          proc,           \* the main goroutine and the errgroup of a process
          run,            \* the runs, in whatever process
          reservations    \* per store: recipient -> run

vars == <<kind, starts, proc, run, reservations>>

----------------------------------------------------------------------------
(*   ctx        gCtx, until a signal or the first error of the errgroup    *)
(*   serve      the goroutine in ListenAndServe                            *)
(*   stop       the goroutine in apiServer.Stop: waits for gCtx, then in   *)
(*              Shutdown, which returns nil or its deadline's error        *)
(*   cron       the scheduler                                              *)
Down == [phase |-> "down", ctx |-> "live", serve |-> "idle", stop |-> "idle",
         cron |-> "off"]

ProcStates ==
    [phase : {"down", "up", "closed"}, ctx : {"live", "done"},
     serve : {"idle", "serving", "returned"},
     stop : {"idle", "shutdown", "drained", "timedout"},
     cron : {"on", "off"}]

(*   state   "returning": all done but for handing over the result         *)
(*   waiter  whether a client is waiting for it with an open connection    *)
RunStates ==
    [state : {"unused", "started", "holding", "returning", "ended", "lost"},
     waiter : BOOLEAN, recipient : Recipients, proc : Procs]

Unused == [state |-> "unused", waiter |-> FALSE,
           recipient |-> CHOOSE k \in Recipients : TRUE, proc |-> CHOOSE p \in Procs : TRUE]

Live(r) == run[r].state \in {"started", "holding", "returning"}

Stores == Procs \cup {"shared"}

StoreOf(p) == IF kind = "shared" THEN "shared" ELSE p

Init ==
    /\ kind \in {"shared", "memory", "disabled"}
    /\ starts = 0
    /\ proc = [p \in Procs |-> Down]
    /\ run = [r \in Runs |-> Unused]
    /\ reservations = [s \in Stores |-> EmptyTable]

----------------------------------------------------------------------------
(* main, up to the errgroup: the store is made, the schedules registered,  *)
(* the listener and the scheduler started.                                 *)
Boot(p) ==
    /\ proc[p].phase = "down"
    /\ starts < MaxStarts
    /\ starts' = starts + 1
    /\ proc' = [proc EXCEPT ![p] = [Down EXCEPT !.phase = "up", !.serve = "serving",
                                               !.cron = "on"]]
    /\ UNCHANGED <<kind, run, reservations>>

(* A configuration, a test file, a store or a test group that will not do: *)
(* Fatal ends the process before it has started anything.                  *)
BootFails(p) ==
    /\ proc[p].phase = "down"
    /\ starts < MaxStarts
    /\ starts' = starts + 1
    /\ UNCHANGED <<kind, proc, run, reservations>>

\* Mutant of Started: the status the API reports as the run's own state.
StartedRunning(r, p, t, waiter) ==
    run' = [run EXCEPT ![r] = [state |-> "running", waiter |-> waiter,
                               recipient |-> Recipient[t], proc |-> p]]

Started(r, p, t, waiter) ==
    run' = [run EXCEPT ![r] = [state |-> "started", waiter |-> waiter,
                               recipient |-> Recipient[t], proc |-> p]]

(* A schedule fires, whether or not the run before it has ended.  Only     *)
(* cron.Stop keeps it from firing, not the signal.                         *)
Fire(p, t, r) ==
    /\ proc[p].phase = "up" /\ proc[p].cron = "on"
    /\ t \in Scheduled
    /\ run[r].state = "unused"
    /\ Started(r, p, t, FALSE)
    /\ UNCHANGED <<kind, starts, proc, reservations>>

(* A request to run a test, while there are connections: Shutdown has      *)
(* closed the listener, but waits for the connections accepted before.     *)
HandleRun(p, t, r) ==
    /\ proc[p].phase = "up" /\ proc[p].stop # "drained"
    /\ run[r].state = "unused"
    /\ Started(r, p, t, t \notin Async)
    /\ UNCHANGED <<kind, starts, proc, reservations>>

----------------------------------------------------------------------------
(* A run.  The disabled store answers every call with nil; a store that is *)
(* closed answers none.                                                    *)
Disabled == kind = "disabled"

Reachable(r) == proc[run[r].proc].phase = "up" \/ kind # "shared"

Reserved(r) == run[r].recipient \in DOMAIN reservations[StoreOf(run[r].proc)]

\* Mutant of Reserve: the reservation is looked up in the process's own store.
ReserveLocally(r) ==
    /\ run[r].state = "started"
    /\ Reachable(r)
    /\ run[r].recipient \notin DOMAIN reservations[run[r].proc]
    /\ reservations' = [reservations EXCEPT ![run[r].proc] = Put(@, run[r].recipient, r)]
    /\ run' = [run EXCEPT ![r].state = "holding"]
    /\ UNCHANGED <<kind, starts, proc>>

Reserve(r) ==
    /\ run[r].state = "started"
    /\ Reachable(r)
    /\ IF Disabled
       THEN UNCHANGED reservations
       ELSE /\ ~Reserved(r)
            /\ reservations' = [reservations EXCEPT ![StoreOf(run[r].proc)] = Put(@, run[r].recipient, r)]
    /\ run' = [run EXCEPT ![r].state = "holding"]
    /\ UNCHANGED <<kind, starts, proc>>

ReserveFails(r) ==
    /\ run[r].state = "started"
    /\ Reserved(r) \/ ~Reachable(r)
    /\ run' = [run EXCEPT ![r].state = "returning"]
    /\ UNCHANGED <<kind, starts, proc, reservations>>

\* Mutant of Release: the release is given gCtx, which a signal cancels.
ReleaseUntilSignal(r) ==
    /\ run[r].state = "holding"
    /\ reservations' = IF Reachable(r) /\ proc[run[r].proc].ctx = "live"
                       THEN [reservations EXCEPT ![StoreOf(run[r].proc)] = Drop(@, run[r].recipient)]
                       ELSE reservations
    /\ run' = [run EXCEPT ![r].state = "returning"]
    /\ UNCHANGED <<kind, starts, proc>>

(* The deferred release; an error of the store is dropped. *)
Release(r) ==
    /\ run[r].state = "holding"
    /\ reservations' = IF Reachable(r)
                       THEN [reservations EXCEPT ![StoreOf(run[r].proc)] = Drop(@, run[r].recipient)]
                       ELSE reservations
    /\ run' = [run EXCEPT ![r].state = "returning"]
    /\ UNCHANGED <<kind, starts, proc>>

(* The result is handed over: the request is answered. *)
Return(r) ==
    /\ run[r].state = "returning"
    /\ run' = [run EXCEPT ![r].state = "ended"]
    /\ UNCHANGED <<kind, starts, proc, reservations>>

----------------------------------------------------------------------------
(* SIGINT or SIGTERM. *)
Signal(p) ==
    /\ proc[p].phase = "up"
    /\ proc[p].ctx = "live"
    /\ proc' = [proc EXCEPT ![p].ctx = "done"]
    /\ UNCHANGED <<kind, starts, run, reservations>>

(* The port is taken, or accepting fails: the first error of the errgroup  *)
(* cancels gCtx.                                                           *)
ListenFails(p) ==
    /\ proc[p].phase = "up" /\ proc[p].serve = "serving" /\ proc[p].stop = "idle"
    /\ proc' = [proc EXCEPT ![p].ctx = "done", ![p].serve = "returned"]
    /\ UNCHANGED <<kind, starts, run, reservations>>

(* apiServer.Stop: Shutdown closes the listener and begins to wait. *)
CloseListener(p) ==
    /\ proc[p].phase = "up" /\ proc[p].ctx = "done" /\ proc[p].stop = "idle"
    /\ proc' = [proc EXCEPT ![p].stop = "shutdown"]
    /\ UNCHANGED <<kind, starts, run, reservations>>

(* ListenAndServe returns at once, long before Shutdown does. *)
ServeReturns(p) ==
    /\ proc[p].phase = "up" /\ proc[p].serve = "serving" /\ proc[p].stop # "idle"
    /\ proc' = [proc EXCEPT ![p].serve = "returned"]
    /\ UNCHANGED <<kind, starts, run, reservations>>

(* The requests a client still waits for.  Neither an async run nor a cron *)
(* job keeps a connection open.                                            *)
OpenRequests(p) == {r \in Runs : Live(r) /\ run[r].waiter /\ run[r].proc = p}

Drained(p) ==
    /\ proc[p].phase = "up" /\ proc[p].stop = "shutdown"
    /\ OpenRequests(p) = {}
    /\ proc' = [proc EXCEPT ![p].stop = "drained"]
    /\ UNCHANGED <<kind, starts, run, reservations>>

\* Mutant of TimesOut: Shutdown with a context that has no deadline.
TimesOutNever(p) ==
    /\ proc[p].phase = "up" /\ proc[p].stop = "shutdown"
    /\ OpenRequests(p) = {}
    /\ proc' = [proc EXCEPT ![p].stop = "timedout"]
    /\ UNCHANGED <<kind, starts, run, reservations>>

(* Five seconds have passed. *)
TimesOut(p) ==
    /\ proc[p].phase = "up" /\ proc[p].stop = "shutdown"
    /\ OpenRequests(p) # {}
    /\ proc' = [proc EXCEPT ![p].stop = "timedout"]
    /\ UNCHANGED <<kind, starts, run, reservations>>

(* cron.Stop does not wait for the jobs that run. *)
StopCron(p) ==
    /\ proc[p].phase = "up" /\ proc[p].ctx = "done" /\ proc[p].cron = "on"
    /\ proc' = [proc EXCEPT ![p].cron = "off"]
    /\ UNCHANGED <<kind, starts, run, reservations>>

\* Mutant of CloseStore: main returns when ListenAndServe does.
CloseStoreEarly(p) ==
    /\ proc[p].phase = "up"
    /\ proc[p].serve = "returned" /\ proc[p].cron = "off"
    /\ proc' = [proc EXCEPT ![p].phase = "closed"]
    /\ UNCHANGED <<kind, starts, run, reservations>>

(* g.Wait returns when all three goroutines have; the deferred calls close *)
(* the store.                                                              *)
CloseStore(p) ==
    /\ proc[p].phase = "up"
    /\ proc[p].serve = "returned" /\ proc[p].cron = "off"
    /\ proc[p].stop \in {"drained", "timedout"}
    /\ proc' = [proc EXCEPT ![p].phase = "closed"]
    /\ UNCHANGED <<kind, starts, run, reservations>>

(* The process is gone, and with it the goroutines of its runs and all it  *)
(* kept in memory.                                                         *)
Gone(p) ==
    /\ proc' = [proc EXCEPT ![p] = Down]
    /\ run' = [r \in Runs |-> IF Live(r) /\ run[r].proc = p
                              THEN [run[r] EXCEPT !.state = "lost"] ELSE run[r]]
    /\ reservations' = [reservations EXCEPT ![p] = EmptyTable]
    /\ UNCHANGED <<kind, starts>>

Exit(p) == proc[p].phase = "closed" /\ Gone(p)

(* A kill, a panic, the runtime's fatal error. *)
Crash(p) == proc[p].phase = "up" /\ Gone(p)

(* reservationTTL passes in a store that outlives the processes. *)
Expire(k) ==
    LET t == reservations["shared"] IN
    /\ k \in DOMAIN t
    /\ RunsOutliveTTL \/ ~Live(t[k])
    /\ reservations' = [reservations EXCEPT !["shared"] = Drop(@, k)]
    /\ UNCHANGED <<kind, starts, proc, run>>

----------------------------------------------------------------------------
RunStep(r) == Reserve(r) \/ ReserveFails(r) \/ Release(r) \/ Return(r)

ShutdownStep(p) ==
    \/ CloseListener(p) \/ ServeReturns(p) \/ Drained(p) \/ TimesOut(p)
    \/ StopCron(p) \/ CloseStore(p) \/ Exit(p)

Next ==
    \/ \E p \in Procs : Boot(p) \/ BootFails(p) \/ Signal(p) \/ ListenFails(p) \/ Crash(p)
    \/ \E p \in Procs : ShutdownStep(p)
    \/ \E p \in Procs, t \in Tests, r \in Runs : Fire(p, t, r) \/ HandleRun(p, t, r)
    \/ \E r \in Runs : RunStep(r)
    \/ \E k \in Recipients : Expire(k)

Spec == Init /\ [][Next]_vars

(* The goroutines of a process that is shutting down are scheduled, five   *)
(* seconds pass.  Nothing makes a run end: a receiver may wait for ever    *)
(* (RunsEnd of Orchestrator says when it does not).                        *)
Fairness == \A p \in Procs : WF_vars(ShutdownStep(p))

FairSpec == Spec /\ Fairness

----------------------------------------------------------------------------
(* The states of processes and runs and the tables have their types.       *)
TypeOK ==
    /\ kind \in {"shared", "memory", "disabled"}
    /\ starts \in 0 .. MaxStarts
    /\ proc \in [Procs -> ProcStates]
    /\ run \in [Runs -> RunStates]
    /\ reservations = [s \in Stores |-> reservations[s]]
    /\ \A s \in Stores : IsTable(reservations[s], Recipients, Runs)

(* Two live runs that share a store never hold one recipient: not when a   *)
(* schedule fires into a run that is still going, not in two processes on  *)
(* one Redis, and not after a crash and a restart.                         *)
LiveRunsExclusive ==
    kind # "disabled" =>
        \A r, s \in Runs :
            (/\ r # s
             /\ run[r].state = "holding" /\ run[s].state = "holding"
             /\ StoreOf(run[r].proc) = StoreOf(run[s].proc)) => run[r].recipient # run[s].recipient

(* What keeps LiveRunsExclusive inductive: the store has the recipient of  *)
(* a run that holds it under the run's name.                               *)
HoldersRecorded ==
    kind # "disabled" =>
        \A r \in Runs :
            run[r].state = "holding" =>
                LET t == reservations[StoreOf(run[r].proc)] IN
                run[r].recipient \in DOMAIN t /\ t[run[r].recipient] = r

(* A recipient stays reserved without a run that holds it only where the   *)
(* end of a process cut the run short, in a store that outlives the        *)
(* process: the process was gone, or main had closed the store, before the *)
(* deferred release.  A run that a signal, a failed listener or Shutdown's *)
(* deadline finds holding still gives its recipient back while main has    *)
(* not returned, and memory keeps nothing for the next start (a release    *)
(* the store fails to answer is in Orchestrator, StoreMayFail).            *)
OrphansAreInterrupted ==
    \A s \in Stores : \A k \in DOMAIN reservations[s] :
        LET r == reservations[s][k] IN
        \/ run[r].state = "holding" /\ run[r].recipient = k /\ StoreOf(run[r].proc) = s
        \/ /\ s = "shared"
           /\ \/ run[r].state \in {"ended", "lost"}
              \/ run[r].state = "returning" /\ proc[run[r].proc].phase = "closed"

(* What keeps OrphansAreInterrupted inductive: no run outlives its process.*)
LiveRunsHosted == \A r \in Runs : Live(r) => proc[run[r].proc].phase # "down"

(* A process that ends after a signal or a failure to listen has answered  *)
(* its requests, unless the five seconds of Shutdown were not enough:      *)
(* ListenAndServe returns at once, and main must not leave with it.        *)
OrderlyEndAnswers ==
    \A p \in Procs :
        (proc[p].phase = "closed" /\ OpenRequests(p) # {}) => proc[p].stop = "timedout"

(* What keeps OrderlyEndAnswers inductive: no request comes in once the    *)
(* connections are drained, and main leaves only after Stop has returned.  *)
StopOrder ==
    \A p \in Procs :
        /\ proc[p].stop = "drained" => OpenRequests(p) = {}
        /\ proc[p].phase = "closed" => proc[p].stop \in {"drained", "timedout"}

(* After a signal or a failure to listen the process ends, whatever its    *)
(* runs are waiting for.                                                   *)
ShutdownEnds == \A p \in Procs : (proc[p].ctx = "done") ~> (proc[p].phase = "down")
============================================================================
