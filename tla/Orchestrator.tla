---------------------------- MODULE Orchestrator ---------------------------
(***************************************************************************)
(* internal/core/services/orchestrator.go: test runs, each a goroutine     *)
(* started by RunTest, that share the store of reservations and messages.  *)
(* A run executes the triggers of its definition one after the other:      *)
(* reserve the step's recipients, fire the trigger, collect the answers    *)
(* with one goroutine per receiver, retry; the deferred releases run when  *)
(* executeSequential returns, then the failure notification is spawned and *)
(* the result is sent to whoever started the run.                          *)
(*                                                                         *)
(* A step of the model is one call that other goroutines can observe.  The *)
(* store is the one of StoreContract.  Sleeps (delay_before, retry.delay)  *)
(* are stuttering; template variables, log lines and texts are left out.   *)
(* A message is the class of contents the assertions tell apart.           *)
(***************************************************************************)
EXTENDS Integers, Sequences, FiniteSets, Tables

CONSTANTS Runs,                 \* run identifiers (RunTest makes a fresh one)
          Def,                  \* the test definition each run executes
          Recipients,           \* non-empty recipients of receivers
          Payloads,             \* classes of messages
          StoreMayFail,         \* whether store calls can return an error
          ReservationsExpire,   \* whether a run can outlive reservationTTL
          MaxDeposits           \* bound on the messages that come in

Types == {"webhook", "api", "imap"}

Statuses == {"passed", "failed", "error", "skipped"}

(* A receiver: verdict is what its assertions make of each class of        *)
(* message, timed whether rcfg.Timeout > 0.                                *)
ReceiverConfigs ==
    [type : Types, recipient : Recipients \cup {""}, timed : BOOLEAN,
     verdict : [Payloads -> {"passed", "failed", "error"}]]

TriggerConfigs ==
    [known : BOOLEAN,     \* o.triggers.Create knows the type
     wait : BOOLEAN,      \* wait_for_receivers
     receivers : Seq(ReceiverConfigs)]

TestDefinitions ==
    [enabled : BOOLEAN, retryEnabled : BOOLEAN, retryAttempts : Nat,
     triggers : Seq(TriggerConfigs)]

ASSUME DefAssumption ==
    /\ Def \in [Runs -> TestDefinitions]
    /\ "" \notin Recipients
    /\ StoreMayFail \in BOOLEAN
    /\ ReservationsExpire \in BOOLEAN
    /\ MaxDeposits \in Nat

ResKeys == Types \X Recipients

MsgKeys == Runs \X Types

VARIABLES run,            \* the locals of each run's goroutine
          result,         \* its *domain.TestResult
          reservations,   \* the store: <<channel, recipient>> -> run
          messages,       \* the store: <<run, receiver type>> -> message
          deposits        \* messages deposited so far

vars == <<run, result, reservations, messages, deposits>>

----------------------------------------------------------------------------
(* The locals of a run.                                                    *)
(*   taken     the slice reserveRecipients is filling                      *)
(*   deferred  the keys the deferred releaseRecipients will release, in    *)
(*             the order they will: the last step's first                  *)
(*   waiting   the receivers whose goroutine is in Collect                 *)
(*   got       <<i, m>>: receiver i, whose Collect has returned message m  *)
(*   open      receivers started and not stopped: <<step, attempt, index>> *)
(*   notify    the notifyFailure goroutine                                 *)
PCs == {"new", "step", "reserve", "attempt", "start", "collect", "stop", "giveup",
        "release", "deliver", "done"}

NewRun == [pc |-> "new", step |-> 0, attempt |-> 0, cursor |-> 0,
           taken |-> << >>, deferred |-> << >>, lastTriggerErr |-> FALSE,
           waiting |-> {}, got |-> {}, open |-> {}, notify |-> "none"]

NewResult == [status |-> "passed", error |-> "", attempts |-> 0, receivers |-> << >>]

At(r, pc) == run[r].pc = pc

Triggers(r) == Def[r].triggers

Receivers(r) == Triggers(r)[run[r].step].receivers

Receiver(r, i) == Receivers(r)[i]

Key(rc) == <<rc.type, rc.recipient>>

MaxAttempts(r) ==
    IF Def[r].retryEnabled /\ Def[r].retryAttempts > 1 THEN Def[r].retryAttempts ELSE 1

\* Mutant of FailResult: the status the API gives a run in progress.
FailResultRunning(r, err) == [result EXCEPT ![r].status = "running", ![r].error = err]

FailResult(r, err) == [result EXCEPT ![r].status = "error", ![r].error = err]

Init ==
    /\ run = [r \in Runs |-> NewRun]
    /\ result = [r \in Runs |-> NewResult]
    /\ reservations = EmptyTable
    /\ messages = EmptyTable
    /\ deposits = 0

----------------------------------------------------------------------------
(* execute: a disabled test is skipped, its result sent as it is. *)
Begin(r) ==
    /\ At(r, "new")
    /\ IF Def[r].enabled
       THEN run' = [run EXCEPT ![r].pc = "step", ![r].step = 1] /\ UNCHANGED result
       ELSE /\ run' = [run EXCEPT ![r].pc = "deliver"]
            /\ result' = [result EXCEPT ![r].status = "skipped"]
    /\ UNCHANGED <<reservations, messages, deposits>>

(* The loop over def.Triggers: its end, and o.triggers.Create. *)
NextStep(r) ==
    /\ At(r, "step")
    /\ IF run[r].step > Len(Triggers(r))
       THEN run' = [run EXCEPT ![r].pc = "release"] /\ UNCHANGED result
       ELSE IF Triggers(r)[run[r].step].known
       THEN run' = [run EXCEPT ![r].pc = "reserve", ![r].cursor = 1] /\ UNCHANGED result
       ELSE run' = [run EXCEPT ![r].pc = "release"] /\ result' = FailResult(r, "create")
    /\ UNCHANGED <<reservations, messages, deposits>>

(* reserveRecipients, one Reserve call at a time. *)
Reserving(r) == At(r, "reserve") /\ run[r].cursor <= Len(Receivers(r))

SkipEmptyRecipient(r) ==
    /\ Reserving(r)
    /\ Receiver(r, run[r].cursor).recipient = ""
    /\ run' = [run EXCEPT ![r].cursor = @ + 1]
    /\ UNCHANGED <<result, reservations, messages, deposits>>

\* Mutant of Reserve: the reservation overwrites the one that is there.
ReserveOverwrites(r) ==
    LET rc == Receiver(r, run[r].cursor) IN
    /\ Reserving(r)
    /\ rc.recipient # ""
    /\ reservations' = Put(reservations, Key(rc), r)
    /\ run' = [run EXCEPT ![r].cursor = @ + 1, ![r].taken = Append(@, Key(rc))]
    /\ UNCHANGED <<result, messages, deposits>>

Reserve(r) ==
    LET rc == Receiver(r, run[r].cursor) IN
    /\ Reserving(r)
    /\ rc.recipient # ""
    /\ Key(rc) \notin DOMAIN reservations
    /\ reservations' = Put(reservations, Key(rc), r)
    /\ run' = [run EXCEPT ![r].cursor = @ + 1, ![r].taken = Append(@, Key(rc))]
    /\ UNCHANGED <<result, messages, deposits>>

\* Mutant of ReserveFails: a conflict waits until the recipient is free.
ReserveWaits(r) ==
    LET rc == Receiver(r, run[r].cursor) IN
    /\ Reserving(r)
    /\ rc.recipient # ""
    /\ Key(rc) \in DOMAIN reservations
    /\ UNCHANGED vars

(* A conflict, or an error of the store (which may have made the           *)
(* reservation all the same): executeSequential returns before it defers   *)
(* the release, so what the step has taken so far stays reserved.          *)
ReserveFails(r) ==
    LET rc == Receiver(r, run[r].cursor) IN
    /\ Reserving(r)
    /\ rc.recipient # ""
    /\ \/ Key(rc) \in DOMAIN reservations /\ UNCHANGED reservations
       \/ StoreMayFail /\ UNCHANGED reservations
       \/ StoreMayFail /\ Key(rc) \notin DOMAIN reservations
                       /\ reservations' = Put(reservations, Key(rc), r)
    /\ result' = FailResult(r, "reserve")
    /\ run' = [run EXCEPT ![r].pc = "release", ![r].taken = << >>]
    /\ UNCHANGED <<messages, deposits>>

\* Mutant of DeferRelease: the release is deferred only for a step that waits.
DeferReleaseIfWaiting(r) ==
    /\ At(r, "reserve")
    /\ run[r].cursor > Len(Receivers(r))
    /\ run' = [run EXCEPT ![r].pc = "attempt", ![r].attempt = 1,
                          ![r].lastTriggerErr = FALSE, ![r].taken = << >>,
                          ![r].deferred = IF Triggers(r)[run[r].step].wait
                                          THEN run[r].taken \o @ ELSE @]
    /\ UNCHANGED <<result, reservations, messages, deposits>>

(* defer o.releaseRecipients(ctx, reserved), and into the attempt loop. *)
DeferRelease(r) ==
    /\ At(r, "reserve")
    /\ run[r].cursor > Len(Receivers(r))
    /\ run' = [run EXCEPT ![r].pc = "attempt", ![r].attempt = 1,
                          ![r].lastTriggerErr = FALSE, ![r].taken = << >>,
                          ![r].deferred = run[r].taken \o @]
    /\ UNCHANGED <<result, reservations, messages, deposits>>

----------------------------------------------------------------------------
(* The end of an attempt that did not pass the step. *)
RetryOrGiveUp(r) ==
    IF run[r].attempt < MaxAttempts(r)
    THEN [run[r] EXCEPT !.pc = "attempt", !.attempt = @ + 1]
    ELSE [run[r] EXCEPT !.pc = "giveup"]

StepPassed(r) == [run[r] EXCEPT !.pc = "step", !.step = @ + 1]

CountAttempt(r) == [result EXCEPT ![r].attempts = @ + 1]

TriggerFails(r) ==
    /\ At(r, "attempt")
    /\ result' = CountAttempt(r)
    /\ run' = [run EXCEPT ![r] = [RetryOrGiveUp(r) EXCEPT !.lastTriggerErr = TRUE]]
    /\ UNCHANGED <<reservations, messages, deposits>>

(* A step that waits for no receiver has passed, and sets result.Status. *)
NothingToWaitFor(r) ==
    ~Triggers(r)[run[r].step].wait \/ Receivers(r) = << >>

TriggerFires(r) ==
    /\ At(r, "attempt")
    /\ IF NothingToWaitFor(r)
       THEN /\ run' = [run EXCEPT ![r] = StepPassed(r)]
            /\ result' = [CountAttempt(r) EXCEPT ![r].status = "passed"]
       ELSE /\ run' = [run EXCEPT ![r].pc = "start", ![r].cursor = 1]
            /\ result' = CountAttempt(r)
    /\ UNCHANGED <<reservations, messages, deposits>>

(* startReceivers: Create and Start, one receiver at a time. *)
StartReceiver(r) ==
    /\ At(r, "start")
    /\ run[r].cursor <= Len(Receivers(r))
    /\ run' = [run EXCEPT ![r].cursor = @ + 1,
                          ![r].open = @ \cup {<<run[r].step, run[r].attempt, run[r].cursor>>}]
    /\ UNCHANGED <<result, reservations, messages, deposits>>

(* A mail server can refuse the connection, the login or the mailbox, an   *)
(* API receiver lacks its URL; a webhook receiver starts.                  *)
CanFailToStart(rc) == rc.type \in {"imap", "api"}

(* The attempt loop is left, and the receivers already started stay open.  *)
StartFails(r) ==
    /\ At(r, "start")
    /\ run[r].cursor <= Len(Receivers(r))
    /\ CanFailToStart(Receiver(r, run[r].cursor))
    /\ result' = FailResult(r, "start")
    /\ run' = [run EXCEPT ![r].pc = "giveup"]
    /\ UNCHANGED <<reservations, messages, deposits>>

(* collectAndAssertAll: one goroutine per receiver. *)
BeginCollect(r) ==
    /\ At(r, "start")
    /\ run[r].cursor > Len(Receivers(r))
    /\ run' = [run EXCEPT ![r].pc = "collect",
                          ![r].waiting = 1 .. Len(Receivers(r))]
    /\ UNCHANGED <<result, reservations, messages, deposits>>

----------------------------------------------------------------------------
(* The goroutine of receiver i of run r. *)
Collecting(r, i) == i \in run[r].waiting

Collected(r, i, m) ==
    [run EXCEPT ![r].waiting = @ \ {i}, ![r].got = @ \cup {<<i, m>>}]

(* The webhook receiver's tick that finds a message in the store. *)
ClaimMessage(r, i) ==
    /\ Collecting(r, i)
    /\ Receiver(r, i).type = "webhook"
    /\ <<r, "webhook">> \in DOMAIN messages
    /\ run' = Collected(r, i, messages[<<r, "webhook">>])
    /\ UNCHANGED <<result, reservations, messages, deposits>>

(* The polled API answers with the status and the contents it is asked     *)
(* for.  Any other answer is tried again, whatever is wrong with it.       *)
PollSucceeds(r, i) ==
    /\ Collecting(r, i)
    /\ Receiver(r, i).type = "api"
    /\ \E m \in Payloads : run' = Collected(r, i, m)
    /\ UNCHANGED <<result, reservations, messages, deposits>>

(* A mail with the run id in its subject or body is in the mailbox; nobody *)
(* takes it out.                                                           *)
MailFound(r, i) ==
    /\ Collecting(r, i)
    /\ Receiver(r, i).type = "imap"
    /\ \E m \in Payloads : run' = Collected(r, i, m)
    /\ UNCHANGED <<result, reservations, messages, deposits>>

\* Mutant of Merged: the last receiver to end decides, whatever came before.
LastOneWins(res, status, step) ==
    [res EXCEPT !.receivers = Append(@, [step |-> step, status |-> status]),
                !.status = status]

(* Under mu: append the receiver's result, let the worse status win. *)
Merged(res, status, step) ==
    [res EXCEPT !.receivers = Append(@, [step |-> step, status |-> status]),
                !.status = IF status = "error" THEN "error"
                           ELSE IF status = "failed" /\ @ = "passed" THEN "failed"
                           ELSE @]

EndCollector(r, i, status) ==
    /\ run' = [run EXCEPT ![r].waiting = @ \ {i}, ![r].got = {g \in @ : g[1] # i}]
    /\ result' = [result EXCEPT ![r] = Merged(@, status, run[r].step)]

(* Collect returns an error, at the receiver's deadline or when the store  *)
(* refuses a Claim or the mailbox a search.  No Delete follows.            *)
CollectTimesOut(r, i) ==
    /\ Collecting(r, i)
    /\ Receiver(r, i).timed
    /\ EndCollector(r, i, "error")
    /\ UNCHANGED <<reservations, messages, deposits>>

CollectFails(r, i) ==
    /\ Collecting(r, i)
    /\ \/ Receiver(r, i).type = "webhook" /\ StoreMayFail
       \/ Receiver(r, i).type = "imap"
    /\ EndCollector(r, i, "error")
    /\ UNCHANGED <<reservations, messages, deposits>>

(* collectAndAssert after Collect: store.Delete (its error is dropped),    *)
(* then the assertions, then the result.                                   *)
AssertMessage(r, i, m) ==
    /\ <<i, m>> \in run[r].got
    /\ EndCollector(r, i, Receiver(r, i).verdict[m])
    /\ \/ messages' = Drop(messages, <<r, Receiver(r, i).type>>)
       \/ StoreMayFail /\ UNCHANGED messages
    /\ UNCHANGED <<reservations, deposits>>

----------------------------------------------------------------------------
\* Mutant of WaitAll: the waiter goes on when the first goroutine ends.
WaitFirst(r) ==
    /\ At(r, "collect")
    /\ run[r].waiting # 1 .. Len(Receivers(r))
    /\ run' = [run EXCEPT ![r].pc = "stop", ![r].waiting = {}, ![r].got = {}]
    /\ result' = [result EXCEPT ![r].error =
                     IF @ = "" /\ result[r].status # "passed" THEN "receivers" ELSE @]
    /\ UNCHANGED <<reservations, messages, deposits>>

(* wg.Wait, then the summary of the receivers' errors. *)
WaitAll(r) ==
    /\ At(r, "collect")
    /\ run[r].waiting = {} /\ run[r].got = {}
    /\ run' = [run EXCEPT ![r].pc = "stop"]
    /\ result' = [result EXCEPT ![r].error =
                     IF @ = "" /\ result[r].status # "passed" THEN "receivers" ELSE @]
    /\ UNCHANGED <<reservations, messages, deposits>>

StillOpen(r) == {o \in run[r].open : o[1] # run[r].step \/ o[2] # run[r].attempt}

\* Mutant of StopReceivers: receivers are stopped only when the step passed.
StopReceiversOnSuccess(r) ==
    /\ At(r, "stop")
    /\ run' = [run EXCEPT ![r] =
                  IF result[r].status = "passed"
                  THEN [StepPassed(r) EXCEPT !.open = StillOpen(r)] ELSE RetryOrGiveUp(r)]
    /\ UNCHANGED <<result, reservations, messages, deposits>>

(* stopReceivers, then the look at result.Status, which earlier attempts   *)
(* may have spoilt: it is not reset between attempts.                      *)
StopReceivers(r) ==
    /\ At(r, "stop")
    /\ run' = [run EXCEPT ![r] =
                  [IF result[r].status = "passed" THEN StepPassed(r) ELSE RetryOrGiveUp(r)
                   EXCEPT !.open = StillOpen(r)]]
    /\ UNCHANGED <<result, reservations, messages, deposits>>

\* Mutant of GiveUp: the process-exit way out, on which no deferred call runs.
GiveUpSkippingRelease(r) ==
    /\ At(r, "giveup")
    /\ result' = IF run[r].lastTriggerErr THEN FailResult(r, "trigger") ELSE result
    /\ run' = [run EXCEPT ![r].pc = "deliver"]
    /\ UNCHANGED <<reservations, messages, deposits>>

(* The attempts are used up: an error of the trigger in any of them        *)
(* replaces what the receivers said.                                       *)
GiveUp(r) ==
    /\ At(r, "giveup")
    /\ result' = IF run[r].lastTriggerErr THEN FailResult(r, "trigger") ELSE result
    /\ run' = [run EXCEPT ![r].pc = "release"]
    /\ UNCHANGED <<reservations, messages, deposits>>

(* The deferred releases; Release does not look at the owner and its error *)
(* is dropped.                                                             *)
Release(r) ==
    /\ At(r, "release")
    /\ run[r].deferred # << >>
    /\ \/ reservations' = Drop(reservations, Head(run[r].deferred))
       \/ StoreMayFail /\ UNCHANGED reservations
    /\ run' = [run EXCEPT ![r].deferred = Tail(@)]
    /\ UNCHANGED <<result, messages, deposits>>

\* Mutant of Finish: only failed assertions are notified, not errors.
FinishIgnoringErrors(r) ==
    /\ At(r, "release")
    /\ run[r].deferred = << >>
    /\ run' = [run EXCEPT ![r].pc = "deliver",
                          ![r].notify = IF result[r].status = "failed" THEN "spawned" ELSE @]
    /\ UNCHANGED <<result, reservations, messages, deposits>>

(* Back in execute: go o.notifyFailure(...) for a failed or errored run. *)
Finish(r) ==
    /\ At(r, "release")
    /\ run[r].deferred = << >>
    /\ run' = [run EXCEPT ![r].pc = "deliver",
                          ![r].notify = IF result[r].status \in {"failed", "error"}
                                        THEN "spawned" ELSE @]
    /\ UNCHANGED <<result, reservations, messages, deposits>>

(* resultCh <- result: the caller has it. *)
Deliver(r) ==
    /\ At(r, "deliver")
    /\ run' = [run EXCEPT ![r].pc = "done"]
    /\ UNCHANGED <<result, reservations, messages, deposits>>

(* The notifyFailure goroutine makes its calls. *)
Notify(r) ==
    /\ run[r].notify = "spawned"
    /\ run' = [run EXCEPT ![r].notify = "sent"]
    /\ UNCHANGED <<result, reservations, messages, deposits>>

----------------------------------------------------------------------------
(* The environment.  Ingestor.Ingest stores a message of run r, replacing  *)
(* the one that is there.                                                  *)
Ingest(r, m) == messages' = Put(messages, <<r, "webhook">>, m)

(* The webhook server accepts a message for a run whose id the outside     *)
(* world has learnt from a trigger, however late; what it rejects, or the  *)
(* store refuses, changes nothing.                                         *)
HandleWebhook(r, m) ==
    /\ deposits < MaxDeposits
    /\ result[r].attempts > 0
    /\ Ingest(r, m)
    /\ deposits' = deposits + 1
    /\ UNCHANGED <<run, result, reservations>>

(* A reservation's TTL runs out while its run is still going. *)
ExpireReservation(k) ==
    /\ ReservationsExpire
    /\ k \in DOMAIN reservations
    /\ reservations' = Drop(reservations, k)
    /\ UNCHANGED <<run, result, messages, deposits>>

(* What the run's own goroutine does. *)
MainStep(r) ==
    \/ NextStep(r)
    \/ SkipEmptyRecipient(r) \/ Reserve(r) \/ ReserveFails(r) \/ DeferRelease(r)
    \/ TriggerFails(r) \/ TriggerFires(r)
    \/ StartReceiver(r) \/ StartFails(r) \/ BeginCollect(r)
    \/ WaitAll(r) \/ StopReceivers(r) \/ GiveUp(r)
    \/ Release(r) \/ Finish(r) \/ Deliver(r)

(* What a receiver's goroutine does without waiting for the outside. *)
CollectorStep(r) ==
    \/ \E i \in run[r].waiting : ClaimMessage(r, i) \/ CollectTimesOut(r, i)
    \/ \E g \in run[r].got : AssertMessage(r, g[1], g[2])

(* And what it does when the outside answers, well or badly. *)
OutsideAnswers(r) ==
    \E i \in run[r].waiting : PollSucceeds(r, i) \/ MailFound(r, i) \/ CollectFails(r, i)

AllDone ==
    /\ \A r \in Runs : At(r, "done") /\ run[r].notify # "spawned"
    /\ UNCHANGED vars

Next ==
    \/ \E r \in Runs :
           Begin(r) \/ MainStep(r) \/ CollectorStep(r) \/ OutsideAnswers(r) \/ Notify(r)
    \/ \E r \in Runs, m \in Payloads : HandleWebhook(r, m)
    \/ \E k \in ResKeys : ExpireReservation(k)
    \/ AllDone

(* The Go scheduler runs every goroutine that can run; a receiver with a   *)
(* deadline reaches it.  Nothing makes a test start, a message arrive or a *)
(* poll succeed.                                                           *)
Fairness ==
    \A r \in Runs :
        /\ WF_vars(MainStep(r))
        /\ WF_vars(CollectorStep(r))
        /\ WF_vars(Notify(r))

Spec == Init /\ [][Next]_vars

FairSpec == Spec /\ Fairness

----------------------------------------------------------------------------
Errors == {"", "create", "reserve", "start", "trigger", "receivers"}

RunStates ==
    [pc : PCs, step : Nat, attempt : Nat, cursor : Nat,
     taken : Seq(ResKeys), deferred : Seq(ResKeys), lastTriggerErr : BOOLEAN,
     waiting : SUBSET Nat, got : SUBSET (Nat \X Payloads),
     open : SUBSET (Nat \X Nat \X Nat), notify : {"none", "spawned", "sent"}]

Results ==
    [status : Statuses, error : Errors, attempts : Nat,
     receivers : Seq([step : Nat, status : Statuses])]

(* The loop indices of a run with locals l stay inside its definition: the *)
(* step while one is executed, the receivers while they are collected.     *)
LoopsInRange(r, l) ==
    /\ l.pc \in {"reserve", "attempt", "start", "collect", "stop", "giveup"}
          => l.step \in 1 .. Len(Triggers(r))
    /\ l.pc = "step" => l.step >= 1
    /\ l.pc = "reserve" => l.cursor >= 1
    /\ IF l.pc = "collect"
       THEN /\ l.waiting \subseteq 1 .. Len(Triggers(r)[l.step].receivers)
            /\ \A g \in l.got : g[1] \in 1 .. Len(Triggers(r)[l.step].receivers)
       ELSE l.waiting = {} /\ l.got = {}

(* Every run's locals and result have their types, the loops stay in       *)
(* range, and no receiver goroutine outlives its attempt.                  *)
TypeOK ==
    /\ run \in [Runs -> RunStates]
    /\ result \in [Runs -> Results]
    /\ IsTable(reservations, ResKeys, Runs)
    /\ IsTable(messages, MsgKeys, Payloads)
    /\ deposits \in 0 .. MaxDeposits
    /\ \A r \in Runs : LoopsInRange(r, run[r])

(* The recipients a run has reserved and not yet released. *)
Holds(r) == Range(run[r].taken) \cup Range(run[r].deferred)

(* Two runs never hold the same recipient: between a run's Reserve and its *)
(* deferred Release no other run's Reserve of that channel and recipient   *)
(* succeeds, in whatever order runs reserve, fail and release.             *)
ExclusiveRecipients ==
    \A r, s \in Runs : r # s => Holds(r) \cap Holds(s) = {}

(* The owner recorded in the store is the run that believes it holds the   *)
(* recipient: Release, which does not check the owner, only ever removes   *)
(* the caller's own reservation.                                           *)
HoldersOwn ==
    \A r \in Runs : \A k \in Holds(r) : k \in DOMAIN reservations /\ reservations[k] = r

(* A run that has ended leaves a recipient reserved only if it failed to   *)
(* reserve: every other way out of executeSequential (errors, exhausted    *)
(* retries, success) goes through the deferred releases of all its steps.  *)
OnlyFailedReserveLeaks ==
    \A k \in DOMAIN reservations :
        LET r == reservations[k] IN
        run[r].pc \in {"deliver", "done"} => result[r].error = "reserve"

(* A reservation goes away only when the run that made it is in its        *)
(* deferred releases: no other run's cleanup takes it away early.          *)
OnlyOwnerReleases ==
    [][\A k \in DOMAIN reservations :
           k \notin DOMAIN reservations' => run[reservations[k]].pc = "release"]_vars

(* What keeps the properties above inductive.  A run holds a recipient     *)
(* once, so releasing it leaves nothing behind that it still believes it   *)
(* holds; the slice of reserveRecipients is in use only there, and the     *)
(* deferred releases are all done when the run leaves executeSequential;   *)
(* a failed reservation is the last error of its run; and every            *)
(* reservation is held by its owner or was left by such a failure.         *)
HoldsOnce ==
    \A r \in Runs : /\ IsInjective(run[r].taken)
                    /\ IsInjective(run[r].deferred)
                    /\ Range(run[r].taken) \cap Range(run[r].deferred) = {}

ReservingPhases ==
    \A r \in Runs : /\ ~At(r, "reserve") => run[r].taken = << >>
                    /\ run[r].pc \in {"new", "deliver", "done"} => run[r].deferred = << >>
                    /\ result[r].error = "reserve" => run[r].pc \in {"release", "deliver", "done"}

Accounted ==
    \A k \in DOMAIN reservations :
        \/ k \in Holds(reservations[k])
        \/ result[reservations[k]].error = "reserve"

(* Severity of receiver results: error beats failed beats passed. *)
Worst(S) == IF "error" \in S THEN "error" ELSE IF "failed" \in S THEN "failed" ELSE "passed"

(* The run's status does not depend on the order in which the receivers'   *)
(* goroutines reach the mutex: while they end and once all have, it is the *)
(* worst of the results recorded.                                          *)
WorstResultWins ==
    \A r \in Runs :
        run[r].pc \in {"collect", "stop"} =>
            result[r].status = Worst({result[r].receivers[n].status :
                                         n \in DOMAIN result[r].receivers})

(* A run reported as passed fired every trigger of its test, and has a     *)
(* passed result of every receiver of every step that waits for receivers, *)
(* one each, and nothing else.                                             *)
PassedMeansAllPassed ==
    \A r \in Runs :
        (run[r].pc = "done" /\ result[r].status = "passed") =>
            /\ result[r].attempts >= Len(Triggers(r))
            /\ \A n \in DOMAIN result[r].receivers : result[r].receivers[n].status = "passed"
            /\ \A t \in DOMAIN Triggers(r) :
                  Cardinality({n \in DOMAIN result[r].receivers :
                                  result[r].receivers[n].step = t})
                      = IF Triggers(r)[t].wait THEN Len(Triggers(r)[t].receivers) ELSE 0

(* A receiver is still open when the run has ended only if a later         *)
(* receiver of its step failed to start, in its attempt: what is open are  *)
(* then the ones before that one, all of them, and the run says so, unless *)
(* the trigger had failed in an earlier attempt of the step, whose error   *)
(* replaces this one.                                                      *)
StartedBefore(r) == {<<run[r].step, run[r].attempt, i>> : i \in 1 .. run[r].cursor - 1}

OnlyFailedStartLeavesOpen ==
    \A r \in Runs :
        (At(r, "done") /\ run[r].open # {}) =>
            /\ run[r].cursor \in DOMAIN Receivers(r)
            /\ CanFailToStart(Receiver(r, run[r].cursor))
            /\ run[r].open = StartedBefore(r)
            /\ result[r].error = IF run[r].lastTriggerErr THEN "trigger" ELSE "start"

(* Every run that was started comes to its end and hands over its result:  *)
(* no order of reservations, failures and timeouts blocks it.              *)
RunsEnd == \A r \in Runs : ~At(r, "new") ~> At(r, "done")

(* A run that ends failed or errored is notified; no other run is.         *)
FailuresAreNotified ==
    \A r \in Runs :
        ~At(r, "new") ~>
            (At(r, "done") /\ run[r].notify =
                 IF result[r].status \in {"failed", "error"} THEN "sent" ELSE "none")

(* A recipient that was reserved comes free again, except after a failed   *)
(* reservation.                                                            *)
RecipientsComeFree ==
    \A k \in ResKeys : \A r \in Runs :
        (k \in DOMAIN reservations /\ reservations[k] = r) ~>
            (k \notin DOMAIN reservations \/ result[r].error = "reserve")

----------------------------------------------------------------------------
(* What the documentation says of runs, and the code does not do.          *)

(* README: "If any attempt passes completely, the test is marked as passed *)
(* and no further attempts are made".  The results of the attempt that     *)
(* just ended are the last ones of the list.                               *)
PassingAttemptPasses ==
    \A r \in Runs :
        LET n == Len(result[r].receivers) IN
        (/\ At(r, "stop")
         /\ \A j \in n - Len(Receivers(r)) + 1 .. n : result[r].receivers[j].status = "passed")
            => result[r].status = "passed"

(* CHANGES: reservations are "released via defer after all attempts", and  *)
(* receivers "started and stopped on each individual attempt": a run that  *)
(* has ended leaves no recipient reserved and no receiver open.            *)
RunsCleanUp ==
    \A r \in Runs :
        At(r, "done") => run[r].open = {} /\ \A k \in DOMAIN reservations : reservations[k] # r
============================================================================
