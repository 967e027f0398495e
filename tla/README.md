# A TLA+ model of the e2e framework

The repository is a service that runs end-to-end tests.  A test is a list of
*triggers* (HTTP calls to the system under test); each trigger names
*receivers* (a webhook, a polled API, a mailbox) that must get the messages the
trigger causes, and *assertions* on those messages.  This directory holds TLA+
modules of its core, TLC configurations that check them on small instances, and
TLAPS proofs of the results that matter most.  `PROJECT.json`
maps every definition to the source lines it models.

Commands, from this directory:

    tlc -workers 2 -config OrchContend.cfg MCOrchestrator
    tlapm OrchestratorProofs.tla

## 1. Inventory

| Part (under `src/`) | State | Operations | Works with |
|---|---|---|---|
| orchestrator, `internal/core/services/orchestrator.go` | per run: the locals of `executeSequential`, `*domain.TestResult` | `RunTest`, `RunSequence`, `execute`, reserve / attempt / collect / release, `notifyFailure` | store, triggers, receivers, notifier; started by API and cron |
| store, `internal/core/ports/store.go` and `adapters/secondary/store` | messages by run and receiver type, reservations by channel and recipient, both with a TTL | `Deposit`, `Claim`, `Delete`, `Reserve`, `Release` | every run, the ingestor; Redis and Postgres are shared by processes |
| API server, `adapters/primary/api/server.go` | `results`, `resultOrder`, under `mu` | run, run-sequence, results, tests, groups, health | orchestrator, group resolver |
| webhook server, providers, ingestor, `adapters/primary/webhook` | none of its own | a request becomes a `Deposit` under the run id found in it | store |
| receivers, `adapters/secondary/receiver` | a connection (IMAP), configuration, the run's variables (API) | `Start`, `Collect`, `Stop` | store (webhook), a mailbox, a polled API |
| http trigger, notifier | none; they read and change the variables of a run | `Execute`, `Notify` | outside services |
| variables of a run | one Go map, shared by trigger, receivers and assertions without a lock | define, resolve, increment, extract | all of the above |
| cron scheduler, `adapters/primary/cron` | the cron table | fire a test | orchestrator |
| start-up and shut-down, `cmd/server/main.go` | the process: an errgroup, the listener, the store | start, signal, `Shutdown`, `Close` | all of the above |
| templates, payload flattening, assertions, `internal/pkg` | none | pure functions, but for increments | trigger, receivers, notifier |
| configuration, logger | fixed at start-up; output | load, validate; log | all |

Every run is a goroutine, every receiver of an attempt another one, the
notification a third kind, every HTTP request a fourth.  They meet in the
store, in the `TestResult` of their run and in the result cache.  What is hard:

* **reservations** are taken one by one, over several steps, by runs that want
  the same recipients; `Release` does not look at the owner; a reservation
  lives an hour whatever its run does; the releases are deferred in a loop;
* **ways out**: `executeSequential` has seven, and each must leave the right
  status, stop the receivers and release the recipients;
* **retries** accumulate in one `TestResult`;
* **receivers** finish in any order, time out, find each other's message;
* **backends** lose answers; the Postgres store is not transactional;
* **the cache** evicts entries of runs that are still going;
* **the end of a process**: `ListenAndServe` returns before `Shutdown`, nobody
  waits for cron jobs and asynchronous runs, and what they had reserved outlives
  them in Redis and Postgres;
* **variables**: Go ranges over maps in any order, increments change the map
  that is being read, retries and polls resolve again, and the goroutines of a
  step share the map without a lock;
* **messages** carry run ids in several places; a claim and its delete are two
  calls; mails are never removed.

What makes each part correct:

* store: no reservation passes from one run to another without having been
  free; every answer is the one a Redis with `SET NX` and TTLs could give;
* orchestrator: a recipient has one user at a time, is released, and by its
  user; a run that says *passed* has passed; every run ends, and is notified if
  it did not pass; receivers that were started are stopped;
* API server: the map and the order of the cache agree and are bounded; a
  finished run never looks unfinished; every accepted run gets a result;
* process: live runs of all processes on a store exclude each other through
  crashes and restarts; a signal ends the process, after its requests have been
  answered if they can be in time; only a run that the end of its process cut
  short leaves its recipient reserved;
* variables: a request carries the id of its run, a number of its own and values
  that were generated once; fields and assertions say of a
  document what is in it;
* inbound: a run collects its own messages and no others; an unread message is
  lost only in known ways; a mail that is there ends the wait.

`PROJECT.json` lists the hazards line by line.

## 2. Modules

| Module | Models | Notes |
|---|---|---|
| `Tables` | Go maps, key spaces, tables with a primary key | functions with a changing domain |
| `StoreTypes` | `ports.Store`: keys, calls, replies | |
| `StoreContract` | what the store promises; `redis.go` command by command | the abstract specification |
| `MemoryStore` | `memory.go` | refines `StoreContract` |
| `PostgresStore` | `postgres.go`, statement by statement | refines `StoreContract` |
| `Orchestrator` | `orchestrator.go`, the webhook receiver, the ingestor; triggers, other receivers and the notifier as it sees them | uses the store of the contract |
| `ApiServer` | `api/server.go` and `RunSequence` | uses a run as "ends some time, with a status" |
| `Lifecycle` | `main.go`, the cron scheduler, `Start` and `Stop` of the API server, the disabled store | a run as "reserves one recipient, works, releases"; several processes |
| `Templates` | `internal/pkg/template` | operators and recursive functions |
| `Payload` | `internal/pkg/httputil`, JSON | operators, recursive |
| `Elements` | gjson, as far as the assertions use it | operators, recursive |
| `Assertions` | `internal/pkg/assertion` | operators, with the lookup in a document as parameter `Finds` |
| `Variables` | `executeSequential` once more, as the history of its variables map; `HTTPTrigger.Execute`, the API receiver's `attempt`, `HTTPNotifier.Notify` | composes `Templates` and `Assertions`; flattening is the parameter `FieldsOf` |
| `Responses` | `Variables` with the documents of `Payload` and `Elements` | the properties about documents |
| `Inbound` | webhook server, providers, ingestor, webhook and IMAP receivers, `ParseMessage` | the mailbox is a state of its own |
| `MC*` | instances for TLC | |
| `MemoryStoreProofs`, `PostgresStoreProofs`, `OrchestratorProofs`, `ApiServerProofs`, `LifecycleProofs`, `InboundProofs`, `TemplatesProofs`, `VariablesProofs` | theorems | section 4 |

### The stores

`StoreContract` is a table of live messages and one of live reservations, and
`reply`, the answer to the last call, so that the refinement is about what
callers see and not only about tables.  A command may fail, before or after it
was carried out.  Entries vanish at any time (`Expire`): a caller knows nothing
better about a TTL.

`MemoryStore` has a clock and two maps whose entries are never purged; a method
holds the mutex throughout and is one action.  The refinement mapping keeps the
entries that have not expired.  The code compares with `Before` in `Claim` and
with `After` in `Reserve`, so at `expiresAt` a message is still there and a
recipient is free; the mapping follows, entry kind by entry kind.

`PostgresStore` gives each client a program counter: purge messages, purge
reservations, compute `expires_at`, execute.  Each SQL statement is atomic, a
method is not.  A reservation is mapped to its *row*: an expired row still
refuses `INSERT ... ON CONFLICT DO NOTHING`, until some purge deletes it.  A
message is mapped to a row that still passes the `SELECT`.  Two assumptions:
the database and the process have one clock, and a deposit's `INSERT` is done
before the message it carries expires (`DepositsOutpaceTTL`; the default TTL is
300 s).  Without the latter the refinement fails: the deposit is answered as
done and no `Claim` ever sees it.

Keys are `"%s:%s"` of a run id or channel and a type or recipient.  A message
key ends in a receiver type, a reservation key begins with one, and the types
(`webhook`, `api`, `imap`) contain no colon: different pairs give different
strings, so a key is a pair (a model value in the store modules).

### Orchestrator

`run[r]` holds the locals of the goroutine of run `r`, `result[r]` its
`TestResult`, `reservations` and `messages` the store.  A step is one call that
others can observe, in the order of the code:

    Begin -> NextStep -> Reserve* / ReserveFails -> DeferRelease
          -> TriggerFires / TriggerFails -> StartReceiver* / StartFails
          -> BeginCollect -> (collectors) -> WaitAll -> StopReceivers
          -> next attempt, next step, or GiveUp
          -> Release* -> Finish -> Deliver

Each collector is a goroutine of its own: `ClaimMessage`, `PollSucceeds`,
`MailFound`, `CollectTimesOut` or `CollectFails`; after a message `AssertMessage`, which deletes the
message, evaluates the assertions and merges the status under the mutex.
`HandleWebhook` is a webhook that arrives at any time after a trigger has told the
world the run's id, however late.  `ExpireReservation` is `reservationTTL`
passing while a run is going.

A message is one of a few classes, `verdict` what a receiver's assertions make
of each; a test definition is a record with what the control flow reads.
Sleeps are stuttering.  Left out: template variables (see `Variables`), texts of errors (their
kind is kept, `result.error`), logs, durations.  `StoreMayFail` lets every
store call return an error, carried out or not.

### ApiServer

`handler[c]` is the goroutine of a request, `runs` the runs in the order they
were started, with their status once it is in the channel, `results` and
`resultOrder` the cache.  Run ids are taken to be unique: they are the test id
and a clock in nanoseconds.  `"failed"` stands for failed and error, `"passed"`
for what does not stop a sequence.  Requests carry the list of tests that the
body or the group resolver gives.  Everything `storeResult` does under the
lock, the eviction included, is one step.  `ResultByID` and `ListResults` are
what the read-only handlers answer, and the properties are stated with them.

### Lifecycle

`proc[p]` is the main goroutine of a process with its errgroup: the context
`gCtx`, the goroutine in `ListenAndServe`, the one in `Stop`, the scheduler.

    Boot -> (Signal | ListenFails) -> CloseListener -> Drained | TimesOut
         -> ServeReturns, StopCron, in any order -> CloseStore -> Exit

`Crash` is possible at any time; after it, or `Exit`, the process may boot
again.  Every run of a process that is gone is `lost`, and with it the memory
store; what it had in Redis or Postgres stays until `Expire`.  A run is started
by `Fire`, which looks at nothing but the schedule, or by `HandleRun`, which is
possible until the connections are drained.  A synchronous run has a client that
waits, and only such runs keep `Shutdown` waiting.  Between `CloseStore` and
`Exit` runs go on, with a store that answers no more.

`kind` is the configured store, one for all processes.  Under the disabled one
every `Reserve` succeeds, so nothing is exclusive, and `LiveRunsExclusive` does
not speak of it.

### Variables, Responses, Templates, Payload, Elements, Assertions

A text is a sequence of pieces (plain, integer, `{{x}}`, `{{++(x)}}`,
generator), a JSON document a tree.  Operators over Go maps return the *set* of
what the orders of the map can give.  Numbers are flattened as `%v` of a
`float64` does it: from 1e+06 on the text has an exponent and is no integer.

`Variables` follows one run: `DefineVariable` in any order, then for each
attempt `Execute` (set `run_id`, resolve, guard, send), `AnswerRefused`,
`AnswerIgnored` or `AnswerRead` (status, flattening, response assertions,
extraction), and the receivers' goroutines.  A goroutine's use of the map is two
steps, `BeginPoll`/`BeginCheck`/`BeginAssertions` and `EndUse`; between them other goroutines
use it too, and if one of the two writes, `ConcurrentMapAccess` may end the
process, as the Go runtime does.  `Call` is a call of `on_failure`, on a copy of
the map.  `Unresolved` keeps JSON and forms apart: the guard sees the encoded
text, in which the braces of a form are escaped.  `errors` holds what the run
has to say of its failure: the error of the last trigger that failed
(`lastTriggerErr`), those of the receivers, and `result.Error`, which the last
attempt takes from the first two.  Of an error's text the model keeps whether
there is one, and what it quotes when placeholders are in that (`Quoting`): an
unresolved url or body, a response, the field and value of an assertion.  This
is the value of `{{error}}` in `NotifierVars`, so a call may be skipped because
of what the error quotes.  The `field` of an assertion is a text like its value,
replaced before it, and becomes a path (`PathOf`).  Nested bodies are the texts
in them; braces that only meet by substitution are left out.

What the control of a run does with its variables does not depend on what
flattening and element lookup compute.  They are the parameters `FieldsOf` and
`Finds`, which keeps `Variables` free of recursive operators; the
configurations put `FlattenJSON` and `HasElement` there, and `Responses` states
what is to be true of the documents.  `RandomInts` are the numbers that
`randomInt(6)` may give, `uuid()` gives the next number of `env.fresh`, so two
calls never agree.  Counters are integers without a width: that an increment
wraps around at 2^63 is not modelled.  `VariablesAssumption` says what test
definitions and answers are: texts, requests and assertions of the right form,
at least one attempt, finite maps.  `LiteralsAssumption` says that the
names the code uses are strings.

### Inbound

A webhook request is rejected or deposited under the run id its provider
extracts (`GenericRunID`, `MetaExtract`, `TwilioExtract`); a mail arrives at the
end of a mailbox.  The one receiver of each run claims on a tick, or searches
the mailbox, twice: `SearchBySubject`, and, when that finds nothing,
`SearchByBody` as a step of its own.  `Delete` is after the claim, and may fail.
The attempt ends, and another one gets a new receiver, up to `MaxAttempts`.
Texts are the run id in them, and whether there are blanks around it.
`InboundAssumption` says what requests and mails are: run ids are none of the
texts that stand for no run, names are sequences of parts, a body that is empty
or does not parse has no fields, a blank part of a mail has no ids.  `Places` are
the places where a provider's documentation has the run id; for a form they
include its query, because `ParseForm` merges the two.

## 3. Runs

| Run | Configuration | Shows |
|---|---|---|
| `contend` | `OrchContend.cfg`, 92,000 states | two runs want the same recipients in opposite orders: never two users of one recipient, the holder is the recorded owner, nobody else removes a reservation, and only a failed reservation leaves one behind; under fairness every run ends, failed and errored runs and no others are notified, recipients come free |
| `retry` | `OrchRetry.cfg`, 178,000 | two steps, two attempts, every kind of receiver, two receivers on one message, a failing store, expiring reservations: the status is the worst receiver result whatever the order, *passed* means that every receiver of every waiting step passed, what stays open are exactly the receivers started before one that failed to start |
| `memory` | `MCMemoryStore.cfg`, 2,900 | the memory store implements the contract |
| `postgres` | `MCPostgresStore.cfg`, 317,000 | so does the Postgres store, with two clients' statements interleaved |
| `cache` | `ApiCache.cfg`, 71,000 | the cache is consistent and bounded through evictions and re-insertions, a final result stays, sequences stop at a failure, accepted runs get their result |
| `lifecycle` | `Lifecycle.cfg`, 210,000 | two processes, shared or separate stores, schedules and requests, signals, crashes, restarts: live runs are exclusive, a process that ends in order has answered its requests or waited five seconds, a signal ends it whatever its runs do, and a recipient stays reserved without its run only where a process ended under that run |
| `variables` | `Variables.cfg`, 111,000 | seventeen test definitions against eight answers: numbers are never sent twice, `run_id` is the run's also after an extract of that name, generators are evaluated once, a crash needs a writer beside another receiver, fields are the document's, integers are compared as integers up to six digits, each call of `on_failure` is made once, unless a placeholder is left in what it needs |
| `inbound` | `Inbound.cfg`, 237,000 | nine requests and four mails for a run with three attempts: what a run collects is its own, a retry finds the same mail, query and header fields are not hidden by body fields, an unread message is lost only by replacement, its TTL or the window between claim and delete, a mail with the id ends the wait |
| `doc_retry`, `doc_cleanup`, `doc_variables`, `doc_int` | `Doc*.cfg` | violations, see section 6 |

Each property of a passing run has a mutant in `PROJECT.json`: an operator
defined next to the one it replaces ("Mutant of ...") that changes it as a
plausible bug would, under which TLC finds the property violated.

**Bounds.**  Two runs and two recipients are what contention needs: a conflict
is between two runs over one key, and opposite orders need two keys.  Two
attempts and two or three steps reach every arrival in the loops (first, again,
last) and every defer (none, one, several).  Two receivers give every order of
the merge, and results of an earlier attempt a third party to it.  Two deposits
(`MaxDeposits`) are a message and one that replaces it or arrives after the
`Delete`.  In the stores the clock (`MaxTime`) goes past both TTLs, so that
entries expire, are read at exactly `expiresAt`, and are made again; two
clients give every pair of interleaved methods.  In the API server three
requests against two cache places (`MaxRequests`, `MaxStoredResults`, 100 in
the code) evict a placeholder and insert its result again.  In `Lifecycle` two
starts (`MaxStarts`) are two processes side by side, or one that crashes and
comes back; two runs are a schedule that fires into a run, or a run after a
restart that meets an orphan.  In `Variables` two attempts and two steps give a
retry and a later step, two polls (`MaxPolls`) a poll that is repeated; two
goroutines make a race.  In `Inbound` two messages are one and its successor,
three attempts a retry after a retry, and the requests disagree about the run in
each place a provider looks at; the second run they name only has to be
different, and has no receiver.

**Deadlock** is checked everywhere but in `lifecycle`: `AllDone`, `Quiet` and
`Over` are the only states of the other models in which nothing needs to
happen, and in `Inbound` the outside can always make another request.  A service that has been stopped for good stops.

**Fairness** (`FairSpec`).  Go runs every goroutine that can run: weak fairness
of `MainStep`, `Notify` and of a collector's own steps, among them its deadline
when the receiver has a timeout.  A trigger returns, well or badly, because the
HTTP client has a limit of 30 s (`main.go:154`), a notification because each
of its calls has a timeout.  The mail client has no such limit; no step
of `contend` waits for a mail.  Nothing makes a test start, a message arrive or
a poll succeed, so liveness never rests on the system under test.  The API
server's fairness adds that runs end, which is `RunsEnd`.  `Lifecycle` assumes
that the goroutines of a process that is shutting down are scheduled, that five
seconds pass; it assumes neither that runs end nor that reservations expire.
`Inbound` assumes that the ticker ticks and that the mail server answers
(`Tick`), and no deadline.

`ReservationsExpire` and `RunsOutliveTTL` are FALSE where recipients are to be
exclusive: those results are about runs shorter than the hour of
`reservationTTL`.

## 4. Proofs

All for arbitrary constants: any number of runs, any test definitions, any
keys, payloads and TTLs.

* `MemoryStoreProofs`.  `TypeCorrect`: the maps are well typed and no entry
  outlives its TTL.  `Refinement`: the memory store implements
  `StoreContract`; every method is the same method of the contract on the live
  entries, and a tick of the clock is an `Expire`, because entries only leave
  the live tables as `now` grows.  `MemoryNoHandover` follows from the
  contract's own steps.  Assumption: TTLs are positive, which `LoadConfig`
  ensures.
* `OrchestratorProofs`, types.  `OrchestratorTypeCorrect`: `TypeOK`, with
  `LoopsInRange`, which says that the indices into the definition are in range
  wherever the code uses them, and that no receiver goroutine exists outside
  the collection.  Without it `Receiver(r, i)` has no type, so it is the
  premise of everything else.  One lemma per action.
* `OrchestratorProofs`, reservations.  `HoldersOwn` is not inductive: if a run held a
  recipient twice, its first release would leave it holding what it no longer
  owns.  `HoldsOnce` (no key twice in `taken` and `deferred`) repairs that, and
  is kept because `Reserve` needs a key that nobody has reserved, while by
  `HoldersOwn` everything the run holds is reserved.  The invariant is
  `TypeOK /\ HoldersOwn /\ HoldsOnce`.  Every step either is quiet (leaves
  `taken`, `deferred` and `reservations` alone) or is one of `Reserve`,
  `ReserveFails`, `DeferRelease`, `Release`, so only these are argued.
  From it: `RunsOwnWhatTheyHold`, `RecipientsAreExclusive` (two holders would
  both be the recorded owner) and `ReservationsLastUntilRelease`, all under
  `~ReservationsExpire` and with or without store failures.
* The same module: `OnlyFailedReservationsLeak` uses `TypeOK /\ ReservingPhases /\ Accounted`:
  every reservation is held by its owner or was left by a failed reservation,
  and a run past its releases holds nothing.  It assumes `~StoreMayFail` (a
  `Release` that fails leaks as well, its error is dropped); it does not matter
  whether reservations expire.

* `OrchestratorProofs`, what a result says.  None of the three properties is
  inductive: each speaks of a few program counters, and what holds there was
  decided several steps earlier.  `OutcomeInv` follows a run from its first step
  to its last, on top of `TypeOK`:
  `StatusIsWorst` (the status is the worst of the recorded ones at *every* step
  of the loop; between steps of the test it is *passed*; a step that waits for
  nothing never has a spoilt status, which is why its unconditional
  `result.Status = passed` hides nothing; who gives up while *passed* had a
  trigger error), `ResultsCounted` (while the run is *passed*, steps before this
  one have all their results, later ones none, this one as many as goroutines
  have ended), `TriggersFired` and `EndsPassed`.  The count rests on `Pending`, the
  receivers that are waiting or have a message: `Collected` leaves it alone and
  `EndCollector` takes exactly one away while it appends exactly one result.
  `WorstOfMore` is the reason why the order at the mutex does not matter.  From
  it `StatusCorrect` and `PassedCorrect`.  `OpenCorrect` has an invariant of its
  own, `OpenInv`: what is open belongs to this attempt while it goes on, and
  from a failed start to the end of the run it is the receivers before the one
  at the cursor, while the error is that of the start until a trigger error of
  an earlier attempt replaces it.  All three hold with a store that fails and
  reservations that expire.
* `PostgresStoreProofs`.  `PostgresRefinement` needs that a deposit's `expires_at`
  is still ahead when its `INSERT` runs (`StampsLive`), which is
  `DepositsOutpaceTTL` said of the calls in progress, and that a call in progress
  is in a statement of its own method (`CallsTyped`).  `ExecSimulation` shows that
  the last statement of each method is the method of the contract; purges remove
  what the mapping does not show for messages, and are an `Expire` for
  reservations.
* `ApiServerProofs`.  `ApiInvariant` is `DataTyped`, `HandlersSound` (how far each
  handler has come in its list, and which of its runs have ended), `PlaceholderFresh`
  (a run whose placeholder is still to be stored is known to its handler only),
  `CachedIsResult` (a final result in the cache is the run's) and
  `OrderListsResults`.  `FinalResultsStable` needs the third: a placeholder that
  came late would otherwise overwrite a final result.  `OrderCorrect` holds for
  every size of the cache, evictions and re-insertions included; `SkipCorrect`
  for lists of every length.
* `LifecycleProofs`.  `LifecycleTypeCorrect` is `TypeOK` by an argument per
  action.  `LiveRunsAreExclusive`, under `~RunsOutliveTTL`: the invariant is
  `TypeOK /\ HoldersRecorded`, that the store of a run that holds its recipient
  has it under the run's name.  The property alone is not inductive, since
  `Reserve` looks at the store and not at the other runs.  A crash keeps it
  because the runs of the process are lost with its memory store; in a shared
  store the entries stay, and `Expire` removes only those of runs that are not
  live.  `OrderlyEnds` rests on `StopOrder`: no request is open or comes in once
  the connections are drained, and main leaves only after `Stop` has returned.
  `OrphansCorrect` needs `LiveRunsHosted`, that no live run belongs to a process
  that is gone, and holds with or without `RunsOutliveTTL`: every reservation
  is held by its run or is in a shared store and its run was interrupted.

* `InboundProofs`, for every set of requests, mails and runs.  The invariant is
  `Typed`, `StoreIsLogged` (a stored message is the request it was extracted
  from) and for each run `AttemptsCounted`, `WebhookFinds` and `MailFinds`.
  `MailFinds` says that a mail found by its subject, or by its body, is *still*
  the first such in the mailbox, since the mailbox only grows at its end
  (`FirstIsStable`), and that who has found one by its subject never searches
  the bodies again.  `RetriesCorrect` follows.  `LossesCorrect` needs the last part of
  `WebhookFinds`, that while a run has a message in hand the store has none that
  is older.  `CollectedCorrect` and `NamespacesCorrect` rest on lemmas about the
  extractors: `GenericFieldsFind` (namespaces do not collide, whatever names a
  body uses), `AddresseeIsRun` (what the code extracts is what the documented
  order of places gives), `SimpleMailShowsID`.  Trying to prove `AddresseeIsRun`
  is how the query of a form came into `Places`.

* `TemplatesProofs`, for all texts and all maps of variables: what resolving does
  to the map and to the text.  `Follows(v, w, S)`: only counters of the texts `S`
  change or appear, no name goes, and a counter goes down only where `S`
  decrements it.  `Resolved` is about the text: a placeholder is the value of
  its variable, a text whose variables have values has no placeholder left, and
  an increment is a number above the counter before and not above the one after.
  `FieldsReplaced` carries both over the fields of a Go map in *every* order, with
  different numbers for different fields (`Distinct`),
  `AssertionsRun` over a list of assertions.  Recursion is written as functions,
  and each induction is over the length of a list or the size of a finite set, done
  as a smallest-counterexample argument for one named formula at a time
  (`Recursion`, `Induct`), because the library's induction theorems take an operator.
* `VariablesProofs`, for every set of test definitions and answers, every number
  of attempts and polls, and whatever flattening and lookup compute.
  The invariant under everything is `Shape`: `Typed`, `PlacesOK` (which
  steps and attempts exist at which place of the loop) and `CollectorsOK` (a
  goroutine in the middle of a use writes only inside the copy it took, only API
  receivers poll again, and who writes is an API receiver or has increments in
  its assertions).  `VariablesTypeCorrect` and `CrashCorrect` follow from it:
  `TypeOK` alone does not say who may be a writer when two goroutines meet.
  `StepKinds` sorts the steps by what they do to the map, so that the others are
  argued for the kinds and not for the actions.
  `RequestResolved` is what a single request gets.  `RunIDCorrect` rests on
  `Execute` setting `run_id` again each time, after whatever an answer has
  extracted under that name.  `SequenceCorrect` needs `NumbersBelow`: no
  number that was sent is above its counter, *nor above what a receiver is about to
  write back*; without the second half, a goroutine that began its use before
  another one ended it would bring a number back.  `OneShotCorrect` needs
  `OneValue`: the variable that a generator defined is settled, was what
  every request so far has sent, and nobody has it among its writes.
  `ReportsCorrect` needs `CallsCounted`: no call has been made before the run
  failed, and after it at most one for each call that is no longer to be made,
  exactly one if what it needs of the run id, the test id and the error has no
  placeholder left.  Nothing is assumed of the error's text: it is `errors.result`,
  whatever the trigger, the polls or the assertions have quoted.

**Only model-checked.**  Liveness (`RunsEnd`, `FailuresAreNotified`,
`RecipientsComeFree`, `AcceptedRunsGetResults`, `ShutdownEnds`,
`MailEndsWait`), which is out of the prover's reach; and
`FieldsMatchDocument` and `IntAssertionsCompare`, which are about documents: these
are trees, what is said of them needs induction over the tree, and the
recursive operators that walk them are not taken by the prover.

## 5. Not modelled

* Configuration and the test loader read files once, before anything runs; that
  they fail is a reason for `BootFails`.  The registries are lookups in maps
  fixed at start-up.
* A mail server that stops answering in the middle of a command: the client has
  no deadline, the receiver looks at its own only between two ticks, and the run
  then waits for ever.
* Braces that come together only by substitution, nested placeholders, the
  syntax of regular expressions and the parts of gjson's path language beyond
  `#` and `@values`.
* From, To, Date and raw headers of a mail; headers of a polled response.
* Two runs that get the same identifier from one reading of the clock.
* Authentication and the read-only handlers, which change no state; logs,
  durations and the wording of errors; the generated API description and mocks.

## 6. Where documents and code disagree

Four are runs that TLC refutes; `PROJECT.json` quotes the lines.

* `doc_retry`: `result.Status` is not reset between attempts.  After an attempt
  that failed, one that passes completely does not make the test pass.
* `doc_cleanup`: `CHANGES.md:242` has recipients released after all attempts and
  receivers stopped on each, `:387` "regardless of errors".  Two ways out
  leave something behind.  A failed reservation returns before the `defer`, and what the step
  had reserved stays reserved for an hour: this is the trace of the run.  A
  failed start leaves the loop without the receivers that were started before,
  and they stay open: with `Def <- SingleDef` and one run TLC shows that one.
  `OnlyFailedReserveLeaks` and `OnlyFailedStartLeavesOpen` say that there are no
  others, and what exactly is left.
* `doc_variables`: a variable that uses another one is resolved before it in
  some orders of the map, and keeps the placeholder.
* `doc_int`: from a million on the flattened number is no integer, and every
  `int_*` assertion on it fails, though both sides are to be compared as `int64`
  (`README.md:883`, `:889`).  `IntAssertionsCompare` is what holds: up to six
  digits.

Others that the models show, or that were met while writing them:

* `README.md:536` lets an extract override the built-in variables; a trigger and
  a poll set `run_id` again before they resolve anything, so a value extracted
  under that name is used by neither (`RequestsCarryRunID`, whose instance
  extracts `run_id`, says the opposite of that line).  The notifier does let it
  override.
* `README.md:1081`: a test that failed notifies the endpoints, and `:1112` offers
  `{{error}}` for it.  The error may quote a placeholder, of an unresolved url
  for one, and then each call that sends it is skipped; `CHANGES.md:143` has only
  calls skipped that use a variable never extracted.  The tests `Unknown` of
  `MCVariables` do this, and `FailuresAreReported` says which calls are left.
* `CHANGES.md:112`: the guard keeps a literal `{{...}}` from being sent; it does
  not see those of a form, whose braces are escaped (`Unresolved`, and the test
  `Form`).
* `CHANGES.md:314`: reservations "prevent concurrent runs from claiming the same
  channel/recipient"; they expire under a running test, and the late `Release`
  of the first user removes the reservation of the second (`ReservationsExpire`,
  `RunsOutliveTTL`).
* `README.md:1054` lets "the run's own" deadline govern an API receiver without
  a timeout; a run has none.
* `README.md:779` says to poll a run until its final state; the placeholder of a
  run in progress can be evicted, and polling it then answers 404.
* `README.md:909` names `body.*` and `headers.*` as fields of an API receiver's
  message; it has the bare paths of the document only.

## 7. Plan

Done: the stores with their contract, the orchestrator, the API server, the
lifecycle of processes, the variables of a run with templates, flattening and
assertions, the inbound side with the mailbox, and the proofs of section 4.
Next, in this order:

1. `Orchestrator` over `PostgresStore` instead of the contract's own tables.
2. A mail server that hangs, as a fault of `Inbound`.
