----------------------------- MODULE Variables -----------------------------
(***************************************************************************)
(* The variables of a test run: one Go map that executeSequential fills,   *)
(* that the HTTP trigger and the receivers read and change when they       *)
(* replace placeholders, and that the notifier copies when the run failed. *)
(* Orchestrator models the same loop without the map; here reservations,   *)
(* starts and stops of receivers and the store are left out.               *)
(*                                                                         *)
(* The goroutines of a step's receivers use the map without a lock.  A use *)
(* is two steps here, its begin and its end: it works on the map it finds, *)
(* its writes show at the end, and if two uses overlap, one of them        *)
(* writing, the Go runtime may end the process.                            *)
(***************************************************************************)
EXTENDS Assertions

CONSTANTS Tests,      \* the test definitions, one of which is run
          Answers,    \* what the outside answers a request
          FieldsOf(_),    \* the flat fields of a document: FlattenJSON of module Payload
          MaxPolls    \* bound on the polls of an API receiver

(* A request: url a text, headers and body tables of texts, empty for an   *)
(* absent body (nested maps and lists are the texts in them).  A trigger:  *)
(* [request, asserts, extract, receivers], receivers the ones it waits     *)
(* for.  A receiver: [type, request, responseAsserts, asserts].  A test:   *)
(* [variables, attempts, triggers, calls], calls the requests of           *)
(* on_failure.  An answer: [ok, body, raw], ok whether the status is the   *)
(* expected one, body a document or NoJSON, raw the body's text.           *)
NoJSON == <<"text", "">>

RunID == Lit("run-1")

ReservedVarNames == {"run_id", "test_id", "error"}

(* What a literal is, said for the provers. *)
ASSUME LiteralsAssumption == ReservedVarNames \cup {"run-1", "test"} \subseteq STRING

Documents == {a.body : a \in {b \in Answers : b.body # NoJSON}}

IsRequest(q) == q.url \in Texts /\ IsTexts(q.headers) /\ IsTexts(q.body)

IsSeq(s) == s \in Seq(Range(s))

AssertionConfigs == [type : STRING, field : Texts, value : Texts]

IsReceiver(r) ==
    /\ r.type \in {"api", "webhook"}
    /\ IsRequest(r.request)
    /\ r.responseAsserts \in Seq(AssertionConfigs) /\ r.asserts \in Seq(AssertionConfigs)

IsTrigger(t) ==
    /\ IsRequest(t.request)
    /\ t.asserts \in Seq(AssertionConfigs)
    /\ IsTable(t.extract, STRING, Seq(STRING)) /\ IsFiniteSet(DOMAIN t.extract)
    /\ IsSeq(t.receivers) /\ \A r \in Range(t.receivers) : IsReceiver(r)

ASSUME VariablesAssumption ==
    /\ MaxPolls \in Nat \ {0}
    /\ \A t \in Tests :
          /\ IsTexts(t.variables)
          /\ t.attempts \in Nat \ {0}
          /\ IsSeq(t.triggers) /\ \A g \in Range(t.triggers) : IsTrigger(g)
          /\ IsSeq(t.calls) /\ \A q \in Range(t.calls) : IsRequest(q)
    /\ \A a \in Answers :
          /\ a.ok \in BOOLEAN /\ a.raw \in Texts
          /\ a.body # NoJSON => \A f \in FieldsOf(a.body) : IsTable(f, Seq(STRING), Texts)

VARIABLES test,       \* the definition that is run
          pc,         \* where executeSequential, and then Notify, is
          todo,       \* variables not yet defined; later, calls not yet made
          env,        \* [vars: the shared map, fresh: generated values so far]
          step, attempt,
          clean,      \* result.Status is still "passed"
          sent,       \* requests made: [step, attempt, request]
          response,   \* the last answer a trigger looked into
          cols,       \* the goroutine of each receiver of the step
          errors      \* [trigger: lastTriggerErr, receivers: the errors in
                      \*  result.Receivers, result: result.Error]

vars == <<test, pc, todo, env, step, attempt, clean, sent, response, cols, errors>>

Trigger == test.triggers[step]

NoResponse == [step |-> 0, doc |-> NoJSON, fields |-> EmptyTable, verdict |-> "none"]

NewEnv(v) == [vars |-> v, fresh |-> 1]

Init ==
    /\ test \in Tests
    /\ pc = "define"
    /\ todo = DOMAIN test.variables
    /\ env = NewEnv([x \in {"run_id"} |-> RunID])
    /\ step = 1 /\ attempt = 1
    /\ clean = TRUE
    /\ sent = << >>
    /\ response = NoResponse
    /\ cols = << >>
    /\ errors = [trigger |-> << >>, receivers |-> << >>, result |-> << >>]

----------------------------------------------------------------------------
\* Mutant of DefineVariable: the text is stored with its placeholders.
DefineVariableRaw(x) ==
    /\ pc = "define" /\ x \in todo
    /\ todo' = todo \ {x}
    /\ IF x \in ReservedVarNames THEN UNCHANGED env
       ELSE env' = [env EXCEPT !.vars = Put(@, x, test.variables[x])]
    /\ UNCHANGED <<test, pc, step, attempt, clean, sent, response, cols, errors>>

(* The range over def.Variables, in any order. *)
DefineVariable(x) ==
    /\ pc = "define" /\ x \in todo
    /\ todo' = todo \ {x}
    /\ IF x \in ReservedVarNames THEN UNCHANGED env
       ELSE \E y \in ReplaceString(test.variables[x], env) :
                env' = [y.env EXCEPT !.vars = Put(@, x, y.text)]
    /\ UNCHANGED <<test, pc, step, attempt, clean, sent, response, cols, errors>>

(* The run is over: Notify makes the calls of a failed one. *)
Finish(ok) ==
    IF ok THEN pc' = "done" /\ UNCHANGED todo
    ELSE pc' = "notify" /\ todo' = DOMAIN test.calls

VariablesDefined ==
    /\ pc = "define" /\ todo = {}
    /\ IF test.triggers = << >> THEN Finish(TRUE) ELSE pc' = "attempt" /\ UNCHANGED todo
    /\ UNCHANGED <<test, env, step, attempt, clean, sent, response, cols, errors>>

----------------------------------------------------------------------------
(* A request with its placeholders replaced: the url, the headers in any   *)
(* order, the body in any order, each seeing the increments before it.     *)
Resolve(req, e) ==
    UNION {UNION {{[request |-> [url |-> u.text, headers |-> h.fields, body |-> b.fields],
                    env |-> b.env] :
                       b \in ReplaceFields(req.body, h.env)} :
                   h \in ReplaceFields(req.headers, u.env)} :
               u \in ReplaceString(req.url, e)}

IsForm(headers) ==
    "content-type" \in DOMAIN headers /\ headers["content-type"] = Lit("form")

HasPlaceholder(q) ==
    \/ HasUnresolved(q.url)
    \/ \E k \in DOMAIN q.headers : HasUnresolved(q.headers[k])
    \/ \E k \in DOMAIN q.body : HasUnresolved(q.body[k])

(* unresolvedTriggerReason looks at the body as it is sent, and the braces *)
(* of an encoded form are escaped.                                         *)
Unresolved(q) ==
    HasPlaceholder(IF IsForm(q.headers) THEN [q EXCEPT !.body = EmptyTable] ELSE q)

(* The text of an error: its own words are one literal, and what it quotes *)
(* is kept when there are placeholders in it; << >> is no error.           *)
Quoting(text) == Lit("error") \o (IF HasUnresolved(text) THEN text ELSE << >>)

BodyText(body) ==
    LET order == SetToSeq(DOMAIN body) IN FlattenSeq([i \in DOMAIN order |-> body[order[i]]])

(* unresolvedTriggerReason, and that of a poll: the url and the body are   *)
(* quoted, of a header only the name.                                      *)
Reason(q) ==
    IF HasUnresolved(q.url) THEN Quoting(q.url)
    ELSE IF \E k \in DOMAIN q.headers : HasUnresolved(q.headers[k]) THEN Quoting(<< >>)
    ELSE Quoting(BodyText(q.body))

\* Mutant of WithRunID: run_id is set once, where the map is made.
WithRunIDOnce(e) == e

(* vars["run_id"] = runID, at the head of Execute and of attempt. *)
WithRunID(e) == [e EXCEPT !.vars = Put(@, "run_id", RunID)]

\* Mutant of RetryOrGiveUp: one attempt too many.
RetryOrGiveUpLate(trigger, result) ==
    /\ UNCHANGED step
    /\ IF attempt <= test.attempts
       THEN /\ pc' = "attempt" /\ attempt' = attempt + 1 /\ UNCHANGED todo
            /\ errors' = [errors EXCEPT !.trigger = trigger, !.result = result]
       ELSE /\ Finish(FALSE) /\ UNCHANGED attempt
            /\ errors' = [errors EXCEPT !.trigger = trigger,
                                       !.result = IF trigger # << >> THEN trigger ELSE result]

(* The attempt has failed: trigger and result are what lastTriggerErr and  *)
(* result.Error are after it.  The last attempt's failResult prefers the   *)
(* trigger's error, also one of an earlier attempt.                        *)
RetryOrGiveUp(trigger, result) ==
    /\ UNCHANGED step
    /\ IF attempt < test.attempts
       THEN /\ pc' = "attempt" /\ attempt' = attempt + 1 /\ UNCHANGED todo
            /\ errors' = [errors EXCEPT !.trigger = trigger, !.result = result]
       ELSE /\ Finish(FALSE) /\ UNCHANGED attempt
            /\ errors' = [errors EXCEPT !.trigger = trigger,
                                       !.result = IF trigger # << >> THEN trigger ELSE result]

TriggerFailed(quoted) == RetryOrGiveUp(Quoting(quoted), errors.result)

StepPassed ==
    /\ step' = step + 1 /\ attempt' = 1 /\ clean' = TRUE
    /\ errors' = [errors EXCEPT !.trigger = << >>]
    /\ IF step = Len(test.triggers) THEN Finish(TRUE) ELSE pc' = "attempt" /\ UNCHANGED todo

(* HTTPTrigger.Execute up to client.Do. *)
Execute ==
    /\ pc = "attempt"
    /\ \E r \in Resolve(Trigger.request, WithRunID(env)) :
          /\ env' = r.env
          /\ IF Unresolved(r.request)
             THEN RetryOrGiveUp(Reason(r.request), errors.result) /\ UNCHANGED sent
             ELSE /\ sent' = Append(sent, [step |-> step, attempt |-> attempt,
                                           request |-> r.request])
                  /\ pc' = "answer"
                  /\ UNCHANGED <<step, attempt, todo, errors>>
    /\ UNCHANGED <<test, clean, response, cols>>

NoUse == [vars |-> EmptyTable, writes |-> {}, then |-> "none", err |-> << >>]

(* err is the error of the last poll. *)
NewCollector == [at |-> "collect", polls |-> 0, fields |-> EmptyTable, doc |-> NoJSON,
                 raw |-> << >>, err |-> << >>, use |-> NoUse]

Ended == [NewCollector EXCEPT !.at = "ended"]

(* The trigger has succeeded: receivers start, or there are none. *)
TriggerFired ==
    IF Trigger.receivers = << >>
    THEN StepPassed /\ UNCHANGED cols
    ELSE /\ pc' = "collect"
         /\ cols' = [i \in DOMAIN Trigger.receivers |-> NewCollector]
         /\ UNCHANGED <<step, attempt, clean, todo, errors>>

(* The extracted values that are there, over the variables. *)
Extracted(extract, fields, v) ==
    PutOver([x \in {y \in DOMAIN extract : extract[y] \in DOMAIN fields} |-> fields[extract[x]]], v)

(* Execute after client.Do, and the merge of what it returns. *)
AnswerRefused(a) ==
    /\ pc = "answer"
    /\ ~a.ok \/ (a.body = NoJSON /\ (DOMAIN Trigger.extract # {} \/ Trigger.asserts # << >>))
    /\ TriggerFailed(IF a.ok THEN << >> ELSE a.raw)
    /\ UNCHANGED <<test, env, clean, sent, response, cols>>

AnswerIgnored(a) ==
    /\ pc = "answer"
    /\ a.ok /\ DOMAIN Trigger.extract = {} /\ Trigger.asserts = << >>
    /\ TriggerFired
    /\ UNCHANGED <<test, env, sent, response>>

AnswerRead(a) ==
    /\ pc = "answer"
    /\ a.ok /\ a.body # NoJSON /\ (DOMAIN Trigger.extract # {} \/ Trigger.asserts # << >>)
    /\ \E f \in FieldsOf(a.body) : \E o \in RunAssertions(Trigger.asserts, f, a.body, env) :
          /\ response' = [step |-> step, doc |-> a.body, fields |-> f, verdict |-> o.status]
          /\ IF o.status = "passed"
             THEN /\ env' = [o.env EXCEPT !.vars = Extracted(Trigger.extract, f, @)]
                  /\ TriggerFired
             ELSE env' = o.env /\ TriggerFailed(o.error \o a.raw) /\ UNCHANGED <<clean, cols>>
    /\ UNCHANGED <<test, sent>>

----------------------------------------------------------------------------
(* The goroutine of receiver i.  A use of the map that has begun is kept   *)
(* in cols[i].use: the values it leaves, the keys it writes, where the     *)
(* goroutine goes on and, if something failed, the error.                  *)
Rcv(i) == Trigger.receivers[i]

Col(i, at) == pc = "collect" /\ i \in DOMAIN cols /\ cols[i].at = at

Changed(before, after) ==
    {k \in DOMAIN after : k \notin DOMAIN before \/ after[k] # before[k]}

BeginUse(i, after, writes, then, err) ==
    /\ cols' = [cols EXCEPT ![i].at = "using",
                            ![i].use = [vars |-> after.vars, writes |-> writes, then |-> then,
                                        err |-> err]]
    /\ env' = [env EXCEPT !.fresh = after.fresh]
    /\ UNCHANGED <<test, pc, todo, step, attempt, clean, sent, response, errors>>

(* attempt: its head, up to client.Do.  A request with a placeholder left  *)
(* is an attempt that failed.                                              *)
BeginPoll(i) ==
    /\ Col(i, "collect") /\ Rcv(i).type = "api" /\ cols[i].polls < MaxPolls
    /\ \E r \in Resolve(Rcv(i).request, WithRunID(env)) :
          LET writes == Changed(env.vars, r.env.vars) \cup {"run_id"} IN
          IF Unresolved(r.request)
          THEN BeginUse(i, r.env, writes, "again", Reason(r.request))
          ELSE BeginUse(i, r.env, writes, "asked", << >>)

PollFailed(i, err) == [NewCollector EXCEPT !.polls = cols[i].polls + 1, !.err = err]

(* The tail of attempt: the status, the document, the response assertions. *)
PollAnswered(i, a) ==
    /\ Col(i, "asked")
    /\ LET asserts == Rcv(i).responseAsserts # << >> IN
       IF ~a.ok \/ (asserts /\ a.body = NoJSON)
       THEN cols' = [cols EXCEPT ![i] = PollFailed(i, Quoting(IF a.ok THEN << >> ELSE a.raw))]
       ELSE \E f \in IF a.body = NoJSON THEN {EmptyTable} ELSE FieldsOf(a.body) :
                cols' = [cols EXCEPT ![i].at = IF asserts THEN "check" ELSE "got",
                                     ![i].fields = f, ![i].doc = a.body, ![i].raw = a.raw,
                                     ![i].err = << >>]
    /\ UNCHANGED <<test, pc, todo, env, step, attempt, clean, sent, response, errors>>

BeginCheck(i) ==
    /\ Col(i, "check")
    /\ \E o \in RunAssertions(Rcv(i).responseAsserts, cols[i].fields, cols[i].doc, env) :
          LET writes == Changed(env.vars, o.env.vars) IN
          IF o.status = "passed"
          THEN BeginUse(i, o.env, writes, "got", << >>)
          ELSE BeginUse(i, o.env, writes, "again", Quoting(o.error \o cols[i].raw))

(* A message for the run is in the store. *)
ClaimMessage(i, doc) ==
    /\ Col(i, "collect") /\ Rcv(i).type = "webhook"
    /\ \E f \in FieldsOf(doc) :
          cols' = [cols EXCEPT ![i].at = "got", ![i].fields = f, ![i].doc = doc]
    /\ UNCHANGED <<test, pc, todo, env, step, attempt, clean, sent, response, errors>>

\* Mutant of BeginAssertions: the receiver's assertions set run_id too.
BeginAssertionsSettingRunID(i) ==
    /\ Col(i, "got") /\ Rcv(i).asserts # << >>
    /\ \E o \in RunAssertions(Rcv(i).asserts, cols[i].fields, cols[i].doc, WithRunID(env)) :
          BeginUse(i, o.env, Changed(env.vars, o.env.vars) \cup {"run_id"}, o.status,
                   IF o.status = "passed" THEN << >> ELSE Quoting(o.error))

(* collectAndAssert after Collect. *)
NothingToAssert(i) ==
    /\ Col(i, "got") /\ Rcv(i).asserts = << >>
    /\ cols' = [cols EXCEPT ![i] = Ended]
    /\ UNCHANGED <<test, pc, todo, env, step, attempt, clean, sent, response, errors>>

BeginAssertions(i) ==
    /\ Col(i, "got") /\ Rcv(i).asserts # << >>
    /\ \E o \in RunAssertions(Rcv(i).asserts, cols[i].fields, cols[i].doc, env) :
          BeginUse(i, o.env, Changed(env.vars, o.env.vars), o.status,
                   IF o.status = "passed" THEN << >> ELSE Quoting(o.error))

Verdicts == {"passed", "failed", "error"}

EndUse(i) ==
    /\ Col(i, "using")
    /\ LET u == cols[i].use IN
       /\ env' = [env EXCEPT !.vars = PutOver(Restrict(u.vars, u.writes), @)]
       /\ cols' = CASE u.then = "again"  -> [cols EXCEPT ![i] = PollFailed(i, u.err)]
                   [] u.then \in Verdicts -> [cols EXCEPT ![i] = Ended]
                   [] OTHER -> [cols EXCEPT ![i].at = u.then, ![i].use = NoUse]
       /\ clean' = (clean /\ u.then \notin {"failed", "error"})
       /\ errors' = [errors EXCEPT !.receivers =
                         IF u.then \in {"failed", "error"} THEN @ \o u.err ELSE @]
    /\ UNCHANGED <<test, pc, todo, step, attempt, sent, response>>

(* The receiver's deadline: an API receiver has polled before it looks at  *)
(* it, and quotes the error of the last poll.                              *)
CollectTimesOut(i) ==
    /\ \/ Col(i, "collect") /\ (Rcv(i).type = "api" => cols[i].polls > 0)
       \/ Col(i, "asked")
    /\ cols' = [cols EXCEPT ![i] = Ended]
    /\ clean' = FALSE
    /\ errors' = [errors EXCEPT !.receivers =
                      @ \o Quoting(IF cols[i].at = "asked" THEN << >> ELSE cols[i].err)]
    /\ UNCHANGED <<test, pc, todo, env, step, attempt, sent, response>>

(* wg.Wait, the summary of what failed, and the end of the attempt. *)
WaitAll ==
    /\ pc = "collect" /\ \A i \in DOMAIN cols : cols[i].at = "ended"
    /\ cols' = << >>
    /\ IF clean THEN StepPassed
       ELSE /\ RetryOrGiveUp(errors.trigger, IF errors.result = << >> THEN errors.receivers
                                             ELSE errors.result)
            /\ UNCHANGED clean
    /\ UNCHANGED <<test, env, sent, response>>

(* The runtime finds a write of the map that overlaps another use of it.   *)
Racing(i, j) ==
    /\ i # j /\ Col(i, "using") /\ Col(j, "using")
    /\ cols[i].use.writes # {}

ConcurrentMapAccess ==
    /\ pc = "collect" /\ \E i, j \in DOMAIN cols : Racing(i, j)
    /\ pc' = "crashed"
    /\ UNCHANGED <<test, todo, env, step, attempt, clean, sent, response, cols, errors>>

----------------------------------------------------------------------------
(* Notify works on a copy: run_id, test_id and error, and over them the    *)
(* variables of the run.  One call after the other; a call with a          *)
(* placeholder left is skipped, one that fails changes nothing.  The copy  *)
(* takes the place of env, which nothing reads any more.                   *)
NotifierVars ==
    [vars |-> PutOver(env.vars, [x \in ReservedVarNames |->
                                    CASE x = "run_id"  -> RunID
                                      [] x = "test_id" -> Lit("test")
                                      [] x = "error"   -> errors.result]),
     fresh |-> env.fresh]

\* Mutant of Call: a call that is skipped is the last.
CallUntilSkipped ==
    LET n == CHOOSE i \in todo : \A j \in todo : i <= j IN
    /\ pc = "notify" /\ todo # {}
    /\ \E r \in Resolve(test.calls[n], NotifierVars) :
          /\ env' = r.env
          /\ sent' = IF HasPlaceholder(r.request) THEN sent
                     ELSE Append(sent, [step |-> 0, attempt |-> n, request |-> r.request])
          /\ todo' = IF HasPlaceholder(r.request) THEN {} ELSE todo \ {n}
    /\ UNCHANGED <<test, pc, step, attempt, clean, response, cols, errors>>

Call ==
    LET n == CHOOSE i \in todo : \A j \in todo : i <= j IN
    /\ pc = "notify" /\ todo # {}
    /\ \E r \in Resolve(test.calls[n], NotifierVars) :
          /\ env' = r.env
          /\ sent' = IF HasPlaceholder(r.request) THEN sent
                     ELSE Append(sent, [step |-> 0, attempt |-> n, request |-> r.request])
    /\ todo' = todo \ {n}
    /\ UNCHANGED <<test, pc, step, attempt, clean, response, cols, errors>>

Notified ==
    /\ pc = "notify" /\ todo = {}
    /\ pc' = "done"
    /\ UNCHANGED <<test, todo, env, step, attempt, clean, sent, response, cols, errors>>

Over == pc \in {"done", "crashed"} /\ UNCHANGED vars

Next ==
    \/ \E x \in todo : DefineVariable(x)
    \/ VariablesDefined
    \/ Execute
    \/ \E a \in Answers : AnswerRefused(a) \/ AnswerIgnored(a) \/ AnswerRead(a)
    \/ \E i \in DOMAIN cols :
          \/ BeginPoll(i) \/ BeginCheck(i) \/ BeginAssertions(i) \/ NothingToAssert(i)
          \/ EndUse(i) \/ CollectTimesOut(i)
          \/ \E a \in Answers : PollAnswered(i, a)
          \/ \E doc \in Documents : ClaimMessage(i, doc)
    \/ WaitAll
    \/ ConcurrentMapAccess
    \/ Call \/ Notified
    \/ Over

Spec == Init /\ [][Next]_vars

----------------------------------------------------------------------------
(* The variables and the errors hold texts, run_id is always among the     *)
(* variables, the loops stay inside the definition and goroutines exist    *)
(* only while they are waited for.                                         *)
TypeOK ==
    /\ pc \in {"define", "attempt", "answer", "collect", "notify", "done", "crashed"}
    /\ "run_id" \in DOMAIN env.vars /\ IsTexts(env.vars)
    /\ env.fresh \in Nat \ {0}
    /\ pc \in {"attempt", "answer", "collect"} =>
          step \in DOMAIN test.triggers /\ attempt \in 1 .. test.attempts
    /\ pc \notin {"collect", "crashed"} => cols = << >>
    /\ \A i \in DOMAIN cols : /\ cols[i].at \in {"collect", "using", "asked", "check", "got", "ended"}
                              /\ cols[i].polls \in 0 .. MaxPolls
    /\ clean \in BOOLEAN
    /\ errors \in [trigger : Texts, receivers : Texts, result : Texts]

(* The headers and the body fields of a request, the requests of triggers  *)
(* with their templates, and what was sent in place of {{x}}.              *)
Places(q) == [at : {"headers"}, key : DOMAIN q.headers] \cup [at : {"body"}, key : DOMAIN q.body]

Place(q, s) == IF s.at = "headers" THEN q.headers[s.key] ELSE q.body[s.key]

Requests == {n \in DOMAIN sent : sent[n].step # 0}

Template(n) == test.triggers[sent[n].step].request

Values(n, x) ==
    {Place(sent[n].request, s) : s \in {p \in Places(Template(n)) : Place(Template(n), p) = Var(x)}}

(* The texts that are resolved before the notifier is called.              *)
TextsIn(q) == {q.url} \cup Range(q.headers) \cup Range(q.body)

AssertionTexts(as) == UNION {{as[n].field, as[n].value} : n \in DOMAIN as}

StepTexts(t) ==
    TextsIn(t.request) \cup AssertionTexts(t.asserts) \cup
    UNION {TextsIn(r.request) \cup AssertionTexts(r.responseAsserts) \cup AssertionTexts(r.asserts) :
              r \in Range(t.receivers)}

RunTexts == Range(test.variables) \cup UNION {StepTexts(t) : t \in Range(test.triggers)}

Uses(op, x) == \E s \in RunTexts : <<op, x>> \in Range(s)

Extracts(x) == \E t \in Range(test.triggers) : x \in DOMAIN t.extract

(* The triggers of a run never send a counter's value twice in headers and *)
(* bodies: each {{++(x)}} there, of a later step or of a retry, that is    *)
(* replaced gets a number of its own, since the map that is changed is the *)
(* one every attempt resolves against, and receivers that overwrite each   *)
(* other's increments never go below what was sent before them.  Not so    *)
(* for a variable that is also counted down or extracted, and nothing is   *)
(* said of urls and of the polls of receivers.                             *)
Counter(t) == Len(t) = 1 /\ t[1][1] = "inc"

Numbers(n) == {s \in Places(Template(n)) : Counter(Place(Template(n), s))}

NumberSent(n, s) == Place(sent[n].request, s)

CounterOf(n, s) == Place(Template(n), s)[1][2]

SequenceNumbersDistinct ==
    \A m, n \in Requests : \A s \in Numbers(m), t \in Numbers(n) :
        (/\ NumberSent(m, s) = NumberSent(n, t) /\ IsInt(NumberSent(m, s))
         /\ CounterOf(m, s) = CounterOf(n, t))
            => \/ <<m, s>> = <<n, t>>
               \/ Uses("dec", CounterOf(m, s)) \/ Extracts(CounterOf(m, s))

(* README: "{{run_id}}: Injected automatically by the Orchestrator.  It's  *)
(* the unique UUID for the current test run": every request of a trigger   *)
(* that asks for it carries it, also after a response had a value          *)
(* extracted under that name.  There the code and this property go against *)
(* the README's "increasing precedence order", in which an extract comes   *)
(* after run_id.                                                           *)
RequestsCarryRunID ==
    \A n \in Requests : Values(n, "run_id") \subseteq {RunID}

(* README: "Each variable is resolved once at start-up of the run;         *)
(* generators are not re-evaluated": all the requests of a run, retries    *)
(* too, carry one value for a variable with a generator in it, unless an   *)
(* extract replaces it, it is counted, or it has a variable in it.         *)
Generated(x) ==
    /\ x \in DOMAIN test.variables \ ReservedVarNames
    /\ \E p \in Range(test.variables[x]) : p[1] = "gen"
    /\ \A p \in Range(test.variables[x]) : p[1] # "var"
    /\ ~Extracts(x) /\ ~Uses("inc", x) /\ ~Uses("dec", x)

OneShotGenerators ==
    \A x \in DOMAIN test.variables :
        Generated(x) =>
            \A m, n \in Requests : \A v \in Values(m, x), w \in Values(n, x) : v = w

(* The unlocked map can end the process only in a step with two receivers, *)
(* one of which polls an API or has an increment in an assertion:          *)
(* receivers that only read the variables are safe together.               *)
Increments(as) == \E t \in AssertionTexts(as) : \E i \in DOMAIN t : t[i][1] \in {"inc", "dec"}

OnlySharedStepsCrash ==
    pc = "crashed" =>
        \E i, j \in DOMAIN Trigger.receivers :
            i # j /\ (Rcv(i).type = "api" \/ Increments(Rcv(i).asserts))

(* A run that failed makes each call of on_failure at most once, and       *)
(* exactly once one that needs only the run id, the test id and the error  *)
(* and finds no placeholder in those it needs, whether or not a call       *)
(* before it was skipped; a run that passed makes none.  An error that     *)
(* quotes a placeholder keeps the calls that send it from being made, of   *)
(* which the README says nothing: a run that failed is to be notified.     *)
Failed == step <= Len(test.triggers)

CallsMade(n) == Cardinality({m \in DOMAIN sent : sent[m].step = 0 /\ sent[m].attempt = n})

Needs(q, names) ==
    \A t \in TextsIn(q) : \A p \in Range(t) : p[1] = "lit" \/ (p[1] = "var" /\ p[2] \in names)

CleanNames == {x \in ReservedVarNames : ~HasUnresolved(NotifierVars.vars[x])}

FailuresAreReported ==
    pc = "done" =>
        \A n \in DOMAIN test.calls :
            /\ CallsMade(n) <= IF Failed THEN 1 ELSE 0
            /\ Failed /\ Needs(test.calls[n], CleanNames) => CallsMade(n) = 1

----------------------------------------------------------------------------
(* What the documentation says, and the code does not do.                  *)

(* README: "Values may use other variables (..., previously-defined        *)
(* `variables`, and generators)".                                          *)
VariablesResolve ==
    pc # "define" =>
        \A x \in DOMAIN test.variables :
            (\A p \in Range(test.variables[x]) : p[1] = "var" =>
                p[2] \in DOMAIN test.variables /\ ~HasUnresolved(test.variables[p[2]]))
                    => ~HasUnresolved(env.vars[x])
============================================================================
