------------------------------ MODULE Inbound ------------------------------
(***************************************************************************)
(* How messages reach the runs that wait for them: webhook requests        *)
(* through a provider's extractor and the ingestor into the store, mails   *)
(* into a mailbox that nobody empties, and the webhook and IMAP receivers  *)
(* of runs that retry.  Orchestrator lets messages come as they like; here *)
(* it matters what is in them, to whom they go and which of them are lost. *)
(*                                                                         *)
(* A text is the run id in it, if any, and whether there are blanks around *)
(* it.  A field's name is the sequence of the parts between the dots.      *)
(***************************************************************************)
EXTENDS Naturals, Sequences, FiniteSets, Tables

CONSTANTS Runs,          \* run identifiers
          Requests,      \* webhook requests the outside makes
          Mails,         \* mails the outside sends
          MaxRequests,   \* bound on the requests
          MaxMails,      \* bound on the mails
          MaxAttempts    \* attempts of a test with retry

(* A request: [provider, json, query, headers, kind, body], kind one of    *)
(* "fields", "empty" and "malformed", the tables of texts with names in    *)
(* lower case.  A mail: [ok, subject, parts], subject the ids in it, a     *)
(* part [type, blank, ids]; type "broken" is where NextPart fails.         *)
Text(id) == [id |-> id, padded |-> FALSE]
Padded(id) == [id |-> id, padded |-> TRUE]
Empty == Text("")
Unknown == Text("unknown")
NoID == Text("other")

TrimSpace(t) == [t EXCEPT !.padded = FALSE]

Texts == [id : STRING, padded : BOOLEAN]

Parts == [type : STRING, blank : BOOLEAN, ids : SUBSET STRING]

(* A run id is none of the ids that stand for no run; names in lower case  *)
(* are sequences of parts; a body that is empty or does not parse has no   *)
(* fields, a blank part of a mail no ids.                                  *)
ASSUME InboundAssumption ==
    /\ Runs \subseteq STRING \ {"", "unknown", "other"}
    /\ \A q \in Requests :
          /\ q.json \in BOOLEAN
          /\ q.kind \in {"fields", "empty", "malformed"}
          /\ \A t \in {q.query, q.headers, q.body} : IsTable(t, Seq(STRING), Texts)
          /\ q.kind # "fields" => q.body = EmptyTable
    /\ \A m \in Mails :
          /\ m.ok \in BOOLEAN
          /\ m.parts \in Seq(Parts)
          /\ \A n \in DOMAIN m.parts : m.parts[n].blank => m.parts[n].ids = {}
    /\ MaxRequests \in Nat /\ MaxMails \in Nat /\ MaxAttempts \in Nat \ {0}

Field(fields, name) == IF name \in DOMAIN fields THEN fields[name] ELSE Empty

VARIABLES type,      \* the kind of receiver of each run
          col,       \* each run's receiver: [at, attempt, hand]
          store,     \* Claim's key (a run id) -> number of the request
          log,       \* requests answered with 204
          mailbox,   \* mails, by sequence number
          got        \* what each run has collected so far

vars == <<type, col, store, log, mailbox, got>>

NotStarted(n) == [at |-> "idle", attempt |-> n, hand |-> 0]

Init ==
    /\ type \in [Runs -> {"webhook", "imap"}]
    /\ col = [r \in Runs |-> NotStarted(1)]
    /\ store = EmptyTable
    /\ log = << >>
    /\ mailbox = << >>
    /\ got = [r \in Runs |-> << >>]

----------------------------------------------------------------------------
(* Extraction.  A form's values are those of its body and of the query,    *)
(* joined where both have one; the raw body of a form that does not parse  *)
(* is nil.                                                                 *)
FormFields(q) ==
    [x \in DOMAIN q.body \cup DOMAIN q.query |->
        IF x \in DOMAIN q.body \cap DOMAIN q.query THEN NoID
        ELSE IF x \in DOMAIN q.body THEN q.body[x] ELSE q.query[x]]

ExtractFields(q) ==
    IF q.json
    THEN [ok |-> q.kind = "fields", rawEmpty |-> q.kind = "empty", fields |-> q.body]
    ELSE [ok |-> q.kind # "malformed", rawEmpty |-> TRUE,
          fields |-> IF q.kind = "malformed" THEN EmptyTable ELSE FormFields(q)]

Prefixed(prefix, fields) ==
    [x \in {<<prefix>> \o y : y \in DOMAIN fields} |-> fields[Tail(x)]]

Method == [x \in {<<"method">>} |-> NoID]

\* Mutant of GenericFields: what is in the body goes over the rest.
GenericFieldsBodyLast(q, fields) ==
    PutOver(fields, PutOver(Prefixed("body", fields), PutOver(Prefixed("headers", q.headers),
         PutOver(Prefixed("query", q.query), Method))))

(* The later of two assignments to one field stays. *)
GenericFields(q, fields) ==
    PutOver(Method, PutOver(Prefixed("query", q.query), PutOver(Prefixed("headers", q.headers),
         PutOver(Prefixed("body", fields), fields))))

\* Mutant of GenericRunID: the body is looked at before the headers.
GenericRunIDBodyFirst(q, fields) ==
    LET inQuery == Field(q.query, <<"run_id">>)
        inHeader == Field(q.headers, <<"x-e2e-run-id">>)
        inBody == TrimSpace(Field(fields, <<"run_id">>))
    IN IF inQuery # Empty THEN inQuery
       ELSE IF inBody # Empty THEN inBody
       ELSE inHeader

GenericRunID(q, fields) ==
    LET inQuery == Field(q.query, <<"run_id">>)
        inHeader == Field(q.headers, <<"x-e2e-run-id">>)
        inBody == TrimSpace(Field(fields, <<"run_id">>))
    IN IF inQuery # Empty THEN inQuery
       ELSE IF inHeader # Empty THEN inHeader
       ELSE IF inBody # Empty THEN inBody
       ELSE TrimSpace(Field(fields, <<"runid">>))

Rejected == [ok |-> FALSE, run |-> Empty, fields |-> EmptyTable]

GenericExtract(q) ==
    LET x == ExtractFields(q)
        bare == IF x.ok THEN x.fields ELSE EmptyTable
        all == GenericFields(q, bare)
    IN IF ~x.ok /\ ~x.rawEmpty THEN Rejected
       ELSE [ok |-> TRUE, run |-> GenericRunID(q, all), fields |-> all]

MetaExtract(q) ==
    LET x == ExtractFields(q)
        id == Field(x.fields, <<"messages", "0", "text", "body">>)
    IN IF ~x.ok THEN Rejected
       ELSE [ok |-> TRUE, run |-> IF id = Empty THEN Unknown ELSE id, fields |-> x.fields]

TwilioExtract(q) ==
    LET x == ExtractFields(q) IN
    IF ~x.ok THEN Rejected
    ELSE [ok |-> TRUE, run |-> TrimSpace(Field(x.fields, <<"body">>)), fields |-> x.fields]

Providers == {"generic", "meta", "twilio"}

Extract(q) ==
    CASE q.provider = "generic" -> GenericExtract(q)
      [] q.provider = "meta"    -> MetaExtract(q)
      [] q.provider = "twilio"  -> TwilioExtract(q)

----------------------------------------------------------------------------
(* handleWebhook, with Ingest and the store's Deposit.  What is answered   *)
(* with 404, 400 or 500 leaves nothing behind.                             *)
Valid(run) == TrimSpace(run) # Empty /\ run # Unknown

Accepted(q) == q.provider \in Providers /\ Extract(q).ok /\ Valid(Extract(q).run)

RejectWebhook(q) == ~Accepted(q) /\ UNCHANGED vars

DepositFails(q) == Accepted(q) /\ UNCHANGED vars

Deposit(q) ==
    /\ Accepted(q)
    /\ Len(log) < MaxRequests
    /\ log' = Append(log, q)
    /\ store' = Put(store, Extract(q).run, Len(log) + 1)
    /\ UNCHANGED <<type, col, mailbox, got>>

(* The message's TTL. *)
Expire(k) ==
    /\ k \in DOMAIN store
    /\ store' = Drop(store, k)
    /\ UNCHANGED <<type, col, log, mailbox, got>>

MailArrives(m) ==
    /\ Len(mailbox) < MaxMails
    /\ mailbox' = Append(mailbox, m)
    /\ UNCHANGED <<type, col, store, log, got>>

----------------------------------------------------------------------------
At(r, at) == col[r].at = at

Go(r, at) ==
    /\ col' = [col EXCEPT ![r].at = at]
    /\ UNCHANGED <<type, log, mailbox>>

(* Collect returns a message: number n of the log or of the mailbox, found *)
(* by its key, by the subject or by the body.                              *)
Collect(r, n, by) ==
    /\ got' = [got EXCEPT ![r] = Append(@, [n |-> n, by |-> by])]
    /\ col' = [col EXCEPT ![r].at = "claimed", ![r].hand = n]
    /\ UNCHANGED <<type, store, log, mailbox>>

\* Mutant of Start: the messages of an earlier attempt are cleared away.
StartClean(r) ==
    /\ At(r, "idle") /\ Go(r, "waiting") /\ UNCHANGED got
    /\ store' = Drop(store, Text(r))

Start(r) == At(r, "idle") /\ Go(r, "waiting") /\ UNCHANGED <<store, got>>

ConnectFails(r) ==
    At(r, "idle") /\ type[r] = "imap" /\ Go(r, "done") /\ UNCHANGED <<store, got>>

(* WebhookReceiver.Collect on a tick. *)
Claim(r) ==
    /\ At(r, "waiting") /\ type[r] = "webhook"
    /\ Text(r) \in DOMAIN store
    /\ Collect(r, store[Text(r)], "key")

InSubject(r) == {n \in DOMAIN mailbox : r \in mailbox[n].subject}

InBody(r) == {n \in DOMAIN mailbox : \E p \in Range(mailbox[n].parts) : r \in p.ids}

(* seqNums[0], fetched and parsed; what does not parse ends Collect. *)
First(S) == CHOOSE n \in S : \A k \in S : n <= k

Fetch(r, n, by) ==
    IF mailbox[n].ok THEN Collect(r, n, by) ELSE Go(r, "ended") /\ UNCHANGED <<store, got>>

\* Mutant of SearchBySubject: the newest mail is taken.
SearchBySubjectNewest(r) ==
    /\ At(r, "waiting") /\ type[r] = "imap"
    /\ IF InSubject(r) # {} THEN Fetch(r, CHOOSE n \in InSubject(r) : \A k \in InSubject(r) : k <= n, "subject")
       ELSE Go(r, "searching") /\ UNCHANGED <<store, got>>

\* Mutant of SearchBySubject: mails without the id in their subject are not looked for.
SearchBySubjectOnly(r) ==
    /\ At(r, "waiting") /\ type[r] = "imap"
    /\ InSubject(r) # {}
    /\ Fetch(r, First(InSubject(r)), "subject")

(* SearchByRunID on a tick: two searches, one after the other. *)
SearchBySubject(r) ==
    /\ At(r, "waiting") /\ type[r] = "imap"
    /\ IF InSubject(r) # {} THEN Fetch(r, First(InSubject(r)), "subject")
       ELSE Go(r, "searching") /\ UNCHANGED <<store, got>>

SearchByBody(r) ==
    /\ At(r, "searching")
    /\ IF InBody(r) # {} THEN Fetch(r, First(InBody(r)), "body")
       ELSE Go(r, "waiting") /\ UNCHANGED <<store, got>>

(* The store's Claim or a command of the mail client returns an error. *)
CollectFails(r) ==
    /\ At(r, "waiting") \/ At(r, "searching")
    /\ Go(r, "ended")
    /\ UNCHANGED <<store, got>>

(* The deadline, which only the select looks at. *)
TimesOut(r) == At(r, "waiting") /\ Go(r, "ended") /\ UNCHANGED <<store, got>>

(* collectAndAssert deletes what the run and the receiver's type have in   *)
(* the store by now, and drops the error.                                  *)
Delete(r) ==
    /\ At(r, "claimed")
    /\ Go(r, "ended")
    /\ \/ store' = IF type[r] = "webhook" THEN Drop(store, Text(r)) ELSE store
       \/ UNCHANGED store
    /\ UNCHANGED got

\* Mutant of Retry: attempts are counted from zero.
RetryOnceMore(r) ==
    /\ At(r, "ended") /\ col[r].attempt <= MaxAttempts
    /\ col' = [col EXCEPT ![r] = NotStarted(@.attempt + 1)]
    /\ UNCHANGED <<type, store, log, mailbox, got>>

(* The attempt has failed, and the next one gets a receiver of its own; or *)
(* the test is over.                                                       *)
Retry(r) ==
    /\ At(r, "ended") /\ col[r].attempt < MaxAttempts
    /\ col' = [col EXCEPT ![r] = NotStarted(@.attempt + 1)]
    /\ UNCHANGED <<type, store, log, mailbox, got>>

Finish(r) == At(r, "ended") /\ Go(r, "done") /\ UNCHANGED <<store, got>>

----------------------------------------------------------------------------
Outside ==
    \/ \E q \in Requests : RejectWebhook(q) \/ DepositFails(q) \/ Deposit(q)
    \/ \E k \in DOMAIN store : Expire(k)
    \/ \E m \in Mails : MailArrives(m)

Tick(r) == Claim(r) \/ SearchBySubject(r) \/ SearchByBody(r)

Attempt(r) ==
    \/ Start(r) \/ ConnectFails(r) \/ CollectFails(r) \/ TimesOut(r)
    \/ Delete(r) \/ Retry(r) \/ Finish(r)

Next == Outside \/ \E r \in Runs : Tick(r) \/ Attempt(r)

(* The ticker ticks and the mail server answers.  No deadline is assumed.  *)
Fairness == \A r \in Runs : WF_vars(Tick(r))

Spec == Init /\ [][Next]_vars /\ Fairness

----------------------------------------------------------------------------
(* ParseMessage: the body is the first plain part that is not blank, the   *)
(* html_body the first such HTML part, of the parts before a broken one.   *)
Readable(parts) ==
    {n \in DOMAIN parts : \A k \in 1 .. n : parts[k].type # "broken"}

PartOf(parts, t) ==
    LET S == {n \in Readable(parts) : parts[n].type = t /\ ~parts[n].blank}
    IN IF S = {} THEN {} ELSE parts[First(S)].ids

ParseMessage(m) ==
    [subject |-> m.subject, body |-> PartOf(m.parts, "plain"),
     html_body |-> PartOf(m.parts, "html")]

----------------------------------------------------------------------------
(* Receivers and tables are of their kinds; a message in the store is one  *)
(* that was answered with 204, under the run id extracted from it.         *)
TypeOK ==
    /\ type \in [Runs -> {"webhook", "imap"}]
    /\ \A r \in Runs :
          /\ col[r].at \in {"idle", "waiting", "searching", "claimed", "ended", "done"}
          /\ col[r].attempt \in 1 .. MaxAttempts
          /\ Len(got[r]) <= col[r].attempt
    /\ \A k \in DOMAIN store :
          store[k] \in DOMAIN log /\ k = Extract(log[store[k]]).run /\ Valid(k)
    /\ Len(log) <= MaxRequests /\ Len(mailbox) <= MaxMails

(* README, run id resolution order: query, header, body.  For the others   *)
(* the one place they look at.  The fields of a form's body include those  *)
(* of the query.  Blanks around an id are not part of it.                  *)
FormQuery(q, name) == IF q.json THEN Empty ELSE Field(q.query, name)

Places(q) ==
    CASE q.provider = "generic" -> << Field(q.query, <<"run_id">>), Field(q.headers, <<"x-e2e-run-id">>),
                                      Field(q.body, <<"run_id">>), Field(q.body, <<"runid">>),
                                      FormQuery(q, <<"runid">>) >>
      [] q.provider = "meta"    -> LET x == <<"messages", "0", "text", "body">>
                                   IN  << Field(q.body, x), FormQuery(q, x) >>
      [] q.provider = "twilio"  -> << Field(q.body, <<"body">>), FormQuery(q, <<"body">>) >>

Addressee(q) == LET S == {n \in DOMAIN Places(q) : Places(q)[n].id # ""} IN Places(q)[First(S)].id

(* A mail with at most one part of each kind, none of them of a kind that  *)
(* ParseMessage passes over.                                               *)
Simple(m) ==
    /\ \A p \in Range(m.parts) : p.type \in {"plain", "html"}
    /\ \A n, k \in DOMAIN m.parts : m.parts[n].type = m.parts[k].type => n = k

(* A run collects only what is meant for it: the webhook request whose     *)
(* documented place names the run, whatever the places after it say; the   *)
(* mail that shows the run's id in the fields the assertions can see,      *)
(* unless the id is in a part that is not extracted.                       *)
CollectedIsOwn ==
    \A r \in Runs : \A i \in DOMAIN got[r] :
        LET n == got[r][i].n IN
        IF type[r] = "webhook" THEN Addressee(log[n]) = r
        ELSE LET f == ParseMessage(mailbox[n]) IN
             Simple(mailbox[n]) => r \in f.subject \cup f.body \cup f.html_body

(* A retry finds the mail of the attempt before it again: no later mail    *)
(* takes its place, unless the first was found by its body and a later one *)
(* has the id in its subject.                                              *)
RetriesFindSameMail ==
    \A r \in Runs : type[r] = "imap" =>
        \A i, j \in DOMAIN got[r] :
            (i < j /\ got[r][i].n # got[r][j].n) => got[r][i].by = "body" /\ got[r][j].by = "subject"

(* A message that was answered with 204 and that no receiver has read goes *)
(* from the store only because a later one took its place, its TTL was     *)
(* over, or it came while a run that had claimed an earlier one had not    *)
(* yet deleted that one.                                                   *)
ReadBy(n) == {r \in Runs : \E i \in DOMAIN got[r] : type[r] = "webhook" /\ got[r][i].n = n}

UnreadLosses ==
    [][\A k \in DOMAIN store :
           (ReadBy(store[k]) = {} /\ (k \in DOMAIN store' => store'[k] # store[k])) =>
               \/ k \in DOMAIN store' /\ store'[k] > store[k]
               \/ Expire(k)
               \/ \E r \in Runs : k = Text(r) /\ At(r, "claimed") /\ col[r].hand < store[k]]_vars

(* In a message of the generic provider query.x and headers.x are the      *)
(* request's, and body.x is its body's, whatever names the body uses (for  *)
(* a form, unless the query has the name as well).                         *)
NamespacesAreFaithful ==
    \A n \in DOMAIN log :
        LET q == log[n]
            f == Extract(q).fields
            Says(prefix, t) == \A x \in DOMAIN t : Field(f, <<prefix>> \o x) = t[x]
        IN q.provider = "generic" =>
               /\ Says("query", q.query) /\ Says("headers", q.headers)
               /\ Says("body", IF q.json THEN q.body ELSE Restrict(q.body, DOMAIN q.body \ DOMAIN q.query))

(* A mail with the run's id, in the subject or in the body, ends the wait  *)
(* of the run's receiver.                                                  *)
MailEndsWait ==
    \A r \in Runs :
        (type[r] = "imap" /\ At(r, "waiting") /\ InSubject(r) \cup InBody(r) # {})
            ~> ~(At(r, "waiting") \/ At(r, "searching"))
============================================================================
