-------------------------- MODULE VariablesProofs --------------------------
(* The variables of a run, for every set of test definitions and answers. *)
EXTENDS Variables, TemplatesProofs

(* A goroutine's use of the map that has begun: what it writes is in the   *)
(* copy it leaves, and it polls again, or goes on from a poll, only in an  *)
(* API receiver that may poll once more.                                   *)
CollectorOK(c, r) ==
    /\ c.use.writes \subseteq DOMAIN c.use.vars
    /\ IF c.at = "using" THEN c.use.then # "none" ELSE c.use = NoUse
    /\ c.at \in {"asked", "check"} \/ c.use.then \in {"again", "asked"} =>
          r.type = "api" /\ c.polls < MaxPolls
    /\ c.use.writes # {} => r.type = "api" \/ Increments(r.asserts)

CollectorsOK ==
    /\ pc \in {"collect", "crashed"} =>
          DOMAIN cols = DOMAIN Trigger.receivers /\ \A i \in DOMAIN cols : CollectorOK(cols[i], Rcv(i))
    /\ pc = "crashed" => \E i, j \in DOMAIN cols : i # j /\ cols[i].use.writes # {}

Running == pc \in {"attempt", "answer", "collect", "crashed"}

(* Where the loops are. *)
PlacesOK ==
    /\ Running => step \in DOMAIN test.triggers /\ attempt \in 1 .. test.attempts
    /\ pc = "define" => todo \subseteq DOMAIN test.variables /\ sent = << >> /\ step = 1 /\ attempt = 1
    /\ pc = "notify" => todo \subseteq DOMAIN test.calls
    /\ pc \notin {"collect", "crashed"} => cols = << >>

Below(v, x, u) == x \in DOMAIN v /\ IsInt(v[x]) /\ u[1][2] <= v[x][1][2]

(* No number of a counter that was sent is above the counter, nor above    *)
(* what a receiver is about to write to it.                                *)
Reached(x, u) ==
    /\ x # "run_id" /\ u \in Texts /\ Below(env.vars, x, u)
    /\ \A i \in DOMAIN cols : x \in cols[i].use.writes => Below(cols[i].use.vars, x, u)

OnlyUp(x) == ~Uses("dec", x) /\ ~Extracts(x)

NumbersBelow ==
    Running => \A n \in Requests : \A s \in Numbers(n) :
        IsInt(NumberSent(n, s)) /\ OnlyUp(CounterOf(n, s)) => Reached(CounterOf(n, s), NumberSent(n, s))

(* The value of a variable with a generator is there, is the one that was  *)
(* sent, and nothing is about to write another one.                        *)
DefinedOnce(x) ==
    /\ x \in DOMAIN env.vars /\ Settled(env.vars[x])
    /\ \A i \in DOMAIN cols : x \notin cols[i].use.writes
    /\ \A n \in Requests : Values(n, x) \subseteq {env.vars[x]}

OneValue ==
    \A x \in DOMAIN test.variables :
        Generated(x) => /\ pc = "define" => x \in todo \/ DefinedOnce(x)
                        /\ Running => DefinedOnce(x)

(* The calls that were made: none before the run has failed, and then at   *)
(* most one for each that is no longer to be made, and one for each of     *)
(* those that could be resolved.                                           *)
CallsOf(n) == {m \in DOMAIN sent : sent[m].step = 0 /\ sent[m].attempt = n}

NoCalls == \A m \in DOMAIN sent : sent[m].step # 0

CallsDone ==
    \A n \in DOMAIN test.calls \ todo :
        /\ CallsMade(n) \in {0, 1}
        /\ Needs(test.calls[n], CleanNames) => CallsMade(n) = 1

CallsCounted ==
    /\ pc \notin {"notify", "done"} \/ (pc = "done" /\ step > Len(test.triggers)) => NoCalls
    /\ pc = "notify" => step <= Len(test.triggers) /\ CallsDone /\ \A n \in todo : CallsOf(n) = {}
    /\ pc = "done" /\ step <= Len(test.triggers) => CallsDone /\ todo = {}

----------------------------------------------------------------------------
(* What resolving the request q, from the variables v on, has left. *)
SentTexts == [url : Texts, headers : Maps, body : Maps]

ResolvedRequest(q, r, v, S) ==
    /\ r.env \in Envs /\ r.request \in SentTexts
    /\ Follows(v, r.env.vars, S)
    /\ DOMAIN r.request.headers = DOMAIN q.headers /\ DOMAIN r.request.body = DOMAIN q.body
    /\ Resolved(q.url, r.request.url, v, r.env.vars, S)
    /\ \A s \in Places(q) :
          /\ Place(r.request, s) \in Texts
          /\ Resolved(Place(q, s), Place(r.request, s), v, r.env.vars, S)
    /\ \A s, t \in Places(q) : \A x \in STRING :
          (/\ s # t /\ Place(q, s) = Inc(x) /\ Place(q, t) = Inc(x) /\ ~Occurs(S, "dec", x)
           /\ IsInt(Place(r.request, s)) /\ IsInt(Place(r.request, t)))
              => Place(r.request, s) # Place(r.request, t)

LEMMA EnvFacts ==
    ASSUME NEW e \in Envs
    PROVE  IsTexts(e.vars) /\ e.fresh \in Nat \ {0} /\ e = [vars |-> e.vars, fresh |-> e.fresh]
  BY MapFacts DEF Envs

LEMMA PlaceFacts ==
    ASSUME NEW q, NEW s \in Places(q)
    PROVE  \/ s.at = "headers" /\ s.key \in DOMAIN q.headers /\ s = [at |-> "headers", key |-> s.key]
           \/ s.at = "body" /\ s.key \in DOMAIN q.body /\ s = [at |-> "body", key |-> s.key]
  BY DEF Places

(* The url, then the headers, then the body of a request, each seeing the  *)
(* increments before it: what a request carries for a variable, a clean    *)
(* text and an increment, and what resolving it has made of the variables. *)
THEOREM RequestResolved ==
    ASSUME NEW q, IsRequest(q), NEW e \in Envs, NEW S, TextsIn(q) \subseteq S, NEW r \in Resolve(q, e)
    PROVE  ResolvedRequest(q, r, e.vars, S)
<1>1. PICK u \in ReplaceString(q.url, e) :
         r \in UNION {{[request |-> [url |-> u.text, headers |-> h.fields, body |-> b.fields], env |-> b.env] :
                          b \in ReplaceFields(q.body, h.env)} : h \in ReplaceFields(q.headers, u.env)}
  BY DEF Resolve
<1>2. PICK h \in ReplaceFields(q.headers, u.env) :
         r \in {[request |-> [url |-> u.text, headers |-> h.fields, body |-> b.fields], env |-> b.env] :
                   b \in ReplaceFields(q.body, h.env)}
  BY <1>1
<1>3. PICK b \in ReplaceFields(q.body, h.env) :
         r = [request |-> [url |-> u.text, headers |-> h.fields, body |-> b.fields], env |-> b.env]
  BY <1>2
<1>4. /\ q.url \in Texts /\ IsTexts(q.headers) /\ IsTexts(q.body)
      /\ q.url \in S /\ {q.url} \subseteq S /\ Range(q.headers) \subseteq S /\ Range(q.body) \subseteq S
  BY DEF IsRequest, TextsIn
<1> DEFINE v == e.vars
           v1 == u.env.vars
           v2 == h.env.vars
           v3 == b.env.vars
<1>5. u.text \in Texts /\ u.env \in Envs /\ Follows(v, v1, {q.url})
  BY <1>4, ReplacedEnv
<1>6. h \in FieldsFrom(q.headers, v1, S) /\ DOMAIN h.fields = DOMAIN q.headers
  BY <1>4, <1>5, FieldsReplaced
<1>7. /\ h.env \in Envs /\ h.fields \in Maps /\ Follows(v1, v2, S)
      /\ \A k \in DOMAIN h.fields : Resolved(q.headers[k], h.fields[k], v1, v2, S)
      /\ Distinct(q.headers, h.fields, S)
  BY <1>6 DEF FieldsFrom
<1>8. b \in FieldsFrom(q.body, v2, S) /\ DOMAIN b.fields = DOMAIN q.body
  BY <1>4, <1>7, FieldsReplaced
<1>9. /\ b.env \in Envs /\ b.fields \in Maps /\ Follows(v2, v3, S)
      /\ \A k \in DOMAIN b.fields : Resolved(q.body[k], b.fields[k], v2, v3, S)
      /\ Distinct(q.body, b.fields, S)
  BY <1>8 DEF FieldsFrom
<1>10. IsTexts(v) /\ IsTexts(v1) /\ IsTexts(v2) /\ IsTexts(v3)
  BY <1>5, <1>7, <1>9, EnvFacts
<1>11. Follows(v, v1, S)
  BY <1>4, <1>5, FollowsMore
<1>12. Resolved(q.url, u.text, v, v1, S)
  BY <1>4, ReplacedResolves
<1>13. /\ IsTexts(h.fields) /\ \A k \in DOMAIN h.fields : h.fields[k] \in Texts
       /\ IsTexts(b.fields) /\ \A k \in DOMAIN b.fields : b.fields[k] \in Texts
  BY <1>7, <1>9, MapFacts DEF IsTexts, IsTable
<1> HIDE DEF v, v1, v2, v3
<1>14. Follows(v1, v3, S) /\ Follows(v, v3, S) /\ Follows(v, v2, S)
  BY <1>7, <1>9, <1>10, <1>11, FollowsOn
<1>15. Resolved(q.url, u.text, v, v3, S)
  BY <1>5, <1>10, <1>12, <1>14, ResolvedBefore
<1>16. \A k \in DOMAIN h.fields : Resolved(q.headers[k], h.fields[k], v, v3, S)
  <2> SUFFICES ASSUME NEW k \in DOMAIN h.fields PROVE Resolved(q.headers[k], h.fields[k], v, v3, S)
    OBVIOUS
  <2>1. Resolved(q.headers[k], h.fields[k], v, v2, S)
    BY <1>7, <1>10, <1>11, <1>13, ResolvedAfter
  <2> QED
    BY <1>9, <1>10, <1>13, <2>1, ResolvedBefore
<1>17. \A k \in DOMAIN b.fields : Resolved(q.body[k], b.fields[k], v, v3, S)
  BY <1>9, <1>10, <1>13, <1>14, ResolvedAfter
<1>18. ASSUME NEW k \in DOMAIN q.headers, NEW l \in DOMAIN q.body, NEW x \in STRING,
              q.headers[k] = Inc(x), q.body[l] = Inc(x), ~Occurs(S, "dec", x),
              IsInt(h.fields[k]), IsInt(b.fields[l])
       PROVE  h.fields[k] # b.fields[l]
  <2>1. h.fields[k][1][2] <= Current(v2, x) /\ x \in DOMAIN v2 /\ IsInt(v2[x])
    BY <1>6, <1>7, <1>18 DEF Resolved
  <2>2. Current(v2, x) < b.fields[l][1][2]
    BY <1>8, <1>9, <1>18 DEF Resolved
  <2>3. h.fields[k][1][2] \in Int /\ b.fields[l][1][2] \in Int /\ Current(v2, x) \in Int
    BY <1>6, <1>8, <1>10, <1>13, <1>18, <2>1, NumberTyped, CurrentTyped DEF Counts
  <2>4. \A i, j, n \in Int : i <= j /\ j < n => i # n
    OBVIOUS
  <2>5. h.fields[k][1][2] # b.fields[l][1][2]
    BY <2>1, <2>2, <2>3, <2>4
  <2> QED
    BY <2>5
<1> DEFINE p == r.request
<1>19. /\ p = [url |-> u.text, headers |-> h.fields, body |-> b.fields]
       /\ p.url = u.text /\ p.headers = h.fields /\ p.body = b.fields /\ r.env = b.env /\ r.env.vars = v3
  BY <1>3 DEF v3
<1>20. p \in SentTexts
  BY <1>5, <1>7, <1>9, <1>19 DEF SentTexts
<1> HIDE DEF p
<1>21. ASSUME NEW s \in Places(q)
       PROVE  Place(p, s) \in Texts /\ Resolved(Place(q, s), Place(p, s), v, v3, S)
  BY <1>6, <1>8, <1>13, <1>16, <1>17, <1>19, PlaceFacts DEF Place
<1>22. ASSUME NEW s \in Places(q), NEW t \in Places(q), NEW x \in STRING,
              s # t, Place(q, s) = Inc(x), Place(q, t) = Inc(x), ~Occurs(S, "dec", x),
              IsInt(Place(p, s)), IsInt(Place(p, t))
       PROVE  Place(p, s) # Place(p, t)
  <2>1. CASE s.at = "headers" /\ t.at = "headers"
    <3>1. s.key \in DOMAIN q.headers /\ t.key \in DOMAIN q.headers /\ s.key # t.key
      BY <1>22, <2>1, PlaceFacts
    <3> QED
      BY <1>6, <1>7, <1>19, <1>22, <2>1, <3>1 DEF Place, Distinct
  <2>2. CASE s.at = "body" /\ t.at = "body"
    <3>1. s.key \in DOMAIN q.body /\ t.key \in DOMAIN q.body /\ s.key # t.key
      BY <1>22, <2>2, PlaceFacts
    <3> QED
      BY <1>8, <1>9, <1>19, <1>22, <2>2, <3>1 DEF Place, Distinct
  <2>3. CASE s.at = "headers" /\ t.at = "body"
    <3>1. s.key \in DOMAIN q.headers /\ t.key \in DOMAIN q.body
      BY <2>3, PlaceFacts
    <3> QED
      BY <1>18, <1>19, <1>22, <2>3, <3>1 DEF Place
  <2>4. CASE s.at = "body" /\ t.at = "headers"
    <3>1. t.key \in DOMAIN q.headers /\ s.key \in DOMAIN q.body
      BY <2>4, PlaceFacts
    <3> QED
      BY <1>18, <1>19, <1>22, <2>4, <3>1 DEF Place
  <2> QED
    BY <2>1, <2>2, <2>3, <2>4, PlaceFacts
<1> QED
  BY <1>6, <1>8, <1>9, <1>14, <1>15, <1>19, <1>20, <1>21, <1>22 DEF ResolvedRequest, p, v


----------------------------------------------------------------------------
(* The test definitions. *)
LEMMA SeqFacts ==
    ASSUME NEW s, IsSeq(s)
    PROVE  Len(s) \in Nat /\ DOMAIN s = 1 .. Len(s) /\ \A i \in DOMAIN s : s[i] \in Range(s)
  BY LenProperties DEF IsSeq, Range

LEMMA TestFacts ==
    ASSUME NEW t \in Tests
    PROVE  /\ IsTexts(t.variables) /\ t.attempts \in Nat \ {0}
           /\ Len(t.triggers) \in Nat /\ DOMAIN t.triggers = 1 .. Len(t.triggers)
           /\ \A i \in DOMAIN t.triggers : IsTrigger(t.triggers[i])
           /\ Len(t.calls) \in Nat /\ DOMAIN t.calls = 1 .. Len(t.calls)
           /\ \A i \in DOMAIN t.calls : IsRequest(t.calls[i])
  BY VariablesAssumption, SeqFacts

LEMMA TriggerFacts ==
    ASSUME NEW t, IsTrigger(t)
    PROVE  /\ IsRequest(t.request) /\ t.asserts \in Seq(AssertionConfigs)
           /\ IsTable(t.extract, STRING, Seq(STRING)) /\ IsFiniteSet(DOMAIN t.extract)
           /\ Len(t.receivers) \in Nat /\ DOMAIN t.receivers = 1 .. Len(t.receivers)
           /\ \A i \in DOMAIN t.receivers : IsReceiver(t.receivers[i])
  BY SeqFacts DEF IsTrigger

LEMMA AssertionFacts ==
    ASSUME NEW as \in Seq(AssertionConfigs)
    PROVE  /\ Len(as) \in Nat /\ DOMAIN as = 1 .. Len(as)
           /\ \A n \in 1 .. Len(as) : as[n] \in [type : STRING, field : Texts, value : Texts]
           /\ \A n \in 1 .. Len(as) : as[n].field \in AssertionTexts(as) /\ as[n].value \in AssertionTexts(as)
<1>1. Len(as) \in Nat /\ DOMAIN as = 1 .. Len(as) /\ \A n \in 1 .. Len(as) : as[n] \in AssertionConfigs
  BY LenProperties, ElementOfSeq
<1>2. ASSUME NEW n \in 1 .. Len(as) PROVE as[n].field \in AssertionTexts(as) /\ as[n].value \in AssertionTexts(as)
  <2>1. {as[n].field, as[n].value} \in {{as[m].field, as[m].value} : m \in DOMAIN as}
    BY <1>1
  <2>2. {as[n].field, as[n].value} \subseteq AssertionTexts(as)
    BY <2>1, Zenon DEF AssertionTexts
  <2> QED
    BY <2>2
<1> QED
  BY <1>1, <1>2 DEF AssertionConfigs

(* The texts of a step are texts of the run. *)
LEMMA StepTextsUsed ==
    ASSUME NEW k \in DOMAIN test.triggers
    PROVE  /\ TextsIn(test.triggers[k].request) \subseteq RunTexts
           /\ AssertionTexts(test.triggers[k].asserts) \subseteq RunTexts
           /\ \A i \in DOMAIN test.triggers[k].receivers :
                 LET r == test.triggers[k].receivers[i] IN
                 /\ TextsIn(r.request) \subseteq RunTexts
                 /\ AssertionTexts(r.responseAsserts) \subseteq RunTexts
                 /\ AssertionTexts(r.asserts) \subseteq RunTexts
<1> DEFINE t == test.triggers[k]
<1>1. t \in Range(test.triggers)
  BY DEF Range
<1>2. StepTexts(t) \subseteq RunTexts
  BY <1>1 DEF RunTexts
<1> HIDE DEF t
<1>3. TextsIn(t.request) \subseteq StepTexts(t) /\ AssertionTexts(t.asserts) \subseteq StepTexts(t)
  BY DEF StepTexts
<1>4. ASSUME NEW i \in DOMAIN t.receivers
      PROVE  /\ TextsIn(t.receivers[i].request) \subseteq StepTexts(t)
             /\ AssertionTexts(t.receivers[i].responseAsserts) \subseteq StepTexts(t)
             /\ AssertionTexts(t.receivers[i].asserts) \subseteq StepTexts(t)
  <2>1. t.receivers[i] \in Range(t.receivers)
    BY DEF Range
  <2> DEFINE r == t.receivers[i]
             part == TextsIn(r.request) \cup AssertionTexts(r.responseAsserts) \cup AssertionTexts(r.asserts)
  <2>2. part \subseteq StepTexts(t)
    BY <2>1 DEF StepTexts
  <2> QED
    BY <2>2
<1> QED
  BY <1>2, <1>3, <1>4 DEF t

----------------------------------------------------------------------------
(* The inductive invariant. *)
FieldTables == UNION {[D -> Texts] : D \in SUBSET Seq(STRING)}

Collectors ==
    [at : {"collect", "using", "asked", "check", "got", "ended"}, polls : 0 .. MaxPolls,
     fields : FieldTables, doc : {NoJSON} \cup {a.body : a \in Answers}, raw : Texts, err : Texts,
     use : [vars : Maps, writes : SUBSET STRING, then : {"none", "again", "asked", "got"} \cup Verdicts,
            err : Texts]]

ErrorsTyped == errors \in [trigger : Texts, receivers : Texts, result : Texts]

Typed ==
    /\ test \in Tests
    /\ pc \in {"define", "attempt", "answer", "collect", "notify", "done", "crashed"}
    /\ env \in Envs /\ "run_id" \in DOMAIN env.vars
    /\ step \in Nat \ {0} /\ attempt \in Nat /\ clean \in BOOLEAN
    /\ sent \in Seq([step : Nat, attempt : Nat, request : SentTexts])
    /\ cols \in [DOMAIN cols -> Collectors]
    /\ ErrorsTyped

Shape == Typed /\ PlacesOK /\ CollectorsOK

LEMMA FieldTableFacts ==
    /\ EmptyTable \in FieldTables
    /\ \A f : IsTable(f, Seq(STRING), Texts) => f \in FieldTables
    /\ \A f \in FieldTables : \A p \in DOMAIN f : f[p] \in Texts
<1>1. {} \in SUBSET Seq(STRING) /\ EmptyTable \in [{} -> Texts]
  BY DEF EmptyTable
<1>2. EmptyTable \in FieldTables
  BY <1>1, Zenon DEF FieldTables
<1> QED
  BY <1>2 DEF FieldTables, IsTable

LEMMA UnionTexts ==
    ASSUME NEW f, NEW g, IsTexts(f), IsTexts(g)
    PROVE  IsTexts(PutOver(f, g))
<1>1. DOMAIN PutOver(f, g) = DOMAIN f \cup DOMAIN g
  BY DEF PutOver
<1>2. IsFiniteSet(DOMAIN f \cup DOMAIN g)
  BY FS_Union DEF IsTexts
<1>3. /\ DOMAIN f \subseteq STRING /\ \A x \in DOMAIN f : f[x] \in Texts
      /\ DOMAIN g \subseteq STRING /\ \A x \in DOMAIN g : g[x] \in Texts
  BY DEF IsTexts, IsTable
<1>4. PutOver(f, g) \in [DOMAIN f \cup DOMAIN g -> Texts]
  BY <1>3 DEF PutOver
<1> QED
  BY <1>1, <1>2, <1>3, <1>4 DEF IsTexts, IsTable

LEMMA PartTexts ==
    ASSUME NEW f, IsTexts(f), NEW D, D \subseteq DOMAIN f
    PROVE  IsTexts(Restrict(f, D))
<1>1. IsFiniteSet(D)
  BY FS_Subset DEF IsTexts
<1> QED
  BY <1>1 DEF IsTexts, IsTable, Restrict

LEMMA LitText ==
    ASSUME NEW s \in STRING
    PROVE  Lit(s) \in Texts /\ ~IsInt(Lit(s)) /\ Settled(Lit(s)) /\ ~HasUnresolved(Lit(s))
<1>1. Lit(s) \in Texts
  BY DEF Lit, Texts, Pieces
<1>2. Len(Lit(s)) = 1 /\ DOMAIN Lit(s) = 1 .. 1 /\ Lit(s)[1] = <<"lit", s>>
  BY DEF Lit
<1> QED
  BY <1>1, <1>2 DEF IsInt, Settled, HasUnresolved, Generators

LEMMA RunIDText == RunID \in Texts /\ ~IsInt(RunID) /\ Settled(RunID) /\ ~HasUnresolved(RunID)
<1>1. "run-1" \in STRING
  BY LiteralsAssumption
<1> QED
  BY <1>1, LitText DEF RunID

(* The texts of errors. *)
LEMMA TextsJoin == << >> \in Texts /\ \A s, t \in Texts : s \o t \in Texts
  BY DEF Texts

LEMMA QuotingTyped ==
    ASSUME NEW t \in Texts
    PROVE  Quoting(t) \in Texts
<1>1. Lit("error") \in Texts
  BY LiteralsAssumption, LitText DEF ReservedVarNames
<1> QED
  BY <1>1, TextsJoin DEF Quoting

LEMMA BodyTextTyped ==
    ASSUME NEW f, IsTexts(f)
    PROVE  BodyText(f) \in Texts
<1> DEFINE o == SetToSeq(DOMAIN f)
           ss == [i \in DOMAIN o |-> f[o[i]]]
<1>1. IsFiniteSet(DOMAIN f) /\ \A x \in DOMAIN f : f[x] \in Texts
  BY DEF IsTexts, IsTable
<1>2. PICK n \in Nat : ExistsBijection(1 .. n, DOMAIN f)
  BY <1>1, FS_NatBijection
<1>3. PICK b \in Bijection(1 .. n, DOMAIN f) : TRUE
  BY <1>2 DEF ExistsBijection
<1>4. n = Cardinality(DOMAIN f)
  BY <1>1, <1>2, FS_CountingElements
<1>5. \E g \in [1 .. Cardinality(DOMAIN f) -> DOMAIN f] : IsInjective(g)
  <2>1. b \in [1 .. n -> DOMAIN f] /\ IsInjective(b)
    BY <1>3 DEF Bijection, Injection
  <2> QED
    BY <1>4, <2>1
<1>6. o \in [1 .. Cardinality(DOMAIN f) -> DOMAIN f]
  BY <1>5, Zenon DEF SetToSeq
<1> HIDE DEF o
<1>7. ss \in [1 .. n -> Texts]
  BY <1>1, <1>4, <1>6
<1>8. ss \in Seq(Seq(Pieces))
  <2> HIDE DEF ss
  <2> QED
    BY <1>7, IsSequence DEF Texts
<1>9. BodyText(f) = FlattenSeq(ss)
  BY DEF BodyText, o
<1> HIDE DEF ss
<1> QED
  BY <1>8, <1>9, FlattenTyped DEF Texts

LEMMA ReasonTyped ==
    ASSUME NEW q \in SentTexts
    PROVE  Reason(q) \in Texts
<1>1. q.url \in Texts /\ IsTexts(q.body)
  BY MapFacts DEF SentTexts
<1>2. Quoting(q.url) \in Texts /\ Quoting(<< >>) \in Texts /\ Quoting(BodyText(q.body)) \in Texts
  BY <1>1, BodyTextTyped, QuotingTyped, TextsJoin
<1> QED
  BY <1>2 DEF Reason

(* run_id is set, and nothing else. *)
LEMMA RunIDSet ==
    ASSUME NEW e \in Envs
    PROVE  /\ WithRunID(e) \in Envs /\ WithRunID(e).fresh = e.fresh
           /\ DOMAIN WithRunID(e).vars = DOMAIN e.vars \cup {"run_id"}
           /\ WithRunID(e).vars["run_id"] = RunID
           /\ \A x \in DOMAIN e.vars : x # "run_id" => WithRunID(e).vars[x] = e.vars[x]
<1>1. IsTexts(e.vars) /\ e.fresh \in Nat \ {0} /\ e = [vars |-> e.vars, fresh |-> e.fresh]
  BY EnvFacts
<1>2. WithRunID(e) = [vars |-> Put(e.vars, "run_id", RunID), fresh |-> e.fresh]
  BY <1>1 DEF WithRunID
<1>3. Put(e.vars, "run_id", RunID) \in Maps
  <2>1. "run_id" \in STRING
    BY LiteralsAssumption DEF ReservedVarNames
  <2>2. IsTexts(Put(e.vars, "run_id", RunID))
    BY <1>1, <2>1, RunIDText, PutTexts
  <2> QED
    BY <2>2, MapFacts
<1> QED
  BY <1>1, <1>2, <1>3 DEF Envs, Put


----------------------------------------------------------------------------
(* The loops over steps, attempts and receivers. *)
LEMMA InitShape == Init => Shape
<1> SUFFICES ASSUME Init PROVE Shape
  OBVIOUS
<1> USE DEF Init
<1>1. NewEnv([x \in {"run_id"} |-> RunID]) \in Envs
  <2>1. [x \in {"run_id"} |-> RunID] = Put(EmptyTable, "run_id", RunID)
    BY DEF Put, EmptyTable
  <2>2. IsTexts(Put(EmptyTable, "run_id", RunID))
    BY EmptyTexts, RunIDText, PutTexts, LiteralsAssumption DEF ReservedVarNames
  <2> QED
    BY <2>1, <2>2, MapFacts DEF NewEnv, Envs
<1>2. DOMAIN cols = {}
  OBVIOUS
<1>3. cols \in [DOMAIN cols -> Collectors]
  BY <1>2
<1>4. sent \in Seq([step : Nat, attempt : Nat, request : SentTexts])
  OBVIOUS
<1>5. Typed
  BY <1>1, <1>3, <1>4, TextsJoin DEF Typed, NewEnv, ErrorsTyped
<1>6. PlacesOK
  BY DEF PlacesOK, Running
<1>7. CollectorsOK
  BY DEF CollectorsOK
<1> QED
  BY <1>5, <1>6, <1>7 DEF Shape

LEMMA StepNow ==
    ASSUME Shape, Running
    PROVE  /\ test \in Tests /\ step \in DOMAIN test.triggers /\ IsTrigger(Trigger)
           /\ step \in 1 .. Len(test.triggers) /\ Len(test.triggers) \in Nat
           /\ test.attempts \in Nat /\ attempt \in 1 .. test.attempts
  BY TestFacts DEF Shape, Typed, PlacesOK, Trigger

LEMMA ReceiverNow ==
    ASSUME Shape, pc = "collect", NEW i \in DOMAIN cols
    PROVE  /\ IsReceiver(Rcv(i)) /\ i \in DOMAIN Trigger.receivers /\ Running
           /\ cols[i] \in Collectors /\ CollectorOK(cols[i], Rcv(i))
<1>1. Running
  BY DEF Running
<1>2. IsTrigger(Trigger)
  BY <1>1, StepNow
<1>3. i \in DOMAIN Trigger.receivers /\ cols[i] \in Collectors /\ CollectorOK(cols[i], Rcv(i))
  BY DEF Shape, CollectorsOK, Typed
<1> QED
  BY <1>1, <1>2, <1>3, TriggerFacts DEF Rcv

LEMMA NoCollectors ==
    ASSUME NEW c, c = << >>
    PROVE  DOMAIN c = {} /\ c \in [DOMAIN c -> Collectors]
  OBVIOUS

(* A retry, or the end of a run that failed. *)
LEMMA Retried ==
    ASSUME Shape, Running, test' = test, sent' \in Seq([step : Nat, attempt : Nat, request : SentTexts]),
           NEW trigger \in Texts, NEW result \in Texts, RetryOrGiveUp(trigger, result), cols' = << >>
    PROVE  /\ PlacesOK' /\ CollectorsOK' /\ cols' \in [DOMAIN cols' -> Collectors] /\ ErrorsTyped'
           /\ step' = step /\ step' \in Nat \ {0} /\ attempt' \in Nat /\ pc' \in {"attempt", "notify"}
           /\ pc' = "notify" => todo' = DOMAIN test.calls /\ step' <= Len(test.triggers)
<1>1. /\ step \in DOMAIN test.triggers /\ step \in 1 .. Len(test.triggers) /\ Len(test.triggers) \in Nat
      /\ test.attempts \in Nat /\ attempt \in 1 .. test.attempts
  BY StepNow
<1>2. /\ step' = step /\ pc' \in {"attempt", "notify"} /\ attempt' \in 1 .. test.attempts
      /\ pc' = "notify" => todo' = DOMAIN test.calls
  BY <1>1 DEF RetryOrGiveUp, Finish
<1>3. step' \in Nat \ {0} /\ attempt' \in Nat /\ step' <= Len(test.triggers)
  BY <1>1, <1>2
<1>4. PlacesOK'
  BY <1>1, <1>2 DEF PlacesOK, Running
<1>5. CollectorsOK'
  BY <1>2 DEF CollectorsOK
<1>6. ErrorsTyped'
  <2>1. errors \in [trigger : Texts, receivers : Texts, result : Texts]
    BY DEF Shape, Typed, ErrorsTyped
  <2> QED
    BY <2>1 DEF RetryOrGiveUp, ErrorsTyped
<1> QED
  BY <1>2, <1>3, <1>4, <1>5, <1>6, NoCollectors

(* The next step, or the end of a run that passed. *)
LEMMA Passed ==
    ASSUME Shape, Running, test' = test, StepPassed, cols' = << >>
    PROVE  /\ PlacesOK' /\ CollectorsOK' /\ cols' \in [DOMAIN cols' -> Collectors] /\ ErrorsTyped'
           /\ step' \in Nat \ {0} /\ attempt' \in Nat /\ clean' \in BOOLEAN
           /\ pc' \in {"attempt", "done"} /\ (pc' = "done" => step' > Len(test.triggers))
<1>1. /\ test \in Tests /\ step \in 1 .. Len(test.triggers) /\ Len(test.triggers) \in Nat
      /\ DOMAIN test.triggers = 1 .. Len(test.triggers) /\ test.attempts \in Nat \ {0}
  BY StepNow, TestFacts
<1>2. /\ step' = step + 1 /\ attempt' = 1 /\ clean' = TRUE /\ pc' \in {"attempt", "done"}
      /\ pc' = "attempt" => step # Len(test.triggers)
      /\ pc' = "done" => step = Len(test.triggers)
  BY DEF StepPassed, Finish
<1>3. step' \in Nat \ {0} /\ attempt' \in Nat /\ (pc' = "done" => step' > Len(test.triggers))
  BY <1>1, <1>2
<1>4. PlacesOK'
  <2>1. pc' = "attempt" => step' \in 1 .. Len(test.triggers) /\ attempt' \in 1 .. test.attempts
    BY <1>1, <1>2
  <2> QED
    BY <1>1, <1>2, <2>1 DEF PlacesOK, Running
<1>5. CollectorsOK'
  BY <1>2 DEF CollectorsOK
<1>6. ErrorsTyped'
  BY TextsJoin DEF StepPassed, Shape, Typed, ErrorsTyped
<1> QED
  BY <1>2, <1>3, <1>4, <1>5, <1>6, NoCollectors

LEMMA NewCollectorTyped == NewCollector \in Collectors
<1>1. EmptyTable \in Maps /\ EmptyTable \in FieldTables /\ << >> \in Texts
  BY EmptyTexts, MapFacts, FieldTableFacts, TextsJoin
<1>2. 0 \in 0 .. MaxPolls
  BY VariablesAssumption
<1> QED
  BY <1>1, <1>2 DEF NewCollector, NoUse, Collectors

(* The trigger has fired. *)
LEMMA Fired ==
    ASSUME Shape, pc = "answer", test' = test, TriggerFired
    PROVE  /\ PlacesOK' /\ CollectorsOK' /\ cols' \in [DOMAIN cols' -> Collectors] /\ ErrorsTyped'
           /\ step' \in Nat \ {0} /\ attempt' \in Nat /\ clean' \in BOOLEAN
           /\ pc' \in {"attempt", "done", "collect"} /\ (pc' = "done" => step' > Len(test.triggers))
           /\ \A i \in DOMAIN cols' : cols'[i].use.writes = {}
<1>1. Running /\ cols = << >>
  BY DEF Running, Shape, PlacesOK
<1>2. CASE Trigger.receivers = << >>
  <2>1. StepPassed /\ cols' = << >>
    BY <1>1, <1>2 DEF TriggerFired
  <2>2. DOMAIN cols' = {}
    BY <2>1
  <2> QED
    BY <1>1, <2>1, <2>2, Passed
<1>3. CASE Trigger.receivers # << >>
  <2>1. /\ pc' = "collect" /\ step' = step /\ attempt' = attempt /\ clean' = clean /\ errors' = errors
        /\ cols' = [i \in DOMAIN Trigger.receivers |-> NewCollector]
    BY <1>3 DEF TriggerFired
  <2>2. NewCollector \in Collectors
    BY NewCollectorTyped
  <2>3. /\ DOMAIN cols' = DOMAIN Trigger.receivers /\ cols' \in [DOMAIN cols' -> Collectors]
        /\ \A i \in DOMAIN cols' : cols'[i] = NewCollector
    BY <2>1, <2>2
  <2>4. /\ NewCollector.use.writes = {} /\ NewCollector.use.then = "none" /\ NewCollector.at = "collect"
        /\ \A r : CollectorOK(NewCollector, r)
    BY DEF CollectorOK, NewCollector, NoUse
  <2>5. Trigger' = Trigger
    BY <2>1 DEF Trigger
  <2>6. CollectorsOK'
    BY <2>1, <2>3, <2>4, <2>5 DEF CollectorsOK
  <2>7. /\ step \in DOMAIN test.triggers /\ attempt \in 1 .. test.attempts /\ clean \in BOOLEAN
        /\ step \in Nat \ {0} /\ attempt \in Nat
    BY <1>1, StepNow DEF Shape, Typed
  <2>8. PlacesOK'
    BY <2>1, <2>7 DEF PlacesOK, Running
  <2>9. ErrorsTyped'
    BY <2>1 DEF Shape, Typed, ErrorsTyped
  <2> QED
    BY <2>1, <2>3, <2>4, <2>6, <2>7, <2>8, <2>9
<1> QED
  BY <1>2, <1>3

(* The goroutine of one receiver has moved. *)
LEMMA Moved ==
    ASSUME Shape, pc = "collect", pc' = pc, test' = test, step' = step, attempt' = attempt,
           NEW i \in DOMAIN cols, NEW c \in Collectors, cols' = [cols EXCEPT ![i] = c], CollectorOK(c, Rcv(i))
    PROVE  /\ PlacesOK' /\ CollectorsOK' /\ cols' \in [DOMAIN cols' -> Collectors]
           /\ DOMAIN cols' = DOMAIN cols /\ cols'[i] = c /\ \A j \in DOMAIN cols : j # i => cols'[j] = cols[j]
<1>1. cols \in [DOMAIN cols -> Collectors]
  BY DEF Shape, Typed
<1>2. /\ cols' \in [DOMAIN cols -> Collectors] /\ DOMAIN cols' = DOMAIN cols /\ cols'[i] = c
      /\ \A j \in DOMAIN cols : j # i => cols'[j] = cols[j]
  BY <1>1
<1>3. Trigger' = Trigger
  BY DEF Trigger
<1>4. CollectorsOK'
  <2>1. DOMAIN cols = DOMAIN Trigger.receivers /\ \A j \in DOMAIN cols : CollectorOK(cols[j], Rcv(j))
    BY DEF Shape, CollectorsOK
  <2>2. \A j : Rcv(j)' = Rcv(j)
    BY <1>3 DEF Rcv
  <2>3. ASSUME NEW j \in DOMAIN cols PROVE CollectorOK(cols'[j], Rcv(j))
    BY <1>2, <2>1
  <2>4. \A j \in DOMAIN cols' : CollectorOK(cols[j], Rcv(j))'
    BY <1>2, <2>2, <2>3 DEF CollectorOK, Increments
  <2> QED
    BY <1>2, <1>3, <2>1, <2>4 DEF CollectorsOK
<1>5. PlacesOK'
  BY DEF Shape, PlacesOK, Running
<1> QED
  BY <1>2, <1>4, <1>5


----------------------------------------------------------------------------
(* The uses of the map. *)
Writes(u, v) ==
    \A x \in u.writes :
        \/ x = "run_id"
        \/ /\ Counts(v, x) /\ x \in DOMAIN u.vars /\ IsInt(u.vars[x])
           /\ Uses("inc", x) \/ Uses("dec", x)
           /\ ~Uses("dec", x) => Current(u.vars, x) >= Current(v, x)

LEMMA UsesOccur == \A op, x : Occurs(RunTexts, op, x) <=> Uses(op, x)
  BY DEF Occurs, Uses

LEMMA ChangedWrites ==
    ASSUME NEW v, NEW w, Follows(v, w, RunTexts), NEW x \in Changed(v, w)
    PROVE  /\ Counts(v, x) /\ x \in DOMAIN w /\ IsInt(w[x])
           /\ Uses("inc", x) \/ Uses("dec", x)
           /\ ~Uses("dec", x) => Current(w, x) >= Current(v, x)
<1>1. x \in DOMAIN w /\ ~(x \in DOMAIN v /\ w[x] = v[x])
  BY DEF Changed
<1>2. Counts(v, x) /\ IsInt(w[x]) /\ (Occurs(RunTexts, "inc", x) \/ Occurs(RunTexts, "dec", x))
  BY <1>1 DEF Follows
<1>3. ~Occurs(RunTexts, "dec", x) => Current(w, x) >= Current(v, x)
  BY <1>2 DEF Follows
<1> QED
  BY <1>1, <1>2, <1>3, UsesOccur

(* Assertions with no increment in them leave the map alone. *)
LEMMA ReadingAssertions ==
    ASSUME NEW as \in Seq(AssertionConfigs), ~Increments(as), NEW v, NEW w, IsTexts(v), IsTexts(w),
           Follows(v, w, AssertionTexts(as))
    PROVE  w = v
<1>1. ASSUME NEW op \in {"inc", "dec"}, NEW x, Occurs(AssertionTexts(as), op, x) PROVE FALSE
  <2>1. PICK t \in AssertionTexts(as) : <<op, x>> \in Range(t)
    BY <1>1 DEF Occurs
  <2>2. PICK i \in DOMAIN t : t[i] = <<op, x>>
    BY <2>1 DEF Range
  <2>3. t[i][1] = op
    BY <2>2
  <2> QED
    BY <2>3 DEF Increments
<1> QED
  BY <1>1, FollowsNothing

LEMMA BegunUse ==
    ASSUME NEW i \in DOMAIN cols, cols \in [DOMAIN cols -> Collectors], env \in Envs,
           NEW after \in Envs, NEW writes, writes \subseteq DOMAIN after.vars,
           NEW then \in {"again", "asked", "got"} \cup Verdicts, NEW err \in Texts,
           BeginUse(i, after, writes, then, err)
    PROVE  \E c \in Collectors :
              /\ cols' = [cols EXCEPT ![i] = c]
              /\ c.at = "using" /\ c.polls = cols[i].polls
              /\ c.use = [vars |-> after.vars, writes |-> writes, then |-> then, err |-> err]
              /\ env' \in Envs /\ env'.vars = env.vars
<1> DEFINE c == [cols[i] EXCEPT !.at = "using",
                               !.use = [vars |-> after.vars, writes |-> writes, then |-> then, err |-> err]]
<1>1. cols[i] \in Collectors
  OBVIOUS
<1>2. after.vars \in Maps /\ after.fresh \in Nat \ {0} /\ writes \in SUBSET STRING
  BY EnvFacts DEF Envs, IsTexts, IsTable
<1>3. /\ c \in Collectors /\ c.at = "using" /\ c.polls = cols[i].polls
      /\ c.use = [vars |-> after.vars, writes |-> writes, then |-> then, err |-> err]
  BY <1>1, <1>2 DEF Collectors
<1>4. cols' = [cols EXCEPT ![i] = c]
  BY DEF BeginUse
<1>5. env' \in Envs /\ env'.vars = env.vars
  BY <1>2 DEF BeginUse, Envs
<1> QED
  BY <1>3, <1>4, <1>5

(* What the three kinds of use have in common. *)
Begun(i) ==
    \E c \in Collectors :
        /\ cols' = [cols EXCEPT ![i] = c] /\ c.at = "using"
        /\ CollectorOK(c, Rcv(i)) /\ Writes(c.use, env.vars)
        /\ env' \in Envs /\ env'.vars = env.vars

LEMMA PollBegins ==
    ASSUME Shape, NEW i \in DOMAIN cols, BeginPoll(i)
    PROVE  Begun(i)
<1>1. pc = "collect" /\ Rcv(i).type = "api" /\ cols[i].polls < MaxPolls
  BY DEF BeginPoll, Col
<1>2. /\ IsReceiver(Rcv(i)) /\ i \in DOMAIN Trigger.receivers /\ Running /\ cols[i] \in Collectors
      /\ env \in Envs /\ cols \in [DOMAIN cols -> Collectors]
  BY <1>1, ReceiverNow DEF Shape, Typed
<1>3. step \in DOMAIN test.triggers
  BY <1>2, StepNow
<1> DEFINE q == Rcv(i).request
           w == WithRunID(env)
           v == env.vars
<1>4. PICK r \in Resolve(q, w) :
         IF Unresolved(r.request)
         THEN BeginUse(i, r.env, Changed(v, r.env.vars) \cup {"run_id"}, "again", Reason(r.request))
         ELSE BeginUse(i, r.env, Changed(v, r.env.vars) \cup {"run_id"}, "asked", << >>)
  BY DEF BeginPoll
<1> DEFINE then == IF Unresolved(r.request) THEN "again" ELSE "asked"
           err == IF Unresolved(r.request) THEN Reason(r.request) ELSE << >>
           writes == Changed(v, r.env.vars) \cup {"run_id"}
<1>5. IsRequest(q) /\ TextsIn(q) \subseteq RunTexts
  BY <1>2, <1>3, StepTextsUsed DEF IsReceiver, Rcv, Trigger
<1>6. /\ w \in Envs /\ DOMAIN w.vars = DOMAIN v \cup {"run_id"}
      /\ \A x \in DOMAIN v : x # "run_id" => w.vars[x] = v[x]
  BY <1>2, RunIDSet
<1>7. r.env \in Envs /\ Follows(w.vars, r.env.vars, RunTexts) /\ r.request \in SentTexts
  BY <1>5, <1>6, RequestResolved DEF ResolvedRequest
<1> HIDE DEF q, w, v
<1>8. writes \subseteq DOMAIN r.env.vars
  BY <1>6, <1>7 DEF Follows, Changed
<1>9. PICK c \in Collectors :
              /\ cols' = [cols EXCEPT ![i] = c]
              /\ c.at = "using" /\ c.polls = cols[i].polls
              /\ c.use = [vars |-> r.env.vars, writes |-> writes, then |-> then, err |-> err]
              /\ env' \in Envs /\ env'.vars = env.vars
  <2>1. then \in {"again", "asked", "got"} \cup Verdicts
    OBVIOUS
  <2>2. err \in Texts
    BY <1>7, ReasonTyped, TextsJoin
  <2>3. BeginUse(i, r.env, writes, then, err)
    BY <1>4 DEF v
  <2> HIDE DEF then, writes, err
  <2> QED
    BY <1>2, <1>7, <1>8, <2>1, <2>2, <2>3, BegunUse
<1>10. CollectorOK(c, Rcv(i))
  BY <1>1, <1>8, <1>9 DEF CollectorOK
<1>11. ASSUME NEW x \in writes, x # "run_id"
       PROVE  /\ Counts(v, x) /\ x \in DOMAIN r.env.vars /\ IsInt(r.env.vars[x])
              /\ Uses("inc", x) \/ Uses("dec", x)
              /\ ~Uses("dec", x) => Current(r.env.vars, x) >= Current(v, x)
  <2>1. x \in Changed(w.vars, r.env.vars)
    BY <1>6, <1>11 DEF Changed
  <2>2. Counts(w.vars, x) => Counts(v, x) /\ Current(w.vars, x) = Current(v, x)
    BY <1>6, <1>11 DEF Counts, Current
  <2> QED
    BY <1>7, <2>1, <2>2, ChangedWrites
<1>12. Writes(c.use, v)
  BY <1>9, <1>11 DEF Writes
<1> QED
  BY <1>9, <1>10, <1>12 DEF Begun, v

LEMMA AssertionsEnd ==
    ASSUME NEW as \in Seq(AssertionConfigs), NEW fields \in FieldTables, NEW raw, NEW e \in Envs,
           NEW o \in RunAssertions(as, fields, raw, e)
    PROVE  /\ o.status \in Verdicts /\ o.env \in Envs /\ o.error \in Texts
           /\ Follows(e.vars, o.env.vars, AssertionTexts(as))
<1>1. /\ Len(as) \in Nat
      /\ \A n \in 1 .. Len(as) : as[n] \in [type : STRING, field : Texts, value : Texts]
      /\ \A n \in 1 .. Len(as) : as[n].field \in AssertionTexts(as) /\ as[n].value \in AssertionTexts(as)
  BY AssertionFacts
<1>2. \A p \in DOMAIN fields : fields[p] \in Texts
  BY FieldTableFacts
<1> QED
  BY <1>1, <1>2, AssertionsRun DEF Verdicts

(* A use that runs assertions. *)
LEMMA AssertionsBegin ==
    ASSUME Shape, NEW i \in DOMAIN cols, cols[i] \in Collectors, NEW as \in Seq(AssertionConfigs),
           AssertionTexts(as) \subseteq RunTexts,
           NEW fields \in FieldTables, NEW raw, NEW o \in RunAssertions(as, fields, raw, env),
           NEW then \in {"again", "asked", "got"} \cup Verdicts, NEW err \in Texts,
           BeginUse(i, o.env, Changed(env.vars, o.env.vars), then, err),
           Rcv(i).type = "api" \/ Rcv(i).asserts = as,
           then \in {"again", "asked"} => Rcv(i).type = "api" /\ cols[i].polls < MaxPolls
    PROVE  Begun(i)
<1> DEFINE v == env.vars
           w == o.env.vars
           writes == Changed(v, w)
<1>1. env \in Envs /\ cols \in [DOMAIN cols -> Collectors]
  BY DEF Shape, Typed
<1>3. o.env \in Envs /\ Follows(v, w, AssertionTexts(as))
  BY <1>1, AssertionsEnd
<1>4. IsTexts(v) /\ IsTexts(w)
  BY <1>1, <1>3, EnvFacts
<1> HIDE DEF v, w
<1>5. Follows(v, w, RunTexts)
  BY <1>3, FollowsMore
<1>6. writes \subseteq DOMAIN w
  BY DEF Changed
<1>7. writes # {} => Rcv(i).type = "api" \/ Increments(Rcv(i).asserts)
  <2>1. ~Increments(as) => w = v
    BY <1>3, <1>4, ReadingAssertions
  <2>2. w = v => writes = {}
    BY DEF Changed
  <2> QED
    BY <2>1, <2>2
<1>8. PICK c \in Collectors :
              /\ cols' = [cols EXCEPT ![i] = c]
              /\ c.at = "using" /\ c.polls = cols[i].polls
              /\ c.use = [vars |-> w, writes |-> writes, then |-> then, err |-> err]
              /\ env' \in Envs /\ env'.vars = env.vars
  BY <1>1, <1>3, <1>6, BegunUse DEF v, w
<1>9. then # "none"
  BY DEF Verdicts
<1> HIDE DEF writes
<1>10. CollectorOK(c, Rcv(i))
  BY <1>6, <1>7, <1>8, <1>9 DEF CollectorOK
<1>11. Writes(c.use, v)
  BY <1>5, <1>8, ChangedWrites DEF Writes, writes
<1> QED
  BY <1>8, <1>10, <1>11 DEF Begun, v

LEMMA UseBegins ==
    ASSUME Shape, NEW i \in DOMAIN cols, BeginPoll(i) \/ BeginCheck(i) \/ BeginAssertions(i)
    PROVE  /\ Begun(i) /\ pc = "collect"
           /\ UNCHANGED <<test, pc, todo, step, attempt, clean, sent, response, errors>>
<1>1. pc = "collect" /\ UNCHANGED <<test, pc, todo, step, attempt, clean, sent, response, errors>>
  BY DEF BeginPoll, BeginCheck, BeginAssertions, BeginUse, Col
<1>2. /\ IsReceiver(Rcv(i)) /\ i \in DOMAIN Trigger.receivers /\ Running /\ cols[i] \in Collectors
      /\ CollectorOK(cols[i], Rcv(i))
  BY <1>1, ReceiverNow
<1>3. step \in DOMAIN test.triggers
  BY <1>2, StepNow
<1>4. /\ Rcv(i).responseAsserts \in Seq(AssertionConfigs) /\ Rcv(i).asserts \in Seq(AssertionConfigs)
      /\ AssertionTexts(Rcv(i).responseAsserts) \subseteq RunTexts /\ AssertionTexts(Rcv(i).asserts) \subseteq RunTexts
  BY <1>2, <1>3, StepTextsUsed DEF IsReceiver, Rcv, Trigger
<1>5. CASE BeginPoll(i)
  BY <1>1, <1>5, PollBegins
<1>8. env \in Envs /\ cols[i].fields \in FieldTables /\ cols[i].raw \in Texts
  BY <1>2 DEF Shape, Typed, Collectors
<1>6. CASE BeginCheck(i)
  <2>1. Rcv(i).type = "api" /\ cols[i].polls < MaxPolls
    BY <1>2, <1>6 DEF BeginCheck, Col, CollectorOK
  <2>2. PICK o \in RunAssertions(Rcv(i).responseAsserts, cols[i].fields, cols[i].doc, env) :
           IF o.status = "passed"
           THEN BeginUse(i, o.env, Changed(env.vars, o.env.vars), "got", << >>)
           ELSE BeginUse(i, o.env, Changed(env.vars, o.env.vars), "again", Quoting(o.error \o cols[i].raw))
    BY <1>6 DEF BeginCheck
  <2>3. << >> \in Texts /\ Quoting(o.error \o cols[i].raw) \in Texts
    <3>1. o.error \in Texts
      BY <1>4, <1>8, AssertionsEnd
    <3>2. o.error \o cols[i].raw \in Texts
      BY <1>8, <3>1, TextsJoin
    <3> QED
      BY <3>2, QuotingTyped, TextsJoin
  <2>4. CASE o.status = "passed"
    BY <1>1, <1>2, <1>4, <1>8, <2>1, <2>2, <2>3, <2>4, AssertionsBegin
  <2>5. CASE o.status # "passed"
    BY <1>1, <1>2, <1>4, <1>8, <2>1, <2>2, <2>3, <2>5, AssertionsBegin
  <2> QED
    BY <2>4, <2>5
<1>7. CASE BeginAssertions(i)
  <2> DEFINE err(o) == IF o.status = "passed" THEN << >> ELSE Quoting(o.error)
  <2>1. PICK o \in RunAssertions(Rcv(i).asserts, cols[i].fields, cols[i].doc, env) :
           BeginUse(i, o.env, Changed(env.vars, o.env.vars), o.status, err(o))
    BY <1>7 DEF BeginAssertions
  <2>2. o.status \in Verdicts /\ err(o) \in Texts
    <3>1. o.status \in Verdicts /\ o.error \in Texts
      BY <1>4, <1>8, AssertionsEnd
    <3> QED
      BY <3>1, QuotingTyped, TextsJoin
  <2> HIDE DEF err
  <2>3. o.status \notin {"again", "asked"}
    BY <2>2 DEF Verdicts
  <2> QED
    BY <1>1, <1>2, <1>4, <1>8, <2>1, <2>2, <2>3, AssertionsBegin
<1> QED
  BY <1>5, <1>6, <1>7


----------------------------------------------------------------------------
(* Every step keeps the shape.  What a step says to Notify: the loops go   *)
(* on, or end with a run that passed, or with calls to make.               *)
Goes ==
    \/ Running'
    \/ pc' = "done" /\ step' > Len(test.triggers)
    \/ pc' = "notify" /\ step' <= Len(test.triggers) /\ todo' = DOMAIN test.calls

(* A step that leaves the variables and the requests alone: what a         *)
(* receiver is about to write, it was about to write before.               *)
Quiet ==
    /\ env' = env /\ sent' = sent
    /\ \A i \in DOMAIN cols' :
          \/ cols'[i].use.writes = {}
          \/ i \in DOMAIN cols /\ cols'[i].use = cols[i].use

LEMMA QuietMove ==
    ASSUME Shape, pc = "collect", NEW i \in DOMAIN cols, NEW c \in Collectors,
           cols' = [cols EXCEPT ![i] = c], CollectorOK(c, Rcv(i)), c.use = cols[i].use, clean' \in BOOLEAN,
           ErrorsTyped',
           UNCHANGED <<test, pc, todo, env, step, attempt, sent, response>>
    PROVE  Shape' /\ Quiet /\ Goes
<1>1. /\ PlacesOK' /\ CollectorsOK' /\ cols' \in [DOMAIN cols' -> Collectors]
      /\ DOMAIN cols' = DOMAIN cols /\ cols'[i] = c /\ \A j \in DOMAIN cols : j # i => cols'[j] = cols[j]
  BY Moved
<1>2. Typed'
  BY <1>1 DEF Shape, Typed
<1>3. Quiet
  BY <1>1 DEF Quiet
<1> QED
  BY <1>1, <1>2, <1>3 DEF Shape, Goes, Running

LEMMA AnswerFields ==
    ASSUME NEW a \in Answers, NEW f \in IF a.body = NoJSON THEN {EmptyTable} ELSE FieldsOf(a.body)
    PROVE  f \in FieldTables
<1>1. CASE a.body = NoJSON
  BY <1>1, FieldTableFacts
<1>2. CASE a.body # NoJSON
  BY <1>2, FieldTableFacts, VariablesAssumption
<1> QED
  BY <1>1, <1>2

LEMMA FailedPoll ==
    ASSUME NEW i \in DOMAIN cols, cols[i] \in Collectors, cols[i].polls < MaxPolls, NEW err \in Texts, NEW r
    PROVE  /\ PollFailed(i, err) \in Collectors /\ PollFailed(i, err).use = NoUse
           /\ CollectorOK(PollFailed(i, err), r)
<1> DEFINE n == cols[i].polls + 1
           c == [NewCollector EXCEPT !.polls = n, !.err = err]
<1>1. n \in 0 .. MaxPolls
  BY VariablesAssumption DEF Collectors
<1> HIDE DEF n
<1>2. c \in Collectors /\ c.use = NoUse /\ c.at = "collect"
  BY <1>1, NewCollectorTyped DEF Collectors, NewCollector
<1>3. PollFailed(i, err) = c
  BY DEF PollFailed, n
<1> HIDE DEF c
<1> QED
  BY <1>2, <1>3 DEF CollectorOK, NoUse

LEMMA ReceiverWaits ==
    ASSUME Shape, NEW i \in DOMAIN cols,
           \/ NothingToAssert(i) \/ CollectTimesOut(i)
           \/ \E a \in Answers : PollAnswered(i, a)
           \/ \E doc \in Documents : ClaimMessage(i, doc)
    PROVE  Shape' /\ Quiet /\ Goes /\ test' = test /\ pc = "collect" /\ pc' = pc
<1>1. pc = "collect" /\ UNCHANGED <<test, pc, todo, env, step, attempt, sent, response>>
  BY DEF NothingToAssert, CollectTimesOut, PollAnswered, ClaimMessage, Col
<1>2. /\ cols[i] \in Collectors /\ CollectorOK(cols[i], Rcv(i)) /\ cols \in [DOMAIN cols -> Collectors]
      /\ clean \in BOOLEAN
  BY <1>1, ReceiverNow DEF Shape, Typed
<1>6. errors \in [trigger : Texts, receivers : Texts, result : Texts]
  BY DEF Shape, Typed, ErrorsTyped
<1>3. CASE NothingToAssert(i) \/ CollectTimesOut(i)
  <2>1. cols' = [cols EXCEPT ![i] = Ended] /\ clean' \in BOOLEAN /\ cols[i].at # "using"
    BY <1>2, <1>3 DEF NothingToAssert, CollectTimesOut, Col
  <2>2. Ended \in Collectors /\ Ended.use = NoUse /\ Ended.at = "ended"
    BY NewCollectorTyped DEF Ended, NewCollector, Collectors
  <2>3. CollectorOK(Ended, Rcv(i)) /\ cols[i].use = NoUse
    BY <1>2, <2>1, <2>2 DEF CollectorOK, NoUse
  <2>4. ErrorsTyped'
    <3>1. CASE NothingToAssert(i)
      BY <1>6, <3>1 DEF NothingToAssert, ErrorsTyped
    <3>2. CASE CollectTimesOut(i)
      <4> DEFINE t == Quoting(IF cols[i].at = "asked" THEN << >> ELSE cols[i].err)
      <4>1. t \in Texts
        <5>1. cols[i].err \in Texts
          BY <1>2 DEF Collectors
        <5> QED
          BY <5>1, QuotingTyped, TextsJoin
      <4>2. errors' = [errors EXCEPT !.receivers = @ \o t]
        BY <3>2 DEF CollectTimesOut
      <4> HIDE DEF t
      <4>3. errors.receivers \in Texts /\ errors.receivers \o t \in Texts
        BY <1>6, <4>1, TextsJoin DEF ErrorsTyped
      <4> QED
        BY <1>6, <4>2, <4>3 DEF ErrorsTyped
    <3> QED
      BY <1>3, <3>1, <3>2
  <2> QED
    BY <1>1, <2>1, <2>2, <2>3, <2>4, QuietMove
<1>4. CASE \E a \in Answers : PollAnswered(i, a)
  <2>1. PICK a \in Answers : PollAnswered(i, a)
    BY <1>4
  <2>2. /\ cols[i].at = "asked" /\ clean' \in BOOLEAN /\ Rcv(i).type = "api" /\ cols[i].polls < MaxPolls
        /\ cols[i].use = NoUse /\ ErrorsTyped'
    BY <1>2, <1>6, <2>1 DEF PollAnswered, Col, CollectorOK, ErrorsTyped
  <2>3. a.raw \in Texts
    BY VariablesAssumption
  <2> DEFINE t == Quoting(IF a.ok THEN << >> ELSE a.raw)
             at == IF Rcv(i).responseAsserts # << >> THEN "check" ELSE "got"
  <2>4. CASE cols' = [cols EXCEPT ![i] = PollFailed(i, t)]
    <3>1. t \in Texts
      BY <2>3, QuotingTyped, TextsJoin
    <3> HIDE DEF t
    <3>2. PollFailed(i, t) \in Collectors /\ PollFailed(i, t).use = NoUse /\ CollectorOK(PollFailed(i, t), Rcv(i))
      BY <1>2, <2>2, <3>1, FailedPoll
    <3> QED
      BY <1>1, <2>2, <2>4, <3>2, QuietMove
  <2>5. CASE \E f \in IF a.body = NoJSON THEN {EmptyTable} ELSE FieldsOf(a.body) :
                cols' = [cols EXCEPT ![i].at = at, ![i].fields = f, ![i].doc = a.body, ![i].raw = a.raw,
                                     ![i].err = << >>]
    <3>1. PICK f \in IF a.body = NoJSON THEN {EmptyTable} ELSE FieldsOf(a.body) :
                cols' = [cols EXCEPT ![i].at = at, ![i].fields = f, ![i].doc = a.body, ![i].raw = a.raw,
                                     ![i].err = << >>]
      BY <2>5
    <3> DEFINE c == [cols[i] EXCEPT !.at = at, !.fields = f, !.doc = a.body, !.raw = a.raw, !.err = << >>]
    <3>2. cols' = [cols EXCEPT ![i] = c]
      BY <1>2, <3>1
    <3>3. at \in {"check", "got"} /\ f \in FieldTables
      BY AnswerFields
    <3> HIDE DEF at
    <3>4. c \in Collectors /\ c.use = cols[i].use /\ c.at = at /\ c.polls = cols[i].polls
      BY <1>2, <2>3, <3>3, TextsJoin DEF Collectors
    <3>5. CollectorOK(c, Rcv(i))
      BY <1>2, <2>2, <3>3, <3>4 DEF CollectorOK, NoUse
    <3> QED
      BY <1>1, <2>2, <3>2, <3>4, <3>5, QuietMove
  <2> QED
    BY <2>1, <2>4, <2>5 DEF PollAnswered
<1>5. CASE \E doc \in Documents : ClaimMessage(i, doc)
  <2>1. PICK a \in Answers : a.body # NoJSON /\ ClaimMessage(i, a.body)
    BY <1>5 DEF Documents
  <2>2. PICK f \in FieldsOf(a.body) :
           cols' = [cols EXCEPT ![i].at = "got", ![i].fields = f, ![i].doc = a.body]
    BY <2>1 DEF ClaimMessage
  <2>3. cols[i].at = "collect" /\ clean' \in BOOLEAN /\ ErrorsTyped'
    BY <1>2, <1>6, <2>1 DEF ClaimMessage, Col, ErrorsTyped
  <2> DEFINE c == [cols[i] EXCEPT !.at = "got", !.fields = f, !.doc = a.body]
  <2>4. cols' = [cols EXCEPT ![i] = c]
    BY <1>2, <2>2
  <2>5. f \in FieldTables
    BY <2>1, AnswerFields
  <2>6. c \in Collectors /\ c.use = cols[i].use /\ c.at = "got"
    BY <1>2, <2>5 DEF Collectors
  <2>7. CollectorOK(c, Rcv(i))
    BY <1>2, <2>3, <2>6 DEF CollectorOK, NoUse
  <2> QED
    BY <1>1, <2>3, <2>4, <2>6, <2>7, QuietMove
<1> QED
  BY <1>1, <1>3, <1>4, <1>5


LEMMA UseBeginsShape ==
    ASSUME Shape, NEW i \in DOMAIN cols, BeginPoll(i) \/ BeginCheck(i) \/ BeginAssertions(i)
    PROVE  Shape' /\ Goes /\ test' = test /\ pc' = pc
<1>1. Begun(i) /\ pc = "collect" /\ UNCHANGED <<test, pc, todo, step, attempt, clean, sent, response, errors>>
  BY UseBegins
<1>2. PICK c \in Collectors :
        /\ cols' = [cols EXCEPT ![i] = c] /\ c.at = "using"
        /\ CollectorOK(c, Rcv(i)) /\ Writes(c.use, env.vars)
        /\ env' \in Envs /\ env'.vars = env.vars
  BY <1>1 DEF Begun
<1>3. PlacesOK' /\ CollectorsOK' /\ cols' \in [DOMAIN cols' -> Collectors]
  BY <1>1, <1>2, Moved
<1>4. Typed'
  BY <1>1, <1>2, <1>3 DEF Shape, Typed, ErrorsTyped
<1> QED
  BY <1>1, <1>3, <1>4 DEF Shape, Goes, Running

(* The writes of receiver i are there. *)
UseEnded(i) ==
    /\ env' \in Envs /\ DOMAIN env'.vars = cols[i].use.writes \cup DOMAIN env.vars
    /\ cols[i].use.writes \subseteq DOMAIN cols[i].use.vars
    /\ \A x \in DOMAIN env'.vars :
          env'.vars[x] = IF x \in cols[i].use.writes THEN cols[i].use.vars[x] ELSE env.vars[x]
    /\ DOMAIN cols' = DOMAIN cols /\ cols'[i].use.writes = {}
    /\ \A j \in DOMAIN cols : j # i => cols'[j] = cols[j]

LEMMA UseEnds ==
    ASSUME Shape, NEW i \in DOMAIN cols, EndUse(i)
    PROVE  Shape' /\ UseEnded(i) /\ Goes /\ UNCHANGED <<test, pc, todo, step, attempt, sent, response>> /\ pc = "collect"
<1>1. pc = "collect" /\ cols[i].at = "using" /\ UNCHANGED <<test, pc, todo, step, attempt, sent, response>>
  BY DEF EndUse, Col
<1>2. /\ cols[i] \in Collectors /\ CollectorOK(cols[i], Rcv(i)) /\ cols \in [DOMAIN cols -> Collectors]
      /\ clean \in BOOLEAN /\ env \in Envs
  BY <1>1, ReceiverNow DEF Shape, Typed
<1> DEFINE u == cols[i].use
           c == CASE u.then = "again"   -> PollFailed(i, u.err)
                  [] u.then \in Verdicts -> Ended
                  [] OTHER -> [cols[i] EXCEPT !.at = u.then, !.use = NoUse]
           p == Restrict(u.vars, u.writes)
<1>3. /\ u.vars \in Maps /\ u.writes \in SUBSET STRING /\ u.then \in {"again", "asked", "got"} \cup Verdicts
      /\ u.writes \subseteq DOMAIN u.vars /\ u.err \in Texts
      /\ u.then \in {"again", "asked"} => Rcv(i).type = "api" /\ cols[i].polls < MaxPolls
  BY <1>1, <1>2 DEF Collectors, CollectorOK
<1>4. NoUse.writes = {} /\ NoUse.then = "none"
  BY DEF NoUse
<1>5. c \in Collectors /\ c.use = NoUse /\ CollectorOK(c, Rcv(i))
  <2>1. CASE u.then = "again"
    <3>1. c = PollFailed(i, u.err)
      BY <2>1 DEF Verdicts
    <3> QED
      BY <1>2, <1>3, <2>1, <3>1, FailedPoll
  <2>2. CASE u.then \in Verdicts
    <3>1. c = Ended
      BY <2>2 DEF Verdicts
    <3>2. Ended \in Collectors /\ Ended.use = NoUse /\ Ended.at = "ended"
      BY NewCollectorTyped DEF Ended, NewCollector, Collectors
    <3> QED
      BY <1>4, <3>1, <3>2 DEF CollectorOK
  <2>3. CASE u.then \in {"asked", "got"}
    <3> DEFINE d == [cols[i] EXCEPT !.at = u.then, !.use = NoUse]
    <3>1. c = d
      BY <2>3 DEF Verdicts
    <3>2. NoUse = NewCollector.use /\ NewCollector \in Collectors
      BY NewCollectorTyped DEF NewCollector
    <3>3. d \in Collectors /\ d.use = NoUse /\ d.at = u.then /\ d.polls = cols[i].polls
      BY <1>2, <2>3, <3>2 DEF Collectors
    <3> HIDE DEF d, c
    <3> QED
      BY <1>3, <1>4, <2>3, <3>1, <3>3 DEF CollectorOK
  <2> QED
    BY <1>3, <2>1, <2>2, <2>3
<1>6. cols' = [cols EXCEPT ![i] = c] /\ clean' \in BOOLEAN
  <2>1. clean' \in BOOLEAN
    BY <1>2 DEF EndUse
  <2>2. cols' = CASE u.then = "again"   -> [cols EXCEPT ![i] = PollFailed(i, u.err)]
                  [] u.then \in Verdicts -> [cols EXCEPT ![i] = Ended]
                  [] OTHER -> [cols EXCEPT ![i].at = u.then, ![i].use = NoUse]
    BY DEF EndUse
  <2>3. [cols EXCEPT ![i].at = u.then, ![i].use = NoUse] =
            [cols EXCEPT ![i] = [cols[i] EXCEPT !.at = u.then, !.use = NoUse]]
    BY <1>2
  <2>4. u.then = "again" => u.then \notin Verdicts
    BY DEF Verdicts
  <2> QED
    BY <2>1, <2>2, <2>3, <2>4
<1> HIDE DEF c
<1>7. ErrorsTyped'
  <2>1. errors \in [trigger : Texts, receivers : Texts, result : Texts]
    BY DEF Shape, Typed, ErrorsTyped
  <2> DEFINE t == IF u.then \in {"failed", "error"} THEN errors.receivers \o u.err ELSE errors.receivers
  <2>2. t \in Texts
    BY <1>3, <2>1, TextsJoin
  <2>3. errors' = [errors EXCEPT !.receivers = t]
    BY DEF EndUse
  <2> HIDE DEF t
  <2> QED
    BY <2>1, <2>2, <2>3 DEF ErrorsTyped
<1>9. /\ PlacesOK' /\ CollectorsOK' /\ cols' \in [DOMAIN cols' -> Collectors]
      /\ DOMAIN cols' = DOMAIN cols /\ cols'[i] = c /\ \A j \in DOMAIN cols : j # i => cols'[j] = cols[j]
  BY <1>1, <1>5, <1>6, Moved
<1>10. IsTexts(u.vars) /\ IsTexts(env.vars) /\ env.fresh \in Nat \ {0}
  BY <1>2, <1>3, MapFacts, EnvFacts
<1> HIDE DEF u
<1>11. IsTexts(p) /\ DOMAIN p = u.writes /\ \A x \in u.writes : p[x] = u.vars[x]
  BY <1>3, <1>10, PartTexts DEF Restrict
<1> HIDE DEF p
<1>12. env' = [vars |-> PutOver(p, env.vars), fresh |-> env.fresh]
  BY <1>2 DEF EndUse, p, u, Envs
<1>13. PutOver(p, env.vars) \in Maps
  BY <1>10, <1>11, UnionTexts, MapFacts
<1>14. /\ env' \in Envs /\ DOMAIN env'.vars = u.writes \cup DOMAIN env.vars
       /\ \A x \in DOMAIN env'.vars : env'.vars[x] = IF x \in u.writes THEN u.vars[x] ELSE env.vars[x]
  BY <1>10, <1>11, <1>12, <1>13 DEF Envs, PutOver
<1>15. Typed'
  BY <1>1, <1>6, <1>7, <1>9, <1>14 DEF Shape, Typed
<1>16. UseEnded(i)
  BY <1>3, <1>4, <1>5, <1>9, <1>14 DEF UseEnded, u
<1> QED
  BY <1>1, <1>9, <1>15, <1>16 DEF Shape, Goes, Running


Loops == <<test, step, attempt, clean, sent, response, cols, errors>>

LEMMA DefineShape ==
    ASSUME Shape, NEW x \in todo, DefineVariable(x)
    PROVE  /\ Shape' /\ pc = "define" /\ pc' = pc /\ UNCHANGED Loops
           /\ x \in DOMAIN test.variables /\ todo' = todo \ {x} /\ sent = << >> /\ cols = << >> /\ env' \in Envs
<1>1. /\ pc = "define" /\ pc' = pc /\ UNCHANGED Loops /\ todo' = todo \ {x}
      /\ todo \subseteq DOMAIN test.variables /\ x \in DOMAIN test.variables /\ sent = << >> /\ cols = << >>
  BY DEF DefineVariable, Shape, PlacesOK, Loops
<1>2. env \in Envs /\ "run_id" \in DOMAIN env.vars /\ test \in Tests
  BY DEF Shape, Typed
<1>3. x \in STRING /\ test.variables[x] \in Texts
  BY <1>1, <1>2, TestFacts DEF IsTexts, IsTable
<1>4. env' \in Envs /\ "run_id" \in DOMAIN env'.vars
  <2>1. CASE x \in ReservedVarNames
    BY <1>2, <2>1 DEF DefineVariable
  <2>2. CASE x \notin ReservedVarNames
    <3>1. PICK y \in ReplaceString(test.variables[x], env) : env' = [y.env EXCEPT !.vars = Put(@, x, y.text)]
      BY <2>2 DEF DefineVariable
    <3>2. y.text \in Texts /\ y.env \in Envs /\ Follows(env.vars, y.env.vars, {test.variables[x]})
      BY <1>2, <1>3, ReplacedEnv
    <3>3. IsTexts(y.env.vars) /\ y.env.fresh \in Nat \ {0}
      BY <3>2, EnvFacts
    <3>4. env' = [vars |-> Put(y.env.vars, x, y.text), fresh |-> y.env.fresh]
      BY <3>1, <3>2 DEF Envs
    <3>5. Put(y.env.vars, x, y.text) \in Maps
      BY <1>3, <3>2, <3>3, PutTexts, MapFacts
    <3>6. "run_id" \in DOMAIN Put(y.env.vars, x, y.text)
      BY <1>2, <3>2 DEF Follows, Put
    <3> QED
      BY <3>3, <3>4, <3>5, <3>6 DEF Envs
  <2> QED
    BY <2>1, <2>2
<1>5. Typed'
  BY <1>1, <1>4 DEF Shape, Typed, ErrorsTyped, Loops
<1>6. PlacesOK'
  BY <1>1 DEF Shape, PlacesOK, Running, Loops
<1>7. CollectorsOK'
  BY <1>1 DEF CollectorsOK
<1> QED
  BY <1>1, <1>4, <1>5, <1>6, <1>7 DEF Shape

LEMMA VariablesDefinedShape ==
    ASSUME Shape, VariablesDefined
    PROVE  Shape' /\ Goes /\ Quiet /\ pc = "define" /\ pc' \in {"attempt", "done"} /\ test' = test /\ todo = {}
<1>1. /\ pc = "define" /\ todo = {} /\ UNCHANGED <<test, env, step, attempt, clean, sent, response, cols, errors>>
      /\ pc' \in {"attempt", "done"} /\ (pc' = "attempt" <=> test.triggers # << >>)
  BY DEF VariablesDefined, Finish
<1>2. step = 1 /\ attempt = 1 /\ cols = << >> /\ test \in Tests
  BY <1>1 DEF Shape, PlacesOK, Typed
<1>3. /\ Len(test.triggers) \in Nat /\ DOMAIN test.triggers = 1 .. Len(test.triggers)
      /\ test.attempts \in Nat \ {0} /\ IsSeq(test.triggers)
  BY <1>2, TestFacts, VariablesAssumption
<1>4. test.triggers # << >> <=> Len(test.triggers) >= 1
  BY <1>3, EmptySeq DEF IsSeq
<1>5. Typed'
  BY <1>1 DEF Shape, Typed, ErrorsTyped
<1>6. PlacesOK'
  BY <1>1, <1>2, <1>3, <1>4 DEF PlacesOK, Running
<1>7. CollectorsOK'
  BY <1>1 DEF CollectorsOK
<1>8. Quiet
  <2>1. DOMAIN cols' = {}
    BY <1>1, <1>2
  <2> QED
    BY <1>1, <2>1 DEF Quiet
<1>9. Goes
  BY <1>1, <1>2, <1>3, <1>4 DEF Goes, Running
<1> QED
  BY <1>1, <1>5, <1>6, <1>7, <1>8, <1>9 DEF Shape


(* What Execute does to the variables and the requests. *)
Asked(r) ==
    /\ ResolvedRequest(Trigger.request, r, WithRunID(env).vars, RunTexts) /\ env' = r.env
    /\ \/ sent' = sent
       \/ sent' = Append(sent, [step |-> step, attempt |-> attempt, request |-> r.request])

LEMMA ExecuteShape ==
    ASSUME Shape, Execute
    PROVE  /\ Shape' /\ Goes /\ pc = "attempt" /\ test' = test /\ cols = << >> /\ cols' = cols
           /\ \E r : Asked(r)
<1>1. pc = "attempt" /\ UNCHANGED <<test, clean, response, cols>> /\ Running
  BY DEF Execute, Running
<1>2. cols = << >> /\ env \in Envs /\ sent \in Seq([step : Nat, attempt : Nat, request : SentTexts])
  BY <1>1 DEF Shape, PlacesOK, Typed
<1>3. /\ test \in Tests /\ step \in DOMAIN test.triggers /\ IsTrigger(Trigger) /\ attempt \in 1 .. test.attempts
      /\ step \in Nat \ {0} /\ attempt \in Nat
  BY <1>1, StepNow DEF Shape, Typed
<1>4. PICK r \in Resolve(Trigger.request, WithRunID(env)) :
          /\ env' = r.env
          /\ IF Unresolved(r.request)
             THEN RetryOrGiveUp(Reason(r.request), errors.result) /\ UNCHANGED sent
             ELSE /\ sent' = Append(sent, [step |-> step, attempt |-> attempt, request |-> r.request])
                  /\ pc' = "answer"
                  /\ UNCHANGED <<step, attempt, todo, errors>>
  BY DEF Execute
<1>5. IsRequest(Trigger.request) /\ TextsIn(Trigger.request) \subseteq RunTexts
  BY <1>3, TriggerFacts, StepTextsUsed DEF Trigger
<1>6. WithRunID(env) \in Envs /\ "run_id" \in DOMAIN WithRunID(env).vars
  BY <1>2, RunIDSet
<1>7. ResolvedRequest(Trigger.request, r, WithRunID(env).vars, RunTexts)
  BY <1>5, <1>6, RequestResolved
<1>8. r.env \in Envs /\ r.request \in SentTexts /\ "run_id" \in DOMAIN r.env.vars
  BY <1>6, <1>7 DEF ResolvedRequest, Follows
<1>9. Asked(r)
  BY <1>4, <1>7 DEF Asked
<1>10. CASE Unresolved(r.request)
  <2>1. RetryOrGiveUp(Reason(r.request), errors.result) /\ sent' = sent
    BY <1>4, <1>10
  <2>0. Reason(r.request) \in Texts /\ errors.result \in Texts
    BY <1>8, ReasonTyped DEF Shape, Typed, ErrorsTyped
  <2>2. /\ PlacesOK' /\ CollectorsOK' /\ cols' \in [DOMAIN cols' -> Collectors] /\ ErrorsTyped'
        /\ step' = step /\ step' \in Nat \ {0} /\ attempt' \in Nat /\ pc' \in {"attempt", "notify"}
        /\ pc' = "notify" => todo' = DOMAIN test.calls /\ step' <= Len(test.triggers)
    BY <1>1, <1>2, <2>0, <2>1, Retried
  <2>3. Typed'
    BY <1>1, <1>4, <1>8, <2>1, <2>2 DEF Shape, Typed
  <2> QED
    BY <1>1, <1>2, <1>9, <2>2, <2>3 DEF Shape, Goes, Running
<1>11. CASE ~Unresolved(r.request)
  <2> DEFINE m == [step |-> step, attempt |-> attempt, request |-> r.request]
  <2>1. sent' = Append(sent, m) /\ pc' = "answer" /\ UNCHANGED <<step, attempt, todo, errors>>
    BY <1>4, <1>11
  <2>2. m \in [step : Nat, attempt : Nat, request : SentTexts]
    BY <1>3, <1>8
  <2> HIDE DEF m
  <2>3. sent' \in Seq([step : Nat, attempt : Nat, request : SentTexts])
    BY <1>2, <2>1, <2>2, AppendProperties
  <2>4. Typed'
    BY <1>1, <1>4, <1>8, <2>1, <2>3 DEF Shape, Typed, ErrorsTyped
  <2>5. PlacesOK'
    BY <1>1, <1>2, <1>3, <2>1 DEF PlacesOK, Running
  <2>6. CollectorsOK'
    BY <2>1 DEF CollectorsOK
  <2> QED
    BY <1>1, <1>2, <1>9, <2>1, <2>4, <2>5, <2>6 DEF Shape, Goes, Running
<1> QED
  BY <1>10, <1>11

(* What an answer does to the variables. *)
Answered ==
    \E w \in Maps :
        /\ Follows(env.vars, w, RunTexts) /\ DOMAIN w \subseteq DOMAIN env'.vars
        /\ \A x \in DOMAIN env'.vars : (x \in DOMAIN w /\ env'.vars[x] = w[x]) \/ x \in DOMAIN Trigger.extract

LEMMA AnswerRefusedShape ==
    ASSUME Shape, NEW a \in Answers, AnswerRefused(a)
    PROVE  Shape' /\ Goes /\ Quiet /\ Running /\ test' = test
<1> DEFINE t == Quoting(IF a.ok THEN << >> ELSE a.raw)
<1>1. /\ pc = "answer" /\ Running /\ UNCHANGED <<test, env, clean, sent, response, cols>>
      /\ RetryOrGiveUp(t, errors.result)
  BY DEF AnswerRefused, TriggerFailed, Running
<1>0. t \in Texts /\ errors.result \in Texts
  <2>1. a.raw \in Texts
    BY VariablesAssumption
  <2> QED
    BY <2>1, QuotingTyped, TextsJoin DEF Shape, Typed, ErrorsTyped
<1> HIDE DEF t
<1>2. cols = << >> /\ sent \in Seq([step : Nat, attempt : Nat, request : SentTexts])
  BY <1>1 DEF Shape, PlacesOK, Typed
<1>3. /\ PlacesOK' /\ CollectorsOK' /\ cols' \in [DOMAIN cols' -> Collectors] /\ ErrorsTyped'
      /\ step' = step /\ step' \in Nat \ {0} /\ attempt' \in Nat /\ pc' \in {"attempt", "notify"}
      /\ pc' = "notify" => todo' = DOMAIN test.calls /\ step' <= Len(test.triggers)
  BY <1>0, <1>1, <1>2, Retried
<1>4. Typed'
  BY <1>1, <1>3 DEF Shape, Typed
<1>5. Quiet
  BY <1>1 DEF Quiet
<1> QED
  BY <1>1, <1>3, <1>4, <1>5 DEF Shape, Goes, Running

LEMMA AnswerIgnoredShape ==
    ASSUME Shape, NEW a \in Answers, AnswerIgnored(a)
    PROVE  Shape' /\ Goes /\ Quiet /\ Running /\ test' = test
<1>1. pc = "answer" /\ Running /\ UNCHANGED <<test, env, sent, response>> /\ TriggerFired
  BY DEF AnswerIgnored, Running
<1>2. /\ PlacesOK' /\ CollectorsOK' /\ cols' \in [DOMAIN cols' -> Collectors] /\ ErrorsTyped'
      /\ step' \in Nat \ {0} /\ attempt' \in Nat /\ clean' \in BOOLEAN
      /\ pc' \in {"attempt", "done", "collect"} /\ (pc' = "done" => step' > Len(test.triggers))
      /\ \A i \in DOMAIN cols' : cols'[i].use.writes = {}
  BY <1>1, Fired
<1>3. Typed'
  BY <1>1, <1>2 DEF Shape, Typed
<1>4. Quiet
  BY <1>1, <1>2 DEF Quiet
<1> QED
  BY <1>1, <1>2, <1>3, <1>4 DEF Shape, Goes, Running


LEMMA ExtractedFacts ==
    ASSUME NEW g, IsTrigger(g), NEW f, IsTable(f, Seq(STRING), Texts), NEW v, IsTexts(v)
    PROVE  LET z == Extracted(g.extract, f, v) IN
           /\ IsTexts(z) /\ DOMAIN v \subseteq DOMAIN z
           /\ \A x \in DOMAIN z : (x \in DOMAIN v /\ z[x] = v[x]) \/ x \in DOMAIN g.extract
<1> DEFINE D == {y \in DOMAIN g.extract : g.extract[y] \in DOMAIN f}
           p == [x \in D |-> f[g.extract[x]]]
<1>1. DOMAIN g.extract \subseteq STRING /\ IsFiniteSet(DOMAIN g.extract)
  BY TriggerFacts DEF IsTable
<1>2. IsFiniteSet(D)
  BY <1>1, FS_Subset
<1>3. \A x \in D : f[g.extract[x]] \in Texts
  BY DEF IsTable
<1>4. DOMAIN p = D /\ p \in [D -> Texts] /\ D \subseteq STRING /\ D \subseteq DOMAIN g.extract
  BY <1>1, <1>3
<1>5. Extracted(g.extract, f, v) = PutOver(p, v)
  BY DEF Extracted
<1> HIDE DEF p, D
<1>6. IsTexts(p)
  BY <1>2, <1>4 DEF IsTexts, IsTable
<1>7. IsTexts(PutOver(p, v))
  BY <1>6, UnionTexts
<1> QED
  BY <1>4, <1>5, <1>7 DEF PutOver

LEMMA AnswerReadShape ==
    ASSUME Shape, NEW a \in Answers, AnswerRead(a)
    PROVE  /\ Shape' /\ Goes /\ Answered /\ pc = "answer" /\ Running /\ test' = test /\ sent' = sent
           /\ \A i \in DOMAIN cols' : cols'[i].use.writes = {}
<1>1. pc = "answer" /\ Running /\ UNCHANGED <<test, sent>> /\ a.body # NoJSON
  BY DEF AnswerRead, Running
<1>2. /\ cols = << >> /\ env \in Envs /\ "run_id" \in DOMAIN env.vars /\ clean \in BOOLEAN
      /\ sent \in Seq([step : Nat, attempt : Nat, request : SentTexts])
  BY <1>1 DEF Shape, PlacesOK, Typed
<1>3. step \in DOMAIN test.triggers /\ IsTrigger(Trigger)
  BY <1>1, StepNow
<1>4. PICK f \in FieldsOf(a.body) : \E o \in RunAssertions(Trigger.asserts, f, a.body, env) :
          /\ response' = [step |-> step, doc |-> a.body, fields |-> f, verdict |-> o.status]
          /\ IF o.status = "passed"
             THEN /\ env' = [o.env EXCEPT !.vars = Extracted(Trigger.extract, f, @)]
                  /\ TriggerFired
             ELSE env' = o.env /\ TriggerFailed(o.error \o a.raw) /\ UNCHANGED <<clean, cols>>
  BY DEF AnswerRead
<1>5. PICK o \in RunAssertions(Trigger.asserts, f, a.body, env) :
          IF o.status = "passed"
          THEN /\ env' = [o.env EXCEPT !.vars = Extracted(Trigger.extract, f, @)]
               /\ TriggerFired
          ELSE env' = o.env /\ TriggerFailed(o.error \o a.raw) /\ UNCHANGED <<clean, cols>>
  BY <1>4
<1>6. o.env \in Envs /\ Follows(env.vars, o.env.vars, RunTexts) /\ o.error \in Texts
  <2>1. Trigger.asserts \in Seq(AssertionConfigs) /\ AssertionTexts(Trigger.asserts) \subseteq RunTexts
    BY <1>3, TriggerFacts, StepTextsUsed DEF Trigger
  <2>2. f \in FieldTables
    BY <1>1, AnswerFields
  <2>3. /\ o.env \in Envs /\ o.error \in Texts
        /\ Follows(env.vars, o.env.vars, AssertionTexts(Trigger.asserts))
    BY <1>2, <2>1, <2>2, AssertionsEnd
  <2> QED
    BY <2>1, <2>3, FollowsMore
<1>7. IsTexts(o.env.vars) /\ o.env.vars \in Maps /\ o.env.fresh \in Nat \ {0} /\ "run_id" \in DOMAIN o.env.vars
  BY <1>2, <1>6, EnvFacts DEF Envs, Follows
<1>8. CASE o.status = "passed"
  <2>1. env' = [o.env EXCEPT !.vars = Extracted(Trigger.extract, f, @)] /\ TriggerFired
    BY <1>5, <1>8
  <2> DEFINE w == o.env.vars
             z == Extracted(Trigger.extract, f, w)
  <2>2. IsTable(f, Seq(STRING), Texts)
    BY <1>1, VariablesAssumption
  <2>3. /\ IsTexts(z) /\ DOMAIN w \subseteq DOMAIN z
        /\ \A x \in DOMAIN z : (x \in DOMAIN w /\ z[x] = w[x]) \/ x \in DOMAIN Trigger.extract
    BY <1>3, <1>7, <2>2, ExtractedFacts
  <2>4. env' = [vars |-> z, fresh |-> o.env.fresh]
    BY <1>6, <2>1 DEF Envs
  <2> HIDE DEF z
  <2>5. z \in Maps
    BY <2>3, MapFacts
  <2>6. env' \in Envs /\ "run_id" \in DOMAIN env'.vars /\ Answered
    BY <1>6, <1>7, <2>3, <2>4, <2>5 DEF Envs, Answered
  <2>7. /\ PlacesOK' /\ CollectorsOK' /\ cols' \in [DOMAIN cols' -> Collectors] /\ ErrorsTyped'
        /\ step' \in Nat \ {0} /\ attempt' \in Nat /\ clean' \in BOOLEAN
        /\ pc' \in {"attempt", "done", "collect"} /\ (pc' = "done" => step' > Len(test.triggers))
        /\ \A i \in DOMAIN cols' : cols'[i].use.writes = {}
    BY <1>1, <2>1, Fired
  <2>8. Typed'
    BY <1>1, <2>6, <2>7 DEF Shape, Typed
  <2> QED
    BY <1>1, <2>6, <2>7, <2>8 DEF Shape, Goes, Running
<1>9. CASE o.status # "passed"
  <2> DEFINE t == Quoting(o.error \o a.raw)
  <2>1. env' = o.env /\ RetryOrGiveUp(t, errors.result) /\ UNCHANGED <<clean, cols>>
    BY <1>5, <1>9 DEF TriggerFailed
  <2>0. t \in Texts /\ errors.result \in Texts
    <3>1. a.raw \in Texts
      BY VariablesAssumption
    <3>2. o.error \o a.raw \in Texts
      BY <1>6, <3>1, TextsJoin
    <3> QED
      BY <3>2, QuotingTyped DEF Shape, Typed, ErrorsTyped
  <2> HIDE DEF t
  <2>2. /\ PlacesOK' /\ CollectorsOK' /\ cols' \in [DOMAIN cols' -> Collectors] /\ ErrorsTyped'
        /\ step' = step /\ step' \in Nat \ {0} /\ attempt' \in Nat /\ pc' \in {"attempt", "notify"}
        /\ pc' = "notify" => todo' = DOMAIN test.calls /\ step' <= Len(test.triggers)
    BY <1>1, <1>2, <2>0, <2>1, Retried
  <2>3. Typed'
    BY <1>1, <1>6, <1>7, <2>1, <2>2 DEF Shape, Typed
  <2>4. Answered
    BY <1>6, <1>7, <2>1 DEF Answered
  <2>5. DOMAIN cols' = {}
    BY <1>2, <2>1
  <2> QED
    BY <1>1, <2>2, <2>3, <2>4, <2>5 DEF Shape, Goes, Running
<1> QED
  BY <1>8, <1>9

LEMMA WaitAllShape ==
    ASSUME Shape, WaitAll
    PROVE  Shape' /\ Goes /\ Quiet /\ Running /\ test' = test
<1>1. pc = "collect" /\ Running /\ cols' = << >> /\ UNCHANGED <<test, env, sent, response>>
  BY DEF WaitAll, Running
<1>2. clean \in BOOLEAN /\ sent \in Seq([step : Nat, attempt : Nat, request : SentTexts])
  BY DEF Shape, Typed
<1>3. Quiet
  BY <1>1 DEF Quiet
<1> DEFINE t == IF errors.result = << >> THEN errors.receivers ELSE errors.result
<1>4. CASE StepPassed
  <2>1. /\ PlacesOK' /\ CollectorsOK' /\ cols' \in [DOMAIN cols' -> Collectors] /\ ErrorsTyped'
        /\ step' \in Nat \ {0} /\ attempt' \in Nat /\ clean' \in BOOLEAN
        /\ pc' \in {"attempt", "done"} /\ (pc' = "done" => step' > Len(test.triggers))
    BY <1>1, <1>4, Passed
  <2>2. Typed'
    BY <1>1, <2>1 DEF Shape, Typed
  <2> QED
    BY <1>1, <1>3, <2>1, <2>2 DEF Shape, Goes, Running
<1>5. CASE RetryOrGiveUp(errors.trigger, t) /\ UNCHANGED clean
  <2>0. errors.trigger \in Texts /\ t \in Texts
    BY DEF Shape, Typed, ErrorsTyped
  <2> HIDE DEF t
  <2>1. /\ PlacesOK' /\ CollectorsOK' /\ cols' \in [DOMAIN cols' -> Collectors] /\ ErrorsTyped'
        /\ step' = step /\ step' \in Nat \ {0} /\ attempt' \in Nat /\ pc' \in {"attempt", "notify"}
        /\ pc' = "notify" => todo' = DOMAIN test.calls /\ step' <= Len(test.triggers)
    BY <1>1, <1>2, <1>5, <2>0, Retried
  <2>2. Typed'
    BY <1>1, <1>5, <2>1 DEF Shape, Typed
  <2> QED
    BY <1>1, <1>3, <2>1, <2>2 DEF Shape, Goes, Running
<1> QED
  BY <1>4, <1>5 DEF WaitAll

LEMMA CrashShape ==
    ASSUME Shape, ConcurrentMapAccess
    PROVE  Shape' /\ Goes /\ Quiet /\ Running /\ test' = test
<1>1. /\ pc = "collect" /\ Running /\ pc' = "crashed"
      /\ UNCHANGED <<test, todo, env, step, attempt, clean, sent, response, cols, errors>>
  BY DEF ConcurrentMapAccess, Running
<1>2. \E i, j \in DOMAIN cols : i # j /\ cols[i].use.writes # {}
  BY DEF ConcurrentMapAccess, Racing
<1>3. Typed'
  BY <1>1 DEF Shape, Typed, ErrorsTyped
<1>4. PlacesOK'
  BY <1>1 DEF Shape, PlacesOK, Running
<1>5. Trigger' = Trigger
  BY <1>1 DEF Trigger
<1>6. CollectorsOK'
  <2>1. DOMAIN cols = DOMAIN Trigger.receivers /\ \A j \in DOMAIN cols : CollectorOK(cols[j], Rcv(j))
    BY <1>1 DEF Shape, CollectorsOK
  <2>2. \A j : Rcv(j)' = Rcv(j)
    BY <1>5 DEF Rcv
  <2>3. \A j \in DOMAIN cols' : CollectorOK(cols[j], Rcv(j))'
    BY <1>1, <2>1, <2>2 DEF CollectorOK, Increments
  <2> QED
    BY <1>1, <1>2, <1>5, <2>1, <2>3 DEF CollectorsOK
<1> QED
  BY <1>1, <1>3, <1>4, <1>6 DEF Shape, Goes, Quiet, Running


LEMMA LeastOf ==
    ASSUME NEW S \in SUBSET Nat, S # {}
    PROVE  (CHOOSE i \in S : \A j \in S : i <= j) \in S
<1>1. PICK x \in S : \A y \in S : ~ (<<y, x>> \in OpToRel(<, Nat))
  BY NatLessThanWellFounded, WFMin
<1>2. \A y \in S : ~ (y < x)
  BY <1>1 DEF OpToRel
<1>3. \A k \in S : x <= k
  BY <1>2
<1> QED
  BY <1>3

(* The copy that Notify works on. *)
LEMMA NotifierFacts ==
    ASSUME env \in Envs, ErrorsTyped
    PROVE  /\ NotifierVars \in Envs /\ DOMAIN NotifierVars.vars = DOMAIN env.vars \cup ReservedVarNames
           /\ \A x \in DOMAIN env.vars : NotifierVars.vars[x] = env.vars[x]
<1> DEFINE p == [x \in ReservedVarNames |->
                    CASE x = "run_id"  -> RunID
                      [] x = "test_id" -> Lit("test")
                      [] x = "error"   -> errors.result]
<1>1. \A x \in ReservedVarNames : x \in STRING /\ p[x] \in Texts
  <2>1. RunID \in Texts /\ Lit("test") \in Texts /\ errors.result \in Texts
    BY LiteralsAssumption, LitText, RunIDText DEF ErrorsTyped
  <2>2. p["run_id"] = RunID /\ p["test_id"] = Lit("test") /\ p["error"] = errors.result
    BY DEF ReservedVarNames
  <2> QED
    BY <2>1, <2>2, LiteralsAssumption DEF ReservedVarNames
<1>2. IsFiniteSet(ReservedVarNames)
  <2>1. IsFiniteSet({}) /\ IsFiniteSet({"error"})
    BY FS_EmptySet, FS_Singleton
  <2>2. IsFiniteSet({"error"} \cup {"test_id"})
    BY <2>1, FS_AddElement
  <2>3. IsFiniteSet(({"error"} \cup {"test_id"}) \cup {"run_id"})
    BY <2>2, FS_AddElement
  <2>4. ({"error"} \cup {"test_id"}) \cup {"run_id"} = ReservedVarNames
    BY DEF ReservedVarNames
  <2> QED
    BY <2>3, <2>4
<1>3. DOMAIN p = ReservedVarNames
  OBVIOUS
<1>4. NotifierVars = [vars |-> PutOver(env.vars, p), fresh |-> env.fresh]
  BY DEF NotifierVars
<1> HIDE DEF p
<1>5. IsTexts(p)
  <2>1. p \in [ReservedVarNames -> Texts]
    BY <1>1, <1>3 DEF p
  <2> QED
    BY <1>1, <1>2, <1>3, <2>1 DEF IsTexts, IsTable
<1>6. IsTexts(env.vars) /\ env.fresh \in Nat \ {0}
  BY EnvFacts
<1>7. PutOver(env.vars, p) \in Maps
  BY <1>5, <1>6, UnionTexts, MapFacts
<1>8. NotifierVars \in Envs
  BY <1>4, <1>6, <1>7 DEF Envs
<1>9. NotifierVars.vars = PutOver(env.vars, p)
  BY <1>4
<1> QED
  BY <1>1, <1>3, <1>8, <1>9 DEF PutOver

(* What the call n does. *)
Called(n, r) ==
    /\ ResolvedRequest(test.calls[n], r, NotifierVars.vars, TextsIn(test.calls[n])) /\ env' = r.env
    /\ sent' = IF HasPlaceholder(r.request) THEN sent
               ELSE Append(sent, [step |-> 0, attempt |-> n, request |-> r.request])

LEMMA CallShape ==
    ASSUME Shape, Call
    PROVE  /\ Shape' /\ pc = "notify" /\ UNCHANGED <<test, pc, step, attempt, clean, response, cols, errors>>
           /\ \E n \in todo \cap DOMAIN test.calls : \E r : Called(n, r) /\ todo' = todo \ {n}
<1>1. pc = "notify" /\ todo # {} /\ UNCHANGED <<test, pc, step, attempt, clean, response, cols, errors>>
  BY DEF Call
<1>2. /\ todo \subseteq DOMAIN test.calls /\ cols = << >> /\ env \in Envs /\ "run_id" \in DOMAIN env.vars
      /\ test \in Tests /\ sent \in Seq([step : Nat, attempt : Nat, request : SentTexts]) /\ ErrorsTyped
  BY <1>1 DEF Shape, Typed, PlacesOK
<1>3. /\ Len(test.calls) \in Nat /\ DOMAIN test.calls = 1 .. Len(test.calls)
      /\ \A i \in DOMAIN test.calls : IsRequest(test.calls[i])
  BY <1>2, TestFacts
<1> DEFINE n == CHOOSE i \in todo : \A j \in todo : i <= j
<1>4. n \in todo
  <2>1. todo \in SUBSET Nat
    BY <1>2, <1>3
  <2> QED
    BY <1>1, <2>1, LeastOf
<1>5. PICK r \in Resolve(test.calls[n], NotifierVars) :
          /\ env' = r.env
          /\ sent' = IF HasPlaceholder(r.request) THEN sent
                     ELSE Append(sent, [step |-> 0, attempt |-> n, request |-> r.request])
  BY DEF Call
<1>6. todo' = todo \ {n}
  BY DEF Call
<1> HIDE DEF n
<1>7. n \in DOMAIN test.calls /\ n \in Nat /\ IsRequest(test.calls[n])
  BY <1>2, <1>3, <1>4
<1>8. NotifierVars \in Envs /\ DOMAIN NotifierVars.vars = DOMAIN env.vars \cup ReservedVarNames
  BY <1>2, NotifierFacts
<1>9. ResolvedRequest(test.calls[n], r, NotifierVars.vars, TextsIn(test.calls[n]))
  BY <1>7, <1>8, RequestResolved
<1>10. r.env \in Envs /\ r.request \in SentTexts /\ "run_id" \in DOMAIN r.env.vars
  BY <1>2, <1>8, <1>9 DEF ResolvedRequest, Follows
<1>11. sent' \in Seq([step : Nat, attempt : Nat, request : SentTexts])
  <2> DEFINE m == [step |-> 0, attempt |-> n, request |-> r.request]
  <2>1. m \in [step : Nat, attempt : Nat, request : SentTexts]
    BY <1>7, <1>10
  <2>2. sent' = sent \/ sent' = Append(sent, m)
    BY <1>5
  <2> HIDE DEF m
  <2>3. Append(sent, m) \in Seq([step : Nat, attempt : Nat, request : SentTexts])
    BY <1>2, <2>1, AppendProperties
  <2> QED
    BY <1>2, <2>2, <2>3
<1>12. Typed'
  BY <1>1, <1>5, <1>10, <1>11 DEF Shape, Typed, ErrorsTyped
<1>13. PlacesOK'
  BY <1>1, <1>2, <1>6 DEF PlacesOK, Running
<1>14. CollectorsOK'
  BY <1>1 DEF CollectorsOK
<1>15. Called(n, r)
  BY <1>5, <1>9 DEF Called
<1> QED
  BY <1>1, <1>4, <1>6, <1>7, <1>12, <1>13, <1>14, <1>15 DEF Shape

LEMMA NotifiedShape ==
    ASSUME Shape, Notified
    PROVE  Shape' /\ Quiet /\ pc = "notify" /\ todo = {} /\ pc' = "done" /\ UNCHANGED <<test, todo, step, errors>>
<1>1. /\ pc = "notify" /\ todo = {} /\ pc' = "done"
      /\ UNCHANGED <<test, todo, env, step, attempt, clean, sent, response, cols, errors>>
  BY DEF Notified
<1>2. Typed'
  BY <1>1 DEF Shape, Typed, ErrorsTyped
<1>3. PlacesOK'
  BY <1>1 DEF Shape, PlacesOK, Running
<1>4. CollectorsOK'
  BY <1>1 DEF CollectorsOK
<1> QED
  BY <1>1, <1>2, <1>3, <1>4 DEF Shape, Quiet

LEMMA StutterShape ==
    ASSUME Shape, UNCHANGED vars
    PROVE  Shape' /\ Quiet
<1> USE DEF vars
<1>1. Typed'
  BY DEF Shape, Typed, ErrorsTyped
<1>2. PlacesOK'
  BY DEF Shape, PlacesOK, Running
<1>3. CollectorsOK'
  <2>1. Trigger' = Trigger
    BY DEF Trigger
  <2>2. \A j : Rcv(j)' = Rcv(j)
    BY <2>1 DEF Rcv
  <2>3. ASSUME pc \in {"collect", "crashed"}
        PROVE  DOMAIN cols = DOMAIN Trigger.receivers /\ \A j \in DOMAIN cols : CollectorOK(cols[j], Rcv(j))'
    BY <2>2, <2>3 DEF Shape, CollectorsOK, CollectorOK, Increments
  <2> QED
    BY <2>1, <2>3 DEF Shape, CollectorsOK
<1> QED
  BY <1>1, <1>2, <1>3 DEF Shape, Quiet


----------------------------------------------------------------------------
(* The kinds of steps. *)
Silent ==
    /\ Quiet
    /\ Running' => Running \/ (pc = "define" /\ todo = {})
    /\ pc' = "define" => pc = "define" /\ todo' = todo

Ends ==
    \/ pc \notin {"notify", "done"} /\ Goes
    \/ pc = "notify" /\ pc' = "done" /\ UNCHANGED <<test, todo, env, step, sent, errors>> /\ todo = {}
    \/ UNCHANGED vars

LEMMA StepKinds ==
    ASSUME Shape, [Next]_vars
    PROVE  /\ Shape' /\ test' = test
           /\ \/ \E x \in todo : DefineVariable(x)
              \/ Silent /\ Ends
              \/ Execute
              \/ \E a \in Answers : AnswerRead(a)
              \/ \E i \in DOMAIN cols : BeginPoll(i) \/ BeginCheck(i) \/ BeginAssertions(i)
              \/ \E i \in DOMAIN cols : EndUse(i)
              \/ Call
<1>1. CASE \E x \in todo : DefineVariable(x)
  BY <1>1, DefineShape DEF Loops
<1>2. CASE VariablesDefined
  BY <1>2, VariablesDefinedShape DEF Silent, Ends
<1>3. CASE Execute
  BY <1>3, ExecuteShape
<1>4. ASSUME NEW a \in Answers, AnswerRefused(a) \/ AnswerIgnored(a)
      PROVE  Shape' /\ test' = test /\ Silent /\ Ends
  <2>1. Shape' /\ Goes /\ Quiet /\ Running /\ test' = test
    BY <1>4, AnswerRefusedShape, AnswerIgnoredShape
  <2> QED
    BY <2>1 DEF Silent, Ends, Goes, Running
<1>5. ASSUME NEW a \in Answers, AnswerRead(a) PROVE Shape' /\ test' = test
  BY <1>5, AnswerReadShape
<1>6. ASSUME NEW i \in DOMAIN cols, BeginPoll(i) \/ BeginCheck(i) \/ BeginAssertions(i)
      PROVE  Shape' /\ test' = test
  BY <1>6, UseBeginsShape
<1>7. ASSUME NEW i \in DOMAIN cols, EndUse(i) PROVE Shape' /\ test' = test
  BY <1>7, UseEnds
<1>8. ASSUME NEW i \in DOMAIN cols,
             \/ NothingToAssert(i) \/ CollectTimesOut(i)
             \/ \E a \in Answers : PollAnswered(i, a)
             \/ \E doc \in Documents : ClaimMessage(i, doc)
      PROVE  Shape' /\ test' = test /\ Silent /\ Ends
  <2>1. Shape' /\ Quiet /\ Goes /\ test' = test /\ pc = "collect" /\ pc' = pc
    BY <1>8, ReceiverWaits
  <2> QED
    BY <2>1 DEF Silent, Ends, Running
<1>9. CASE WaitAll \/ ConcurrentMapAccess
  <2>1. Shape' /\ Goes /\ Quiet /\ Running /\ test' = test
    BY <1>9, WaitAllShape, CrashShape
  <2> QED
    BY <2>1 DEF Silent, Ends, Goes, Running
<1>10. CASE Call
  BY <1>10, CallShape
<1>11. CASE Notified
  BY <1>11, NotifiedShape DEF Silent, Ends, Quiet, Running
<1>12. CASE UNCHANGED vars
  <2>1. Shape' /\ Quiet
    BY <1>12, StutterShape
  <2> QED
    BY <1>12, <2>1 DEF vars, Silent, Ends, Running
<1>13. CASE Over
  BY <1>12, <1>13 DEF Over
<1> QED
  BY <1>1, <1>2, <1>3, <1>4, <1>5, <1>6, <1>7, <1>8, <1>9, <1>10, <1>11, <1>12, <1>13 DEF Next

LEMMA ShapeKept == Spec => []Shape
<1>1. Init => Shape
  BY InitShape
<1>2. Shape /\ [Next]_vars => Shape'
  BY StepKinds
<1> QED
  BY <1>1, <1>2, PTL DEF Spec

LEMMA ShapeTyped == Shape => TypeOK
<1> SUFFICES ASSUME Shape PROVE TypeOK
  OBVIOUS
<1>1. IsTexts(env.vars) /\ env.fresh \in Nat \ {0}
  BY EnvFacts DEF Shape, Typed
<1>2. \A i \in DOMAIN cols : /\ cols[i].at \in {"collect", "using", "asked", "check", "got", "ended"}
                            /\ cols[i].polls \in 0 .. MaxPolls
  BY DEF Shape, Typed, Collectors
<1> QED
  BY <1>1, <1>2 DEF Shape, Typed, ErrorsTyped, PlacesOK, Running, TypeOK

(* The variables of every run are a map of texts in which run_id never     *)
(* gets lost, the loops of executeSequential stay inside the definition,   *)
(* a receiver never polls more often than it may, and errors are texts.    *)
THEOREM VariablesTypeCorrect == Spec => []TypeOK
  BY ShapeKept, ShapeTyped, PTL

(* "concurrent map writes" can end the process only in a step with two     *)
(* receivers, one of which polls an API or has an increment in an          *)
(* assertion.                                                              *)
THEOREM CrashCorrect == Spec => []OnlySharedStepsCrash
<1>1. Shape => OnlySharedStepsCrash
  <2> SUFFICES ASSUME Shape, pc = "crashed"
               PROVE  \E i, j \in DOMAIN Trigger.receivers :
                          i # j /\ (Rcv(i).type = "api" \/ Increments(Rcv(i).asserts))
    BY DEF OnlySharedStepsCrash
  <2>1. PICK i, j \in DOMAIN cols : i # j /\ cols[i].use.writes # {}
    BY DEF Shape, CollectorsOK
  <2>2. DOMAIN cols = DOMAIN Trigger.receivers /\ CollectorOK(cols[i], Rcv(i))
    BY DEF Shape, CollectorsOK
  <2> QED
    BY <2>1, <2>2 DEF CollectorOK
<1> QED
  BY <1>1, ShapeKept, PTL


----------------------------------------------------------------------------
(* The requests that were sent stay as they are. *)
SameRequest(n) ==
    /\ Template(n)' = Template(n)
    /\ \A x : Values(n, x)' = Values(n, x)
    /\ Numbers(n)' = Numbers(n)
    /\ \A s : NumberSent(n, s)' = NumberSent(n, s) /\ CounterOf(n, s)' = CounterOf(n, s)

LEMMA RequestKept ==
    ASSUME test' = test, NEW n, sent'[n] = sent[n]
    PROVE  SameRequest(n)
<1>1. Template(n)' = Template(n)
  BY DEF Template
<1> QED
  BY <1>1 DEF SameRequest, Values, Numbers, NumberSent, CounterOf

LEMMA RequestsKept ==
    ASSUME test' = test, sent' = sent
    PROVE  Requests' = Requests /\ \A n : SameRequest(n)
<1>1. Requests' = Requests
  BY DEF Requests
<1> QED
  BY <1>1, RequestKept

LEMMA RequestAdded ==
    ASSUME Typed, test' = test, NEW m, sent' = Append(sent, m)
    PROVE  /\ DOMAIN sent' = DOMAIN sent \cup {Len(sent) + 1} /\ Len(sent) + 1 \notin DOMAIN sent
           /\ sent'[Len(sent) + 1] = m
           /\ \A n \in DOMAIN sent : sent'[n] = sent[n] /\ SameRequest(n)
           /\ m.step = 0 => Requests' = Requests
           /\ m.step # 0 => Requests' = Requests \cup {Len(sent) + 1}
<1>1. Len(sent) \in Nat /\ DOMAIN sent = 1 .. Len(sent)
  BY LenProperties DEF Typed
<1>2. /\ DOMAIN sent' = 1 .. Len(sent) + 1 /\ sent'[Len(sent) + 1] = m
      /\ \A n \in DOMAIN sent : sent'[n] = sent[n]
  BY <1>1, AppendProperties DEF Typed
<1>3. DOMAIN sent' = DOMAIN sent \cup {Len(sent) + 1} /\ Len(sent) + 1 \notin DOMAIN sent
  BY <1>1, <1>2
<1>4. /\ m.step = 0 => Requests' = Requests
      /\ m.step # 0 => Requests' = Requests \cup {Len(sent) + 1}
  BY <1>2, <1>3 DEF Requests
<1> QED
  BY <1>2, <1>3, <1>4, RequestKept

(* The new request of Execute. *)
LEMMA RequestMade ==
    ASSUME Typed, test' = test, NEW r, NEW n, n = Len(sent) + 1,
           sent' = Append(sent, [step |-> step, attempt |-> attempt, request |-> r.request])
    PROVE  /\ Requests' = Requests \cup {n} /\ n \notin Requests
           /\ \A k \in Requests : SameRequest(k)
           /\ Template(n)' = Trigger.request
           /\ \A x, u : u \in Values(n, x)' <=>
                 \E s \in Places(Trigger.request) : Place(Trigger.request, s) = Var(x) /\ u = Place(r.request, s)
           /\ Numbers(n)' = {s \in Places(Trigger.request) : Counter(Place(Trigger.request, s))}
           /\ \A s : /\ NumberSent(n, s)' = Place(r.request, s)
                     /\ CounterOf(n, s)' = Place(Trigger.request, s)[1][2]
<1> DEFINE m == [step |-> step, attempt |-> attempt, request |-> r.request]
<1>1. m.step # 0 /\ m.step = step /\ m.request = r.request
  BY DEF Typed
<1>2. sent' = Append(sent, m)
  OBVIOUS
<1> HIDE DEF m
<1>3. /\ Requests' = Requests \cup {n} /\ sent'[n] = m /\ n \notin DOMAIN sent
      /\ \A k \in DOMAIN sent : SameRequest(k)
  BY <1>1, <1>2, RequestAdded
<1>4. \A k \in Requests : k \in DOMAIN sent
  BY DEF Requests
<1>5. Template(n)' = Trigger.request /\ sent'[n].request = r.request
  BY <1>1, <1>3 DEF Template, Trigger
<1>6. \A x, u : u \in Values(n, x)' <=>
         \E s \in Places(Trigger.request) : Place(Trigger.request, s) = Var(x) /\ u = Place(r.request, s)
  BY <1>5 DEF Values
<1>7. Numbers(n)' = {s \in Places(Trigger.request) : Counter(Place(Trigger.request, s))}
  BY <1>5 DEF Numbers
<1>8. \A s : NumberSent(n, s)' = Place(r.request, s) /\ CounterOf(n, s)' = Place(Trigger.request, s)[1][2]
  BY <1>5 DEF NumberSent, CounterOf
<1> QED
  BY <1>3, <1>4, <1>5, <1>6, <1>7, <1>8


NoNewRequest == Requests' = Requests /\ \A n \in Requests : SameRequest(n)

LEMMA CallAdds ==
    ASSUME Shape, test' = test, NEW n, NEW r, Called(n, r)
    PROVE  NoNewRequest
<1>1. CASE sent' = sent
  BY <1>1, RequestsKept DEF NoNewRequest
<1>2. CASE sent' = Append(sent, [step |-> 0, attempt |-> n, request |-> r.request])
  <2> DEFINE m == [step |-> 0, attempt |-> n, request |-> r.request]
  <2>1. m.step = 0 /\ sent' = Append(sent, m)
    BY <1>2
  <2> HIDE DEF m
  <2>2. Requests' = Requests /\ \A k \in DOMAIN sent : SameRequest(k)
    BY <2>1, RequestAdded DEF Shape
  <2> QED
    BY <2>2 DEF NoNewRequest, Requests
<1> QED
  BY <1>1, <1>2 DEF Called

LEMMA NewRequests ==
    ASSUME Shape, [Next]_vars
    PROVE  NoNewRequest \/ Execute
<1>1. test' = test
  BY StepKinds
<1>2. sent' = sent => NoNewRequest
  BY <1>1, RequestsKept DEF NoNewRequest
<1>3. ASSUME NEW x \in todo, DefineVariable(x) PROVE NoNewRequest
  BY <1>2, <1>3, DefineShape DEF Loops
<1>4. CASE Silent
  BY <1>2, <1>4 DEF Silent, Quiet
<1>5. ASSUME NEW a \in Answers, AnswerRead(a) PROVE NoNewRequest
  BY <1>2, <1>5, AnswerReadShape
<1>6. ASSUME NEW i \in DOMAIN cols, BeginPoll(i) \/ BeginCheck(i) \/ BeginAssertions(i) PROVE NoNewRequest
  BY <1>2, <1>6, UseBegins
<1>7. ASSUME NEW i \in DOMAIN cols, EndUse(i) PROVE NoNewRequest
  BY <1>2, <1>7, UseEnds
<1>8. CASE Call
  BY <1>1, <1>8, CallShape, CallAdds
<1> QED
  BY <1>3, <1>4, <1>5, <1>6, <1>7, <1>8, StepKinds

(* What is sent in place of {{x}}. *)
LEMMA ValueSent ==
    ASSUME NEW q, NEW r, NEW v, NEW S, ResolvedRequest(q, r, v, S), NEW x \in DOMAIN v, Settled(v[x]),
           ~IsInt(v[x]) \/ (~Occurs(S, "inc", x) /\ ~Occurs(S, "dec", x)),
           NEW s \in Places(q), Place(q, s) = Var(x)
    PROVE  Place(r.request, s) = v[x]
<1>1. Resolved(Place(q, s), Place(r.request, s), v, r.env.vars, S)
  BY DEF ResolvedRequest
<1> QED
  BY <1>1 DEF Resolved

LEMMA RunIDStep ==
    ASSUME Shape, [Next]_vars, RequestsCarryRunID
    PROVE  RequestsCarryRunID'
<1>1. CASE NoNewRequest
  BY <1>1 DEF NoNewRequest, SameRequest, RequestsCarryRunID
<1>2. CASE Execute
  <2>1. test' = test
    BY StepKinds
  <2>2. PICK r : Asked(r)
    BY <1>2, ExecuteShape
  <2>3. CASE sent' = sent
    BY <1>1, <2>1, <2>3, RequestsKept DEF NoNewRequest
  <2>4. CASE sent' = Append(sent, [step |-> step, attempt |-> attempt, request |-> r.request])
    <3>1. PICK n : n = Len(sent) + 1
      OBVIOUS
    <3>2. /\ Requests' = Requests \cup {n} /\ \A k \in Requests : SameRequest(k)
          /\ \A x, u : u \in Values(n, x)' <=>
                 \E s \in Places(Trigger.request) : Place(Trigger.request, s) = Var(x) /\ u = Place(r.request, s)
      BY <2>1, <2>4, <3>1, RequestMade DEF Shape
    <3> DEFINE v == WithRunID(env).vars
    <3>3. "run_id" \in DOMAIN v /\ v["run_id"] = RunID
      BY RunIDSet DEF Shape, Typed
    <3>4. ResolvedRequest(Trigger.request, r, v, RunTexts)
      BY <2>2 DEF Asked
    <3> HIDE DEF v
    <3>5. \A s \in Places(Trigger.request) : Place(Trigger.request, s) = Var("run_id") => Place(r.request, s) = RunID
      BY <3>3, <3>4, RunIDText, ValueSent
    <3>6. Values(n, "run_id")' \subseteq {RunID}
      BY <3>2, <3>5
    <3>7. \A k \in Requests : Values(k, "run_id")' \subseteq {RunID}
      BY <3>2 DEF SameRequest, RequestsCarryRunID
    <3> QED
      BY <3>2, <3>6, <3>7 DEF RequestsCarryRunID, RunID, Lit
  <2> QED
    BY <2>2, <2>3, <2>4 DEF Asked
<1> QED
  BY <1>1, <1>2, NewRequests

(* A request of a trigger never carries another value than the run's own   *)
(* identifier in place of {{run_id}}: Execute sets the variable each time, *)
(* whatever an extract or a receiver has left under that name.             *)
THEOREM RunIDCorrect == Spec => []RequestsCarryRunID
<1>1. Init => RequestsCarryRunID
  BY DEF Init, RequestsCarryRunID, Requests
<1>2. Shape /\ RequestsCarryRunID /\ [Next]_vars => RequestsCarryRunID'
  BY RunIDStep
<1> QED
  BY <1>1, <1>2, ShapeKept, PTL DEF Spec


----------------------------------------------------------------------------
(* Counters. *)
LEMMA BelowLater ==
    ASSUME NEW v, NEW w, IsTexts(v), IsTexts(w), NEW x, NEW u \in Texts, IsInt(u), Below(v, x, u),
           x \in DOMAIN w, IsInt(w[x]), Current(w, x) >= Current(v, x)
    PROVE  Below(w, x, u)
<1>1. x \in DOMAIN v /\ IsInt(v[x]) /\ u[1][2] <= Current(v, x) /\ Counts(v, x) /\ Counts(w, x)
  BY DEF Below, Current, Counts
<1>2. u[1][2] \in Int /\ Current(v, x) \in Int /\ Current(w, x) \in Int
  BY <1>1, NumberTyped, CurrentTyped
<1>3. \A i, j, k \in Int : i <= j /\ k >= j => i <= k
  OBVIOUS
<1>4. u[1][2] <= Current(w, x)
  BY <1>1, <1>2, <1>3
<1> QED
  BY <1>4 DEF Below, Current

LEMMA TestKept ==
    ASSUME test' = test
    PROVE  /\ \A op, x : Uses(op, x)' <=> Uses(op, x)
           /\ \A x : Extracts(x)' <=> Extracts(x)
           /\ \A x : OnlyUp(x)' <=> OnlyUp(x)
<1>1. RunTexts' = RunTexts
  BY DEF RunTexts
<1>2. \A op, x : Uses(op, x)' <=> Uses(op, x)
  BY <1>1 DEF Uses
<1>3. \A x : Extracts(x)' <=> Extracts(x)
  BY DEF Extracts
<1> QED
  BY <1>2, <1>3 DEF OnlyUp

(* A number that was sent stays below its counter, and the variables of    *)
(* Execute, which have run_id set, are no exception.                       *)
LEMMA FollowsReached ==
    ASSUME NEW v, NEW w, IsTexts(v), IsTexts(w), Follows(v, w, RunTexts), NEW x, NEW u \in Texts, IsInt(u),
           ~Uses("dec", x), Below(v, x, u)
    PROVE  Below(w, x, u)
<1>1. x \in DOMAIN v /\ IsInt(v[x]) /\ Counts(v, x)
  BY DEF Below, Counts
<1>2. x \in DOMAIN w /\ Counts(w, x) /\ Current(w, x) >= Current(v, x)
  BY <1>1, UsesOccur DEF Follows
<1> QED
  BY <1>2, BelowLater DEF Counts

LEMMA ReachedStep ==
    ASSUME Shape, [Next]_vars, Running, Running', NEW x, NEW u, IsInt(u), OnlyUp(x), Reached(x, u)
    PROVE  Reached(x, u)'
<1>1. x # "run_id" /\ u \in Texts /\ Below(env.vars, x, u) /\ env \in Envs /\ IsTexts(env.vars)
  BY EnvFacts DEF Reached, Shape, Typed
<1>2. ~Uses("dec", x) /\ ~Extracts(x)
  BY DEF OnlyUp
<1>3. Shape' /\ env' \in Envs /\ IsTexts(env'.vars)
  BY StepKinds, EnvFacts DEF Shape, Typed
<1>4. ASSUME NEW y \in todo, DefineVariable(y) PROVE FALSE
  BY <1>4, DefineShape DEF Running
<1>5. CASE Silent
  <2>1. env' = env /\ \A i \in DOMAIN cols' : cols'[i].use.writes = {} \/ (i \in DOMAIN cols /\ cols'[i].use = cols[i].use)
    BY <1>5 DEF Silent, Quiet
  <2> QED
    BY <1>1, <2>1 DEF Reached, Below
<1>6. CASE Execute
  <2>1. cols' = << >>
    BY <1>6, ExecuteShape
  <2>2. PICK r : Asked(r)
    BY <1>6, ExecuteShape
  <2> DEFINE v == WithRunID(env).vars
  <2>3. v[x] = env.vars[x] /\ x \in DOMAIN v /\ IsTexts(v)
    BY <1>1, RunIDSet, EnvFacts DEF Below
  <2>4. Follows(v, env'.vars, RunTexts)
    BY <2>2 DEF Asked, ResolvedRequest
  <2> HIDE DEF v
  <2>5. Below(v, x, u)
    BY <1>1, <2>3 DEF Below
  <2>6. Below(env'.vars, x, u)
    BY <1>1, <1>2, <1>3, <2>3, <2>4, <2>5, FollowsReached
  <2> QED
    BY <1>1, <2>1, <2>6 DEF Reached, Below
<1>7. ASSUME NEW a \in Answers, AnswerRead(a) PROVE Reached(x, u)'
  <2>1. Answered /\ \A i \in DOMAIN cols' : cols'[i].use.writes = {}
    BY <1>7, AnswerReadShape
  <2>2. PICK w \in Maps :
          /\ Follows(env.vars, w, RunTexts) /\ DOMAIN w \subseteq DOMAIN env'.vars
          /\ \A y \in DOMAIN env'.vars : (y \in DOMAIN w /\ env'.vars[y] = w[y]) \/ y \in DOMAIN Trigger.extract
    BY <2>1 DEF Answered
  <2>3. x \notin DOMAIN Trigger.extract
    <3>1. step \in DOMAIN test.triggers
      BY StepNow
    <3> QED
      BY <1>2, <3>1 DEF Extracts, Trigger, Range
  <2>4. Below(w, x, u)
    BY <1>1, <1>2, <2>2, MapFacts, FollowsReached
  <2>5. Below(env'.vars, x, u)
    BY <2>2, <2>3, <2>4 DEF Below
  <2> QED
    BY <1>1, <2>1, <2>5 DEF Reached, Below
<1>8. ASSUME NEW i \in DOMAIN cols, BeginPoll(i) \/ BeginCheck(i) \/ BeginAssertions(i) PROVE Reached(x, u)'
  <2>1. Begun(i)
    BY <1>8, UseBegins
  <2>2. PICK c \in Collectors :
          /\ cols' = [cols EXCEPT ![i] = c] /\ c.at = "using"
          /\ CollectorOK(c, Rcv(i)) /\ Writes(c.use, env.vars)
          /\ env' \in Envs /\ env'.vars = env.vars
    BY <2>1 DEF Begun
  <2>3. DOMAIN cols' = DOMAIN cols /\ cols'[i] = c /\ \A j \in DOMAIN cols : j # i => cols'[j] = cols[j]
    BY <2>2 DEF Shape, Typed
  <2>4. IsTexts(c.use.vars)
    BY MapFacts DEF Collectors
  <2>5. x \in c.use.writes => Below(c.use.vars, x, u)
    BY <1>1, <1>2, <2>2, <2>4, BelowLater DEF Writes
  <2>6. \A j \in DOMAIN cols' : x \in cols'[j].use.writes => Below(cols'[j].use.vars, x, u)
    BY <2>3, <2>5 DEF Reached
  <2> QED
    BY <1>1, <2>2, <2>6 DEF Reached, Below
<1>9. ASSUME NEW i \in DOMAIN cols, EndUse(i) PROVE Reached(x, u)'
  <2>1. UseEnded(i)
    BY <1>9, UseEnds
  <2>2. \A j \in DOMAIN cols' : x \in cols'[j].use.writes => Below(cols'[j].use.vars, x, u)
    BY <2>1 DEF UseEnded, Reached
  <2>3. Below(env'.vars, x, u)
    BY <1>1, <2>1 DEF UseEnded, Reached, Below
  <2> QED
    BY <1>1, <2>2, <2>3 DEF Reached, Below
<1>10. CASE Call
  BY <1>10, CallShape DEF Running
<1> QED
  BY <1>4, <1>5, <1>6, <1>7, <1>8, <1>9, <1>10, StepKinds


LEMMA CounterFacts ==
    ASSUME NEW q, IsRequest(q), NEW s \in Places(q), Counter(Place(q, s))
    PROVE  Place(q, s)[1][2] \in STRING /\ Place(q, s) = Inc(Place(q, s)[1][2])
<1> DEFINE t == Place(q, s)
<1>1. t \in Texts
  BY PlaceFacts DEF IsRequest, IsTexts, IsTable, Place
<1> HIDE DEF t
<1>2. Len(t) = 1 /\ t[1][1] = "inc" /\ DOMAIN t = 1 .. 1 /\ t[1] \in Pieces
  BY <1>1, TextFacts DEF Counter, t
<1>3. t[1] = <<"inc", t[1][2]>> /\ t[1][2] \in STRING
  BY <1>2, PieceFacts
<1>4. t = Inc(t[1][2])
  <2> DEFINE u == Inc(t[1][2])
  <2>1. u \in Seq(Pieces) /\ Len(u) = 1 /\ u[1] = t[1]
    BY <1>2, <1>3 DEF Inc
  <2> HIDE DEF u
  <2>2. t \in Seq(Pieces) /\ \A i \in 1 .. Len(t) : t[i] = u[i]
    BY <1>1, <1>2, <2>1 DEF Texts
  <2>3. t = u
    BY <1>2, <2>1, <2>2, SeqEqual
  <2> QED
    BY <2>3 DEF u
<1> QED
  BY <1>3, <1>4 DEF t

(* The numbers of a new request: above the counter before, and not above   *)
(* the counter after it.                                                   *)
LEMMA NumbersMade ==
    ASSUME Shape, pc = "attempt", env' \in Envs, NEW r, Asked(r), NEW s \in Places(Trigger.request),
           Counter(Place(Trigger.request, s)), NEW x, x = Place(Trigger.request, s)[1][2], ~Uses("dec", x),
           NEW u, u = Place(r.request, s), IsInt(u)
    PROVE  /\ x \in STRING /\ Place(Trigger.request, s) = Inc(x) /\ x # "run_id" /\ u \in Texts
           /\ Below(env'.vars, x, u)
           /\ \A z : Below(env.vars, x, z) /\ z \in Texts /\ IsInt(z) => z # u
<1>1. IsRequest(Trigger.request) /\ env \in Envs
  BY StepNow, TriggerFacts DEF Running, Shape, Typed
<1>2. x \in STRING /\ Place(Trigger.request, s) = Inc(x)
  BY <1>1, CounterFacts
<1> DEFINE v == WithRunID(env).vars
<1>3. /\ v["run_id"] = RunID /\ IsTexts(v) /\ "run_id" \in DOMAIN v
      /\ \A y \in DOMAIN env.vars : y # "run_id" => v[y] = env.vars[y] /\ y \in DOMAIN v
  BY <1>1, RunIDSet, EnvFacts
<1>4. ResolvedRequest(Trigger.request, r, v, RunTexts) /\ env' = r.env
  BY DEF Asked
<1> HIDE DEF v
<1>5. u \in Texts /\ Resolved(Inc(x), u, v, env'.vars, RunTexts)
  BY <1>2, <1>4 DEF ResolvedRequest
<1>6. /\ Counts(v, x) /\ x \in DOMAIN env'.vars /\ IsInt(env'.vars[x])
      /\ Current(v, x) < u[1][2] /\ u[1][2] <= Current(env'.vars, x)
  BY <1>2, <1>5, UsesOccur DEF Resolved
<1>7. x # "run_id"
  BY <1>3, <1>6, RunIDText DEF Counts
<1>8. Below(env'.vars, x, u)
  BY <1>6 DEF Below, Current
<1>9. ASSUME NEW z \in Texts, Below(env.vars, x, z), IsInt(z) PROVE z # u
  <2>1. z[1][2] <= Current(v, x)
    BY <1>3, <1>7, <1>9 DEF Below, Current
  <2>2. z[1][2] \in Int /\ u[1][2] \in Int /\ Current(v, x) \in Int
    BY <1>3, <1>5, <1>6, <1>9, NumberTyped, CurrentTyped
  <2>3. \A i, j, k \in Int : i <= j /\ j < k => i # k
    OBVIOUS
  <2>4. z[1][2] # u[1][2]
    BY <1>6, <2>1, <2>2, <2>3
  <2> QED
    BY <2>4
<1> QED
  BY <1>2, <1>5, <1>7, <1>8, <1>9

LEMMA NumbersKept ==
    ASSUME Shape, [Next]_vars, NumbersBelow, Running', NEW n \in Requests, SameRequest(n), NEW s \in Numbers(n)',
           IsInt(NumberSent(n, s)'), OnlyUp(CounterOf(n, s))'
    PROVE  Reached(CounterOf(n, s), NumberSent(n, s))'
<1>1. PICK x : x = CounterOf(n, s)
  OBVIOUS
<1>2. PICK u : u = NumberSent(n, s)
  OBVIOUS
<1>3. CounterOf(n, s)' = x /\ NumberSent(n, s)' = u /\ s \in Numbers(n) /\ IsInt(u)
  BY <1>1, <1>2 DEF SameRequest
<1>4. OnlyUp(x)'
  BY <1>3 DEF OnlyUp, Uses, Extracts
<1>5. OnlyUp(x)
  BY <1>4, StepKinds, TestKept
<1>6. Running
  <2>1. pc # "define"
    BY DEF Shape, PlacesOK, Requests
  <2> QED
    BY <2>1, StepKinds, DefineShape, ExecuteShape, AnswerReadShape, UseBegins, UseEnds, CallShape
    DEF Silent, Running
<1>7. Reached(x, u)
  BY <1>1, <1>2, <1>3, <1>5, <1>6 DEF NumbersBelow
<1>8. Reached(x, u)'
  BY <1>3, <1>5, <1>6, <1>7, ReachedStep
<1> QED
  BY <1>3, <1>8 DEF Reached


LEMMA NumbersStep ==
    ASSUME Shape, [Next]_vars, NumbersBelow
    PROVE  NumbersBelow'
<1> SUFFICES ASSUME Running', NEW n \in Requests', NEW s \in Numbers(n)',
                    IsInt(NumberSent(n, s)'), OnlyUp(CounterOf(n, s))'
             PROVE  Reached(CounterOf(n, s), NumberSent(n, s))'
  BY DEF NumbersBelow
<1>1. CASE NoNewRequest
  BY <1>1, NumbersKept DEF NoNewRequest
<1>2. CASE Execute
  <2>1. test' = test /\ env' \in Envs
    BY StepKinds DEF Shape, Typed
  <2>2. PICK r : Asked(r)
    BY <1>2, ExecuteShape
  <2>3. pc = "attempt" /\ cols' = << >>
    BY <1>2, ExecuteShape
  <2>4. CASE sent' = sent
    BY <1>1, <2>1, <2>4, RequestsKept DEF NoNewRequest
  <2>5. CASE sent' = Append(sent, [step |-> step, attempt |-> attempt, request |-> r.request])
    <3>1. PICK k : k = Len(sent) + 1
      OBVIOUS
    <3>2. /\ Requests' = Requests \cup {k} /\ \A j \in Requests : SameRequest(j)
          /\ Numbers(k)' = {p \in Places(Trigger.request) : Counter(Place(Trigger.request, p))}
          /\ \A p : /\ NumberSent(k, p)' = Place(r.request, p)
                    /\ CounterOf(k, p)' = Place(Trigger.request, p)[1][2]
      BY <2>1, <2>5, <3>1, RequestMade DEF Shape
    <3>3. CASE n \in Requests
      BY <3>2, <3>3, NumbersKept
    <3>4. CASE n = k
      <4>1. s \in Places(Trigger.request) /\ Counter(Place(Trigger.request, s))
        BY <3>2, <3>4
      <4>2. PICK x : x = Place(Trigger.request, s)[1][2]
        OBVIOUS
      <4>3. PICK u : u = Place(r.request, s)
        OBVIOUS
      <4>4. CounterOf(n, s)' = x /\ NumberSent(n, s)' = u
        BY <3>2, <3>4, <4>2, <4>3
      <4>5. ~Uses("dec", x)
        <5>1. OnlyUp(x)'
          BY <4>4 DEF OnlyUp, Uses, Extracts
        <5> QED
          BY <2>1, <5>1, TestKept DEF OnlyUp
      <4>6. x # "run_id" /\ u \in Texts /\ Below(env'.vars, x, u)
        BY <2>1, <2>2, <2>3, <4>1, <4>2, <4>3, <4>4, <4>5, NumbersMade
      <4>7. DOMAIN cols' = {}
        BY <2>3
      <4> QED
        BY <4>4, <4>6, <4>7 DEF Reached, Below
    <3> QED
      BY <3>2, <3>3, <3>4
  <2> QED
    BY <2>2, <2>4, <2>5 DEF Asked
<1> QED
  BY <1>1, <1>2, NewRequests


(* A number of an earlier request is not one of the new request's. *)
LEMMA NewNumberAbove ==
    ASSUME Shape, NumbersBelow, pc = "attempt", env' \in Envs, NEW r, Asked(r),
           NEW n \in Requests, NEW p \in Numbers(n), IsInt(NumberSent(n, p)), OnlyUp(CounterOf(n, p)),
           NEW s \in Places(Trigger.request), Counter(Place(Trigger.request, s)),
           Place(Trigger.request, s)[1][2] = CounterOf(n, p)
    PROVE  Place(r.request, s) # NumberSent(n, p)
<1> SUFFICES ASSUME Place(r.request, s) = NumberSent(n, p) PROVE FALSE
  OBVIOUS
<1>1. Reached(CounterOf(n, p), NumberSent(n, p))
  BY DEF NumbersBelow, Running
<1>2. PICK x : x = CounterOf(n, p)
  OBVIOUS
<1>3. PICK u : u = NumberSent(n, p)
  OBVIOUS
<1>4. u \in Texts /\ Below(env.vars, x, u) /\ IsInt(u) /\ ~Uses("dec", x)
  BY <1>1, <1>2, <1>3 DEF Reached, OnlyUp
<1>5. \A z : Below(env.vars, x, z) /\ z \in Texts /\ IsInt(z) => z # u
  BY <1>2, <1>3, <1>4, NumbersMade
<1> QED
  BY <1>4, <1>5

LEMMA SequenceStep ==
    ASSUME Shape, [Next]_vars, NumbersBelow, SequenceNumbersDistinct
    PROVE  SequenceNumbersDistinct'
<1> SUFFICES ASSUME NEW m \in Requests', NEW n \in Requests', NEW s \in Numbers(m)', NEW t \in Numbers(n)',
                    NumberSent(m, s)' = NumberSent(n, t)', IsInt(NumberSent(m, s)'),
                    CounterOf(m, s)' = CounterOf(n, t)',
                    ~(<<m, s>> = <<n, t>>), ~(Uses("dec", CounterOf(m, s))'), ~(Extracts(CounterOf(m, s))')
             PROVE  FALSE
  BY DEF SequenceNumbersDistinct
<1>1. PICK x : x = CounterOf(m, s)'
  OBVIOUS
<1>2. PICK u : u = NumberSent(m, s)'
  OBVIOUS
<1>3. test' = test
  BY StepKinds
<1>4. ~Uses("dec", x) /\ ~Extracts(x) /\ OnlyUp(x)
  <2>1. ~(Uses("dec", x)') /\ ~(Extracts(x)')
    BY <1>1 DEF Uses, Extracts
  <2> QED
    BY <1>3, <2>1, TestKept DEF OnlyUp
<1>5. ASSUME m \in Requests, n \in Requests, SameRequest(m), SameRequest(n) PROVE FALSE
  <2>1. /\ s \in Numbers(m) /\ t \in Numbers(n) /\ NumberSent(m, s) = u /\ NumberSent(n, t) = u /\ IsInt(u)
        /\ CounterOf(m, s) = x /\ CounterOf(n, t) = x
    BY <1>1, <1>2, <1>5 DEF SameRequest
  <2> QED
    BY <1>4, <1>5, <2>1 DEF SequenceNumbersDistinct
<1>6. CASE NoNewRequest
  BY <1>5, <1>6 DEF NoNewRequest
<1>7. CASE Execute
  <2>1. env' \in Envs
    BY StepKinds DEF Shape, Typed
  <2>2. PICK r : Asked(r)
    BY <1>7, ExecuteShape
  <2>3. pc = "attempt"
    BY <1>7, ExecuteShape
  <2>4. CASE sent' = sent
    BY <1>3, <1>6, <2>4, RequestsKept DEF NoNewRequest
  <2>5. CASE sent' = Append(sent, [step |-> step, attempt |-> attempt, request |-> r.request])
    <3>1. PICK k : k = Len(sent) + 1
      OBVIOUS
    <3>2. /\ Requests' = Requests \cup {k} /\ \A j \in Requests : SameRequest(j)
          /\ Numbers(k)' = {p \in Places(Trigger.request) : Counter(Place(Trigger.request, p))}
          /\ \A p : /\ NumberSent(k, p)' = Place(r.request, p)
                    /\ CounterOf(k, p)' = Place(Trigger.request, p)[1][2]
      BY <1>3, <2>5, <3>1, RequestMade DEF Shape
    <3>3. ASSUME NEW j \in Requests, NEW p \in Numbers(j)', NEW q \in Numbers(k)',
                 NumberSent(j, p)' = u, CounterOf(j, p)' = x, NumberSent(k, q)' = u, CounterOf(k, q)' = x
          PROVE  FALSE
      <4>1. p \in Numbers(j) /\ NumberSent(j, p) = u /\ CounterOf(j, p) = x /\ IsInt(u)
        BY <1>2, <3>2, <3>3 DEF SameRequest
      <4>2. /\ q \in Places(Trigger.request) /\ Counter(Place(Trigger.request, q))
            /\ Place(r.request, q) = u /\ Place(Trigger.request, q)[1][2] = x
        BY <3>2, <3>3
      <4> QED
        BY <1>4, <2>1, <2>2, <2>3, <4>1, <4>2, NewNumberAbove
    <3>4. CASE m = k /\ n = k
      <4>1. /\ s \in Places(Trigger.request) /\ Counter(Place(Trigger.request, s))
            /\ t \in Places(Trigger.request) /\ Counter(Place(Trigger.request, t))
            /\ Place(r.request, s) = u /\ Place(r.request, t) = u /\ s # t /\ IsInt(u)
            /\ Place(Trigger.request, s)[1][2] = x /\ Place(Trigger.request, t)[1][2] = x
        BY <1>1, <1>2, <3>2, <3>4
      <4>2. IsRequest(Trigger.request)
        BY <2>3, StepNow, TriggerFacts DEF Running
      <4>3. x \in STRING /\ Place(Trigger.request, s) = Inc(x) /\ Place(Trigger.request, t) = Inc(x)
        BY <4>1, <4>2, CounterFacts
      <4>4. ResolvedRequest(Trigger.request, r, WithRunID(env).vars, RunTexts)
        BY <2>2 DEF Asked
      <4>5. ~Occurs(RunTexts, "dec", x)
        BY <1>4, UsesOccur
      <4> QED
        BY <4>1, <4>3, <4>4, <4>5 DEF ResolvedRequest
    <3> QED
      BY <1>1, <1>2, <1>5, <3>2, <3>3, <3>4
  <2> QED
    BY <2>2, <2>4, <2>5 DEF Asked
<1> QED
  BY <1>6, <1>7, NewRequests

(* No two numbers of a counter that the requests of a run carry are the    *)
(* same, whatever the receivers of a step overwrite, unless the counter is *)
(* also counted down or extracted.                                         *)
THEOREM SequenceCorrect == Spec => []SequenceNumbersDistinct
<1>1. Init => NumbersBelow /\ SequenceNumbersDistinct
  BY DEF Init, NumbersBelow, Running, SequenceNumbersDistinct, Requests
<1>2. Shape /\ NumbersBelow /\ SequenceNumbersDistinct /\ [Next]_vars => NumbersBelow' /\ SequenceNumbersDistinct'
  BY NumbersStep, SequenceStep
<1> QED
  BY <1>1, <1>2, ShapeKept, PTL DEF Spec


----------------------------------------------------------------------------
(* Variables with a generator. *)
LEMMA FollowsSame ==
    ASSUME NEW v, NEW w, Follows(v, w, RunTexts), NEW x \in DOMAIN v, ~Uses("inc", x), ~Uses("dec", x)
    PROVE  x \in DOMAIN w /\ w[x] = v[x]
  BY UsesOccur DEF Follows

(* DefinedOnce from what it is about. *)
LEMMA StillOnce ==
    ASSUME NEW x, DefinedOnce(x), x \in DOMAIN env'.vars, env'.vars[x] = env.vars[x],
           \A i \in DOMAIN cols' : x \notin cols'[i].use.writes,
           \A n \in Requests' : Values(n, x)' \subseteq {env.vars[x]}
    PROVE  DefinedOnce(x)'
  BY DEF DefinedOnce, Settled

LEMMA Defines ==
    ASSUME Shape, NEW y \in todo, DefineVariable(y), NEW x \in DOMAIN test.variables, Generated(x),
           y = x \/ DefinedOnce(x)
    PROVE  DefinedOnce(x)'
<1>1. /\ test' = test /\ sent' = << >> /\ cols' = << >> /\ y \in DOMAIN test.variables /\ sent = << >>
      /\ test \in Tests /\ env \in Envs
  BY DefineShape DEF Loops, Shape, Typed
<1>2. Requests' = {} /\ DOMAIN cols' = {}
  BY <1>1 DEF Requests
<1>3. y \in STRING /\ test.variables[y] \in Texts /\ test.variables[y] \in RunTexts
  BY <1>1, TestFacts DEF IsTexts, IsTable, RunTexts, Range
<1>4. x \notin ReservedVarNames /\ ~Uses("inc", x) /\ ~Uses("dec", x)
  BY DEF Generated
<1>5. CASE y \in ReservedVarNames
  <2>1. env' = env /\ DefinedOnce(x)
    BY <1>4, <1>5 DEF DefineVariable
  <2> QED
    BY <1>2, <2>1, StillOnce DEF DefinedOnce
<1>6. CASE y \notin ReservedVarNames
  <2>1. PICK o \in ReplaceString(test.variables[y], env) : env' = [o.env EXCEPT !.vars = Put(@, y, o.text)]
    BY <1>6 DEF DefineVariable
  <2>2. o.env \in Envs /\ Follows(env.vars, o.env.vars, {test.variables[y]})
    BY <1>1, <1>3, ReplacedEnv
  <2>3. Follows(env.vars, o.env.vars, RunTexts)
    <3>1. {test.variables[y]} \subseteq RunTexts
      BY <1>3
    <3> QED
      BY <2>2, <3>1, FollowsMore
  <2>4. env'.vars = Put(o.env.vars, y, o.text)
    BY <2>1, <2>2 DEF Envs
  <2>5. CASE y = x
    <3>1. \A n \in 1 .. Len(test.variables[x]) : test.variables[x][n][1] # "var"
      BY <1>3, <2>5, TextFacts DEF Generated, Range
    <3>2. Settled(o.text)
      BY <1>1, <1>3, <2>5, <3>1, ReplacedSettled
    <3>3. x \in DOMAIN env'.vars /\ env'.vars[x] = o.text
      BY <2>4, <2>5 DEF Put
    <3> QED
      BY <1>2, <3>2, <3>3 DEF DefinedOnce, Settled
  <2>6. CASE y # x
    <3>1. DefinedOnce(x) /\ x \in DOMAIN env.vars
      BY <2>6 DEF DefinedOnce
    <3>2. x \in DOMAIN o.env.vars /\ o.env.vars[x] = env.vars[x]
      BY <1>4, <2>3, <3>1, FollowsSame
    <3>3. x \in DOMAIN env'.vars /\ env'.vars[x] = env.vars[x]
      BY <2>4, <2>6, <3>2 DEF Put
    <3> QED
      BY <1>2, <3>1, <3>3, StillOnce
  <2> QED
    BY <2>5, <2>6
<1> QED
  BY <1>5, <1>6

LEMMA OnceStep ==
    ASSUME Shape, [Next]_vars, NEW x \in DOMAIN test.variables, Generated(x), DefinedOnce(x), ~Call
    PROVE  DefinedOnce(x)'
<1>1. /\ x # "run_id" /\ ~Uses("inc", x) /\ ~Uses("dec", x) /\ ~Extracts(x)
      /\ x \in DOMAIN env.vars /\ Settled(env.vars[x]) /\ \A i \in DOMAIN cols : x \notin cols[i].use.writes
      /\ \A n \in Requests : Values(n, x) \subseteq {env.vars[x]}
  BY DEF Generated, ReservedVarNames, DefinedOnce
<1>2. NoNewRequest => \A n \in Requests' : Values(n, x)' \subseteq {env.vars[x]}
  BY <1>1 DEF NoNewRequest, SameRequest
<1>3. test' = test /\ (sent' = sent => NoNewRequest)
  BY StepKinds, RequestsKept DEF NoNewRequest
<1>4. ASSUME NEW y \in todo, DefineVariable(y) PROVE DefinedOnce(x)'
  BY <1>4, Defines
<1>5. CASE Silent
  BY <1>1, <1>2, <1>3, <1>5, StillOnce DEF Silent, Quiet
<1>6. CASE Execute
  <2>1. DOMAIN cols' = {}
    BY <1>6, ExecuteShape
  <2>2. PICK r : Asked(r)
    BY <1>6, ExecuteShape
  <2> DEFINE v == WithRunID(env).vars
  <2>3. x \in DOMAIN v /\ v[x] = env.vars[x]
    BY <1>1, RunIDSet DEF Shape, Typed
  <2>4. ResolvedRequest(Trigger.request, r, v, RunTexts) /\ Follows(v, env'.vars, RunTexts)
    BY <2>2 DEF Asked, ResolvedRequest
  <2> HIDE DEF v
  <2>5. x \in DOMAIN env'.vars /\ env'.vars[x] = env.vars[x]
    BY <1>1, <2>3, <2>4, FollowsSame
  <2>6. CASE sent' = sent
    BY <1>2, <1>3, <2>1, <2>5, <2>6, StillOnce
  <2>7. CASE sent' = Append(sent, [step |-> step, attempt |-> attempt, request |-> r.request])
    <3>1. PICK n : n = Len(sent) + 1
      OBVIOUS
    <3>2. /\ Requests' = Requests \cup {n} /\ \A k \in Requests : SameRequest(k)
          /\ \A u : u \in Values(n, x)' <=>
                 \E s \in Places(Trigger.request) : Place(Trigger.request, s) = Var(x) /\ u = Place(r.request, s)
      BY <1>3, <2>7, <3>1, RequestMade DEF Shape
    <3>3. \A s \in Places(Trigger.request) : Place(Trigger.request, s) = Var(x) => Place(r.request, s) = env.vars[x]
      BY <1>1, <2>3, <2>4, UsesOccur, ValueSent
    <3>4. Values(n, x)' \subseteq {env.vars[x]}
      BY <3>2, <3>3
    <3>5. \A k \in Requests' : Values(k, x)' \subseteq {env.vars[x]}
      BY <1>1, <3>2, <3>4 DEF SameRequest
    <3> QED
      BY <2>1, <2>5, <3>5, StillOnce
  <2> QED
    BY <2>2, <2>6, <2>7 DEF Asked
<1>7. ASSUME NEW a \in Answers, AnswerRead(a) PROVE DefinedOnce(x)'
  <2>1. Answered /\ sent' = sent /\ Running /\ \A i \in DOMAIN cols' : cols'[i].use.writes = {}
    BY <1>7, AnswerReadShape
  <2>2. PICK w \in Maps :
          /\ Follows(env.vars, w, RunTexts) /\ DOMAIN w \subseteq DOMAIN env'.vars
          /\ \A y \in DOMAIN env'.vars : (y \in DOMAIN w /\ env'.vars[y] = w[y]) \/ y \in DOMAIN Trigger.extract
    BY <2>1 DEF Answered
  <2>3. x \notin DOMAIN Trigger.extract
    <3>1. step \in DOMAIN test.triggers
      BY <2>1, StepNow
    <3> QED
      BY <1>1, <3>1 DEF Extracts, Trigger, Range
  <2>4. x \in DOMAIN w /\ w[x] = env.vars[x]
    BY <1>1, <2>2, FollowsSame
  <2> QED
    BY <1>2, <1>3, <2>1, <2>2, <2>3, <2>4, StillOnce
<1>8. ASSUME NEW i \in DOMAIN cols, BeginPoll(i) \/ BeginCheck(i) \/ BeginAssertions(i) PROVE DefinedOnce(x)'
  <2>1. Begun(i) /\ sent' = sent
    BY <1>8, UseBegins
  <2>2. PICK c \in Collectors :
          /\ cols' = [cols EXCEPT ![i] = c] /\ c.at = "using"
          /\ CollectorOK(c, Rcv(i)) /\ Writes(c.use, env.vars)
          /\ env' \in Envs /\ env'.vars = env.vars
    BY <2>1 DEF Begun
  <2>3. DOMAIN cols' = DOMAIN cols /\ cols'[i] = c /\ \A j \in DOMAIN cols : j # i => cols'[j] = cols[j]
    BY <2>2 DEF Shape, Typed
  <2>4. x \notin c.use.writes
    BY <1>1, <2>2 DEF Writes
  <2>5. \A j \in DOMAIN cols' : x \notin cols'[j].use.writes
    BY <1>1, <2>3, <2>4
  <2> QED
    BY <1>1, <1>2, <1>3, <2>1, <2>2, <2>5, StillOnce
<1>9. ASSUME NEW i \in DOMAIN cols, EndUse(i) PROVE DefinedOnce(x)'
  <2>1. UseEnded(i) /\ sent' = sent
    BY <1>9, UseEnds
  <2>2. /\ x \in DOMAIN env'.vars /\ env'.vars[x] = env.vars[x]
        /\ \A j \in DOMAIN cols' : x \notin cols'[j].use.writes
    BY <1>1, <2>1 DEF UseEnded
  <2> QED
    BY <1>2, <1>3, <2>1, <2>2, StillOnce
<1> QED
  BY <1>4, <1>5, <1>6, <1>7, <1>8, <1>9, StepKinds


LEMMA GeneratedKept ==
    ASSUME test' = test
    PROVE  \A x : Generated(x)' <=> Generated(x)
  BY TestKept DEF Generated

LEMMA OneValueStep ==
    ASSUME Shape, [Next]_vars, OneValue
    PROVE  OneValue'
<1>1. test' = test
  BY StepKinds
<1> SUFFICES ASSUME NEW x \in DOMAIN test.variables, Generated(x)
             PROVE  (pc' = "define" => x \in todo' \/ DefinedOnce(x)') /\ (Running' => DefinedOnce(x)')
  BY <1>1, GeneratedKept DEF OneValue
<1>2. (pc = "define" => x \in todo \/ DefinedOnce(x)) /\ (Running => DefinedOnce(x))
  BY DEF OneValue
<1>3. Call => pc' = "notify"
  BY CallShape
<1>4. DefinedOnce(x) /\ ~Call => DefinedOnce(x)'
  BY OnceStep
<1>5. ASSUME NEW y \in todo, DefineVariable(y)
      PROVE  (pc' = "define" => x \in todo' \/ DefinedOnce(x)') /\ (Running' => DefinedOnce(x)')
  <2>1. pc = "define" /\ pc' = pc /\ todo' = todo \ {y}
    BY <1>5, DefineShape
  <2>2. y = x \/ DefinedOnce(x) => DefinedOnce(x)'
    BY <1>5, Defines
  <2> QED
    BY <1>2, <2>1, <2>2 DEF Running
<1>6. CASE Silent
  BY <1>2, <1>3, <1>4, <1>6 DEF Silent, Running
<1>7. ASSUME Running, Goes \/ pc' = pc
      PROVE  (pc' = "define" => x \in todo' \/ DefinedOnce(x)') /\ (Running' => DefinedOnce(x)')
  BY <1>2, <1>3, <1>4, <1>7 DEF Goes, Running
<1>8. CASE Execute
  BY <1>7, <1>8, ExecuteShape DEF Running
<1>9. ASSUME NEW a \in Answers, AnswerRead(a) PROVE Running /\ Goes
  BY <1>9, AnswerReadShape
<1>10. ASSUME NEW i \in DOMAIN cols, BeginPoll(i) \/ BeginCheck(i) \/ BeginAssertions(i) \/ EndUse(i)
       PROVE  Running /\ pc' = pc
  BY <1>10, UseBegins, UseEnds DEF Running
<1> QED
  BY <1>3, <1>5, <1>6, <1>7, <1>8, <1>9, <1>10, StepKinds DEF Running

LEMMA OneShotStep ==
    ASSUME Shape, [Next]_vars, OneValue, OneShotGenerators
    PROVE  OneShotGenerators'
<1>1. test' = test
  BY StepKinds
<1> SUFFICES ASSUME NEW x \in DOMAIN test.variables, Generated(x), NEW m \in Requests', NEW n \in Requests',
                    NEW v \in Values(m, x)', NEW w \in Values(n, x)'
             PROVE  v = w
  BY <1>1, GeneratedKept DEF OneShotGenerators
<1>2. CASE NoNewRequest
  <2>1. m \in Requests /\ n \in Requests /\ v \in Values(m, x) /\ w \in Values(n, x)
    BY <1>2 DEF NoNewRequest, SameRequest
  <2> QED
    BY <2>1 DEF OneShotGenerators
<1>3. CASE Execute
  <2>1. DefinedOnce(x) /\ ~Call
    BY <1>3, ExecuteShape, CallShape DEF OneValue, Running
  <2>2. DefinedOnce(x)'
    BY <2>1, OnceStep
  <2>3. Values(m, x)' \subseteq {env'.vars[x]} /\ Values(n, x)' \subseteq {env'.vars[x]}
    BY <2>2 DEF DefinedOnce
  <2> QED
    BY <2>3
<1> QED
  BY <1>2, <1>3, NewRequests

(* "Each variable is resolved once at start-up of the run": all requests   *)
(* of a run, those of later steps and of retries, carry one value for a    *)
(* variable with a generator in it.                                        *)
THEOREM OneShotCorrect == Spec => []OneShotGenerators
<1>1. Init => OneValue /\ OneShotGenerators
  BY DEF Init, OneValue, Running, OneShotGenerators, Requests
<1>2. Shape /\ OneValue /\ OneShotGenerators /\ [Next]_vars => OneValue' /\ OneShotGenerators'
  BY OneValueStep, OneShotStep
<1> QED
  BY <1>1, <1>2, ShapeKept, PTL DEF Spec


----------------------------------------------------------------------------
(* The calls of a run that failed. *)
LEMMA IntResolved ==
    ASSUME NEW t \in Texts, IsInt(t)
    PROVE  ~HasUnresolved(t)
<1>1. DOMAIN t = 1 .. 1 /\ t[1][1] = "int"
  BY TextFacts DEF IsInt
<1> QED
  BY <1>1 DEF HasUnresolved

(* What is clean after a call was clean before it. *)
LEMMA ReservedBefore ==
    ASSUME Shape, NEW n, NEW r, Called(n, r), errors' = errors
    PROVE  /\ CleanNames' \subseteq CleanNames
           /\ \A x \in CleanNames' : x \in DOMAIN NotifierVars.vars /\ ~HasUnresolved(NotifierVars.vars[x])
<1> DEFINE v == NotifierVars.vars
           w == env'.vars
<1>1. NotifierVars \in Envs /\ DOMAIN v = DOMAIN env.vars \cup ReservedVarNames
  BY NotifierFacts DEF Shape, Typed
<1>2. Follows(v, w, TextsIn(test.calls[n]))
  BY DEF Called, ResolvedRequest
<1>3. IsTexts(v)
  BY <1>1, EnvFacts
<1>4. ASSUME NEW x \in ReservedVarNames PROVE x \in DOMAIN w /\ NotifierVars'.vars[x] = w[x]
  BY <1>1, <1>2 DEF Follows, NotifierVars, PutOver
<1>5. ASSUME NEW x \in CleanNames' PROVE x \in ReservedVarNames /\ x \in DOMAIN v /\ ~HasUnresolved(v[x])
  <2>1. x \in ReservedVarNames /\ ~HasUnresolved(NotifierVars'.vars[x])
    BY DEF CleanNames, HasUnresolved, ReservedVarNames
  <2>2. x \in DOMAIN v /\ x \in DOMAIN w /\ v[x] \in Texts /\ ~HasUnresolved(w[x])
    BY <1>1, <1>3, <1>4, <2>1 DEF IsTexts, IsTable
  <2>3. w[x] = v[x] \/ IsInt(v[x])
    BY <1>2, <2>2 DEF Follows, Counts
  <2> QED
    BY <2>1, <2>2, <2>3, IntResolved
<1>6. CleanNames' \subseteq CleanNames
  BY <1>5 DEF CleanNames
<1> QED
  BY <1>5, <1>6

(* A call that needs only names whose values are clean is resolved. *)
LEMMA CallResolves ==
    ASSUME NEW q, IsRequest(q), NEW names, Needs(q, names), NEW r, NEW v, NEW S, ResolvedRequest(q, r, v, S),
           \A x \in names : x \in DOMAIN v /\ ~HasUnresolved(v[x])
    PROVE  ~HasPlaceholder(r.request)
<1>1. ASSUME NEW t \in TextsIn(q), t \in Texts PROVE CleanIn(t, v)
  <2>1. \A p \in Range(t) : p[1] = "lit" \/ (p[1] = "var" /\ p[2] \in names)
    BY DEF Needs
  <2>2. DOMAIN t = 1 .. Len(t)
    BY <1>1, TextFacts
  <2>3. \A i \in 1 .. Len(t) : t[i] \in Range(t)
    BY <2>2 DEF Range
  <2> QED
    BY <2>1, <2>3 DEF CleanIn
<1>2. ~HasUnresolved(r.request.url)
  <2>1. q.url \in TextsIn(q) /\ q.url \in Texts
    BY DEF TextsIn, IsRequest
  <2>2. CleanIn(q.url, v) /\ Resolved(q.url, r.request.url, v, r.env.vars, S)
    BY <1>1, <2>1 DEF ResolvedRequest
  <2> QED
    BY <2>2 DEF Resolved
<1>3. ASSUME NEW s \in Places(q) PROVE ~HasUnresolved(Place(r.request, s))
  <2>1. Place(q, s) \in TextsIn(q) /\ Place(q, s) \in Texts
    BY PlaceFacts DEF Place, TextsIn, IsRequest, IsTexts, IsTable, Range
  <2>2. CleanIn(Place(q, s), v) /\ Resolved(Place(q, s), Place(r.request, s), v, r.env.vars, S)
    BY <1>1, <2>1 DEF ResolvedRequest
  <2> QED
    BY <2>2 DEF Resolved
<1>4. DOMAIN r.request.headers = DOMAIN q.headers /\ DOMAIN r.request.body = DOMAIN q.body
  BY DEF ResolvedRequest
<1>5. ASSUME NEW k \in DOMAIN r.request.headers PROVE ~HasUnresolved(r.request.headers[k])
  <2> DEFINE s == [at |-> "headers", key |-> k]
  <2>1. s \in Places(q) /\ s.at = "headers" /\ s.key = k
    BY <1>4 DEF Places
  <2> QED
    BY <1>3, <2>1 DEF Place
<1>6. ASSUME NEW k \in DOMAIN r.request.body PROVE ~HasUnresolved(r.request.body[k])
  <2> DEFINE s == [at |-> "body", key |-> k]
  <2>1. s \in Places(q) /\ s.at = "body" /\ s.key = k
    BY <1>4 DEF Places
  <2> QED
    BY <1>3, <2>1 DEF Place
<1> QED
  BY <1>2, <1>5, <1>6 DEF HasPlaceholder

(* The calls after one more of them. *)
LEMMA CallCounted ==
    ASSUME Shape, test' = test, NEW n, NEW r, Called(n, r), CallsOf(n) = {}
    PROVE  /\ \A k : k # n => CallsOf(k)' = CallsOf(k)
           /\ CallsMade(n)' \in {0, 1} /\ (~HasPlaceholder(r.request) => CallsMade(n)' = 1)
<1>1. CASE HasPlaceholder(r.request)
  <2>1. \A k : CallsOf(k)' = CallsOf(k)
    BY <1>1 DEF Called, CallsOf
  <2> QED
    BY <1>1, <2>1, FS_EmptySet DEF CallsMade, CallsOf
<1>2. CASE ~HasPlaceholder(r.request)
  <2> DEFINE m == [step |-> 0, attempt |-> n, request |-> r.request]
  <2>1. sent' = Append(sent, m)
    BY <1>2 DEF Called
  <2>2. m.step = 0 /\ m.attempt = n
    OBVIOUS
  <2> HIDE DEF m
  <2>3. PICK l : l = Len(sent) + 1
    OBVIOUS
  <2>4. /\ DOMAIN sent' = DOMAIN sent \cup {l} /\ l \notin DOMAIN sent /\ sent'[l] = m
        /\ \A k \in DOMAIN sent : sent'[k] = sent[k]
    BY <2>1, <2>3, RequestAdded DEF Shape
  <2>5. \A k : k # n => CallsOf(k)' = CallsOf(k)
    BY <2>2, <2>4 DEF CallsOf
  <2>6. CallsOf(n)' = {l}
    BY <2>2, <2>4 DEF CallsOf
  <2> QED
    BY <1>2, <2>5, <2>6, FS_Singleton DEF CallsMade, CallsOf
<1> QED
  BY <1>1, <1>2

LEMMA CallsCountedByCall ==
    ASSUME Shape, [Next]_vars, CallsCounted, Call
    PROVE  CallsCounted'
<1>1. pc = "notify" /\ UNCHANGED <<test, pc, step, attempt, clean, response, cols, errors>>
  BY CallShape
<1>n. PICK n \in todo \cap DOMAIN test.calls : \E r : Called(n, r) /\ todo' = todo \ {n}
  BY CallShape
<1>r. PICK r : Called(n, r) /\ todo' = todo \ {n}
  BY <1>n
<1>2. n \in todo \cap DOMAIN test.calls /\ Called(n, r) /\ todo' = todo \ {n}
  BY <1>n, <1>r
<1>3. step <= Len(test.triggers) /\ CallsDone /\ \A k \in todo : CallsOf(k) = {}
  BY <1>1 DEF CallsCounted
<1>4. /\ \A k : k # n => CallsOf(k)' = CallsOf(k)
      /\ CallsMade(n)' \in {0, 1} /\ (~HasPlaceholder(r.request) => CallsMade(n)' = 1)
  BY <1>1, <1>2, <1>3, CallCounted
<1>5. \A k \in todo' : CallsOf(k)' = {}
  BY <1>2, <1>3, <1>4
<1>6. /\ CleanNames' \subseteq CleanNames
      /\ \A x \in CleanNames' : x \in DOMAIN NotifierVars.vars /\ ~HasUnresolved(NotifierVars.vars[x])
  BY <1>1, <1>2, ReservedBefore
<1>7. ASSUME NEW k \in DOMAIN test.calls \ todo'
      PROVE  CallsMade(k)' \in {0, 1} /\ (Needs(test.calls[k], CleanNames') => CallsMade(k)' = 1)
  <2>1. CASE k = n
    <3>1. IsRequest(test.calls[n])
      BY <1>2, TestFacts DEF Shape, Typed
    <3>2. ResolvedRequest(test.calls[n], r, NotifierVars.vars, TextsIn(test.calls[n]))
      BY <1>2 DEF Called
    <3>3. Needs(test.calls[n], CleanNames') => ~HasPlaceholder(r.request)
      BY <1>6, <3>1, <3>2, CallResolves
    <3> QED
      BY <1>4, <2>1, <3>3
  <2>2. CASE k # n
    <3>1. CallsMade(k)' = CallsMade(k)
      BY <1>4, <2>2 DEF CallsMade, CallsOf
    <3>2. Needs(test.calls[k], CleanNames') => Needs(test.calls[k], CleanNames)
      BY <1>6 DEF Needs
    <3>3. CallsMade(k) \in {0, 1} /\ (Needs(test.calls[k], CleanNames) => CallsMade(k) = 1)
      BY <1>2, <1>3, <2>2 DEF CallsDone
    <3> QED
      BY <3>1, <3>2, <3>3
  <2> QED
    BY <2>1, <2>2
<1>8. CallsDone'
  BY <1>1, <1>7 DEF CallsDone, Needs, TextsIn, Range
<1> QED
  BY <1>1, <1>3, <1>5, <1>8 DEF CallsCounted


(* The loops make no calls. *)
LEMMA LoopsMakeNone ==
    ASSUME Shape, Shape', test' = test, NoCalls, sent' = sent \/ \E r : Asked(r),
           (pc' = pc /\ pc \notin {"notify", "done"}) \/ Goes
    PROVE  CallsCounted'
<1>1. NoCalls'
  <2>1. CASE sent' = sent
    BY <2>1 DEF NoCalls
  <2>2. ASSUME NEW r, sent' = Append(sent, [step |-> step, attempt |-> attempt, request |-> r.request])
        PROVE  NoCalls'
    <3> DEFINE m == [step |-> step, attempt |-> attempt, request |-> r.request]
    <3>1. m.step # 0 /\ sent' = Append(sent, m)
      BY <2>2 DEF Shape, Typed
    <3> HIDE DEF m
    <3>2. PICK l : l = Len(sent) + 1
      OBVIOUS
    <3>3. /\ DOMAIN sent' = DOMAIN sent \cup {l} /\ sent'[l] = m
          /\ \A k \in DOMAIN sent : sent'[k] = sent[k]
      BY <3>1, <3>2, RequestAdded DEF Shape
    <3> QED
      BY <3>1, <3>3 DEF NoCalls
  <2> QED
    BY <2>1, <2>2 DEF Asked
<1>2. \A n : CallsOf(n)' = {}
  BY <1>1 DEF CallsOf, NoCalls
<1>3. \/ pc' \notin {"notify", "done"}
      \/ pc' = "done" /\ step' > Len(test.triggers)
      \/ pc' = "notify" /\ step' <= Len(test.triggers) /\ todo' = DOMAIN test.calls
  BY DEF Goes, Running
<1>4. step' \in Nat /\ Len(test.triggers) \in Nat
  BY TestFacts DEF Shape, Typed
<1>5. CASE pc' \notin {"notify", "done"}
  BY <1>1, <1>5 DEF CallsCounted
<1>6. CASE pc' = "notify" /\ step' <= Len(test.triggers) /\ todo' = DOMAIN test.calls
  BY <1>2, <1>6 DEF CallsCounted, CallsDone
<1>7. CASE pc' = "done" /\ step' > Len(test.triggers)
  <2>1. ~(step' <= Len(test.triggers))
    BY <1>4, <1>7
  <2> QED
    BY <1>1, <1>7, <2>1 DEF CallsCounted
<1> QED
  BY <1>3, <1>5, <1>6, <1>7


LEMMA CallsCountedStep ==
    ASSUME Shape, [Next]_vars, CallsCounted
    PROVE  CallsCounted'
<1>1. Shape' /\ test' = test
  BY StepKinds
<1>2. pc \notin {"notify", "done"} => NoCalls
  BY DEF CallsCounted
<1>3. ASSUME NEW x \in todo, DefineVariable(x) PROVE CallsCounted'
  BY <1>1, <1>2, <1>3, DefineShape, LoopsMakeNone DEF Loops
<1>4. CASE Silent /\ Ends
  <2>1. CASE pc \notin {"notify", "done"} /\ Goes
    BY <1>1, <1>2, <1>4, <2>1, LoopsMakeNone DEF Silent, Quiet
  <2>2. CASE pc = "notify" /\ pc' = "done" /\ UNCHANGED <<test, todo, env, step, sent, errors>> /\ todo = {}
    <3>1. step \in Nat /\ Len(test.triggers) \in Nat
      BY TestFacts DEF Shape, Typed
    <3>2. step <= Len(test.triggers) /\ CallsDone
      BY <2>2 DEF CallsCounted
    <3>3. CallsDone'
      <4>1. UNCHANGED <<test, todo, env, step, sent, errors>>
        BY <2>2
      <4>2. CallsDone' <=> CallsDone
        BY <4>1 DEF CallsDone, CallsMade, Needs, TextsIn, CleanNames, NotifierVars
      <4> QED
        BY <3>2, <4>2
    <3>4. ~(step > Len(test.triggers))
      BY <3>1, <3>2
    <3> QED
      BY <2>2, <3>3, <3>4 DEF CallsCounted
  <2>3. CASE UNCHANGED vars
    <3>1. UNCHANGED <<test, pc, todo, env, step, sent, errors>>
      BY <2>3 DEF vars
    <3>2. (NoCalls' <=> NoCalls) /\ \A n : CallsOf(n)' = CallsOf(n)
      BY <3>1 DEF NoCalls, CallsOf
    <3>3. CallsDone' <=> CallsDone
      BY <3>1 DEF CallsDone, CallsMade, Needs, TextsIn, CleanNames, NotifierVars
    <3> QED
      BY <3>1, <3>2, <3>3 DEF CallsCounted
  <2> QED
    BY <1>4, <2>1, <2>2, <2>3 DEF Ends
<1>5. CASE Execute
  BY <1>1, <1>2, <1>5, ExecuteShape, LoopsMakeNone
<1>6. ASSUME NEW a \in Answers, AnswerRead(a) PROVE CallsCounted'
  BY <1>1, <1>2, <1>6, AnswerReadShape, LoopsMakeNone
<1>7. ASSUME NEW i \in DOMAIN cols, BeginPoll(i) \/ BeginCheck(i) \/ BeginAssertions(i) PROVE CallsCounted'
  BY <1>1, <1>2, <1>7, UseBegins, LoopsMakeNone
<1>8. ASSUME NEW i \in DOMAIN cols, EndUse(i) PROVE CallsCounted'
  BY <1>1, <1>2, <1>8, UseEnds, LoopsMakeNone
<1>9. CASE Call
  BY <1>9, CallsCountedByCall
<1> QED
  BY <1>3, <1>4, <1>5, <1>6, <1>7, <1>8, <1>9, StepKinds

LEMMA CallsCountedReports ==
    ASSUME Shape, CallsCounted
    PROVE  FailuresAreReported
<1> SUFFICES ASSUME pc = "done", NEW n \in DOMAIN test.calls
             PROVE  /\ CallsMade(n) <= IF Failed THEN 1 ELSE 0
                    /\ Failed /\ Needs(test.calls[n], CleanNames) => CallsMade(n) = 1
  BY DEF FailuresAreReported
<1>1. CASE Failed
  <2>1. CallsDone /\ todo = {}
    BY <1>1 DEF CallsCounted, Failed
  <2>2. CallsMade(n) \in {0, 1} /\ (Needs(test.calls[n], CleanNames) => CallsMade(n) = 1)
    BY <2>1 DEF CallsDone
  <2> QED
    BY <1>1, <2>2
<1>2. CASE ~Failed
  <2>1. step > Len(test.triggers)
    BY <1>2, TestFacts DEF Shape, Typed, Failed
  <2>2. CallsOf(n) = {}
    BY <2>1 DEF CallsCounted, NoCalls, CallsOf
  <2>3. CallsMade(n) = 0
    BY <2>2, FS_EmptySet DEF CallsMade, CallsOf
  <2> QED
    BY <1>2, <2>3
<1> QED
  BY <1>1, <1>2

(* When a run is over, Notify has made each call of on_failure at most     *)
(* once if the run failed, and exactly once each one that needs only the   *)
(* run id, the test id and the error and finds no placeholder in those it  *)
(* needs, whichever calls were skipped before it; none if the run passed.  *)
THEOREM ReportsCorrect == Spec => []FailuresAreReported
<1>1. Init => CallsCounted
  BY DEF Init, CallsCounted, NoCalls
<1>2. Shape /\ CallsCounted /\ [Next]_vars => CallsCounted'
  BY CallsCountedStep
<1>3. Shape /\ CallsCounted => FailuresAreReported
  BY CallsCountedReports
<1> QED
  BY <1>1, <1>2, <1>3, ShapeKept, PTL DEF Spec
============================================================================
