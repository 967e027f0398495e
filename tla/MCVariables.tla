---------------------------- MODULE MCVariables ----------------------------
(* Small test definitions and answers for Variables. *)
EXTENDS Responses

Req(url, headers, body) == [url |-> url, headers |-> headers, body |-> body]

AskAt(type, field, value) == [type |-> type, field |-> field, value |-> value]

Ask(type, path, value) == AskAt(type, [i \in DOMAIN path |-> <<"lit", path[i]>>], value)

Trig(req, asserts, extract, receivers) ==
    [request |-> req, asserts |-> asserts, extract |-> extract, receivers |-> receivers]

RunTests(variables, attempts, triggers, calls) ==
    [variables |-> variables, attempts |-> attempts, triggers |-> triggers, calls |-> calls]

Webhook(asserts) ==
    [type |-> "webhook", request |-> Req(<< >>, EmptyTable, EmptyTable),
     responseAsserts |-> << >>, asserts |-> asserts]

Api(url, responseAsserts, asserts) ==
    [type |-> "api", request |-> Req(url, EmptyTable, EmptyTable),
     responseAsserts |-> responseAsserts, asserts |-> asserts]

Obj(m) == <<"map", m>>
K(name) == Key(<<name>>, FALSE)
Num(n) == <<"num", n>>
Str(s) == <<"str", Lit(s)>>

(* {"id": n, "tags": ["x", {"id": 1}]}                                     *)
Order(n) == Obj(K("id") :> Num(n) @@ K("tags") :> <<"arr", <<Str("x"), Obj(K("id") :> Num(1))>>>>)

(* {"id": 7, "ID": 8}: one path, two values.                               *)
Twice == Obj(K("id") :> Num(7) @@ Key(<<"id">>, TRUE) :> Num(8))

Million == 1000000

Ok(doc) == [ok |-> TRUE, body |-> doc, raw |-> << >>]

(* {"id": "{{none}}"} *)
Echo == [ok |-> TRUE, body |-> Obj(K("id") :> <<"str", Var("none")>>), raw |-> Var("none")]

(* A status that is not expected, with a page that has {{run_id}} in it.   *)
Refusal == [ok |-> FALSE, body |-> NoJSON, raw |-> Var("run_id")]

MCAnswers == {Ok(Order(7)), Ok(Order(8)), Ok(Order(Million)), Ok(Twice), Ok(Obj(K("id") :> <<"null", "">>)),
              Ok(NoJSON), Echo, Refusal}

RunHeader == "x-run" :> Var("run_id")

Seq1 == "seq" :> Inc("seq")

(* Two steps that count, the first of which extracts the id of the order,  *)
(* also under the reserved name; a token that is generated once; a call    *)
(* that can not be resolved before one that can.                           *)
Chain ==
    RunTests("token" :> Gen("uuid()") @@ "seq" :> Int64(0) @@ "error" :> Lit("mine"), 2,
        << Trig(Req(Lit("u"), RunHeader @@ "x-token" :> Var("token"), Seq1), << >>,
                "run_id" :> <<"id">> @@ "id" :> <<"id">>, << >>),
           Trig(Req(Var("id"), RunHeader @@ "x-token" :> Var("token") @@ "x-n" :> Inc("n"), Seq1),
                <<Ask("present", <<"id">>, << >>), Ask("length", <<"tags">>, Int64(2))>>,
                "id" :> <<"id">>,
                << Api(Inc("seq"), << >>, <<Ask("equals", <<"id">>, Var("id"))>>) >>) >>,
        << Req(Var("nothing"), EmptyTable, EmptyTable), Req(Var("error"), RunHeader, EmptyTable) >>)

Report(text) == Req(Lit("hook"), EmptyTable, "text" :> text)

(* Receivers of one step that share the variables. *)
Shared(receivers) ==
    RunTests(EmptyTable, 1,
        << Trig(Req(Lit("u"), RunHeader, EmptyTable), << >>, "id" :> <<"id">>, receivers) >>,
        << Report(Var("error")) >>)

Polls == Shared(<< Api(Var("id"), <<Ask("equals", <<"id">>, Var("id"))>>, << >>),
                   Webhook(<<Ask("not_contains", <<"id">>, Lit("x"))>>) >>)
Reads == Shared(<< Webhook(<<Ask("equals", <<"id">>, Var("id"))>>),
                   Webhook(<<Ask("array_contains", <<"tags", "#", "id">>, Int64(1))>>) >>)
Counts2 == Shared(<< Api(Var("none"), << >>, <<Ask("matches", <<"id">>, BadPattern)>>),
                     Webhook(<<AskAt("equals", Lit("tags") \o Inc("n") \o Lit("id"), Int64(1))>>) >>)

(* One comparison of an integer, for each type. *)
Compare(type) ==
    RunTests(EmptyTable, 1,
        << Trig(Req(Lit("u"), EmptyTable, EmptyTable), <<Ask(type, <<"id">>, Int64(7))>>,
                EmptyTable, << >>) >>, << >>)

IntTests == {Compare(t) : t \in IntTypes}

(* Nothing is looked at: the trigger only has to be accepted. *)
Ping == RunTests(EmptyTable, 2,
            << Trig(Req(Gen("uuid(v4)"), EmptyTable, EmptyTable), << >>, EmptyTable, << >>) >>, << >>)
Plainly == RunTests("nonce" :> Gen("randomInt(6)"), 2,
            << Trig(Req(Lit("u"), "x-nonce" :> Var("nonce"), EmptyTable), << >>, EmptyTable, << >>) >>, << >>)
Nothing == RunTests("token" :> Gen("uuid()"), 1, << >>, << >>)

(* A request that can not be resolved, and a call without its error. *)
Broken(request) == RunTests(EmptyTable, 1, << Trig(request, << >>, EmptyTable, << >>) >>,
                            << Report(Var("error")), Report(Var("test_id")) >>)
Unknown == {Broken(Req(Var("id"), EmptyTable, EmptyTable)),
            Broken(Req(Lit("u"), "x-id" :> Var("id"), EmptyTable)),
            Broken(Req(Lit("u"), EmptyTable, "id" :> Var("id") @@ "seq" :> Inc("seq")))}

(* Polls that overwrite each other's increments, and a retry after them. *)
Lost ==
    RunTests(EmptyTable, 2,
        << Trig(Req(Lit("u"), EmptyTable, Seq1), << >>, EmptyTable,
                << Api(Inc("seq"), << >>, << >>), Api(Inc("seq"), << >>, << >>) >>) >>,
        << Report(Var("error")) >>)

(* A form with a placeholder that nothing defines: it is sent. *)
Form == RunTests(EmptyTable, 1,
            << Trig(Req(Lit("u"), "content-type" :> Lit("form"), "name" :> Var("nobody")),
                    << >>, EmptyTable, << >>) >>, << >>)

MCTests == {Chain, Polls, Reads, Counts2, Ping, Plainly, Nothing, Lost, Form} \cup Unknown \cup IntTests

(* One variable uses another. *)
NestedTests ==
    {RunTests("base" :> Lit("host") @@ "api" :> Var("base") \o Lit("/v1"), 1,
         << Trig(Req(Var("api"), EmptyTable, EmptyTable), << >>, EmptyTable, << >>) >>, << >>)}
=============================================================================
