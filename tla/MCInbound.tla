----------------------------- MODULE MCInbound -----------------------------
(* A run that waits, and requests and mails for it, for another run and    *)
(* for nobody.                                                             *)
EXTENDS Inbound, TLC

Req(provider, json, query, headers, kind, body) ==
    [provider |-> provider, json |-> json, query |-> query, headers |-> headers,
     kind |-> kind, body |-> body]

None == EmptyTable

(* The places of the generic provider, in disagreement; a body with names  *)
(* of the other namespaces; blanks; a form that is all in its query;       *)
(* bodies that do not parse.                                               *)
MCRequests ==
    { Req("generic", TRUE, <<"run_id">> :> Text("r1") @@ <<"status">> :> Text("other"),
          <<"x-e2e-run-id">> :> Text("r2"), "fields",
          <<"run_id">> :> Text("r2") @@ <<"query", "status">> :> Text("r2")),
      Req("generic", TRUE, None, <<"x-e2e-run-id">> :> Text("r2"), "fields",
          <<"run_id">> :> Text("r1")),
      Req("generic", FALSE, <<"run_id">> :> Padded("r1"), None, "malformed", None),
      Req("generic", TRUE, None, None, "fields", <<"runid">> :> Padded("r1")),
      Req("generic", FALSE, <<"runid">> :> Text("r1"), None, "empty", None),
      Req("generic", TRUE, <<"run_id">> :> Text("r1"), None, "malformed", None),
      Req("meta", TRUE, None, None, "fields", <<"messages", "0", "from">> :> Text("r1")),
      Req("twilio", FALSE, None, None, "fields", <<"body">> :> Padded("r2")),
      Req("acme", TRUE, None, None, "empty", None) }

Part(t, ids) == [type |-> t, blank |-> FALSE, ids |-> ids]

Mail(subject, parts) == [ok |-> TRUE, subject |-> subject, parts |-> parts]

MCMails ==
    { Mail({"r1"}, << Part("plain", {}) >>),
      Mail({}, << [Part("plain", {}) EXCEPT !.blank = TRUE], Part("html", {"r1"}) >>),
      Mail({"r2"}, << Part("broken", {}), Part("plain", {"r1"}) >>),
      [Mail({"r1"}, << >>) EXCEPT !.ok = FALSE] }
============================================================================
