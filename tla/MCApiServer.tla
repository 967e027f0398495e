---------------------------- MODULE MCApiServer ----------------------------
(* Up to three requests from two clients against a cache of two results:   *)
(* an asynchronous test, a synchronous one, a sequence that stops at the   *)
(* first failure, a list with an unknown test.                             *)
EXTENDS ApiServer, TLC

MCTests == "slow" :> [async |-> TRUE] @@ "quick" :> [async |-> FALSE]

Request(kind, tests, skip) == [kind |-> kind, tests |-> tests, skip |-> skip]

MCRequests ==
    {Request("run", <<"slow">>, FALSE), Request("run", <<"quick">>, FALSE),
     Request("sequence", <<"quick", "slow">>, TRUE),
     Request("sequence", <<"quick", "unknown">>, FALSE)}
============================================================================
