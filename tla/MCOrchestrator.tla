--------------------------- MODULE MCOrchestrator ---------------------------
(* Small test suites for Orchestrator.  Messages are of two classes: good  *)
(* ones pass the assertions, bad ones do not.                              *)
EXTENDS Orchestrator, TLC

Verdict == [m \in {"good", "bad"} |-> IF m = "good" THEN "passed" ELSE "failed"]

(* The assertions above, and then one of an unknown type. *)
UnknownSecond == [m \in {"good", "bad"} |-> IF m = "good" THEN "error" ELSE "failed"]

Rcv(type, recipient) ==
    [type |-> type, recipient |-> recipient, timed |-> TRUE, verdict |-> Verdict]

Step(receivers) == [known |-> TRUE, wait |-> TRUE, receivers |-> receivers]

Test(attempts, triggers) ==
    [enabled |-> TRUE, retryEnabled |-> attempts > 1, retryAttempts |-> attempts,
     triggers |-> triggers]

(* Two tests that want the same two recipients in opposite orders, one of  *)
(* them step by step, with a step that waits for nothing on the way, the   *)
(* other in one step that it may retry; its second trigger has an unknown  *)
(* type.                                                                   *)
ContendDef ==
    "r1" :> Test(1, << Step(<<Rcv("webhook", "alice")>>),
                       [Step(<<Rcv("api", ""), Rcv("imap", "bob")>>) EXCEPT !.wait = FALSE],
                       Step(<<[Rcv("api", "bob") EXCEPT !.verdict = UnknownSecond]>>) >>)
 @@ "r2" :> Test(2, << Step(<<Rcv("api", "bob"), Rcv("webhook", "alice")>>),
                       [Step(<<Rcv("imap", "alice")>>) EXCEPT !.known = FALSE] >>)

(* One test with every kind of receiver and a retry, two receivers of a    *)
(* step waiting for the same webhook message; and one that is disabled.    *)
RetryDef ==
    "r1" :> Test(2, << Step(<<Rcv("webhook", "alice"), Rcv("webhook", "")>>),
                       Step(<<Rcv("api", "bob"), Rcv("imap", "")>>) >>)
 @@ "r2" :> [Test(1, << Step(<< >>) >>) EXCEPT !.enabled = FALSE]

(* Two receivers, two attempts. *)
SingleDef == "r1" :> Test(2, << Step(<<Rcv("imap", "alice"), Rcv("imap", "")>>) >>)

(* Two tests that want the same two recipients in opposite orders.         *)
SharedDef ==
    "r1" :> Test(2, << Step(<<Rcv("webhook", "alice")>>), Step(<<Rcv("api", "bob")>>) >>)
 @@ "r2" :> Test(1, << Step(<<Rcv("api", "bob"), Rcv("webhook", "alice")>>) >>)
=============================================================================
