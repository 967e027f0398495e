---------------------------- MODULE MCLifecycle -----------------------------
(* Two processes on one Redis; a scheduled and an asynchronous test that   *)
(* need the same recipient, one of each source of runs.                    *)
EXTENDS Lifecycle, TLC

MCRecipient == [t \in Tests |-> "alice"]
=============================================================================
