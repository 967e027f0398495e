---------------------------- MODULE StoreTypes -----------------------------
(* What the three stores share: the constants of ports.Store, the shape of *)
(* a table and the shape of what a call returns.                           *)
EXTENDS Integers, Tables, TLC

CONSTANTS MsgKeys,    \* "run_id:receiver_type" keys of messages
          ResKeys,    \* "channel:recipient" keys of reservations
          Payloads,   \* the messages that can be deposited
          Runs        \* run identifiers, the owners of reservations

ASSUME KeyAssumption == MsgKeys # {}

Ops == {"none", "Deposit", "Claim", "Reserve", "Release", "Delete"}

(* What a call returned: the operation, its key, the error ("ok" is nil,   *)
(* "conflict" a recipient already reserved, "failed" the backend's own     *)
(* error) and the message (the empty set is a nil *domain.Message).        *)
Reply(op, k, err, msg) == [op |-> op, key |-> k, err |-> err, msg |-> msg]

Replies == [op : Ops, key : MsgKeys \cup ResKeys,
            err : {"ok", "conflict", "failed"}, msg : SUBSET Payloads]

NoReply == {Reply("none", k, "ok", {}) : k \in MsgKeys}
============================================================================
