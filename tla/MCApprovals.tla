------------------------------ MODULE MCApprovals ------------------------------
(* Small instances of Approvals for TLC. *)
EXTENDS Approvals, TLC

CONSTANTS m1, js, jt

AllOnOne == [j \in Job |-> m1]
SomeButtons == {<<js, "commit">>, <<js, "discard">>, <<jt, "push">>}
===============================================================================
