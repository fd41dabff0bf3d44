------------------------------ MODULE MCLog ------------------------------
(* Two logs on one disk: one long enough to be cut, one to be kept in order. *)
EXTENDS Log, TLC

CONSTANTS l1, l2

TwoLogs == {l1, l2}
Outputs == l1 :> 2 @@ l2 :> 1
=============================================================================
