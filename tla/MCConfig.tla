------------------------------ MODULE MCConfig ------------------------------
(* One job in two directories. *)
EXTENDS Config
=============================================================================
