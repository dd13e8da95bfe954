---------------------------- MODULE MCLifecycle ----------------------------
(***************************************************************************)
(* Lifecycle with two types of one resource each.                          *)
(***************************************************************************)
EXTENDS Lifecycle, TLC

CONSTANTS t1, t2, w1

MCItemsOf == (t1 :> {"a"}) @@ (t2 :> {"b"})
=============================================================================
