----------------------------- MODULE MCHandover -----------------------------
(***************************************************************************)
(* Handover with two resources of one namespace.                           *)
(***************************************************************************)
EXTENDS Handover

CONSTANTS ra, rb, na

MCNamespaceOf == [r \in Resource |-> na]
=============================================================================
