----------------------------- MODULE MCInformer -----------------------------
(***************************************************************************)
(* Two resources of one kind, each in a namespace of its own.              *)
(***************************************************************************)
EXTENDS Informer, TLC

CONSTANTS ra, rb, na, nb

MCNamespaceOf == (ra :> na) @@ (rb :> nb)
=============================================================================
