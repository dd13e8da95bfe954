-------------------------- MODULE MCInformerManager --------------------------
(***************************************************************************)
(* Two resource types and one config key, which stands for one of them.    *)
(***************************************************************************)
EXTENDS InformerManager, TLC

CONSTANTS ga, gb, key

MCKeyTargets == key :> {ga}
=============================================================================
