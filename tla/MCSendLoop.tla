----------------------------- MODULE MCSendLoop -----------------------------
(***************************************************************************)
(* A nine bit int whose intervals overflow at the sixth retry.             *)
(***************************************************************************)
EXTENDS SendLoop, TLC

CONSTANTS old, modern

MCExp2 == [n \in 0..RetryLimit |-> 2^n]

\* The ConfigMap is changed, deleted and created with other data.
MCProfiles == <<old, NoProfile, modern>>
=============================================================================
