----------------------------- MODULE MCPipeline -----------------------------
(***************************************************************************)
(* Two resources on their way through the pipeline.  PropsAt gives the     *)
(* properties of each version, the same for both resources: versions with  *)
(* equal properties are an update that is redundant or taken back.         *)
(***************************************************************************)
EXTENDS Pipeline, TLC

CONSTANTS ra, rb, PropsAt

MCUID == {ra, rb}

MCKindOf == [u \in MCUID |-> "Other"]

MCPropsOf == [u \in MCUID |-> [v \in Version |-> PropsAt[v]]]

MCRelOf == [u \in MCUID |-> [v \in Version |-> [t \in MCUID |-> "none"]]]

MCOwnerOf == [u \in MCUID |-> [v \in Version |-> NoOwner]]

MCRevisionOf == [u \in MCUID |-> [v \in Version |-> v]]

\* ra has a second version that does not transform.
MCUntransformable == {<<ra, 2>>}

\* The second version changes nothing, the third does.
RedundantProps == [v \in Version |-> IF v = 2 THEN 1 ELSE v]

\* The second change takes the first one back.
RevertedProps == [v \in Version |-> IF v = 2 THEN 2 ELSE 1]

\* The hypothesis of the theorem about HoldsLatest is true of the run's instance.
ASSUME HypothesisAssumption == PropsAt = RedundantProps => EventsTellAll
=============================================================================
