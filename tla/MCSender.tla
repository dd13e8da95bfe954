------------------------------ MODULE MCSender ------------------------------
(***************************************************************************)
(* Two resources for the reconciler and the sender: pol, a policy whose    *)
(* first version relates compliant to rel, its second noncompliant and its *)
(* third not at all, and rel, a helm release whose later revisions are     *)
(* owned by pol and have the properties of its first, which makes an       *)
(* update of it redundant.                                                 *)
(***************************************************************************)
EXTENDS Sender, TLC

CONSTANTS pol, rel

MCUID == {pol, rel}

MCKindOf == (pol :> "Policy") @@ (rel :> "Release")

MCPropsOf == [u \in MCUID |-> [v \in Version |-> IF u = rel THEN 1 ELSE v]]

MCRelOf ==
    [u \in MCUID |-> [v \in Version |-> [t \in MCUID |->
        IF u = rel \/ t = pol \/ v = 3 THEN "none"
        ELSE IF v = 1 THEN "compliant" ELSE "noncompliant"]]]

MCOwnerOf ==
    [u \in MCUID |-> [v \in Version |-> IF u = rel /\ v > 1 THEN pol ELSE NoOwner]]

MCRevisionOf == [u \in MCUID |-> [v \in Version |-> v]]
=============================================================================
