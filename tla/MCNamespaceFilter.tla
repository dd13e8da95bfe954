-------------------------- MODULE MCNamespaceFilter --------------------------
(***************************************************************************)
(* NamespaceFilter with two namespaces and two informers.                  *)
(***************************************************************************)
EXTENDS NamespaceFilter

CONSTANTS i1, i2

MCSelectors ==
    {[match |-> {}, include |-> {{"a"}, {"a", "b"}}, exclude |-> {{"b"}}],
     [match |-> {"l"}, include |-> {}, exclude |-> {}],
     [match |-> Unparsable, include |-> {{"a"}}, exclude |-> {}]}
=============================================================================
