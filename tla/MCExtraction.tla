---------------------------- MODULE MCExtraction ----------------------------
(***************************************************************************)
(* A custom type whose own entry has a property of every data type, and    *)
(* properties that depend on a label or on the hub, and one that goes to   *)
(* the metadata.  One column has the name of a generic property, one is    *)
(* named label, one is the age, one has no name left.  Two workers.        *)
(***************************************************************************)
EXTENDS Extraction, TLC

CONSTANTS w1, w2

\* The workers are interchangeable.
Symmetry == Permutations(Worker)

Printer(h, lowered, separated, path, priority) ==
    [header |-> h, lowered |-> lowered, separated |-> separated, path |-> path, priority |-> priority]

State == Printer("Compliance state", "complianceState", TRUE, "state", 1)
Label == Printer("label", "label", FALSE, "state", 0)
Name == Printer("name", "name", FALSE, "state", 0)
Blank == Printer(" ", "", TRUE, "state", 0)
Age == Printer("Age", "age", FALSE, "created", 0)
Clash == Printer("number", "number", FALSE, "state", 0)

MCColumns == {<<State, Label, Name, Clash>>, <<Blank, Age, Printer("age", "age", FALSE, "created", 0)>>}

Of(name, type) == [ExtractProperty(name, type) EXCEPT !.type = type]

\* A property of every data type, with the type as its path; some with a default,
\* one with a name of KnownStringArrays, one that no resource has.
Typed == <<Of("bytes", "bytes"), Of("slice", "slice"), Of("string", "string"),
           [Of("number", "number") EXCEPT !.default = "number"], Of("mapString", "mapString"),
           Of("boolean", "boolean"), Of("arrayString", "arrayString"), Of("length", "arrayLen"),
           [Of("arrayLen", "arrayLen") EXCEPT !.default = "number"], Of("plain", ""), Of("image", ""),
           [ExtractProperty("absent", "missing") EXCEPT !.default = "map"]>>
Special == <<[ExtractProperty("result", "state") EXCEPT !.matchLabel = "checkup"],
             [ExtractProperty("vmiName", "state") EXCEPT !.metadataOnly = TRUE],
             [Of("role", "") EXCEPT !.hubOnly = TRUE], ExtractProperty("broken", Malformed)>>

\* Two configs that differ in all a worker reads of them.
MCConfig ==
    {[own |-> [NoEntry EXCEPT !.found = TRUE, !.props = Typed \o Special, !.annotations = TRUE, !.priority = 0],
      group |-> NoEntry],
     [own |-> NoEntry, group |-> [NoEntry EXCEPT !.found = TRUE, !.conditions = TRUE, !.priority = 1]]}

\* A config in which the type has no entry, for SwitchCollectsColumns.
PlainConfig == {[own |-> NoEntry, group |-> NoEntry]}

\* Values of the declared types, and values of others.
Fitting == ("" :> "bool") @@ ("bytes" :> "quantity") @@ ("slice" :> "strings") @@ ("string" :> "float")
           @@ ("number" :> "digits") @@ ("mapString" :> "map") @@ ("boolean" :> "bool")
           @@ ("arrayString" :> "word") @@ ("arrayLen" :> "mixed")
Other == ("" :> "map") @@ ("bytes" :> "int") @@ ("slice" :> "opaqueMap") @@ ("string" :> "mixed")
         @@ ("number" :> "word") @@ ("mapString" :> "opaqueMap") @@ ("boolean" :> "int")
         @@ ("arrayString" :> "int") @@ ("arrayLen" :> "null")

Resource(labels, conditions, values) ==
    [labels |-> labels, conditions |-> conditions,
     fields |-> ("state" :> <<"word">>) @@ ("created" :> <<"word">>) @@ values]
MCObject == {Resource({"checkup"}, "readable", [t \in DataType |-> <<Fitting[t]>>]),
             Resource({}, "malformed", [t \in DataType |-> <<Other[t], "int">>])}

MCGeneric == {"kind", "name", "created"}
=============================================================================
