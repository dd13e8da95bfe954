------------------------- MODULE Extraction_proofs -------------------------
(***************************************************************************)
(* Proofs about what the transforms make of the resources: the nodes       *)
(* (Extraction) and the edges (Edges).                                     *)
(*                                                                         *)
(* Whatever the config, the columns of the CRD and the resource, and for   *)
(* any set of workers, what a node stores has the type its data type       *)
(* promises, no worker panics on the label, the columns replace nothing,   *)
(* and once nothing is under way the node received last is what the config *)
(* in force makes of the resource, unless it was overtaken by that of a    *)
(* later event.  Whatever the order of the nodes and the metadata left by  *)
(* earlier passes, an edge connects two different nodes that are held.     *)
(*                                                                         *)
(* Two loops of the code are folds, over the properties of a type and over *)
(* the columns of a CRD.  A fold over a sequence is shown to be a chain of *)
(* turns, and what holds after each turn is shown by induction on their    *)
(* number: NatSetInduction, which follows from the order of the numbers    *)
(* being well founded.                                                     *)
(***************************************************************************)
EXTENDS Extraction, Edges, SequenceTheorems, FiniteSetTheorems, WellFoundedInduction, TLAPS

-----------------------------------------------------------------------------
(* Induction and folds.                                                    *)

\* What holds of zero, and of the successor of each number it holds of, holds of
\* every number: the least number that is not in the set would be a successor.
LEMMA NatSetInduction ==
  ASSUME NEW S, 0 \in S, \A n \in Nat : n \in S => n + 1 \in S
  PROVE  Nat \subseteq S
<1> DEFINE T == Nat \ S
           R == OpToRel(<, Nat)
<1> SUFFICES ASSUME T # {} PROVE FALSE
  OBVIOUS
<1>1. \E x \in T : \A y \in T : ~(<<y, x>> \in R)
  <2>1. T \subseteq Nat
    OBVIOUS
  <2>2. IsWellFoundedOn(R, Nat)
    BY NatLessThanWellFounded
  <2> HIDE DEF T, R
  <2> QED BY <2>1, <2>2, WFMin
<1>2. PICK x \in T : \A y \in T : ~(<<y, x>> \in R)
  BY <1>1
<1>3. x # 0 /\ x - 1 \in Nat /\ x - 1 \in T
  OBVIOUS
<1>4. <<x - 1, x>> \in R
  BY <1>3 DEF OpToRel
<1> QED BY <1>2, <1>3, <1>4

\* The greatest element of a set of indices that holds its upper bound.
LEMMA MaxOfBound ==
  ASSUME NEW k \in Nat, NEW x \in SUBSET (1..k), k \in x
  PROVE  Max(x) = k
<1>1. \A y \in x : y \in Int /\ k >= y
  OBVIOUS
<1>2. \A m \in x : (\A y \in x : m >= y) => m = k
  BY <1>1
<1> QED BY <1>1, <1>2 DEF Max

\* The loop over the properties, turn by turn: f[k] is the node after k turns.
Turns(f, N, e, r) ==
    /\ f[0] = GenericNode(e.object, r)
    /\ \A k \in 1..N :
          f[k] = ExtractOne(f[k - 1], Properties(r, e.columns)[k], e.object, r.own.found, Threshold(r))

LEMMA BuildTurns ==
  ASSUME NEW e, NEW r, NEW N \in Nat, DOMAIN Properties(r, e.columns) = 1..N
  PROVE  \E f : Turns(f, N, e, r) /\ BuildNode(e, r) = f[N]
<1> DEFINE Start == GenericNode(e.object, r)
           Props == Properties(r, e.columns)
           Turn(k, n) == ExtractOne(n, Props[k], e.object, r.own.found, Threshold(r))
           Step(it, x) == IF x = {} THEN Start ELSE Turn(Max(x), it[x \ {Max(x)}])
           Iter(k, it) == it = [x \in SUBSET (1..k) |-> Step(it, x)]
           K == {k \in Nat : \E it : Iter(k, it)}
<1>0. BuildNode(e, r) = (CHOOSE it : Iter(N, it))[1..N]
  BY DEF BuildNode, FoldLeft, MapThenFoldSet
<1> HIDE DEF Start, Turn
<1>1. 0 \in K
  <2> DEFINE it == [x \in SUBSET (1..0) |-> Start]
  <2>1. SUBSET (1..0) = {{}}
    OBVIOUS
  <2>2. Iter(0, it)
    BY <2>1
  <2> QED BY <2>2
<1>2. ASSUME NEW k \in Nat, k \in K
      PROVE  k + 1 \in K
  <2>1. PICK it : Iter(k, it)
    BY <1>2
  <2> DEFINE jt == [x \in SUBSET (1..(k + 1)) |-> IF k + 1 \in x THEN Turn(k + 1, it[x \ {k + 1}]) ELSE it[x]]
  <2>2. ASSUME NEW x \in SUBSET (1..(k + 1))
        PROVE  jt[x] = Step(jt, x)
    <3>1. CASE k + 1 \in x
      <4>1. Max(x) = k + 1
        BY <3>1, MaxOfBound
      <4>2. x \ {k + 1} \in SUBSET (1..(k + 1)) /\ k + 1 \notin x \ {k + 1}
        OBVIOUS
      <4>3. jt[x \ {k + 1}] = it[x \ {k + 1}]
        BY <4>2
      <4>4. x # {} /\ jt[x] = Turn(k + 1, it[x \ {k + 1}])
        BY <3>1
      <4> QED BY <4>1, <4>3, <4>4
    <3>2. CASE k + 1 \notin x
      <4>1. x \in SUBSET (1..k)
        BY <3>2
      <4>2. jt[x] = it[x] /\ it[x] = Step(it, x)
        BY <2>1, <3>2, <4>1
      <4>3. \A m : x \ {m} \in SUBSET (1..(k + 1)) /\ k + 1 \notin x \ {m}
        BY <3>2
      <4>4. \A m : jt[x \ {m}] = it[x \ {m}]
        BY <4>3
      <4>5. Step(jt, x) = Step(it, x)
        BY <4>4
      <4> QED BY <4>2, <4>5
    <3> QED BY <3>1, <3>2
  <2>3. Iter(k + 1, jt)
    BY <2>2
  <2> HIDE DEF jt, Iter
  <2> QED BY <2>3
<1>3. N \in K
  <2> HIDE DEF K
  <2> QED BY <1>1, <1>2, NatSetInduction
<1> DEFINE iter == CHOOSE it : Iter(N, it)
           f == [k \in 0..N |-> iter[1..k]]
<1>4. Iter(N, iter)
  BY <1>3
<1>5. \A x \in SUBSET (1..N) : iter[x] = Step(iter, x)
  BY <1>4
<1> HIDE DEF iter
<1>6. f[0] = Start
  <2>1. 1..0 = {} /\ 1..0 \in SUBSET (1..N)
    OBVIOUS
  <2>2. iter[1..0] = Start
    BY <1>5, <2>1
  <2> QED BY <2>2
<1>7. ASSUME NEW k \in 1..N
      PROVE  f[k] = Turn(k, f[k - 1])
  <2>1. 1..k \in SUBSET (1..N) /\ k \in 1..k /\ k - 1 \in 0..N
    OBVIOUS
  <2>2. Max(1..k) = k
    BY <2>1, MaxOfBound
  <2>3. (1..k) \ {k} = 1..(k - 1)
    OBVIOUS
  <2>4. iter[1..k] = Turn(k, iter[1..(k - 1)])
    BY <1>5, <2>1, <2>2, <2>3
  <2> QED BY <2>1, <2>4
<1>8. BuildNode(e, r) = f[N]
  BY <1>0 DEF iter
<1> HIDE DEF f
<1>9. Turns(f, N, e, r)
  BY <1>6, <1>7 DEF Start, Turn, Turns
<1> QED BY <1>8, <1>9

\* The loop over the columns of a CRD, turn by turn.
LEMMA CollectTurns ==
  ASSUME NEW cs, NEW N \in Nat, DOMAIN cs = 1..N
  PROVE  \E f : /\ f[0] = <<>>
                /\ \A k \in 1..N : f[k] = IF ToLowerCamelCase(cs[k]) = "" THEN f[k - 1]
                      ELSE Append(f[k - 1], Column(cs[k]))
                /\ PrinterColumns(cs) = f[N]
<1> DEFINE Start == <<>>
           Turn(k, n) == IF ToLowerCamelCase(cs[k]) = "" THEN n ELSE Append(n, Column(cs[k]))
           Step(it, x) == IF x = {} THEN Start ELSE Turn(Max(x), it[x \ {Max(x)}])
           Iter(k, it) == it = [x \in SUBSET (1..k) |-> Step(it, x)]
           K == {k \in Nat : \E it : Iter(k, it)}
<1>0. PrinterColumns(cs) = (CHOOSE it : Iter(N, it))[1..N]
  BY DEF PrinterColumns, FoldLeft, MapThenFoldSet
<1> HIDE DEF Start, Turn
<1>1. 0 \in K
  <2> DEFINE it == [x \in SUBSET (1..0) |-> Start]
  <2>1. SUBSET (1..0) = {{}}
    OBVIOUS
  <2>2. Iter(0, it)
    BY <2>1
  <2> QED BY <2>2
<1>2. ASSUME NEW k \in Nat, k \in K
      PROVE  k + 1 \in K
  <2>1. PICK it : Iter(k, it)
    BY <1>2
  <2> DEFINE jt == [x \in SUBSET (1..(k + 1)) |-> IF k + 1 \in x THEN Turn(k + 1, it[x \ {k + 1}]) ELSE it[x]]
  <2>2. ASSUME NEW x \in SUBSET (1..(k + 1))
        PROVE  jt[x] = Step(jt, x)
    <3>1. CASE k + 1 \in x
      <4>1. Max(x) = k + 1
        BY <3>1, MaxOfBound
      <4>2. x \ {k + 1} \in SUBSET (1..(k + 1)) /\ k + 1 \notin x \ {k + 1}
        OBVIOUS
      <4>3. jt[x \ {k + 1}] = it[x \ {k + 1}]
        BY <4>2
      <4>4. x # {} /\ jt[x] = Turn(k + 1, it[x \ {k + 1}])
        BY <3>1
      <4> QED BY <4>1, <4>3, <4>4
    <3>2. CASE k + 1 \notin x
      <4>1. x \in SUBSET (1..k)
        BY <3>2
      <4>2. jt[x] = it[x] /\ it[x] = Step(it, x)
        BY <2>1, <3>2, <4>1
      <4>3. \A m : x \ {m} \in SUBSET (1..(k + 1)) /\ k + 1 \notin x \ {m}
        BY <3>2
      <4>4. \A m : jt[x \ {m}] = it[x \ {m}]
        BY <4>3
      <4>5. Step(jt, x) = Step(it, x)
        BY <4>4
      <4> QED BY <4>2, <4>5
    <3> QED BY <3>1, <3>2
  <2>3. Iter(k + 1, jt)
    BY <2>2
  <2> HIDE DEF jt, Iter
  <2> QED BY <2>3
<1>3. N \in K
  <2> HIDE DEF K
  <2> QED BY <1>1, <1>2, NatSetInduction
<1> DEFINE iter == CHOOSE it : Iter(N, it)
           f == [k \in 0..N |-> iter[1..k]]
<1>4. Iter(N, iter)
  BY <1>3
<1>5. \A x \in SUBSET (1..N) : iter[x] = Step(iter, x)
  BY <1>4
<1> HIDE DEF iter
<1>6. f[0] = Start
  <2>1. 1..0 = {} /\ 1..0 \in SUBSET (1..N)
    OBVIOUS
  <2>2. iter[1..0] = Start
    BY <1>5, <2>1
  <2> QED BY <2>2
<1>7. ASSUME NEW k \in 1..N
      PROVE  f[k] = Turn(k, f[k - 1])
  <2>1. 1..k \in SUBSET (1..N) /\ k \in 1..k /\ k - 1 \in 0..N
    OBVIOUS
  <2>2. Max(1..k) = k
    BY <2>1, MaxOfBound
  <2>3. (1..k) \ {k} = 1..(k - 1)
    OBVIOUS
  <2>4. iter[1..k] = Turn(k, iter[1..(k - 1)])
    BY <1>5, <2>1, <2>2, <2>3
  <2> QED BY <2>1, <2>4
<1>8. PrinterColumns(cs) = f[N]
  BY <1>0 DEF iter
<1> HIDE DEF f
<1> QED BY <1>6, <1>7, <1>8 DEF Start, Turn

\* The columns that are kept have a name, a priority and what every column has.
NamedColumns == {Column(c) : c \in {h \in Header : ToLowerCamelCase(h) # ""}}

LEMMA PrinterColumnsType ==
  ASSUME NEW cs \in Seq(Header)
  PROVE  PrinterColumns(cs) \in Seq(NamedColumns)
<1> DEFINE N == Len(cs)
<1>1. N \in Nat /\ DOMAIN cs = 1..N /\ \A k \in 1..N : cs[k] \in Header
  OBVIOUS
<1> HIDE DEF N
<1>2. PICK f : /\ f[0] = <<>>
               /\ \A k \in 1..N : f[k] = IF ToLowerCamelCase(cs[k]) = "" THEN f[k - 1]
                     ELSE Append(f[k - 1], Column(cs[k]))
               /\ PrinterColumns(cs) = f[N]
  BY <1>1, CollectTurns
<1> DEFINE K == {k \in Nat : k <= N => f[k] \in Seq(NamedColumns)}
<1>3. 0 \in K
  <2>1. f[0] = <<>>
    BY <1>2
  <2>2. f[0] \in Seq(NamedColumns)
    BY <2>1, EmptySeq
  <2> QED BY <2>2
<1>4. ASSUME NEW k \in Nat, k \in K
      PROVE  k + 1 \in K
  <2>1. SUFFICES ASSUME k + 1 <= N PROVE f[k + 1] \in Seq(NamedColumns)
    OBVIOUS
  <2>2. k + 1 \in 1..N /\ (k + 1) - 1 = k /\ f[k] \in Seq(NamedColumns)
    BY <1>1, <1>4, <2>1
  <2>3. f[k + 1] = IF ToLowerCamelCase(cs[k + 1]) = "" THEN f[k] ELSE Append(f[k], Column(cs[k + 1]))
    BY <1>2, <2>2
  <2>4. ToLowerCamelCase(cs[k + 1]) # "" => Column(cs[k + 1]) \in NamedColumns
    BY <1>1, <2>2 DEF NamedColumns
  <2> HIDE DEF K
  <2>5. CASE ToLowerCamelCase(cs[k + 1]) = ""
    BY <2>2, <2>3, <2>5
  <2>6. CASE ToLowerCamelCase(cs[k + 1]) # ""
    <3>1. f[k + 1] = Append(f[k], Column(cs[k + 1])) /\ Column(cs[k + 1]) \in NamedColumns
      BY <2>3, <2>4, <2>6
    <3> QED BY <2>2, <3>1, AppendProperties
  <2> QED BY <2>5, <2>6
<1>5. Nat \subseteq K
  <2> HIDE DEF K
  <2> QED BY <1>3, <1>4, NatSetInduction
<1>6. f[N] \in Seq(NamedColumns)
  BY <1>1, <1>5
<1> QED BY <1>2, <1>6

LEMMA ColumnFields ==
  ASSUME NEW p \in NamedColumns
  PROVE  /\ p.name # "" /\ p.priority # NoPriority
         /\ p.type = "" /\ p.matchLabel = "" /\ ~p.metadataOnly /\ ~p.hubOnly /\ p.default = Nothing
<1>1. PICK c \in Header : p = Column(c) /\ ToLowerCamelCase(c) # ""
  BY DEF NamedColumns
<1>2. c.priority \in Int /\ c.priority # NoPriority
  BY <1>1 DEF Header
<1>3. p.name = ToLowerCamelCase(c) /\ p.priority = c.priority
  BY <1>1 DEF Column, ExtractProperty, Unset
<1>4. p.type = "" /\ p.matchLabel = "" /\ ~p.metadataOnly /\ ~p.hubOnly /\ p.default = Nothing
  BY <1>1 DEF Column, ExtractProperty, Unset
<1> QED BY <1>1, <1>2, <1>3, <1>4

-----------------------------------------------------------------------------
(* The inductive invariant.                                                *)

\* What the CRD informer may keep for the type.
Mappings == {PrinterColumns(cs) : cs \in Columns} \cup {<<>>}
Events == [object : Object, columns : Mappings]
CRDs(columns) == [established : BOOLEAN, columns : columns, exists : BOOLEAN]
ReadConfigs == Config \cup {[own |-> NoEntry, group |-> NoEntry]}

\* A read of the config has the parts that were read so far.
IsRead(r) == r = [annotated |-> r.annotated, own |-> r.own, group |-> r.group]

CRDType ==
    /\ crd \in CRDs(Columns \cup {<<>>}) /\ (crd.exists => crd.columns \in Columns)
    /\ crdEvents \in Seq([add : BOOLEAN, crd : CRDs(Columns)])
    /\ mapping \in Mappings
    /\ syncPending \in BOOLEAN /\ running \in BOOLEAN /\ staleColumns \in BOOLEAN

ConfigType ==
    /\ config \in Config /\ object \in Object
    /\ resync \in BOOLEAN /\ toSend \in BOOLEAN
    /\ \/ reload = <<>>
       \/ \E c \in Config : reload = <<[step |-> "tell", config |-> c]>>
       \/ \E c \in Config : reload = <<[step |-> "swap", config |-> c], [step |-> "tell", config |-> c]>>

\* A worker that has built a node built it of its event and what it has read.
WorkType(x) ==
    /\ DOMAIN x = {"phase", "event", "read", "built"}
    /\ x.phase \in {"idle", "annotations", "own", "group", "built"}
    /\ x.phase # "idle" => x.event \in Events
    /\ IsRead(x.read)
    /\ x.read.own \in {c.own : c \in ReadConfigs}
    /\ x.built = IF x.phase = "built" THEN BuildNode(x.event, x.read) ELSE NoNode

WorkerType ==
    /\ outbox \in Events \cup {NoEvent}
    /\ worker = [w \in Worker |-> worker[w]]
    /\ \A w \in Worker : WorkType(worker[w])
    /\ newest \in Worker \cup Places
    /\ outbox # NoEvent => newest = "outbox"

\* A node has its two parts, and what it stores is of the type that was declared.
IsNode(n) == n = [props |-> n.props, metadata |-> n.metadata]
Entries(f) ==
    \A x \in DOMAIN f :
        /\ f[x].kind \in Stored
        /\ f[x].by \in PropertySet
        /\ f[x].by # GenericProperty => f[x].kind \in Promised(f[x].by.type)
GoodNode(n) == IsNode(n) /\ Entries(n.props)

\* An event tells what the node has to be made of, up to columns that changed.
Current(e) == e.object = object /\ (staleColumns \/ e.columns = mapping)
ReadSoFar(x) ==
    /\ x.phase \in {"own", "group", "built"} => x.read.annotated = Annotated(config.own)
    /\ x.phase \in {"group", "built"} => x.read.own = config.own
    /\ x.phase = "built" => x.read.group = config.group
UpToDate == staleColumns \/ node = BuildNode([object |-> object, columns |-> mapping], Reads(config))

\* The ways a running informer has of bringing the node up to date: a reload that has yet
\* to tell, a list, the last event on its way, and its node.
Asked == toSend \/ resync \/ reload # <<>>
Sent == newest = "outbox" /\ outbox # NoEvent /\ Current(outbox)
Fresh(x) == x.phase # "idle" /\ Current(x.event) /\ ReadSoFar(x)
Taken == newest \in Worker /\ Fresh(worker[newest])
Settled == newest = "node" /\ UpToDate

\* While the informer runs, the node is up to date or what will bring it up to
\* date is under way, unless a node of an earlier event was received after the last one's.
Delivery == running => Asked \/ Sent \/ Taken \/ Settled \/ newest = "overtaken"

ExtractionIInv ==
    /\ CRDType /\ ConfigType /\ WorkerType
    /\ GoodNode(node)
    /\ Delivery


-----------------------------------------------------------------------------
(* One turn of the loop.                                                   *)

\* What the code takes for granted where it matches on a label.
LabelOk(n) == "label" \in DOMAIN n.props => n.props["label"].kind \in {"mapString", "nil"}

\* A property of the config or a column.
Declared(p) ==
    /\ p \in PropertySet /\ p.type \in DataType
    /\ p.default \in Promised(p.type) \cup {Nothing}

LEMMA PromisedStored ==
  ASSUME NEW type \in DataType
  PROVE  Promised(type) \subseteq Stored /\ Nothing \notin Stored
BY DEF Promised, Stored, DataType, Nothing

\* What a conversion makes of a value of the resource is what the type promises.
LEMMA ConvertType ==
  ASSUME NEW p, Declared(p), ~p.metadataOnly, NEW vs \in Seq(JSON), vs # <<>>
  PROVE  Convert(p, vs) \in Promised(p.type) \cup {Nothing}
<1>1. vs[1] \in JSON
  OBVIOUS
<1>2. ASSUME p.type \notin {"slice", "arrayString"}
      PROVE  ConvertOne(p, vs[1]) \in Promised(p.type) \cup {Nothing}
  <2> DEFINE v == vs[1]
  <2>1. v \in JSON
    BY <1>1
  <2> HIDE DEF v
  <2>2. ConvertOne(p, v) \in Promised(p.type) \cup {Nothing}
    <3>1. CASE p.type = "bytes"
      BY <3>1 DEF ConvertOne, MemoryToBytes, Promised
    <3>2. CASE p.type = "string"
      BY <3>2 DEF ConvertOne, ConvertToString, Promised
    <3>3. CASE p.type \in {"mapString", "number", "boolean"}
      BY <3>3 DEF ConvertOne, Promised
    <3>4. CASE p.type = "arrayLen"
      <4>1. ConvertOne(p, v) = Length(p, v)
        BY <3>4 DEF ConvertOne
      <4>2. p.default \in {"number", "nil", Nothing} /\ Promised(p.type) = {"number", "nil"}
        BY <3>4 DEF Declared, Promised
      <4> QED BY <4>1, <4>2 DEF Length
    <3>5. CASE p.type = ""
      <4>1. ConvertOne(p, v) = IF v = "bool" THEN "string" ELSE Raw(v)
        BY <3>5 DEF ConvertOne
      <4>2. Raw(v) \in Stored /\ (v # "bool" => Raw(v) # "bool")
        BY <2>1 DEF Raw, JSON, Scalar, Text, Array, Stored
      <4>3. Promised(p.type) = Stored \ {"bool"}
        BY <3>5 DEF Promised
      <4> QED BY <4>1, <4>2, <4>3 DEF Stored
    <3> QED BY <1>2, <3>1, <3>2, <3>3, <3>4, <3>5 DEF Declared, DataType
  <2> QED BY <2>2 DEF v
<1>3. CASE p.type = "slice"
  BY <1>3 DEF Convert, Promised
<1>4. CASE p.type = "arrayString"
  BY <1>4 DEF Convert, Promised
<1>5. CASE p.type \notin {"slice", "arrayString"}
  BY <1>2, <1>5 DEF Convert
<1> QED BY <1>3, <1>4, <1>5

LEMMA NodeIsNoPanic ==
  ASSUME NEW n, IsNode(n)
  PROVE  n # Panic
<1>1. DOMAIN n = {"props", "metadata"} /\ DOMAIN Panic = {"panic"}
  BY DEF IsNode, Panic
<1> QED BY <1>1

\* What a turn can do to a node: nothing, or store what the type promises.
Turned(n, p, next) ==
    \/ next = n
    \/ \E g : next = [n EXCEPT !.metadata = g]
    \/ /\ ~p.metadataOnly => p.name \notin DOMAIN n.props
       /\ \E kind \in Promised(p.type) :
             next = [n EXCEPT !.props = Put(n.props, p.name, [kind |-> kind, by |-> p])]

LEMMA TurnCases ==
  ASSUME NEW n, IsNode(n), NEW p, Declared(p), NEW o \in Object, NEW found, NEW priority,
         p.matchLabel = "" \/ LabelOk(n)
  PROVE  Turned(n, p, ExtractOne(n, p, o, found, priority))
<1> DEFINE next == ExtractOne(n, p, o, found, priority)
<1>1. n # Panic /\ ~Asserts(n, p)
  BY NodeIsNoPanic DEF Asserts, LabelOk
<1>2. next = IF Skips(n, p, o, found, priority) THEN n
             ELSE IF p.path \notin DOMAIN o.fields \/ o.fields[p.path] = <<>> THEN Store(n, p, p.default)
             ELSE IF p.metadataOnly THEN StoreMetadata(n, p, Convert(p, o.fields[p.path]))
             ELSE Store(n, p, Convert(p, o.fields[p.path]))
  BY <1>1 DEF ExtractOne
<1>3. ~Skips(n, p, o, found, priority) /\ ~p.metadataOnly => p.name \notin DOMAIN n.props
  BY DEF Skips
<1> HIDE DEF next
<1>4. CASE Skips(n, p, o, found, priority)
  BY <1>2, <1>4 DEF next, Turned
<1>5. CASE ~Skips(n, p, o, found, priority) /\ (p.path \notin DOMAIN o.fields \/ o.fields[p.path] = <<>>)
  <2>1. next = Store(n, p, p.default)
    BY <1>2, <1>5
  <2>2. p.default = Nothing \/ p.default \in Promised(p.type)
    BY DEF Declared
  <2> QED BY <1>3, <1>5, <2>1, <2>2 DEF Store, next, Turned
<1>6. CASE ~Skips(n, p, o, found, priority) /\ p.path \in DOMAIN o.fields /\ o.fields[p.path] # <<>>
        /\ p.metadataOnly
  <2>1. next = StoreMetadata(n, p, Convert(p, o.fields[p.path]))
    BY <1>2, <1>6
  <2> QED BY <2>1 DEF StoreMetadata, next, Turned
<1>7. CASE ~Skips(n, p, o, found, priority) /\ p.path \in DOMAIN o.fields /\ o.fields[p.path] # <<>>
        /\ ~p.metadataOnly
  <2>1. next = Store(n, p, Convert(p, o.fields[p.path]))
    BY <1>2, <1>7
  <2>2. o.fields[p.path] \in Seq(JSON)
    BY <1>7, ExtractionAssumption
  <2>3. Convert(p, o.fields[p.path]) \in Promised(p.type) \cup {Nothing}
    BY <1>7, <2>2, ConvertType
  <2> QED BY <1>3, <1>7, <2>1, <2>3 DEF Store, next, Turned
<1> QED BY <1>4, <1>5, <1>6, <1>7

\* What a node has is in the next one too.
Keeps(n, next) == \A x \in DOMAIN n.props : x \in DOMAIN next.props /\ next.props[x] = n.props[x]

\* A turn leaves a node whose entries are as declared, with the entries it had
\* where the property is a column, and the label where it has another name.
LEMMA TurnEffect ==
  ASSUME NEW n, GoodNode(n), NEW p, Declared(p), NEW o \in Object, NEW found, NEW priority,
         p.matchLabel = "" \/ LabelOk(n)
  PROVE  LET next == ExtractOne(n, p, o, found, priority)
         IN  /\ GoodNode(next)
             /\ LabelOk(n) /\ p.name # "label" => LabelOk(next)
             /\ ~p.metadataOnly => Keeps(n, next)
<1> DEFINE next == ExtractOne(n, p, o, found, priority)
<1>1. IsNode(n) /\ Entries(n.props)
  BY DEF GoodNode
<1>2. Turned(n, p, next)
  BY <1>1, TurnCases
<1> HIDE DEF next
<1>3. CASE next = n
  BY <1>1, <1>3 DEF next, Keeps
<1>4. CASE \E g : next = [n EXCEPT !.metadata = g]
  <2>1. PICK g : next = [n EXCEPT !.metadata = g]
    BY <1>4
  <2>2. IsNode(next) /\ next.props = n.props
    BY <1>1, <2>1 DEF IsNode
  <2> QED BY <1>1, <2>2 DEF GoodNode, LabelOk, Keeps, next
<1>5. CASE /\ ~p.metadataOnly => p.name \notin DOMAIN n.props
           /\ \E kind \in Promised(p.type) :
                 next = [n EXCEPT !.props = Put(n.props, p.name, [kind |-> kind, by |-> p])]
  <2>1. PICK kind \in Promised(p.type) : next
          = [n EXCEPT !.props = Put(n.props, p.name, [kind |-> kind, by |-> p])]
    BY <1>5
  <2> DEFINE entry == [kind |-> kind, by |-> p]
             f == Put(n.props, p.name, entry)
  <2>2. IsNode(next) /\ next.props = f
    BY <1>1, <2>1 DEF IsNode
  <2>3. entry.kind = kind /\ entry.by = p
    OBVIOUS
  <2> HIDE DEF entry
  <2>4. DOMAIN f = DOMAIN n.props \cup {p.name} /\ f[p.name] = entry
    BY DEF Put
  <2>5. \A x \in DOMAIN n.props : x # p.name => f[x] = n.props[x]
    BY DEF Put
  <2>6. kind \in Stored /\ p \in PropertySet
    BY PromisedStored DEF Declared
  <2> HIDE DEF f
  <2>7. Entries(f)
    <3> SUFFICES ASSUME NEW x \in DOMAIN f
                 PROVE  /\ f[x].kind \in Stored
                        /\ f[x].by \in PropertySet
                        /\ f[x].by # GenericProperty => f[x].kind \in Promised(f[x].by.type)
      BY DEF Entries
    <3>1. CASE x = p.name
      BY <2>3, <2>4, <2>6, <3>1, Zenon
    <3>2. CASE x # p.name
      <4>1. x \in DOMAIN n.props /\ f[x] = n.props[x]
        BY <2>4, <2>5, <3>2
      <4> QED BY <1>1, <4>1 DEF Entries
    <3> QED BY <3>1, <3>2
  <2>8. LabelOk(n) /\ p.name # "label" => LabelOk(next)
    BY <2>2, <2>4, <2>5 DEF LabelOk
  <2>9. ~p.metadataOnly => Keeps(n, next)
    BY <1>5, <2>2, <2>4, <2>5 DEF Keeps
  <2> QED BY <2>2, <2>7, <2>8, <2>9 DEF GoodNode, next
<1> QED BY <1>2, <1>3, <1>4, <1>5 DEF Turned

\* What is stored before the loop comes from the resource itself.
LEMMA GenericNodeGood ==
  ASSUME NEW o, NEW r
  PROVE  GoodNode(GenericNode(o, r)) /\ LabelOk(GenericNode(o, r))
<1> DEFINE n == GenericNode(o, r)
           f == GenericProperties(o, r.annotated)
           entry(kind) == [kind |-> kind, by |-> GenericProperty]
<1>1. IsNode(n)
  BY DEF IsNode, GenericNode
<1>2. GenericProperty \in PropertySet
  BY DEF PropertySet
<1> DEFINE maps == {m \in {"label", "annotation"} : m = "label" => o.labels # {}}
           names == Generic \cup {m \in maps : m = "annotation" => r.annotated}
<1>a. f = [x \in names |-> [kind |-> IF x \in maps THEN "mapString" ELSE "string", by |-> GenericProperty]]
  BY DEF GenericProperties
<1>b. "label" \in names => "label" \in maps
  BY ExtractionAssumption
<1> HIDE DEF maps, names, f
<1>3. \A x \in DOMAIN f : f[x] = entry("string") \/ f[x] = entry("mapString")
  BY <1>a
<1>4. "label" \in DOMAIN f => f["label"] = entry("mapString")
  BY <1>a, <1>b
<1>5. n.props = f \/ n.props = Put(f, "condition", entry("mapString"))
  BY DEF GenericNode, CommonStatusConditions, f
<1> HIDE DEF n
<1>6. \A x \in DOMAIN n.props : n.props[x] = entry("string") \/ n.props[x] = entry("mapString")
  BY <1>3, <1>5 DEF Put
<1>7. "label" \in DOMAIN n.props => n.props["label"] = entry("mapString")
  BY <1>4, <1>5 DEF Put
<1>8. Entries(n.props)
  BY <1>2, <1>6 DEF Entries, Stored
<1>9. LabelOk(n)
  BY <1>7 DEF LabelOk
<1> QED BY <1>1, <1>8, <1>9 DEF GoodNode, n

\* What is not an element of the first sequence is one of the second.
LEMMA ConcatIndices ==
  ASSUME NEW S, NEW T, NEW s \in Seq(S), NEW t \in Seq(T), NEW k \in 1..(Len(s) + Len(t)), k \notin 1..Len(s)
  PROVE  \E i \in 1..Len(t) : (s \o t)[k] = t[i]
<1>1. Len(s) \in Nat /\ Len(t) \in Nat
  OBVIOUS
<1>2. (s \o t)[k] = IF k <= Len(s) THEN s[k] ELSE t[k - Len(s)]
  OBVIOUS
<1>3. k - Len(s) \in 1..Len(t) /\ ~(k <= Len(s))
  BY <1>1
<1> QED BY <1>2, <1>3

AllDeclared(s) == \A k \in 1..Len(s) : Declared(s[k])
LabelOrder(s) == \A i, j \in 1..Len(s) : i < j /\ s[i].name = "label" => s[j].matchLabel = ""

\* Of N properties the first M are those without columns, the others columns.
SplitAt(M, N, all, bare) ==
    /\ M <= N /\ DOMAIN all = 1..N /\ DOMAIN bare = 1..M
    /\ \A k \in 1..M : k \in 1..N /\ all[k] = bare[k]
    /\ \A k \in 1..N : Declared(all[k]) /\ (M < k => all[k] \in NamedColumns)
    /\ \A i, j \in 1..N : i < j /\ all[i].name = "label" => all[j].matchLabel = ""

\* Properties that are declared, followed by columns.
LEMMA DeclaredThenColumns ==
  ASSUME NEW S, NEW own \in Seq(S), NEW tail \in Seq(NamedColumns),
         AllDeclared(own), LabelOrder(own), AllDeclared(tail)
  PROVE  \E M, N \in Nat : SplitAt(M, N, own \o tail, own)
<1> DEFINE all == own \o tail
           M == Len(own)
           N == Len(own) + Len(tail)
<1>1. /\ M \in Nat /\ N \in Nat /\ M <= N
      /\ DOMAIN own = 1..M /\ DOMAIN all = 1..N
      /\ \A k \in 1..M : k \in 1..N /\ all[k] = own[k]
  <2>1. M \in Nat /\ N \in Nat /\ M <= N /\ DOMAIN own = 1..M
    OBVIOUS
  <2>2. DOMAIN all = 1..N
    OBVIOUS
  <2>3. \A k \in 1..M : k \in 1..N /\ all[k] = own[k]
    <3> SUFFICES ASSUME NEW k \in 1..M PROVE k \in 1..N /\ all[k] = own[k]
      OBVIOUS
    <3>1. k \in 1..N
      OBVIOUS
    <3>2. all[k] = own[k]
      OBVIOUS
    <3> QED BY <3>1, <3>2
  <2> QED BY <2>1, <2>2, <2>3
<1>2. \A k \in 1..N : k \in 1..M \/ \E i \in 1..Len(tail) : all[k] = tail[i]
  BY ConcatIndices
<1>3. \A i \in 1..Len(tail) : tail[i] \in NamedColumns /\ tail[i].matchLabel = ""
  <2>1. \A i \in 1..Len(tail) : tail[i] \in NamedColumns
    BY ElementOfSeq
  <2> QED BY <2>1, ColumnFields
<1>4. \A k \in 1..M : Declared(own[k])
  BY DEF AllDeclared
<1>5. \A i, j \in 1..M : i < j /\ own[i].name = "label" => own[j].matchLabel = ""
  BY DEF LabelOrder
<1> HIDE DEF all, M, N
<1>6. ASSUME NEW k \in 1..N
      PROVE  Declared(all[k]) /\ (M < k => all[k] \in NamedColumns)
  <2>1. CASE k \in 1..M
    <3>1. all[k] = own[k] /\ Declared(own[k])
      BY <1>1, <1>4, <2>1
    <3>2. M \in Nat
      BY <1>1
    <3>3. ~(M < k)
      BY <2>1, <3>2
    <3> QED BY <3>1, <3>3
  <2>2. CASE k \notin 1..M
    <3>1. PICK i \in 1..Len(tail) : all[k] = tail[i]
      BY <1>2, <2>2
    <3> QED BY <1>3, <3>1 DEF AllDeclared
  <2> QED BY <2>1, <2>2
<1>7. ASSUME NEW i \in 1..N, NEW j \in 1..N, i < j, all[i].name = "label"
      PROVE  all[j].matchLabel = ""
  <2>1. CASE j \in 1..M
    <3>0. M \in Nat /\ N \in Nat
      BY <1>1
    <3>1. i \in 1..M
      BY <1>7, <2>1, <3>0
    <3>2. all[i] = own[i] /\ all[j] = own[j]
      BY <1>1, <2>1, <3>1
    <3> QED BY <1>5, <1>7, <2>1, <3>1, <3>2
  <2>2. CASE j \notin 1..M
    <3>1. PICK h \in 1..Len(tail) : all[j] = tail[h]
      BY <1>2, <2>2
    <3> QED BY <1>3, <3>1
  <2> QED BY <2>1, <2>2
<1>8. SplitAt(M, N, all, own)
  BY <1>1, <1>6, <1>7 DEF SplitAt
<1> QED BY <1>1, <1>8 DEF all

\* The properties of the loop: those of the entry, then the columns.
LEMMA PropertiesSplit ==
  ASSUME NEW r, r.own \in {c.own : c \in ReadConfigs}, NEW columns \in Mappings
  PROVE  \E M, N \in Nat : SplitAt(M, N, Properties(r, columns), Properties(r, <<>>))
<1>1. columns \in Seq(NamedColumns)
  <2>1. CASE columns = <<>>
    BY <2>1, EmptySeq
  <2>2. CASE columns # <<>>
    <3>1. PICK cs \in Columns : columns = PrinterColumns(cs)
      BY <2>2 DEF Mappings
    <3>2. cs \in Seq(Header)
      BY ExtractionAssumption
    <3> QED BY <3>1, <3>2, PrinterColumnsType
  <2> QED BY <2>1, <2>2
<1>2. \A k \in 1..Len(columns) : Declared(columns[k])
  <2> SUFFICES ASSUME NEW k \in 1..Len(columns) PROVE Declared(columns[k])
    OBVIOUS
  <2>1. columns[k] \in NamedColumns /\ k \in DOMAIN columns /\ columns # <<>>
    BY <1>1
  <2>2. PICK cs \in Columns : columns = PrinterColumns(cs)
    BY <2>1 DEF Mappings
  <2>a. columns[k] \in Range(columns)
    BY <2>1 DEF Range
  <2>3. columns[k] \in PropertySet
    BY <2>2, <2>a DEF PropertySet, ColumnProperties
  <2>4. columns[k].type = "" /\ columns[k].default = Nothing
    BY <2>1, ColumnFields
  <2> QED BY <2>3, <2>4 DEF Declared, DataType
<1>3. WellFormed(r.own.props) /\ \A k \in DOMAIN r.own.props : Declared(r.own.props[k])
  <2>1. PICK c \in ReadConfigs : r.own = c.own
    OBVIOUS
  <2>2. CASE c \in Config
    <3>1. WellFormed(c.own.props)
      BY <2>2, ExtractionAssumption
    <3>2. ASSUME NEW k \in DOMAIN c.own.props PROVE Declared(c.own.props[k])
      <4>a. c.own.props[k] \in Range(c.own.props)
        BY DEF Range
      <4>1. c.own.props[k] \in PropertySet
        BY <2>2, <4>a DEF PropertySet, ConfigProperties
      <4>2. c.own.props[k] \in Property
        <5> DEFINE s == c.own.props
        <5>1. s \in Seq(Property) /\ k \in DOMAIN s
          BY <3>1 DEF WellFormed
        <5> HIDE DEF s
        <5>2. s[k] \in Property
          BY <5>1
        <5> QED BY <5>2 DEF s
      <4>3. c.own.props[k].type \in DataType
        BY <4>2 DEF Property
      <4> QED BY <3>1, <4>1, <4>3 DEF Declared, WellFormed
    <3> QED BY <2>1, <3>1, <3>2
  <2>3. CASE c = [own |-> NoEntry, group |-> NoEntry]
    <3>1. r.own.props = <<>>
      BY <2>1, <2>3 DEF NoEntry
    <3> QED BY <3>1, EmptySeq DEF WellFormed
  <2> QED BY <2>1, <2>2, <2>3 DEF ReadConfigs
<1> DEFINE own == IF r.own.found THEN r.own.props ELSE <<>>
           tail == IF r.own.found THEN (IF r.own.priority # NoPriority THEN columns ELSE <<>>)
                   ELSE IF UsesColumns(r) THEN columns ELSE <<>>
<1>4. own \in Seq(Property) /\ (own = <<>> \/ own = r.own.props)
  BY <1>3, EmptySeq DEF WellFormed
<1>5. tail \in Seq(NamedColumns) /\ (tail = <<>> \/ tail = columns)
  BY <1>1, EmptySeq
<1>6. Properties(r, columns) = own \o tail /\ Properties(r, <<>>) = own
  <2>1. CASE r.own.found
    <3>1. own = r.own.props /\ own \o <<>> = own
      BY <1>4, <2>1
    <3>2. Properties(r, columns) = own \o tail
      BY <2>1 DEF Properties
    <3>3. Properties(r, <<>>) = own \o <<>>
      BY <2>1 DEF Properties
    <3> QED BY <3>1, <3>2, <3>3
  <2>2. CASE ~r.own.found
    <3>1. own = <<>> /\ own \o tail = tail
      BY <1>5, <2>2
    <3>2. Properties(r, columns) = tail
      BY <2>2 DEF Properties
    <3>3. Properties(r, <<>>) = <<>>
      BY <2>2 DEF Properties
    <3> QED BY <3>1, <3>2, <3>3
  <2> QED BY <2>1, <2>2
<1> HIDE DEF own, tail
<1>7. AllDeclared(own) /\ LabelOrder(own)
  <2>1. CASE own = <<>>
    BY <2>1 DEF AllDeclared, LabelOrder
  <2>2. CASE own = r.own.props
    <3>1. DOMAIN own = 1..Len(own)
      BY <1>4
    <3> QED BY <1>3, <2>2, <3>1 DEF WellFormed, AllDeclared, LabelOrder
  <2> QED BY <1>4, <2>1, <2>2
<1>8. AllDeclared(tail)
  <2>1. CASE tail = <<>>
    BY <2>1 DEF AllDeclared, LabelOrder
  <2>2. CASE tail = columns
    BY <1>2, <2>2 DEF AllDeclared
  <2> QED BY <1>5, <2>1, <2>2
<1>9. own \in Seq(Property) /\ tail \in Seq(NamedColumns)
  BY <1>4, <1>5
<1>10. \E M, N \in Nat : SplitAt(M, N, own \o tail, own)
  BY <1>7, <1>8, <1>9, DeclaredThenColumns
<1> QED BY <1>6, <1>10

\* After every turn the node is as declared, and until a field named label is
\* stored the label is a map of strings.
LEMMA TurnsGood ==
  ASSUME NEW e \in Events, NEW r, NEW M \in Nat, NEW N \in Nat,
         SplitAt(M, N, Properties(r, e.columns), Properties(r, <<>>)), NEW f, Turns(f, N, e, r)
  PROVE  \A k \in 0..N : GoodNode(f[k])
<1> DEFINE p(k) == Properties(r, e.columns)[k]
           Rest(k) == \A j \in 1..N : k < j => p(j).matchLabel = ""
           Ok(k) == GoodNode(f[k]) /\ (LabelOk(f[k]) \/ Rest(k))
           K == {k \in Nat : k <= N => Ok(k)}
<1>1. /\ \A k \in 1..N : Declared(p(k))
      /\ \A i, j \in 1..N : i < j /\ p(i).name = "label" => p(j).matchLabel = ""
  BY DEF SplitAt
<1>2. f[0] = GenericNode(e.object, r)
  BY DEF Turns
<1>3. \A k \in 1..N : f[k] = ExtractOne(f[k - 1], p(k), e.object, r.own.found, Threshold(r))
  BY DEF Turns
<1>4. e.object \in Object
  BY DEF Events
<1> HIDE DEF p
<1>5. Ok(0)
  BY <1>2, GenericNodeGood
<1>6. ASSUME NEW k \in Nat, k + 1 <= N, Ok(k)
      PROVE  Ok(k + 1)
  <2> HIDE DEF Rest
  <2>1. k + 1 \in 1..N /\ (k + 1) - 1 = k
    BY <1>6
  <2>2. f[k + 1] = ExtractOne(f[k], p(k + 1), e.object, r.own.found, Threshold(r)) /\ Declared(p(k + 1))
    BY <1>1, <1>3, <2>1
  <2>3. p(k + 1).matchLabel = "" \/ LabelOk(f[k])
    <3>0. k + 1 \in 1..N /\ k < k + 1
      BY <2>1
    <3>1. Rest(k) => p(k + 1).matchLabel = ""
      <4> SUFFICES ASSUME Rest(k) PROVE p(k + 1).matchLabel = ""
        OBVIOUS
      <4>1. \A j \in 1..N : k < j => p(j).matchLabel = ""
        BY DEF Rest
      <4> QED BY <3>0, <4>1, Zenon
    <3> QED BY <1>6, <3>1
  <2> DEFINE n == f[k]
             q == p(k + 1)
             next == f[k + 1]
  <2>4. /\ GoodNode(n) /\ Declared(q) /\ (q.matchLabel = "" \/ LabelOk(n))
        /\ next = ExtractOne(n, q, e.object, r.own.found, Threshold(r))
    BY <1>6, <2>2, <2>3
  <2> HIDE DEF n, q, next
  <2>5. GoodNode(next) /\ (LabelOk(n) /\ q.name # "label" => LabelOk(next))
    BY <1>4, <2>4, TurnEffect
  <2>6. q.name = "label" => Rest(k + 1)
    BY <1>1, <2>1 DEF q, Rest
  <2>7. Rest(k) => Rest(k + 1)
    <3> SUFFICES ASSUME Rest(k), NEW j \in 1..N, k + 1 < j PROVE p(j).matchLabel = ""
      BY DEF Rest
    <3>1. k < j
      BY <1>6
    <3> QED BY <3>1 DEF Rest
  <2> QED BY <1>6, <2>5, <2>6, <2>7 DEF n, q, next
<1>7. 0 \in K /\ \A k \in Nat : k \in K => k + 1 \in K
  <2> HIDE DEF Ok
  <2> QED BY <1>5, <1>6
<1>8. Nat \subseteq K
  <2> HIDE DEF K
  <2> QED BY <1>7, NatSetInduction
<1>9. \A k \in 0..N : Ok(k)
  <2> HIDE DEF Ok
  <2> QED BY <1>8
<1> QED BY <1>9 DEF p

\* Building a node never panics, and the node is as declared.
LEMMA BuildGood ==
  ASSUME NEW e \in Events, NEW r, r.own \in {c.own : c \in ReadConfigs}
  PROVE  GoodNode(BuildNode(e, r)) /\ BuildNode(e, r) # Panic
<1>1. e.columns \in Mappings
  BY DEF Events
<1>2. PICK M \in Nat, N \in Nat : SplitAt(M, N, Properties(r, e.columns), Properties(r, <<>>))
  BY <1>1, PropertiesSplit
<1>3. DOMAIN Properties(r, e.columns) = 1..N
  BY <1>2 DEF SplitAt
<1>4. PICK f : Turns(f, N, e, r) /\ BuildNode(e, r) = f[N]
  BY <1>3, BuildTurns
<1>5. GoodNode(f[N])
  <2>1. N \in 0..N
    OBVIOUS
  <2> QED BY <1>2, <1>4, <2>1, TurnsGood
<1>6. f[N] # Panic
  BY <1>5, NodeIsNoPanic DEF GoodNode
<1> QED BY <1>4, <1>5, <1>6

\* The node with columns has what the node without them has.
LEMMA BuildOnlyAdds ==
  ASSUME NEW e \in Events, NEW r, r.own \in {c.own : c \in ReadConfigs},
         NEW b, b.object = e.object, b.columns = <<>>
  PROVE  Keeps(BuildNode(b, r), BuildNode(e, r))
<1>1. e.columns \in Mappings /\ e.object \in Object
  BY DEF Events
<1>2. PICK M \in Nat, N \in Nat : SplitAt(M, N, Properties(r, e.columns), Properties(r, <<>>))
  BY <1>1, PropertiesSplit
<1> DEFINE all == Properties(r, e.columns)
           bare == Properties(r, <<>>)
           Turn(n, p) == ExtractOne(n, p, e.object, r.own.found, Threshold(r))
<1>3. /\ M <= N /\ DOMAIN all = 1..N /\ DOMAIN bare = 1..M
      /\ \A k \in 1..M : k \in 1..N /\ all[k] = bare[k]
      /\ \A k \in 1..N : Declared(all[k]) /\ (M < k => all[k] \in NamedColumns)
  BY <1>2 DEF SplitAt
<1>4. PICK f : Turns(f, N, e, r) /\ BuildNode(e, r) = f[N]
  BY <1>3, BuildTurns
<1>5. PICK g : Turns(g, M, b, r) /\ BuildNode(b, r) = g[M]
  BY <1>3, BuildTurns
<1>6. f[0] = g[0]
  BY <1>4, <1>5 DEF Turns
<1>7. /\ \A k \in 1..N : f[k] = Turn(f[k - 1], all[k])
      /\ \A k \in 1..M : g[k] = Turn(g[k - 1], bare[k])
  BY <1>4, <1>5 DEF Turns
<1>8. \A k \in 0..N : GoodNode(f[k])
  BY <1>2, <1>4, TurnsGood
<1> HIDE DEF all, bare, Turn
<1> DEFINE Same(k) == f[k] = g[k]
           K == {k \in Nat : k <= M => Same(k)}
<1>9. ASSUME NEW k \in Nat, k + 1 <= M, Same(k)
      PROVE  Same(k + 1)
  <2>1. k + 1 \in 1..M /\ (k + 1) - 1 = k
    BY <1>9
  <2>2. g[k + 1] = Turn(g[k], bare[k + 1])
    BY <1>7, <2>1
  <2>3. k + 1 \in 1..N /\ all[k + 1] = bare[k + 1]
    BY <1>3, <2>1
  <2>4. f[k + 1] = Turn(f[k], all[k + 1])
    BY <1>7, <2>1, <2>3
  <2> QED BY <1>9, <2>2, <2>3, <2>4
<1>10. f[M] = g[M]
  <2>1. 0 \in K /\ \A k \in Nat : k \in K => k + 1 \in K
    <3> HIDE DEF Same
    <3>1. Same(0)
      BY <1>6 DEF Same
    <3> QED BY <1>9, <3>1
  <2>2. Nat \subseteq K
    <3> HIDE DEF K
    <3> QED BY <2>1, NatSetInduction
  <2> QED BY <2>2
<1> DEFINE Has(k) == Keeps(g[M], f[k])
           L == {k \in Nat : M <= k /\ k <= N => Has(k)}
<1>11. ASSUME NEW k \in Nat, M <= k, k + 1 <= N, Has(k)
       PROVE  Has(k + 1)
  <2>1. k + 1 \in 1..N /\ (k + 1) - 1 = k /\ k \in 0..N /\ M < k + 1
    BY <1>11
  <2> DEFINE n == f[k]
             q == all[k + 1]
             next == f[k + 1]
  <2>2. GoodNode(n) /\ Declared(q) /\ q \in NamedColumns /\ next = Turn(n, q)
    BY <1>3, <1>7, <1>8, <2>1
  <2> HIDE DEF n, q, next
  <2>3. q.matchLabel = "" /\ ~q.metadataOnly
    BY <2>2, ColumnFields
  <2>4. next = ExtractOne(n, q, e.object, r.own.found, Threshold(r))
    BY <2>2 DEF Turn
  <2>5. Keeps(n, next)
    BY <1>1, <2>2, <2>3, <2>4, TurnEffect
  <2> QED BY <1>11, <2>5 DEF n, next, Keeps
<1>12. Has(N)
  <2>1. Has(M)
    BY <1>10 DEF Keeps
  <2>2. 0 \in L /\ \A k \in Nat : k \in L => k + 1 \in L
    <3> HIDE DEF Has
    <3>1. M <= 0 => M = 0
      OBVIOUS
    <3>2. ASSUME NEW k \in Nat, k \in L, M <= k + 1, k + 1 <= N PROVE Has(k + 1)
      <4>1. CASE M = k + 1
        BY <2>1, <4>1
      <4>2. CASE M # k + 1
        BY <1>11, <3>2, <4>2
      <4> QED BY <4>1, <4>2
    <3> QED BY <2>1, <3>1, <3>2
  <2>3. Nat \subseteq L
    <3> HIDE DEF L
    <3> QED BY <2>2, NatSetInduction
  <2> HIDE DEF Has
  <2> QED BY <1>3, <2>3
<1> QED BY <1>4, <1>5, <1>12

-----------------------------------------------------------------------------
(* The invariant is inductive.                                             *)

LEMMA IdleType == WorkType(Idle)
<1>1. IsRead(NoRead) /\ NoRead.own \in {c.own : c \in ReadConfigs}
  BY DEF IsRead, NoRead, Reads, ReadConfigs
<1> QED BY <1>1 DEF WorkType, Idle

LEMMA InitIInv == Init => ExtractionIInv
<1> SUFFICES ASSUME Init PROVE ExtractionIInv
  OBVIOUS
<1>1. CRDType
  <2>1. crd = NoCRD /\ crdEvents = <<>> /\ mapping = <<>> /\ syncPending = FALSE /\ running = FALSE
          /\ staleColumns = FALSE
    BY DEF Init
  <2>2. NoCRD \in CRDs(Columns \cup {<<>>}) /\ ~NoCRD.exists
    BY DEF NoCRD, CRDs
  <2>3. <<>> \in Seq([add : BOOLEAN, crd : CRDs(Columns)]) /\ <<>> \in Mappings
    BY EmptySeq DEF Mappings
  <2> QED BY <2>1, <2>2, <2>3 DEF CRDType
<1>2. ConfigType
  BY DEF Init, ConfigType
<1>3. WorkerType
  <2>1. worker = [w \in Worker |-> Idle] /\ outbox = NoEvent /\ newest = "none"
    BY DEF Init
  <2> QED BY <2>1, IdleType DEF WorkerType, Places
<1>4. GoodNode(node)
  BY DEF Init, NoNode, GoodNode, IsNode, Entries
<1>5. Delivery
  BY DEF Init, Delivery
<1> QED BY <1>1, <1>2, <1>3, <1>4, <1>5 DEF ExtractionIInv

\* A write of the CRD reaches the watch as it was made.
LEMMA NewCRD ==
  ASSUME CRDType, NEW new \in CRDs(Columns), crd' = new,
         crdEvents' = Append(crdEvents, [add |-> ~crd.exists, crd |-> new]), UNCHANGED informerVars
  PROVE  CRDType'
<1> DEFINE event == [add |-> ~crd.exists, crd |-> new]
<1>1. event \in [add : BOOLEAN, crd : CRDs(Columns)]
  BY DEF CRDType, CRDs
<1>2. crd' \in CRDs(Columns \cup {<<>>}) /\ (crd'.exists => crd'.columns \in Columns)
  BY DEF CRDs
<1> HIDE DEF event
<1>3. crdEvents' \in Seq([add : BOOLEAN, crd : CRDs(Columns)])
  BY <1>1, AppendProperties DEF CRDType, event
<1> QED BY <1>2, <1>3 DEF CRDType, informerVars

\* What the CRD informer keeps is made of what a CRD may have.
LEMMA CRDTypeStep ==
  ASSUME ExtractionIInv, [Next]_vars
  PROVE  CRDType'
<1>1. ASSUME NEW cs \in Columns, CreateCRD(cs)
      PROVE  CRDType'
  <2> DEFINE new == [established |-> FALSE, columns |-> cs, exists |-> TRUE]
  <2>1. new \in CRDs(Columns)
    BY DEF CRDs
  <2>2. crd' = new /\ crdEvents' = Append(crdEvents, [add |-> ~crd.exists, crd |-> new])
    BY <1>1 DEF CreateCRD, WriteCRD
  <2>3. UNCHANGED informerVars
    BY <1>1 DEF CreateCRD, WriteCRD
  <2> QED BY <2>1, <2>2, <2>3, NewCRD DEF ExtractionIInv
<1>2. ASSUME NEW cs \in Columns, EditColumns(cs)
      PROVE  CRDType'
  <2> DEFINE new == [crd EXCEPT !.columns = cs]
  <2>1. new \in CRDs(Columns)
    BY DEF ExtractionIInv, CRDType, CRDs
  <2>2. crd' = new /\ crdEvents' = Append(crdEvents, [add |-> ~crd.exists, crd |-> new])
    BY <1>2 DEF EditColumns, WriteCRD
  <2>3. UNCHANGED informerVars
    BY <1>2 DEF EditColumns, WriteCRD
  <2> QED BY <2>1, <2>2, <2>3, NewCRD DEF ExtractionIInv
<1>3. CASE Establish
  <2> DEFINE new == [crd EXCEPT !.established = TRUE]
  <2>1. new \in CRDs(Columns)
    BY <1>3 DEF ExtractionIInv, CRDType, CRDs, Establish
  <2>2. crd' = new /\ crdEvents' = Append(crdEvents, [add |-> ~crd.exists, crd |-> new])
    BY <1>3 DEF Establish, WriteCRD
  <2>3. UNCHANGED informerVars
    BY <1>3 DEF Establish, WriteCRD
  <2> QED BY <2>1, <2>2, <2>3, NewCRD DEF ExtractionIInv
<1>4. CASE HandleCRD
  <2> DEFINE e == Head(crdEvents)
  <2>1. crdEvents # <<>> /\ crdEvents \in Seq([add : BOOLEAN, crd : CRDs(Columns)])
    BY <1>4 DEF HandleCRD, ExtractionIInv, CRDType
  <2>2. e \in [add : BOOLEAN, crd : CRDs(Columns)] /\ crdEvents' \in Seq([add : BOOLEAN, crd : CRDs(Columns)])
    <3>1. crdEvents' = Tail(crdEvents)
      BY <1>4 DEF HandleCRD
    <3> QED BY <2>1, <3>1, HeadTailProperties
  <2>3. e.crd.established \in BOOLEAN /\ e.crd.columns \in Columns
    BY <2>2 DEF CRDs
  <2>4. mapping' \in Mappings
    <3>1. mapping' = IF e.add \/ e.crd.established THEN PrinterColumns(e.crd.columns) ELSE mapping
      BY <1>4 DEF HandleCRD
    <3> QED BY <2>3, <3>1 DEF Mappings, ExtractionIInv, CRDType
  <2>5. syncPending' \in BOOLEAN /\ staleColumns' \in BOOLEAN
    BY <1>4, <2>3 DEF HandleCRD, ExtractionIInv, CRDType
  <2> QED BY <1>4, <2>2, <2>4, <2>5 DEF HandleCRD, ExtractionIInv, CRDType
<1>5. CASE OtherCRD
  BY <1>5 DEF ExtractionIInv, CRDType, OtherCRD, crdVars, configVars, sendVars
<1>6. CASE SyncInformers
  BY <1>6 DEF ExtractionIInv, CRDType, SyncInformers, crdVars, configVars
<1>7. ASSUME NEW c \in Config, StartReload(c)
      PROVE  CRDType'
  BY <1>7 DEF ExtractionIInv, CRDType, StartReload, crdVars, informerVars, sendVars
<1>8. CASE Swap
  BY <1>8 DEF ExtractionIInv, CRDType, Swap, crdVars, informerVars, sendVars
<1>9. CASE Tell
  BY <1>9 DEF ExtractionIInv, CRDType, Tell, crdVars, informerVars, sendVars
<1>10. CASE DispatchResync
  BY <1>10 DEF ExtractionIInv, CRDType, DispatchResync, crdVars, informerVars, configVars
<1>11. ASSUME NEW o \in Object, ChangeObject(o)
      PROVE  CRDType'
  BY <1>11 DEF ExtractionIInv, CRDType, ChangeObject, crdVars, informerVars, configVars
<1>12. CASE MakeEvent
  BY <1>12 DEF ExtractionIInv, CRDType, MakeEvent, crdVars, configVars
<1>13. ASSUME NEW w \in Worker, WorkerStep(w)
       PROVE  CRDType'
  BY <1>13 DEF ExtractionIInv, CRDType, WorkerStep, TakeEvent, ReadForAnnotations, ReadOwn, ReadGroupAndBuild,
      Deliver, crdVars, informerVars, configVars, sendVars
<1>14. CASE UNCHANGED vars
  BY <1>14 DEF ExtractionIInv, CRDType, vars, crdVars, informerVars, configVars, sendVars
<1> QED BY <1>1, <1>2, <1>3, <1>4, <1>5, <1>6, <1>7, <1>8, <1>9, <1>10, <1>11, <1>12, <1>13, <1>14 DEF Next

\* A reload swaps, then tells.
LEMMA ConfigTypeStep ==
  ASSUME ExtractionIInv, [Next]_vars
  PROVE  ConfigType'
<1>1. ASSUME NEW cs \in Columns, CreateCRD(cs)
      PROVE  ConfigType'
  BY <1>1 DEF ExtractionIInv, ConfigType, CreateCRD, WriteCRD, informerVars, configVars, sendVars
<1>2. ASSUME NEW cs \in Columns, EditColumns(cs)
      PROVE  ConfigType'
  BY <1>2 DEF ExtractionIInv, ConfigType, EditColumns, WriteCRD, informerVars, configVars, sendVars
<1>3. CASE Establish
  BY <1>3 DEF ExtractionIInv, ConfigType, Establish, WriteCRD, informerVars, configVars, sendVars
<1>4. CASE HandleCRD
  BY <1>4 DEF ExtractionIInv, ConfigType, HandleCRD, configVars, sendVars
<1>5. CASE OtherCRD
  BY <1>5 DEF ExtractionIInv, ConfigType, OtherCRD, crdVars, configVars, sendVars
<1>6. CASE SyncInformers
  BY <1>6 DEF ExtractionIInv, ConfigType, SyncInformers, crdVars, configVars
<1>7. ASSUME NEW c \in Config, StartReload(c)
      PROVE  ConfigType'
  BY <1>7 DEF ExtractionIInv, ConfigType, StartReload, crdVars, informerVars, sendVars
<1>8. CASE Swap
  <2>1. PICK c \in Config : reload = <<[step |-> "swap", config |-> c], [step |-> "tell", config |-> c]>>
    BY <1>8 DEF Swap, ExtractionIInv, ConfigType
  <2>2. config' = c /\ reload' = <<[step |-> "tell", config |-> c]>>
    BY <1>8, <2>1 DEF Swap
  <2> QED BY <1>8, <2>2 DEF ExtractionIInv, ConfigType, Swap, sendVars
<1>9. CASE Tell
  <2>1. PICK c \in Config : reload = <<[step |-> "tell", config |-> c]>>
    BY <1>9 DEF Tell, ExtractionIInv, ConfigType
  <2>2. reload' = <<>>
    BY <1>9, <2>1 DEF Tell
  <2> QED BY <1>9, <2>2 DEF ExtractionIInv, ConfigType, Tell, sendVars
<1>10. CASE DispatchResync
  BY <1>10 DEF ExtractionIInv, ConfigType, DispatchResync, crdVars, informerVars, configVars
<1>11. ASSUME NEW o \in Object, ChangeObject(o)
      PROVE  ConfigType'
  BY <1>11 DEF ExtractionIInv, ConfigType, ChangeObject, crdVars, informerVars, configVars
<1>12. CASE MakeEvent
  BY <1>12 DEF ExtractionIInv, ConfigType, MakeEvent, crdVars, configVars
<1>13. ASSUME NEW w \in Worker, WorkerStep(w)
       PROVE  ConfigType'
  BY <1>13 DEF ExtractionIInv, ConfigType, WorkerStep, TakeEvent, ReadForAnnotations, ReadOwn, ReadGroupAndBuild,
      Deliver, crdVars, informerVars, configVars, sendVars
<1>14. CASE UNCHANGED vars
  BY <1>14 DEF ExtractionIInv, ConfigType, vars, crdVars, informerVars, configVars, sendVars
<1> QED BY <1>1, <1>2, <1>3, <1>4, <1>5, <1>6, <1>7, <1>8, <1>9, <1>10, <1>11, <1>12, <1>13, <1>14 DEF Next

\* A worker's step changes what that worker has.
LEMMA OneWorker ==
  ASSUME WorkerType, NEW w \in Worker, NEW x, worker' = [worker EXCEPT ![w] = x]
  PROVE  /\ worker' = [v \in Worker |-> worker'[v]]
         /\ worker'[w] = x /\ \A v \in Worker : v # w => worker'[v] = worker[v]
         /\ WorkType(x) => \A v \in Worker : WorkType(worker'[v])
<1>1. worker' = [v \in Worker |-> IF v = w THEN x ELSE worker[v]]
  BY DEF WorkerType
<1>2. worker'[w] = x /\ \A v \in Worker : v # w => worker'[v] = worker[v]
  BY <1>1
<1> QED BY <1>1, <1>2 DEF WorkerType

\* What a worker has after each of its steps.
LEMMA WorkerReads ==
  ASSUME ExtractionIInv, NEW w \in Worker, ReadForAnnotations(w) \/ ReadOwn(w) \/ ReadGroupAndBuild(w)
  PROVE  \E x : /\ worker' = [worker EXCEPT ![w] = x] /\ WorkType(x)
                /\ worker[w].phase # "idle" /\ x.phase # "idle" /\ x.event = worker[w].event
                /\ ReadSoFar(worker[w]) => ReadSoFar(x)
<1> DEFINE old == worker[w]
<1>1. WorkType(old) /\ worker = [v \in Worker |-> worker[v]] /\ config \in ReadConfigs
  BY DEF ExtractionIInv, WorkerType, ConfigType, ReadConfigs
<1> HIDE DEF old
<1>2. CASE ReadForAnnotations(w)
  <2> DEFINE read == [old.read EXCEPT !.annotated = Annotated(config.own)]
             x == [old EXCEPT !.phase = "own", !.read = read]
  <2>1. old.phase = "annotations" /\ worker' = [worker EXCEPT ![w] = x]
    BY <1>1, <1>2 DEF ReadForAnnotations, old
  <2>3. IsRead(read) /\ read.own = old.read.own /\ read.annotated = Annotated(config.own)
    BY <1>1 DEF WorkType, IsRead
  <2> HIDE DEF read
  <2>2. /\ x.phase = "own" /\ x.event = old.event /\ x.read = read /\ x.built = NoNode
        /\ DOMAIN x = {"phase", "event", "read", "built"}
    BY <1>1, <2>1 DEF WorkType
  <2> HIDE DEF x
  <2>4. WorkType(x) /\ ReadSoFar(x)
    BY <1>1, <2>1, <2>2, <2>3 DEF WorkType, ReadSoFar
  <2> QED BY <2>1, <2>2, <2>4 DEF old
<1>3. CASE ReadOwn(w)
  <2> DEFINE read == [old.read EXCEPT !.own = config.own]
             x == [old EXCEPT !.phase = "group", !.read = read]
  <2>1. old.phase = "own" /\ worker' = [worker EXCEPT ![w] = x]
    BY <1>1, <1>3 DEF ReadOwn, old
  <2>3. IsRead(read) /\ read.own = config.own /\ read.annotated = old.read.annotated
    BY <1>1 DEF WorkType, IsRead
  <2> HIDE DEF read
  <2>2. /\ x.phase = "group" /\ x.event = old.event /\ x.read = read /\ x.built = NoNode
        /\ DOMAIN x = {"phase", "event", "read", "built"}
    BY <1>1, <2>1 DEF WorkType
  <2> HIDE DEF x
  <2>4. WorkType(x) /\ (ReadSoFar(old) => ReadSoFar(x))
    BY <1>1, <2>1, <2>2, <2>3 DEF WorkType, ReadSoFar
  <2> QED BY <2>1, <2>2, <2>4 DEF old
<1>4. CASE ReadGroupAndBuild(w)
  <2> DEFINE read == [old.read EXCEPT !.group = config.group]
             x == [phase |-> "built", event |-> old.event, read |-> read, built |-> BuildNode(old.event, read)]
  <2>1. old.phase = "group" /\ worker' = [worker EXCEPT ![w] = x]
    BY <1>1, <1>4 DEF ReadGroupAndBuild, old
  <2>2. IsRead(read) /\ read.own = old.read.own /\ read.annotated = old.read.annotated
        /\ read.group = config.group
    BY <1>1 DEF WorkType, IsRead
  <2> HIDE DEF read
  <2>3. /\ x.phase = "built" /\ x.event = old.event /\ x.read = read
        /\ x.built = BuildNode(old.event, read)
        /\ DOMAIN x = {"phase", "event", "read", "built"}
    OBVIOUS
  <2> HIDE DEF x
  <2>4. WorkType(x)
    BY <1>1, <2>1, <2>2, <2>3 DEF WorkType
  <2>5. ReadSoFar(old) => ReadSoFar(x)
    BY <2>1, <2>2, <2>3 DEF ReadSoFar
  <2> QED BY <2>1, <2>3, <2>4, <2>5 DEF old
<1> QED BY <1>2, <1>3, <1>4

\* An event is passed on whole, and what is read of the config has been in force.
LEMMA WorkerTypeStep ==
  ASSUME ExtractionIInv, [Next]_vars
  PROVE  WorkerType'
<1>1. ASSUME NEW cs \in Columns, CreateCRD(cs)
      PROVE  WorkerType'
  BY <1>1 DEF ExtractionIInv, WorkerType, nodeVars, CreateCRD, WriteCRD, informerVars, configVars, sendVars
<1>2. ASSUME NEW cs \in Columns, EditColumns(cs)
      PROVE  WorkerType'
  BY <1>2 DEF ExtractionIInv, WorkerType, nodeVars, EditColumns, WriteCRD, informerVars, configVars, sendVars
<1>3. CASE Establish
  BY <1>3 DEF ExtractionIInv, WorkerType, nodeVars, Establish, WriteCRD, informerVars, configVars, sendVars
<1>4. CASE HandleCRD
  BY <1>4 DEF ExtractionIInv, WorkerType, nodeVars, HandleCRD, configVars, sendVars
<1>5. CASE OtherCRD
  BY <1>5 DEF ExtractionIInv, WorkerType, nodeVars, OtherCRD, crdVars, configVars, sendVars
<1>6. CASE SyncInformers
  BY <1>6 DEF ExtractionIInv, WorkerType, nodeVars, SyncInformers, crdVars, configVars
<1>7. ASSUME NEW c \in Config, StartReload(c)
      PROVE  WorkerType'
  BY <1>7 DEF ExtractionIInv, WorkerType, nodeVars, StartReload, crdVars, informerVars, sendVars
<1>8. CASE Swap
  BY <1>8 DEF ExtractionIInv, WorkerType, nodeVars, Swap, crdVars, informerVars, sendVars
<1>9. CASE Tell
  BY <1>9 DEF ExtractionIInv, WorkerType, nodeVars, Tell, crdVars, informerVars, sendVars
<1>10. CASE DispatchResync
  BY <1>10 DEF ExtractionIInv, WorkerType, nodeVars, DispatchResync, crdVars, informerVars, configVars
<1>11. ASSUME NEW o \in Object, ChangeObject(o)
      PROVE  WorkerType'
  BY <1>11 DEF ExtractionIInv, WorkerType, nodeVars, ChangeObject, crdVars, informerVars, configVars
<1>12. CASE MakeEvent
  <2>1. outbox' \in Events /\ UNCHANGED worker /\ newest' = "outbox"
    BY <1>12 DEF MakeEvent, Events, ExtractionIInv, CRDType, ConfigType
  <2> QED BY <2>1 DEF ExtractionIInv, WorkerType, Places
<1>13. ASSUME NEW w \in Worker, WorkerStep(w)
       PROVE  WorkerType'
  <2>0. WorkerType
    BY DEF ExtractionIInv
  <2>1. CASE TakeEvent(w)
    <3> DEFINE x == [Idle EXCEPT !.phase = "annotations", !.event = outbox]
    <3>1. outbox \in Events /\ outbox' = NoEvent /\ newest' = w /\ worker' = [worker EXCEPT ![w] = x]
      BY <2>0, <2>1 DEF TakeEvent, WorkerType
    <3>2. /\ x.phase = "annotations" /\ x.event = outbox /\ x.read = NoRead /\ x.built = NoNode
          /\ DOMAIN x = {"phase", "event", "read", "built"}
      BY DEF Idle
    <3> HIDE DEF x
    <3>3. IsRead(NoRead) /\ NoRead.own \in {c.own : c \in ReadConfigs}
      BY DEF IsRead, NoRead, Reads, ReadConfigs
    <3>4. WorkType(x)
      BY <3>1, <3>2, <3>3 DEF WorkType
    <3> QED BY <2>0, <3>1, <3>4, OneWorker DEF WorkerType
  <2>2. CASE ReadForAnnotations(w) \/ ReadOwn(w) \/ ReadGroupAndBuild(w)
    <3>1. PICK x : worker' = [worker EXCEPT ![w] = x] /\ WorkType(x)
      BY <2>2, WorkerReads
    <3>2. UNCHANGED <<outbox, newest>>
      BY <2>2 DEF ReadForAnnotations, ReadOwn, ReadGroupAndBuild, sendVars, nodeVars
    <3> QED BY <2>0, <3>1, <3>2, OneWorker DEF WorkerType
  <2>3. CASE Deliver(w)
    <3>1. worker' = [worker EXCEPT ![w] = Idle] /\ UNCHANGED outbox
      BY <2>3 DEF Deliver, sendVars
    <3>2. \/ newest' = newest
          \/ newest' = "node" /\ newest = w
          \/ newest' = "overtaken" /\ newest = "node"
      BY <2>3 DEF Deliver, nodeVars
    <3>3. newest' \in Worker \cup Places /\ (outbox # NoEvent => newest' = "outbox")
      BY <2>0, <3>2, ExtractionAssumption DEF WorkerType, Places
    <3> QED BY <2>0, <3>1, <3>3, IdleType, OneWorker DEF WorkerType
  <2> QED BY <1>13, <2>1, <2>2, <2>3 DEF WorkerStep
<1>14. CASE UNCHANGED vars
  BY <1>14 DEF ExtractionIInv, WorkerType, vars, crdVars, informerVars, configVars, sendVars, nodeVars
<1> QED BY <1>1, <1>2, <1>3, <1>4, <1>5, <1>6, <1>7, <1>8, <1>9, <1>10, <1>11, <1>12, <1>13, <1>14 DEF Next

\* What a worker has built is a node, and as declared.
LEMMA BuiltGood ==
  ASSUME ExtractionIInv, NEW w \in Worker, worker[w].phase = "built"
  PROVE  /\ GoodNode(worker[w].built) /\ worker[w].built # Panic
         /\ worker[w].built = BuildNode(worker[w].event, worker[w].read)
         /\ Keeps(BuildNode([worker[w].event EXCEPT !.columns = <<>>], worker[w].read), worker[w].built)
<1> DEFINE e == worker[w].event
           r == worker[w].read
<1>1. /\ e \in Events /\ r.own \in {c.own : c \in ReadConfigs}
      /\ worker[w].built = BuildNode(e, r)
  BY DEF ExtractionIInv, WorkerType, WorkType
<1> HIDE DEF e, r
<1> DEFINE b == [e EXCEPT !.columns = <<>>]
<1>2. b.object = e.object /\ b.columns = <<>>
  BY <1>1 DEF Events
<1> HIDE DEF b
<1>3. Keeps(BuildNode(b, r), BuildNode(e, r))
  BY <1>1, <1>2, BuildOnlyAdds
<1> QED BY <1>1, <1>3, BuildGood DEF b, e, r

LEMMA GoodNodeStep ==
  ASSUME ExtractionIInv, [Next]_vars
  PROVE  GoodNode(node')
<1>1. ASSUME NEW w \in Worker, Deliver(w)
      PROVE  GoodNode(node')
  <2>1. worker[w].phase = "built" /\ (node' = node \/ node' = worker[w].built)
    BY <1>1 DEF Deliver, nodeVars
  <2> QED BY <2>1, BuiltGood DEF ExtractionIInv
<1>2. CASE node' = node
  BY <1>2 DEF ExtractionIInv
<1>3. node' = node \/ \E w \in Worker : Deliver(w)
  BY DEF Next, vars, nodeVars, CreateCRD, EditColumns, Establish, WriteCRD, HandleCRD, OtherCRD, SyncInformers,
         StartReload, Swap, Tell, DispatchResync, ChangeObject, MakeEvent, WorkerStep, TakeEvent,
         ReadForAnnotations, ReadOwn, ReadGroupAndBuild
<1> QED BY <1>1, <1>2, <1>3

\* What a way depends on.
wayVars == <<running, toSend, resync, reload, outbox, worker, node, newest, object, config>>

LEMMA ColumnsLeaveTheWay ==
  ASSUME Delivery, UNCHANGED wayVars, running => staleColumns' \/ (mapping' = mapping /\ ~staleColumns)
  PROVE  Delivery'
<1> SUFFICES ASSUME running PROVE Asked' \/ Sent' \/ Taken' \/ Settled' \/ newest' = "overtaken"
  BY DEF wayVars, Delivery
<1>1. Asked \/ Sent \/ Taken \/ Settled \/ newest = "overtaken"
  BY DEF Delivery
<1>2. Asked => Asked'
  BY DEF wayVars, Asked
<1>3. Sent => Sent'
  BY DEF wayVars, Sent, Current
<1>4. Taken => Taken'
  BY DEF wayVars, Taken, Fresh, Current, ReadSoFar
<1>5. Settled => Settled'
  BY DEF wayVars, Settled, UpToDate
<1> QED BY <1>1, <1>2, <1>3, <1>4, <1>5 DEF wayVars

LEMMA DeliveryStep ==
  ASSUME ExtractionIInv, [Next]_vars
  PROVE  Delivery'
<1>0. Delivery /\ ConfigType /\ WorkerType
  BY DEF ExtractionIInv
<1>1. ASSUME UNCHANGED <<wayVars, mapping, staleColumns>>
      PROVE  Delivery'
  <2>1. UNCHANGED wayVars /\ mapping' = mapping /\ staleColumns' = staleColumns
    BY <1>1 DEF wayVars
  <2>2. staleColumns \in BOOLEAN
    BY DEF ExtractionIInv, CRDType
  <2> QED BY <1>0, <2>1, <2>2, ColumnsLeaveTheWay
<1>2. CASE HandleCRD
  <2>1. UNCHANGED wayVars
    BY <1>2 DEF HandleCRD, wayVars, configVars, sendVars, nodeVars
  <2>2. staleColumns' = (staleColumns \/ (running /\ mapping' # mapping)) /\ staleColumns \in BOOLEAN
    BY <1>2 DEF HandleCRD, ExtractionIInv, CRDType
  <2> QED BY <1>0, <2>1, <2>2, ColumnsLeaveTheWay
<1>3. CASE SyncInformers
  <2>1. UNCHANGED <<resync, reload, outbox, worker, node, newest, object, config, mapping, staleColumns>>
    BY <1>3 DEF SyncInformers, configVars, nodeVars
  <2>2. CASE ~running
    <3>1. running' => toSend'
      BY <1>3, <2>2 DEF SyncInformers
    <3> QED BY <3>1 DEF Delivery, Asked
  <2>3. CASE running
    <3>1. UNCHANGED <<wayVars, mapping, staleColumns>>
      BY <1>3, <2>1, <2>3 DEF SyncInformers, wayVars, ExtractionIInv, ConfigType, CRDType
    <3> QED BY <1>1, <3>1
  <2> QED BY <2>2, <2>3
<1>4. ASSUME NEW c \in Config, StartReload(c)
      PROVE  Delivery'
  <2>1. reload' # <<>>
    BY <1>4 DEF StartReload
  <2> QED BY <2>1 DEF Delivery, Asked
<1>5. CASE Swap
  <2>1. PICK c \in Config : reload = <<[step |-> "swap", config |-> c], [step |-> "tell", config |-> c]>>
    BY <1>0, <1>5 DEF Swap, ConfigType
  <2>2. reload' # <<>>
    BY <1>5, <2>1 DEF Swap
  <2> QED BY <2>2 DEF Delivery, Asked
<1>6. CASE Tell
  BY <1>6 DEF Tell, Delivery, Asked
<1>7. CASE DispatchResync
  <2>1. running' => toSend'
    BY <1>7 DEF DispatchResync, informerVars
  <2> QED BY <2>1 DEF Delivery, Asked
<1>8. ASSUME NEW o \in Object, ChangeObject(o)
      PROVE  Delivery'
  <2>1. running' => toSend'
    BY <1>8 DEF ChangeObject, informerVars
  <2> QED BY <2>1 DEF Delivery, Asked
<1>9. CASE MakeEvent
  <2> DEFINE event == [object |-> object, columns |-> mapping]
  <2>1. outbox' = event /\ newest' = "outbox" /\ object' = object /\ mapping' = mapping
    BY <1>9 DEF MakeEvent
  <2>2. DOMAIN event = {"object", "columns"} /\ DOMAIN NoEvent = {"object"}
    BY DEF NoEvent
  <2>3. event # NoEvent
    BY <2>2
  <2> QED BY <2>1, <2>3 DEF Delivery, Sent, Current
<1>10. ASSUME NEW w \in Worker, TakeEvent(w)
       PROVE  Delivery'
  <2> DEFINE x == [Idle EXCEPT !.phase = "annotations", !.event = outbox]
  <2>1. /\ newest = "outbox" /\ newest' = w /\ worker' = [worker EXCEPT ![w] = x]
        /\ UNCHANGED <<running, toSend, resync, reload, object, mapping, staleColumns>>
    BY <1>0, <1>10 DEF TakeEvent, WorkerType, informerVars, configVars
  <2>2. x.phase = "annotations" /\ x.event = outbox
    BY DEF Idle
  <2>3. worker'[w] = x
    BY <1>0, <2>1, OneWorker
  <2> HIDE DEF x
  <2>4. Sent => Taken'
    BY <2>1, <2>2, <2>3 DEF Sent, Taken, Fresh, Current, ReadSoFar
  <2>5. running => Asked \/ Sent
    BY <1>0, <2>1, ExtractionAssumption DEF Delivery, Taken, Settled, Places
  <2> QED BY <2>1, <2>4, <2>5 DEF Delivery, Asked
<1>11. ASSUME NEW w \in Worker, ReadForAnnotations(w) \/ ReadOwn(w) \/ ReadGroupAndBuild(w)
       PROVE  Delivery'
  <2>1. PICK x : /\ worker' = [worker EXCEPT ![w] = x]
                 /\ x.phase # "idle" /\ x.event = worker[w].event
                 /\ ReadSoFar(worker[w]) => ReadSoFar(x)
    BY <1>11, WorkerReads
  <2>2. UNCHANGED <<running, toSend, resync, reload, outbox, node, newest, object, mapping, staleColumns, config>>
    BY <1>11 DEF ReadForAnnotations, ReadOwn, ReadGroupAndBuild, informerVars, configVars, sendVars, nodeVars
  <2>3. worker'[w] = x /\ \A v \in Worker : v # w => worker'[v] = worker[v]
    BY <1>0, <2>1, OneWorker
  <2>4. Taken => Taken'
    <3> SUFFICES ASSUME Taken PROVE Taken'
      OBVIOUS
    <3>1. newest \in Worker /\ newest' = newest /\ Fresh(worker[newest])
      BY <2>2 DEF Taken
    <3>2. CASE newest = w
      <4>1. Fresh(x)
        BY <2>1, <3>1, <3>2 DEF Fresh
      <4>2. x = worker'[newest']
        BY <2>3, <3>1, <3>2
      <4> QED BY <2>2, <3>1, <4>1, <4>2 DEF Taken, Fresh, Current, ReadSoFar
    <3>3. CASE newest # w
      <4>1. worker'[newest'] = worker[newest]
        BY <2>3, <3>1, <3>3
      <4> QED BY <2>2, <3>1, <4>1 DEF Taken, Fresh, Current, ReadSoFar
    <3> QED BY <3>2, <3>3
  <2>5. Sent => Sent'
    BY <2>2 DEF Sent, Current
  <2>6. Settled => Settled'
    BY <2>2 DEF Settled, UpToDate
  <2> QED BY <1>0, <2>2, <2>4, <2>5, <2>6 DEF Delivery, Asked
<1>12. ASSUME NEW w \in Worker, Deliver(w)
       PROVE  Delivery'
  <2>1. /\ worker[w].phase = "built" /\ worker' = [worker EXCEPT ![w] = Idle]
        /\ UNCHANGED <<running, toSend, resync, reload, outbox, object, mapping, staleColumns, config>>
    BY <1>12 DEF Deliver, informerVars, configVars, sendVars
  <2>2. worker[w].built # Panic /\ worker[w].built = BuildNode(worker[w].event, worker[w].read)
    BY <2>1, BuiltGood
  <2>3. /\ node' = worker[w].built
        /\ newest = w => newest' = "node"
        /\ newest # w /\ newest = "node" => newest' = "overtaken"
        /\ newest # w /\ newest # "node" => newest' = newest
    <3>1. w # "node"
      BY ExtractionAssumption DEF Places
    <3> QED BY <1>12, <2>2, <3>1 DEF Deliver
  <2>4. \A v \in Worker : v # w => worker'[v] = worker[v]
    BY <1>0, <2>1, OneWorker
  <2>5. newest = w /\ Taken => Settled'
    <3> SUFFICES ASSUME newest = w, Taken, ~staleColumns
                 PROVE  node' = BuildNode([object |-> object, columns |-> mapping], Reads(config))
      BY <2>1, <2>3 DEF Settled, UpToDate
    <3> DEFINE x == worker[w]
    <3>1. x.event.object = object /\ x.event.columns = mapping /\ x.event \in Events
      BY <1>0, <2>1 DEF Taken, Fresh, Current, WorkerType, WorkType
    <3>2. x.event = [object |-> object, columns |-> mapping]
      BY <3>1 DEF Events
    <3>3. /\ x.read.annotated = Annotated(config.own) /\ x.read.own = config.own /\ x.read.group = config.group
          /\ IsRead(x.read)
      BY <1>0, <2>1 DEF Taken, Fresh, ReadSoFar, WorkerType, WorkType
    <3>4. x.read = Reads(config)
      BY <3>3 DEF Reads, IsRead
    <3> QED BY <2>2, <2>3, <3>2, <3>4
  <2>6. newest # w /\ Taken => Taken'
    <3> SUFFICES ASSUME newest # w, Taken PROVE Taken'
      OBVIOUS
    <3>1. newest \in Worker /\ newest # "node"
      BY ExtractionAssumption DEF Taken, Places
    <3>2. newest' = newest /\ worker'[newest'] = worker[newest]
      BY <2>3, <2>4, <3>1
    <3> QED BY <2>1, <3>1, <3>2 DEF Taken, Fresh, Current, ReadSoFar
  <2>7. w \notin Places
    BY ExtractionAssumption
  <2>8. Sent => Sent'
    BY <2>1, <2>3, <2>7 DEF Sent, Current, Places
  <2>9. Settled => newest' = "overtaken"
    BY <2>3, <2>7 DEF Settled, Places
  <2>10. newest = "overtaken" => newest' = "overtaken"
    BY <2>3, <2>7 DEF Places
  <2> QED BY <1>0, <2>1, <2>5, <2>6, <2>8, <2>9, <2>10 DEF Delivery, Asked
<1>13. ASSUME NEW cs \in Columns, CreateCRD(cs) \/ EditColumns(cs) \/ Establish \/ OtherCRD
       PROVE  Delivery'
  BY <1>1, <1>13 DEF CreateCRD, EditColumns, Establish, WriteCRD, OtherCRD, wayVars, informerVars,
        configVars, sendVars, nodeVars
<1>14. CASE Establish \/ OtherCRD
  BY <1>1, <1>14 DEF Establish, WriteCRD, OtherCRD, wayVars, informerVars, configVars, sendVars, nodeVars
<1>15. CASE UNCHANGED vars
  BY <1>1, <1>15 DEF vars, wayVars, informerVars, configVars, sendVars, nodeVars
<1> QED BY <1>2, <1>3, <1>4, <1>5, <1>6, <1>7, <1>8, <1>9, <1>10, <1>11, <1>12, <1>13, <1>14, <1>15
        DEF Next, WorkerStep

-----------------------------------------------------------------------------
(* The theorems.                                                           *)

LEMMA IInvInductive == Spec => []ExtractionIInv
<1>1. Init => ExtractionIInv
  BY InitIInv
<1>2. ExtractionIInv /\ [Next]_vars => ExtractionIInv'
  BY CRDTypeStep, ConfigTypeStep, WorkerTypeStep, GoodNodeStep, DeliveryStep DEF ExtractionIInv
<1> QED BY <1>1, <1>2, PTL DEF Spec

\* Whatever the config, the CRD and the resource, every variable has its type and
\* no worker panics: the columns the CRD informer keeps have names, what a node
\* holds was stored by a property of the config, a column or the generic part, and
\* the label is a map of strings for every property that matches on it
\* (applyDefaultTransformConfig, gvrToPrinterColumns.set).
THEOREM ExtractionInvariant == Spec => []ExtractionInv
<1>1. ExtractionIInv => ExtractionInv
  <2> SUFFICES ASSUME ExtractionIInv PROVE ExtractionInv
    OBVIOUS
  <2>1. crd.columns \in Columns \cup {<<>>} /\ crd.established \in BOOLEAN
    BY DEF ExtractionIInv, CRDType, CRDs
  <2>2. \A i \in DOMAIN mapping : mapping[i] \in PropertySet /\ mapping[i].priority # NoPriority
          /\ mapping[i].name # ""
    <3>1. CASE mapping = <<>>
      <4>1. mapping \in Seq(NamedColumns) /\ Len(mapping) = 0
        BY <3>1, EmptySeq
      <4>2. DOMAIN mapping = 1..0
        BY <4>1
      <4>3. DOMAIN mapping = {}
        BY <4>2
      <4> QED BY <4>3
    <3>2. CASE mapping # <<>>
      <4>1. PICK cs \in Columns : mapping = PrinterColumns(cs)
        BY <3>2 DEF ExtractionIInv, CRDType, Mappings
      <4>2. cs \in Seq(Header)
        BY ExtractionAssumption
      <4>3. mapping \in Seq(NamedColumns)
        BY <4>1, <4>2, PrinterColumnsType
      <4>4. \A i \in DOMAIN mapping : mapping[i] \in NamedColumns /\ mapping[i] \in Range(mapping)
        BY <4>3 DEF Range
      <4>5. \A i \in DOMAIN mapping : mapping[i] \in PropertySet
        BY <4>1, <4>4 DEF PropertySet, ColumnProperties
      <4> QED BY <4>4, <4>5, ColumnFields
    <3> QED BY <3>1, <3>2
  <2>3. /\ config \in Config /\ object \in Object
        /\ syncPending \in BOOLEAN /\ running \in BOOLEAN /\ resync \in BOOLEAN /\ toSend \in BOOLEAN
        /\ \A w \in Worker : worker[w].phase \in {"idle", "annotations", "own", "group", "built"}
        /\ newest \in Worker \cup Places
    BY DEF ExtractionIInv, CRDType, ConfigType, WorkerType, WorkType
  <2>4. \A n \in DOMAIN node.props : node.props[n].kind \in Stored /\ node.props[n].by \in PropertySet
    BY DEF ExtractionIInv, GoodNode, Entries
  <2>5. NoPanic
    <3>1. NoNode # Panic
      BY NodeIsNoPanic DEF NoNode, IsNode
    <3> QED BY <3>1, BuiltGood DEF NoPanic, ExtractionIInv, WorkerType, WorkType
  <2> QED BY <2>1, <2>2, <2>3, <2>4, <2>5 DEF ExtractionInv, TypeOK
<1> QED BY <1>1, IInvInductive, PTL

\* What a node stores has the type its data type promises.
THEOREM NodeAsDeclared == Spec => []StoredAsDeclared
<1>1. ExtractionIInv => StoredAsDeclared
  BY DEF ExtractionIInv, GoodNode, Entries, StoredAsDeclared
<1> QED BY <1>1, IInvInductive, PTL

\* The columns of a CRD replace no property.
THEOREM ColumnsReplaceNothing == Spec => []ColumnsOnlyAdd
<1>1. ExtractionIInv => ColumnsOnlyAdd
  BY BuiltGood DEF ColumnsOnlyAdd, Keeps
<1> QED BY <1>1, IInvInductive, PTL

\* Once nothing is under way the node received last is what the config in force makes of
\* the resource, for any number of workers, unless a node of an earlier event was received
\* after that of the last one.
THEOREM NodeUnderConfig == Spec => []UnderConfig
<1>1. ExtractionIInv => UnderConfig
  BY DEF ExtractionIInv, Delivery, Asked, Sent, Taken, Fresh, Settled, UnderConfig, Quiet, UpToDate
<1> QED BY <1>1, IInvInductive, PTL

-----------------------------------------------------------------------------
(* The edges of the nodes (Edges).  First what the builders walk along: the *)
(* owners of a node.                                                       *)

\* A walk of n steps in S from a, each of them given by g.
Walk(n, f, S, a, g) == f \in [0..n -> S] /\ f[0] = a /\ \A m \in 1..n : f[m] = g[f[m - 1]]

LEMMA WalkExists ==
  ASSUME NEW S, NEW a \in S, NEW g \in [S -> S], NEW C \in Nat
  PROVE  \E f : Walk(C, f, S, a, g)
<1> DEFINE Is(m, f) == Walk(m, f, S, a, g)
           K == {m \in Nat : \E f : Is(m, f)}
<1>1. 0 \in K
  <2>1. Is(0, [n \in 0..0 |-> a])
    BY DEF Walk
  <2> HIDE DEF Is
  <2> QED BY <2>1
<1>2. ASSUME NEW m \in Nat, m \in K PROVE m + 1 \in K
  <2>1. PICK f : Is(m, f)
    BY <1>2
  <2> DEFINE h == [n \in 0..(m + 1) |-> IF n = m + 1 THEN g[f[m]] ELSE f[n]]
  <2>2. h \in [0..(m + 1) -> S] /\ h[0] = a
    BY <2>1 DEF Walk
  <2>3. ASSUME NEW n \in 1..(m + 1) PROVE h[n] = g[h[n - 1]]
    BY <2>1 DEF Walk
  <2>4. Is(m + 1, h)
    <3> HIDE DEF h
    <3> QED BY <2>2, <2>3 DEF Walk
  <2> HIDE DEF Is, h
  <2> QED BY <2>4
<1>3. C \in K
  <2> HIDE DEF K
  <2> QED BY <1>1, <1>2, NatSetInduction
<1> QED BY <1>3

\* What Path holds: from a node on along the owners, held nodes and then None.
LEMMA PathHeld ==
  ASSUME NEW md, NEW u, NEW stop
  PROVE  /\ DOMAIN Path(md, u, stop) = 0..Cardinality(Held)
         /\ \A n \in 0..Cardinality(Held) : Path(md, u, stop)[n] \in Held \cup {None}
<1> DEFINE C == Cardinality(Held)
           IfHeld(v) == IF v \in Held THEN v ELSE None
           Step(v) == IF v = None THEN None ELSE IF KindOf[v] = stop THEN None ELSE IfHeld(md.owner[v])
           Is(p) == p = [n \in 0..C |-> IF n = 0 THEN IfHeld(u) ELSE Step(p[n - 1])]
<1>1. Path(md, u, stop) = CHOOSE p : Is(p)
  BY DEF Path
<1>2. C \in Nat
  <2>1. Held \in SUBSET UID
    BY DEF Held
  <2> QED BY <2>1, EdgesAssumption, FS_Subset, FS_CardinalityType
<1>3. \A v : IfHeld(v) \in Held \cup {None} /\ Step(v) \in Held \cup {None}
  OBVIOUS
<1> HIDE DEF C, IfHeld, Step
<1>4. \E p : Is(p)
  <2> DEFINE g == [v \in Held \cup {None} |-> Step(v)]
  <2>1. g \in [Held \cup {None} -> Held \cup {None}]
    BY <1>3
  <2>2. PICK f : Walk(C, f, Held \cup {None}, IfHeld(u), g)
    <3> DEFINE S == Held \cup {None}
               a == IfHeld(u)
    <3>1. a \in S /\ g \in [S -> S]
      BY <1>3, <2>1
    <3> HIDE DEF g, S, a
    <3>2. \E f : Walk(C, f, S, a, g)
      BY <1>2, <3>1, WalkExists
    <3> QED BY <3>2 DEF S, a
  <2>3. ASSUME NEW n \in 0..C PROVE f[n] = IF n = 0 THEN IfHeld(u) ELSE Step(f[n - 1])
    <3>1. CASE n # 0
      <4>1. n \in 1..C /\ n - 1 \in 0..C
        BY <1>2, <3>1
      <4> QED BY <2>2, <3>1, <4>1 DEF Walk
    <3> QED BY <2>2, <3>1 DEF Walk
  <2>4. Is(f)
    BY <2>2, <2>3 DEF Walk
  <2> QED BY <2>4
<1> DEFINE p == Path(md, u, stop)
<1>5. p = [n \in 0..C |-> IF n = 0 THEN IfHeld(u) ELSE Step(p[n - 1])]
  <2> HIDE DEF p
  <2>1. p = CHOOSE q : Is(q)
    BY <1>1 DEF p
  <2> QED BY <1>4, <2>1
<1> HIDE DEF p
<1>6. DOMAIN p = 0..C /\ \A n \in 0..C : p[n] \in Held \cup {None}
  BY <1>3, <1>5
<1> QED BY <1>6 DEF p, C
-----------------------------------------------------------------------------
\* A pair that may be an edge: of two held nodes, which are different unless some resource
\* refers to itself.
Edge == {e \in Held \X Held : NoSelfReference => e[1] # e[2]}

\* The index holds held nodes, and each of them what may be extracted from it.
StoreOK == index \subseteq Held /\ \A u \in Held : u \in UID /\ nodes[u] \in ContentsOf[u]

\* A lookup finds nodes of the index, and those that it was asked for.
LEMMA KindLookupFinds ==
  ASSUME NEW k, NEW ns, NEW n, NEW d \in LookupByKindNamespaceName(k, ns, n)
  PROVE  d \in index /\ KindOf[d] = k /\ NamespaceOf[d] = ns /\ NameOf[d] = n
BY DEF LookupByKindNamespaceName, FirstOf

LEMMA LookupFinds ==
  ASSUME NEW g, NEW k, NEW ns, NEW n
  PROVE  /\ LookupByGroupKindNamespaceName(g, k, ns, n) \subseteq index
         /\ Lookup(g, k, ns, n) \subseteq index
         /\ \A d \in LookupByGroupKindNamespaceName(g, k, ns, n) : Key(d) = <<g, k, ns, n>>
         /\ \A d \in Lookup(g, k, ns, n) : KindOf[d] = k /\ NamespaceOf[d] = ns /\ NameOf[d] = n
BY DEF Lookup, LookupByGroupKindNamespaceName, LookupByKindNamespaceName, FirstOf, Key

LEMMA KindHeld == ASSUME NEW k PROVE NodesByKind(k) \subseteq index
<1>1. \A ns, n : LookupByKindNamespaceName(k, ns, n) \subseteq index
  BY KindLookupFinds
<1> QED BY <1>1 DEF NodesByKind

LEMMA SourcesHeld == ASSUME NEW md, NEW u PROVE Sources(md, u) \subseteq Held
<1> DEFINE p == Path(md, u, "Deployable")
<1>1. \A n \in DOMAIN p : p[n] \in Held \cup {None}
  BY PathHeld
<1>2. Sources(md, u) = {p[n] : n \in DOMAIN p} \ {None}
  BY DEF Sources
<1> HIDE DEF p
<1> QED BY <1>1, <1>2

\* What a list of names leads to.
LEMMA ReachedHeld ==
  ASSUME StoreOK, NEW src, NEW l, NEW order, NEW r \in Reached(src, l, order)
  PROVE  r.src \in Held /\ r.dst \in Held /\ r.src # r.dst
<1>1. PICK s \in Sources(l.md, src), x \in l.names :
          \E ns : r \in {[src |-> s, dst |-> d, ns |-> ns] : d \in Lookup(l.group, l.kind, ns, x[2]) \ {s}}
  BY DEF Reached
<1>2. PICK ns : r \in {[src |-> s, dst |-> d, ns |-> ns] : d \in Lookup(l.group, l.kind, ns, x[2]) \ {s}}
  BY <1>1
<1>3. PICK d \in Lookup(l.group, l.kind, ns, x[2]) \ {s} : r = [src |-> s, dst |-> d, ns |-> ns]
  BY <1>2
<1>4. r.src = s /\ r.dst = d
  BY <1>3
<1>5. s \in Held /\ d \in Held /\ s # d
  BY <1>3, SourcesHeld, LookupFinds DEF StoreOK
<1> QED BY <1>4, <1>5

LEMMA EndsAreEdges ==
  ASSUME StoreOK, NEW src, NEW l, NEW order, NEW R \in SUBSET Reached(src, l, order)
  PROVE  Ends(R) \subseteq Edge
<1>1. \A r \in R : <<r.src, r.dst>> \in Edge
  BY ReachedHeld DEF Edge
<1> QED BY <1>1 DEF Ends

LEMMA ToApplicationEdges ==
  ASSUME StoreOK, NEW md, NEW src, NEW ns, NEW sub, NEW order
  PROVE  edgesToApplication(md, src, ns, sub, order) \subseteq Edge
BY EndsAreEdges DEF edgesToApplication

LEMMA GroupNameEdges ==
  ASSUME StoreOK, NEW src, NEW l, NEW order
  PROVE  edgesByDestinationGroupName(src, l, order) \subseteq Edge
BY EndsAreEdges, ToApplicationEdges DEF edgesByDestinationGroupName

LEMMA PastSubscriptionEdges ==
  ASSUME StoreOK, NEW md, NEW src, NEW ns, NEW sub, NEW order
  PROVE  EdgesPastSubscription(md, src, ns, sub, order) \subseteq Edge
BY ToApplicationEdges, GroupNameEdges DEF EdgesPastSubscription

LEMMA NameEdges ==
  ASSUME StoreOK, NEW src, NEW l, NEW order
  PROVE  edgesByDestinationName(src, l, order) \subseteq Edge
BY GroupNameEdges, PastSubscriptionEdges DEF edgesByDestinationName

LEMMA OwnerEdges ==
  ASSUME NEW md, NEW src \in Held, NEW first
  PROVE  edgesByOwner(md, src, first) \subseteq Edge
<1> DEFINE p == Path(md, first, None)
<1>1. DOMAIN p = 0..Cardinality(Held) /\ \A n \in DOMAIN p : p[n] \in Held \cup {None}
  BY PathHeld
<1>2. \A n \in DOMAIN p : n \in 0..n
  BY <1>1
<1> HIDE DEF p
<1>3. \A n \in DOMAIN p : (\A i \in 0..n : p[i] \notin {None, src}) => <<src, p[n]>> \in Edge
  BY <1>1, <1>2 DEF Edge
<1> QED BY <1>3 DEF edgesByOwner, p

LEMMA DeployerEdges ==
  ASSUME StoreOK, NEW md, NEW u \in Held, NEW order
  PROVE  edgesByDeployerSubscriber(md, u, order) \subseteq Edge
<1> DEFINE S == (UNION {HostRef("Subscription", nodes[h].hostSub) : h \in Host(md, u)}) \ {u}
           D == (UNION {HostRef("Deployable", nodes[h].hostDep) : h \in Host(md, u)}) \ {u}
<1>1. ASSUME NEW k, NEW ref PROVE HostRef(k, ref) \subseteq Held
  <2>1. LookupByKindNamespaceName(k, ref[1], ref[2]) \subseteq Held
    <3> HIDE DEF S, D
    <3> DEFINE ns == ref[1]
               n == ref[2]
    <3> HIDE DEF ns, n
    <3>1. LookupByKindNamespaceName(k, ns, n) \subseteq index
      BY KindLookupFinds
    <3> QED BY <3>1 DEF StoreOK, ns, n
  <2> QED BY <2>1 DEF HostRef
<1>2. \A d \in S \cup D : <<u, d>> \in Edge
  <2>1. S \cup D \subseteq Held \ {u}
    BY <1>1
  <2> HIDE DEF S, D
  <2> QED BY <2>1 DEF Edge
<1>3. edgesByDeployerSubscriber(md, u, order) =
          {<<u, d>> : d \in S \cup D}
          \cup (UNION {EdgesPastSubscription(md, u, NamespaceOf[u], s, order) :
                           s \in {v \in S : KindOf[u] # "Application"}})
          \cup (UNION {edgesToApplication(md, d, NamespaceOf[d], u, order) :
                           d \in {v \in D : KindOf[u] = "Subscription"}})
  BY DEF edgesByDeployerSubscriber
<1>4. \A s : EdgesPastSubscription(md, u, NamespaceOf[u], s, order) \subseteq Edge
  BY PastSubscriptionEdges
<1>5. \A d : edgesToApplication(md, d, NamespaceOf[d], u, order) \subseteq Edge
  BY ToApplicationEdges
<1> HIDE DEF S, D
<1> QED BY <1>2, <1>3, <1>4, <1>5

LEMMA KyvernoEdges ==
  ASSUME StoreOK, NEW u \in Held
  PROVE  edgesByKyverno(u) \subseteq Edge
<1> DEFINE g == nodes[u].generator
           p == KyvernoPolicy(g)
<1>1. SUFFICES ASSUME g # None, NEW d \in LookupByGroupKindNamespaceName(p[1], p[2], g.ns, g.name)
               PROVE  <<u, d>> \in Edge
  BY DEF edgesByKyverno
<1>2. d \in Held /\ Key(d) = <<p[1], p[2], g.ns, g.name>>
  <2> HIDE DEF p, g
  <2> DEFINE a == p[1]
             b == p[2]
             ns == g.ns
             n == g.name
  <2> HIDE DEF a, b, ns, n
  <2>1. d \in LookupByGroupKindNamespaceName(a, b, ns, n)
    BY <1>1 DEF a, b, ns, n
  <2>2. d \in index /\ Key(d) = <<a, b, ns, n>>
    BY <2>1, LookupFinds
  <2> QED BY <2>2 DEF StoreOK, a, b, ns, n
<1>3. NoSelfReference => Key(u) # <<p[1], p[2], g.ns, g.name>>
  BY <1>1 DEF NoSelfReference, StoreOK
<1> HIDE DEF p, g
<1> QED BY <1>2, <1>3 DEF Edge

\* What a reference leads to is held, and is not the resource that has it.
LEMMA LinkEdges ==
  ASSUME StoreOK, NEW u \in Held, NEW by
  PROVE  Links(u, by) \subseteq Edge
<1> SUFFICES ASSUME NEW r \in Refs(u, by), NEW d \in Lookup(r.group, r.kind, r.ns, r.name)
             PROVE  <<u, d>> \in Edge
  BY DEF Links
<1>1. d \in Held /\ Refers(r, r.ns, d)
  <2> DEFINE g == r.group
             k == r.kind
             ns == r.ns
             n == r.name
  <2> HIDE DEF g, k, ns, n
  <2>1. d \in Lookup(g, k, ns, n)
    BY DEF g, k, ns, n
  <2>2. d \in index /\ KindOf[d] = k /\ NamespaceOf[d] = ns /\ NameOf[d] = n
    BY <2>1, LookupFinds
  <2> QED BY <2>2 DEF StoreOK, Refers, k, ns, n
<1>2. NoSelfReference => ~Refers(r, r.ns, u)
  BY DEF NoSelfReference, StoreOK, Refs
<1> QED BY <1>1, <1>2 DEF Edge

LEMMA ConfigEdges ==
  ASSUME StoreOK, NEW u \in Held
  PROVE  edgesByDefaultTransformConfig(u) \subseteq Edge
<1> SUFFICES ASSUME NEW r \in Refs(u, "config"),
                    NEW d \in LookupByKindNamespaceName(r.kind, NamespaceOf[u], r.name)
             PROVE  <<u, d>> \in Edge
  BY DEF edgesByDefaultTransformConfig
<1>1. d \in Held /\ Refers(r, NamespaceOf[u], d)
  <2> DEFINE k == r.kind
             ns == NamespaceOf[u]
             n == r.name
  <2> HIDE DEF k, ns, n
  <2>1. d \in LookupByKindNamespaceName(k, ns, n)
    BY DEF k, ns, n
  <2>2. d \in index /\ KindOf[d] = k /\ NamespaceOf[d] = ns /\ NameOf[d] = n
    BY <2>1, KindLookupFinds
  <2> QED BY <2>2 DEF StoreOK, Refers, k, ns, n
<1>2. NoSelfReference => ~Refers(r, NamespaceOf[u], u)
  BY DEF NoSelfReference, StoreOK, Refs
<1> QED BY <1>1, <1>2 DEF Edge

LEMMA CommonAreEdges ==
  ASSUME StoreOK, NEW md, NEW u \in Held, NEW order
  PROVE  CommonEdges(md, u, order) \subseteq Edge
<1>1. edgesByOwner(md, u, md.owner[u]) \subseteq Edge
  <2> DEFINE o == md.owner[u]
  <2> HIDE DEF o
  <2>1. edgesByOwner(md, u, o) \subseteq Edge
    BY OwnerEdges
  <2> QED BY <2>1 DEF o
<1>2. edgesByGatekeeperMutation(u) \subseteq Edge
  BY LinkEdges DEF edgesByGatekeeperMutation
<1> QED BY <1>1, <1>2, DeployerEdges, KyvernoEdges, ConfigEdges DEF CommonEdges

LEMMA ReportEdges ==
  ASSUME StoreOK, NEW u \in Held
  PROVE  PolicyReportLinks(u) \subseteq Edge
<1> DEFINE P == UNION {LookupByKindNamespaceName(r.kind, r.ns, r.name) : r \in Refs(u, "policy")}
           O == {v \in Held : v = nodes[u].reportOn}
<1>1. ASSUME NEW p \in P
      PROVE  p \in Held /\ \E r \in Refs(u, "policy") : Refers(r, r.ns, p)
  <2>1. PICK r \in Refs(u, "policy") : p \in LookupByKindNamespaceName(r.kind, r.ns, r.name)
    OBVIOUS
  <2> DEFINE k == r.kind
             ns == r.ns
             n == r.name
  <2> HIDE DEF k, ns, n, P, O
  <2>2. p \in LookupByKindNamespaceName(k, ns, n)
    BY <2>1 DEF k, ns, n
  <2>3. p \in index /\ KindOf[p] = k /\ NamespaceOf[p] = ns /\ NameOf[p] = n
    BY <2>2, KindLookupFinds
  <2>4. Refers(r, r.ns, p)
    BY <2>3 DEF Refers, k, ns, n
  <2> QED BY <2>3, <2>4 DEF StoreOK
<1>2. ASSUME NoSelfReference, NEW r \in Refs(u, "policy")
      PROVE  ~Refers(r, r.ns, u) /\ \A o \in O : ~Refers(r, r.ns, o) /\ o # u
  <2>1. u \in UID /\ nodes[u] \in ContentsOf[u] /\ Held \subseteq UID
    BY DEF StoreOK
  <2>2. r \in nodes[u].refs /\ r.by = "policy"
    BY DEF Refs
  <2> QED BY <1>2, <2>1, <2>2 DEF NoSelfReference
<1>3. PolicyReportLinks(u) \subseteq {<<p, u>> : p \in P} \cup (P \X O)
        \cup {<<u, o>> : o \in IF P = {} THEN {} ELSE O}
  BY DEF PolicyReportLinks
<1>4. O \subseteq Held
  OBVIOUS
<1> HIDE DEF P, O
<1>5. {<<p, u>> : p \in P} \subseteq Edge
  BY <1>1, <1>2 DEF Edge
<1>6. P \X O \subseteq Edge
  BY <1>1, <1>2, <1>4 DEF Edge
<1>7. \A o \in O : P # {} => <<u, o>> \in Edge
  <2>1. ASSUME NEW o \in O, NEW p \in P, NoSelfReference PROVE o # u
    BY <1>1, <1>2, <2>1
  <2> QED BY <1>4, <2>1 DEF Edge
<1> QED BY <1>3, <1>5, <1>6, <1>7

LEMMA BindingEdges ==
  ASSUME StoreOK, NEW u \in Held, KindOf[u] = "ValidatingAdmissionPolicyBinding"
  PROVE  VapBindingLinks(u) \subseteq Edge
<1>1. SUFFICES ASSUME NEW p \in index, NEW v \in index, nodes[p].paramKind # None,
                      Matches(nodes[u].param, nodes[p].paramKind, v)
               PROVE  <<u, v>> \in Edge
  <2>1. ASSUME NEW x
        PROVE  LookupByGroupKindNamespaceName(AdmissionGroup, AdmissionKind, NoNamespace, x) \subseteq index
    BY LookupFinds
  <2> QED BY <2>1 DEF VapBindingLinks
<1>2. NoSelfReference => nodes[p].paramKind[2] # "ValidatingAdmissionPolicyBinding"
  BY <1>1 DEF NoSelfReference, StoreOK
<1> QED BY <1>1, <1>2 DEF Edge, StoreOK, Matches

LEMMA OtherAreEdges ==
  ASSUME StoreOK, NEW md, NEW u \in Held
  PROVE  OtherEdges(md, u) \subseteq Edge
<1>1. ArgoApplicationLinks(u) \subseteq Edge
  BY LinkEdges DEF ArgoApplicationLinks
<1>2. PodLinks(u) \subseteq Edge
  BY LinkEdges DEF PodLinks
<1>3. ServiceLinks(md, u) \subseteq Edge
  BY OwnerEdges DEF ServiceLinks
<1>4. RelatedLinks(u) \subseteq Edge /\ ConstraintLinks(u) \subseteq Edge
  BY LinkEdges DEF RelatedLinks, ConstraintLinks
<1> QED BY <1>1, <1>2, <1>3, <1>4, ReportEdges, BindingEdges DEF OtherEdges

LEMMA BuiltAreEdges ==
  ASSUME StoreOK, NEW md, NEW u \in Held, NEW order
  PROVE  BuildEdges(md, u, order) \subseteq Edge
<1>1. \A l : edgesByDestinationName(u, l, order) \subseteq Edge
  BY NameEdges
<1> QED BY <1>1, OtherAreEdges DEF BuildEdges

-----------------------------------------------------------------------------
\* The finite subsets of T with at most k elements.
Small(T, k) == {s \in SUBSET T : Cardinality(s) <= k}

LEMMA SmallSets ==
  ASSUME NEW T, IsFiniteSet(T)
  PROVE  /\ \A s \in SUBSET T : IsFiniteSet(s) /\ Cardinality(s) \in Nat
         /\ Small(T, 0) = {{}}
         /\ \A k \in Nat : Small(T, k) \subseteq Small(T, k + 1)
         /\ \A k \in Nat : \A s \in Small(T, k + 1) : \A x \in s : s \ {x} \in Small(T, k)
         /\ Small(T, Cardinality(T)) = SUBSET T
<1>1. \A s \in SUBSET T : IsFiniteSet(s) /\ Cardinality(s) \in Nat /\ Cardinality(s) <= Cardinality(T)
  BY FS_Subset, FS_CardinalityType
<1>2. Small(T, 0) = {{}}
  <2>1. \A s \in SUBSET T : Cardinality(s) = 0 <=> s = {}
    BY <1>1, FS_EmptySet
  <2> QED BY <1>1, <2>1 DEF Small
<1>3. \A k \in Nat : Small(T, k) \subseteq Small(T, k + 1)
  BY <1>1 DEF Small
<1>4. ASSUME NEW k \in Nat, NEW s \in Small(T, k + 1), NEW x \in s PROVE s \ {x} \in Small(T, k)
  <2>1. Cardinality(s \ {x}) = Cardinality(s) - 1
    BY <1>1, FS_RemoveElement DEF Small
  <2> QED BY <1>1, <2>1 DEF Small
<1> QED BY <1>1, <1>2, <1>3, <1>4 DEF Small

\* The applications recorded are those that were, and some of the new ones: by induction
\* on the number of new ones.
LEMMA RecordedOnly ==
  ASSUME NEW base, NEW T, IsFiniteSet(T)
  PROVE  FoldSet(LAMBDA a, acc : RecordApplication(acc, a), base, T) \subseteq base \cup T
<1> DEFINE Ch(s) == CHOOSE x \in s : TRUE
           Step(it, s) == IF s = {} THEN base ELSE RecordApplication(it[s \ {Ch(s)}], Ch(s))
           Iter(k, it) == it = [s \in Small(T, k) |-> Step(it, s)]
           Whole(it) == it = [s \in SUBSET T |-> Step(it, s)]
           K == {k \in Nat : \E it : Iter(k, it)}
           iter == CHOOSE it : Whole(it)
<1>0. FoldSet(LAMBDA a, acc : RecordApplication(acc, a), base, T) = iter[T]
  BY DEF FoldSet, MapThenFoldSet
<1>1. \A s \in SUBSET T : s # {} => Ch(s) \in s
  OBVIOUS
<1> HIDE DEF Ch
<1>2. 0 \in K
  <2> DEFINE it == [s \in Small(T, 0) |-> base]
  <2>1. Iter(0, it)
    BY SmallSets
  <2> QED BY <2>1
<1>3. ASSUME NEW k \in Nat, k \in K PROVE k + 1 \in K
  <2>1. PICK it : Iter(k, it)
    BY <1>3
  <2> DEFINE jt == [s \in Small(T, k + 1) |-> Step(it, s)]
  <2>2. ASSUME NEW s \in Small(T, k + 1) PROVE Step(jt, s) = Step(it, s)
    <3>1. CASE s = {}
      BY <3>1
    <3>2. CASE s # {}
      <4> DEFINE t == s \ {Ch(s)}
      <4>1. t \in Small(T, k) /\ t \in Small(T, k + 1)
        <5>1. s \in SUBSET T /\ Ch(s) \in s
          BY <1>1, <3>2 DEF Small
        <5> QED BY <5>1, SmallSets
      <4> HIDE DEF t
      <4>2. jt[t] = it[t]
        BY <2>1, <4>1
      <4> QED BY <3>2, <4>2 DEF t
    <3> QED BY <3>1, <3>2
  <2>3. Iter(k + 1, jt)
    BY <2>2
  <2> HIDE DEF jt, Iter
  <2> QED BY <2>3
<1>4. \E it : Whole(it)
  <2>1. Cardinality(T) \in Nat
    BY FS_CardinalityType
  <2>2. Cardinality(T) \in K
    <3> HIDE DEF K
    <3> QED BY <1>2, <1>3, <2>1, NatSetInduction
  <2>3. PICK it : Iter(Cardinality(T), it)
    BY <2>2
  <2>4. Whole(it)
    BY <2>3, SmallSets
  <2> QED BY <2>4
<1>5. Whole(iter)
  <2> HIDE DEF Whole
  <2> QED BY <1>4
<1> HIDE DEF iter
<1>6. \A s \in SUBSET T : iter[s] = Step(iter, s)
  BY <1>5
<1> DEFINE J == {k \in Nat : \A s \in Small(T, k) : iter[s] \subseteq base \cup T}
<1>7. 0 \in J
  <2>1. iter[{}] = base
    BY <1>6
  <2>2. Small(T, 0) = {{}}
    BY SmallSets
  <2> QED BY <2>1, <2>2
<1>8. ASSUME NEW k \in Nat, k \in J PROVE k + 1 \in J
  <2>1. ASSUME NEW s \in Small(T, k + 1) PROVE iter[s] \subseteq base \cup T
    <3>0. s \in SUBSET T
      BY DEF Small
    <3>1. CASE s = {}
      BY <1>6, <3>0, <3>1
    <3>2. CASE s # {}
      <4> DEFINE t == s \ {Ch(s)}
      <4>1. Ch(s) \in T /\ t \in Small(T, k)
        BY <1>1, <3>0, <3>2, SmallSets
      <4>2. iter[s] = RecordApplication(iter[t], Ch(s))
        BY <1>6, <3>0, <3>2
      <4> HIDE DEF t
      <4>3. iter[t] \subseteq base \cup T
        BY <1>8, <4>1
      <4> QED BY <4>1, <4>2, <4>3 DEF RecordApplication
    <3> QED BY <3>1, <3>2
  <2> QED BY <2>1
<1>9. Cardinality(T) \in J
  <2>1. Cardinality(T) \in Nat
    BY FS_CardinalityType
  <2> HIDE DEF J
  <2> QED BY <1>7, <1>8, <2>1, NatSetInduction
<1>10. iter[T] \subseteq base \cup T
  BY <1>9, SmallSets
<1> QED BY <1>0, <1>10

-----------------------------------------------------------------------------
\* What a function makes of a finite set is finite.
LEMMA FiniteImage ==
  ASSUME NEW S, IsFiniteSet(S), NEW f, DOMAIN f = S
  PROVE  IsFiniteSet({f[x] : x \in S})
<1> DEFINE T == {f[x] : x \in S}
           g == [x \in S |-> f[x]]
<1>1. g \in Surjection(S, T)
  BY DEF Surjection
<1> HIDE DEF T, g
<1>2. IsFiniteSet(T)
  BY <1>1, FS_Surjection
<1> QED BY <1>2 DEF T

LEMMA NamesFinite ==
  ASSUME StoreOK, NEW u \in Held, NEW k
  PROVE  IsFiniteSet(NamesOf(u, k))
<1> DEFINE S == {y \in nodes[u].names : y.kind = k}
           f == [y \in S |-> <<y.ns, y.name>>]
<1>1. IsFiniteSet(S)
  <2>1. IsFiniteSet(nodes[u].names)
    BY EdgesAssumption DEF StoreOK
  <2>2. S \in SUBSET nodes[u].names
    OBVIOUS
  <2> HIDE DEF S
  <2> QED BY <2>1, <2>2, FS_Subset
<1>2. NamesOf(u, k) = {f[y] : y \in S}
  BY DEF NamesOf
<1>3. DOMAIN f = S
  OBVIOUS
<1> HIDE DEF S, f
<1> QED BY <1>1, <1>2, <1>3, FiniteImage

\* What the builder of an application records for the ways R that lead to a subscription.
NamedBy(R, n) == {<<r.ns, n>> : r \in R}

\* They are finitely many.
LEMMA RefsFinite ==
  ASSUME NEW src, NEW l, NEW order, IsFiniteSet(l.names), NEW R \in SUBSET Reached(src, l, order), NEW n
  PROVE  IsFiniteSet(NamedBy(R, n))
<1> DEFINE own == [x \in l.names |-> <<InEffect(x, TRUE, l, order), n>>]
           other == [x \in l.names |-> <<InEffect(x, FALSE, l, order), n>>]
           S == {own[x] : x \in l.names} \cup {other[x] : x \in l.names}
<1>1. IsFiniteSet(S)
  <2>1. IsFiniteSet({own[x] : x \in l.names})
    <3>1. DOMAIN own = l.names
      OBVIOUS
    <3> HIDE DEF own
    <3> QED BY <3>1, FiniteImage
  <2>2. IsFiniteSet({other[x] : x \in l.names})
    <3>1. DOMAIN other = l.names
      OBVIOUS
    <3> HIDE DEF other
    <3> QED BY <3>1, FiniteImage
  <2> HIDE DEF own, other
  <2> QED BY <2>1, <2>2, FS_Union
<1>2. ASSUME NEW r \in R PROVE <<r.ns, n>> \in S
  <2>1. PICK s \in Sources(l.md, src), x \in l.names :
            \E ns : /\ ns = InEffect(x, s = src, l, order)
                    /\ r \in {[src |-> s, dst |-> d, ns |-> ns] :
                                 d \in Lookup(l.group, l.kind, ns, x[2]) \ {s}}
    BY DEF Reached
  <2>2. r.ns = InEffect(x, s = src, l, order)
    BY <2>1
  <2>3. CASE s = src
    <3>1. r.ns = InEffect(x, TRUE, l, order)
      BY <2>2, <2>3 DEF InEffect
    <3> QED BY <3>1
  <2>4. CASE s # src
    <3>1. r.ns = InEffect(x, FALSE, l, order)
      BY <2>2, <2>4 DEF InEffect
    <3> QED BY <3>1
  <2> QED BY <2>3, <2>4
<1>3. NamedBy(R, n) \in SUBSET S
  <2> HIDE DEF S
  <2> QED BY <1>2 DEF NamedBy
<1> HIDE DEF S
<1> QED BY <1>1, <1>3, FS_Subset

\* The metadata has its fields, and the applications recorded in it are named as some node is.
MetaOK(md) ==
    /\ md = [owner |-> md.owner, hosting |-> md.hosting]
    /\ md.owner \in [UID -> UID \cup {None}]
    /\ md.hosting = [s \in UID |-> md.hosting[s]]
    /\ \A s \in UID : \A a \in md.hosting[s] : \E v \in UID : a[2] = NameOf[v]

LEMMA HostingKeepsMeta ==
  ASSUME StoreOK, NEW u \in Held, NEW order, NEW md, MetaOK(md)
  PROVE  MetaOK(HostingApplication(md, u, order))
<1> DEFINE l == NameList(md, NamespaceOf[u], AnyGroup, "Subscription", NamesOf(u, "Subscription"))
           R == {r \in Reached(u, l, order) : KindOf[r.src] = "Application"}
           refs(s) == {<<r.ns, NameOf[u]>> : r \in {q \in R : q.dst = s}}
           h(s) == FoldSet(LAMBDA a, acc : RecordApplication(acc, a), md.hosting[s], refs(s))
<1>1. HostingApplication(md, u, order) = [md EXCEPT !.hosting = [s \in UID |-> h(s)]]
  <2>1. UNION {Reached(u, m, order) : m \in Lists(md, u, {"Subscription"})} = Reached(u, l, order)
    BY DEF Lists
  <2> QED BY <2>1 DEF HostingApplication
<1>2. ASSUME NEW s PROVE h(s) \subseteq md.hosting[s] \cup refs(s)
  <2>1. IsFiniteSet(l.names)
    BY NamesFinite DEF NameList
  <2>2. IsFiniteSet(refs(s))
    <3> DEFINE Q == {q \in R : q.dst = s}
               n == NameOf[u]
    <3>1. Q \in SUBSET Reached(u, l, order)
      OBVIOUS
    <3> HIDE DEF l, Q, n
    <3>2. IsFiniteSet(NamedBy(Q, n))
      BY <2>1, <3>1, RefsFinite
    <3> QED BY <3>2 DEF NamedBy, Q, n
  <2> DEFINE T == refs(s)
             b == md.hosting[s]
  <2> HIDE DEF T, b
  <2>3. FoldSet(LAMBDA a, acc : RecordApplication(acc, a), b, T) \subseteq b \cup T
    BY <2>2, RecordedOnly DEF T
  <2> QED BY <2>3 DEF T, b
<1>3. \A s : \A a \in refs(s) : a[2] = NameOf[u]
  OBVIOUS
<1> HIDE DEF h, refs
<1>4. \A s \in UID : \A a \in h(s) : \E v \in UID : a[2] = NameOf[v]
  BY <1>2, <1>3 DEF MetaOK, StoreOK
<1> DEFINE H == [s \in UID |-> h(s)]
<1>5. H = [s \in UID |-> H[s]] /\ \A s \in UID : H[s] = h(s)
  OBVIOUS
<1> HIDE DEF H
<1>6. HostingApplication(md, u, order) = [owner |-> md.owner, hosting |-> H]
  BY <1>1 DEF MetaOK, H
<1> QED BY <1>4, <1>5, <1>6 DEF MetaOK

\* Between the passes nothing is left to visit, during one the index holds held nodes, and
\* but for those that refer to themselves no node is connected to itself.
EdgesIInv ==
    /\ EdgesTypeOK
    /\ MetaOK(meta)
    /\ nodes = [u \in UID |-> nodes[u]]
    /\ phase # "passing" => todo = {}
    /\ phase = "passing" => index \subseteq Held
    /\ EdgesBetweenHeld
    /\ NoSelfReference => NoSelfEdges

LEMMA EdgesStart == EdgesInit => EdgesIInv
<1> SUFFICES ASSUME EdgesInit PROVE EdgesIInv
  OBVIOUS
<1>1. 0 \in 0..EventLimit
  BY EdgesAssumption
<1>2. MetaOK(meta)
  BY DEF EdgesInit, MetaOK
<1>3. EdgesTypeOK
  BY <1>1 DEF EdgesInit, EdgesTypeOK, Held
<1> QED BY <1>2, <1>3 DEF EdgesInit, EdgesIInv, EdgesBetweenHeld, NoSelfEdges

\* The store changes between the passes only.
LEMMA StoreStep ==
  ASSUME EdgesIInv, NEW u \in UID, Upsert(u) \/ Delete(u)
  PROVE  EdgesIInv'
<1> DEFINE c == nodes'[u]
<1>1. /\ phase # "passing" /\ phase' = "stale" /\ todo = {}
      /\ events < EventLimit /\ events' = events + 1
      /\ UNCHANGED <<index, todo, edges>>
  BY DEF Upsert, Delete, EdgesIInv
<1>2. \E d \in ContentsOf[u] \cup {None} : nodes' = [nodes EXCEPT ![u] = d]
  BY DEF Upsert, Delete
<1>3. /\ nodes' = [v \in UID |-> nodes'[v]]
      /\ \A v \in UID : nodes'[v] \in ContentsOf[v] \cup {None}
  BY <1>2 DEF EdgesIInv, EdgesTypeOK
<1>4. \E o \in UID \cup {None} : meta' = [meta EXCEPT !.owner[u] = o, !.hosting[u] = {}]
  BY EdgesAssumption DEF Upsert, Delete
<1>5. MetaOK(meta')
  <2>1. PICK o \in UID \cup {None} : meta' = [meta EXCEPT !.owner[u] = o, !.hosting[u] = {}]
    BY <1>4
  <2> DEFINE O == [meta.owner EXCEPT ![u] = o]
             H == [meta.hosting EXCEPT ![u] = {}]
  <2>2. O \in [UID -> UID \cup {None}] /\ H = [s \in UID |-> H[s]]
    BY DEF EdgesIInv, MetaOK
  <2>3. \A s \in UID : \A a \in H[s] : \E v \in UID : a[2] = NameOf[v]
    BY DEF EdgesIInv, MetaOK
  <2>4. meta' = [owner |-> O, hosting |-> H]
    BY <2>1 DEF EdgesIInv, MetaOK
  <2> HIDE DEF O, H
  <2> QED BY <2>2, <2>3, <2>4 DEF MetaOK
<1>6. events' \in 0..EventLimit
  BY <1>1, EdgesAssumption DEF EdgesIInv, EdgesTypeOK
<1>7. EdgesTypeOK'
  BY <1>1, <1>3, <1>5, <1>6 DEF EdgesTypeOK, MetaOK, Held
<1>8. EdgesBetweenHeld' /\ (NoSelfReference => NoSelfEdges')
  BY <1>1 DEF EdgesIInv, EdgesBetweenHeld, NoSelfEdges
<1> QED BY <1>1, <1>3, <1>5, <1>7, <1>8 DEF EdgesIInv, MetaOK

\* A visit adds edges between held nodes.
LEMMA VisitStep ==
  ASSUME EdgesIInv, NEW u \in UID, Visit(u)
  PROVE  EdgesIInv'
<1>1. /\ phase = "passing" /\ u \in todo /\ todo' = todo \ {u}
      /\ UNCHANGED <<nodes, index, phase, events>>
  BY DEF Visit, VisitedNext
<1>2. u \in Held /\ StoreOK
  BY <1>1 DEF EdgesIInv, EdgesTypeOK, StoreOK, Held
<1>3. PICK order, md :
          /\ md = meta \/ md = HostingApplication(meta, u, order)
          /\ meta' = addReleaseOwnerUID(md, u)
          /\ edges' = edges \cup BuildEdges(meta, u, order) \cup CommonEdges(meta', u, order)
  BY DEF Visit
<1>4. MetaOK(md)
  BY <1>2, <1>3, HostingKeepsMeta DEF EdgesIInv
<1>5. MetaOK(meta')
  <2>1. ReleaseOwner(md, u) \in UID \cup {None}
    <3>1. md.owner[u] \in UID \cup {None}
      BY <1>4 DEF MetaOK
    <3> DEFINE ns == nodes[u].release[1]
               n == nodes[u].release[2]
               r == LookupByKindNamespaceName("HelmRelease", ns, n)
    <3>2. r \subseteq UID
      <4> HIDE DEF ns, n
      <4> QED BY <1>2, KindLookupFinds DEF StoreOK
    <3>3. r # {} => (CHOOSE v \in r : TRUE) \in r
      <4> HIDE DEF r
      <4> QED OBVIOUS
    <3> HIDE DEF r
    <3>4. ReleaseOwner(md, u) \in {md.owner[u], None}
            \/ (r # {} /\ ReleaseOwner(md, u) = CHOOSE v \in r : TRUE)
      BY DEF ReleaseOwner, r
    <3> QED BY <3>1, <3>2, <3>3, <3>4
  <2> DEFINE O == [md.owner EXCEPT ![u] = ReleaseOwner(md, u)]
  <2>2. O \in [UID -> UID \cup {None}]
    BY <1>4, <2>1 DEF MetaOK
  <2>3. meta' = [owner |-> O, hosting |-> md.hosting]
    BY <1>3, <1>4 DEF addReleaseOwnerUID, MetaOK
  <2> HIDE DEF O
  <2> QED BY <1>4, <2>2, <2>3 DEF MetaOK
<1>6. Held' = Held
  BY <1>1 DEF Held
<1>7. EdgesTypeOK'
  BY <1>1, <1>5, <1>6 DEF EdgesIInv, EdgesTypeOK, MetaOK
<1>8. BuildEdges(meta, u, order) \subseteq Edge /\ CommonEdges(meta', u, order) \subseteq Edge
  <2> DEFINE mm == meta'
  <2> HIDE DEF mm
  <2>1. CommonEdges(mm, u, order) \subseteq Edge
    BY <1>2, CommonAreEdges
  <2> QED BY <1>2, <2>1, BuiltAreEdges DEF mm
<1>9. EdgesBetweenHeld' /\ (NoSelfReference => NoSelfEdges')
  BY <1>1, <1>3, <1>6, <1>8 DEF EdgesIInv, EdgesBetweenHeld, NoSelfEdges, Edge
<1> QED BY <1>1, <1>5, <1>6, <1>7, <1>9 DEF EdgesIInv, MetaOK

LEMMA EdgesInductive == EdgesSpec => []EdgesIInv
<1>1. EdgesIInv /\ [EdgesNext]_edgesVars => EdgesIInv'
  <2> SUFFICES ASSUME EdgesIInv, [EdgesNext]_edgesVars PROVE EdgesIInv'
    OBVIOUS
  <2>1. ASSUME NEW u \in UID, Upsert(u) \/ Delete(u) \/ Visit(u) PROVE EdgesIInv'
    BY <2>1, StoreStep, VisitStep
  <2>2. CASE StartPass
    <3>1. index' \subseteq Held /\ Held' = Held
      BY <2>2 DEF StartPass, Indexes, Held
    <3>2. EdgesTypeOK'
      BY <2>2, <3>1 DEF StartPass, AllUIDs, EdgesIInv, EdgesTypeOK
    <3> QED BY <2>2, <3>1, <3>2 DEF StartPass, EdgesIInv, EdgesBetweenHeld, NoSelfEdges, MetaOK
  <2>3. CASE EndPass
    <3>1. Held' = Held
      BY <2>3 DEF EndPass, Held
    <3>2. EdgesTypeOK'
      BY <2>3, <3>1 DEF EndPass, EdgesIInv, EdgesTypeOK
    <3> QED BY <2>3, <3>1, <3>2 DEF EndPass, EdgesIInv, EdgesBetweenHeld, NoSelfEdges, MetaOK
  <2>4. CASE UNCHANGED edgesVars
    <3>1. Held' = Held
      BY <2>4 DEF edgesVars, Held
    <3>2. EdgesTypeOK'
      BY <2>4, <3>1 DEF edgesVars, EdgesIInv, EdgesTypeOK
    <3> QED BY <2>4, <3>1, <3>2 DEF edgesVars, EdgesIInv, EdgesBetweenHeld, NoSelfEdges, MetaOK
  <2> QED BY <2>1, <2>2, <2>3, <2>4 DEF EdgesNext
<1> QED BY <1>1, EdgesStart, PTL DEF EdgesSpec

\* Whatever metadata still refers to nodes that are gone, an edge connects two held nodes.
THEOREM EdgesConnectHeld == EdgesSpec => []EdgesBetweenHeld
<1>1. EdgesIInv => EdgesBetweenHeld
  BY DEF EdgesIInv
<1> QED BY <1>1, EdgesInductive, PTL

THEOREM EdgesInvariant ==
    ASSUME NoSelfReference
    PROVE  EdgesSpec => []EdgesInv
<1>1. EdgesIInv => EdgesInv
  BY DEF EdgesIInv, EdgesInv
<1> QED BY <1>1, EdgesInductive, PTL
=============================================================================
