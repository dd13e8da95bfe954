--------------------------- MODULE Informer_proofs ---------------------------
(***************************************************************************)
(* Proofs about one informer (Informer), for any number of resources,      *)
(* versions, namespaces, failures, resyncs and changes of the selection,   *)
(* about a second informer of the same type that replaces it (Handover),   *)
(* and about the selection of namespaces that the informers share          *)
(* (NamespaceFilter), apart from the other two.                            *)
(***************************************************************************)
EXTENDS Handover, NamespaceFilter, FiniteSetTheorems, SequenceTheorems, TLAPS

-----------------------------------------------------------------------------
(* The inductive invariant.                                                *)

\* Until the selection changes, the informer asks for every namespace.
SelectsAll == selects = 0 => selected = Namespace /\ nsCache = Namespace

\* A UID is not used again.
RetiredGone == \A r \in retired : cluster[r] = None

\* Nothing is collected that the cluster has not come to yet.
CollectedPast == \A r \in Resource \ retired : collected[r] <= cluster[r]

\* What is left of a list: one version of each resource, between the one collected and the
\* one in the cluster.
ListInOrder ==
    /\ \A item \in todo :
          /\ collected[item[1]] <= item[2]
          /\ item[1] \notin retired => item[2] <= cluster[item[1]]
    /\ \A a, b \in todo : a[1] = b[1] => a = b

\* The events of the watch that are left, the same way, with the versions of a resource in
\* their order.
StreamInOrder ==
    /\ \A i \in 1..Len(stream) :
          /\ stream[i].type = "DELETED" => stream[i].res \in retired
          /\ collected[stream[i].res] <= stream[i].ver
          /\ stream[i].res \notin retired => stream[i].ver <= cluster[stream[i].res]
    /\ \A i, j \in 1..Len(stream) :
          i < j /\ stream[i].res = stream[j].res => stream[i].ver <= stream[j].ver

\* A resource of the cluster is collected in its last version, or an event that brings it
\* there is left.
StreamCatchesUp ==
    pc = "watch" /\ selects = 0 =>
        \A r \in Live :
            \/ collected[r] = cluster[r] /\ r \in resourceIndex
            \/ \E i \in 1..Len(stream) : stream[i].res = r /\ stream[i].ver = cluster[r]

\* What is indexed is collected.
IndexCollected == pc # "stopped" => \A r \in resourceIndex : collected[r] # None

InformerIInv ==
    /\ TypeOK
    /\ selects \in Nat
    /\ SelectsAll
    /\ RetiredGone
    /\ CollectedPast
    /\ ListInOrder
    /\ StreamInOrder
    /\ StreamCatchesUp
    /\ IndexCollected

-----------------------------------------------------------------------------
(* Helpers.                                                                *)

\* A finite set is turned into a sequence that has each of its members.
LEMMA SetToSeqProperties ==
    ASSUME NEW S, IsFiniteSet(S)
    PROVE  /\ SetToSeq(S) \in Seq(S)
           /\ \A x \in S : \E i \in 1..Len(SetToSeq(S)) : SetToSeq(S)[i] = x
           /\ \A i, j \in 1..Len(SetToSeq(S)) : SetToSeq(S)[i] = SetToSeq(S)[j] => i = j
<1> DEFINE n == Cardinality(S)
           f == SetToSeq(S)
<1>1. n \in Nat
  BY FS_CardinalityType
<1>2. \E g \in [1..n -> S] : IsInjective(g)
  <2>1. PICK m \in Nat : ExistsBijection(1..m, S)
    BY FS_NatBijection
  <2>2. m = n
    BY <2>1, FS_CountingElements
  <2>3. PICK g : g \in Bijection(1..m, S)
    BY <2>1 DEF ExistsBijection
  <2> QED BY <2>2, <2>3 DEF Bijection, Injection
<1>3. f \in [1..n -> S] /\ IsInjective(f)
  BY <1>2 DEF SetToSeq
<1>4. f \in Seq(S) /\ Len(f) = n
  BY <1>1, <1>3
<1>5. f \in Injection(1..n, S)
  BY <1>3 DEF Injection
<1>6. IsFiniteSet(1..n) /\ Cardinality(1..n) = n
  BY <1>1, FS_Interval
<1>7. f \in Surjection(1..n, S)
  BY <1>5, <1>6, FS_Injection
<1> HIDE DEF f, n
<1>8. \A x \in S : \E i \in 1..n : f[i] = x
  BY <1>7 DEF Surjection
<1>9. \A i, j \in 1..n : f[i] = f[j] => i = j
  BY <1>3 DEF IsInjective
<1> QED BY <1>4, <1>8, <1>9 DEF f

\* A watch starts with one event for each resource of the cluster.
LEMMA ReplayProperties ==
    ASSUME TypeOK, NEW s,
           s = SetToSeq({[type |-> "ADDED", res |-> r, ver |-> cluster[r]] : r \in Live})
    PROVE  /\ s \in Seq(WatchEvent)
           /\ \A i \in 1..Len(s) :
                 s[i].type = "ADDED" /\ s[i].res \in Live /\ s[i].ver = cluster[s[i].res]
           /\ \A r \in Live : \E i \in 1..Len(s) :
                 /\ s[i].res = r /\ s[i].ver = cluster[r]
                 /\ \A j \in 1..Len(s) : i < j => s[j].res # r
<1> DEFINE E(r) == [type |-> "ADDED", res |-> r, ver |-> cluster[r]]
           S == {E(r) : r \in Live}
<1>1. IsFiniteSet(Live)
  BY InformerAssumption, FS_Subset DEF Live
<1>2. IsFiniteSet(S)
  <2> DEFINE f == [r \in Live |-> E(r)]
  <2>1. f \in Surjection(Live, S)
    BY DEF Surjection
  <2> QED BY <1>1, <2>1, FS_Surjection
<1>3. S \subseteq WatchEvent
  <2>1. \A r \in Live : r \in Resource /\ cluster[r] \in 1..MaxVersion
    BY InformerAssumption DEF Live, TypeOK, None
  <2> QED BY <2>1 DEF WatchEvent
<1>4. /\ s \in Seq(S)
      /\ \A x \in S : \E i \in 1..Len(s) : s[i] = x
      /\ \A i, j \in 1..Len(s) : s[i] = s[j] => i = j
  BY <1>2, SetToSeqProperties
<1>5. s \in Seq(WatchEvent) /\ Len(s) \in Nat
  BY <1>3, <1>4, SeqMonotonic, LenProperties
<1>6. \A i \in 1..Len(s) : s[i] \in S
  BY <1>4, ElementOfSeq
<1>7. \A x \in S : x.type = "ADDED" /\ x.res \in Live /\ x.ver = cluster[x.res] /\ x = E(x.res)
  OBVIOUS
<1>8. \A r \in Live : E(r) \in S /\ E(r).res = r /\ E(r).ver = cluster[r]
  OBVIOUS
<1> HIDE DEF S, E
<1>9. ASSUME NEW r \in Live
      PROVE  \E i \in 1..Len(s) : /\ s[i].res = r /\ s[i].ver = cluster[r]
                                  /\ \A j \in 1..Len(s) : i < j => s[j].res # r
  <2>1. PICK i \in 1..Len(s) : s[i] = E(r)
    BY <1>4, <1>8
  <2>2. ASSUME NEW j \in 1..Len(s), i < j, s[j].res = r PROVE FALSE
    <3>1. s[j] = s[i]
      BY <1>6, <1>7, <2>1, <2>2
    <3>2. i = j
      BY <1>4, <3>1
    <3> QED BY <1>5, <2>2, <3>2
  <2> QED BY <1>8, <2>1, <2>2
<1> QED BY <1>5, <1>6, <1>7, <1>9

\* What a watch starts with: an ADDED event for each resource of the cluster.
LEMMA FirstEvents ==
    ASSUME TypeOK, OpenWatch
    PROVE  /\ stream' \in Seq(WatchEvent)
           /\ \A i \in 1..Len(stream') :
                 /\ stream'[i].type = "ADDED" /\ stream'[i].res \in Live
                 /\ stream'[i].ver = cluster[stream'[i].res]
           /\ \A r \in Live : \E i \in 1..Len(stream') :
                 stream'[i].res = r /\ stream'[i].ver = cluster[r]
<1> DEFINE S == {[type |-> "ADDED", res |-> r, ver |-> cluster[r]] : r \in Live}
<1>1. \A s : s = SetToSeq(S) =>
          /\ s \in Seq(WatchEvent)
          /\ \A i \in 1..Len(s) :
                s[i].type = "ADDED" /\ s[i].res \in Live /\ s[i].ver = cluster[s[i].res]
          /\ \A r \in Live : \E i \in 1..Len(s) :
                /\ s[i].res = r /\ s[i].ver = cluster[r]
                /\ \A j \in 1..Len(s) : i < j => s[j].res # r
  BY ReplayProperties
<1>2. stream' = SetToSeq(S)
  BY DEF OpenWatch
<1> HIDE DEF S
<1> QED BY <1>1, <1>2

\* The first of some events, and the rest.
LEMMA EventTypes ==
    ASSUME NEW s \in Seq(WatchEvent), s # <<>>
    PROVE  /\ Head(s) \in WatchEvent /\ Tail(s) \in Seq(WatchEvent)
           /\ Len(s) \in Nat \ {0} /\ Head(s) = s[1] /\ Len(Tail(s)) = Len(s) - 1
           /\ \A i \in 1..Len(s) - 1 : Tail(s)[i] = s[i + 1] /\ i + 1 \in 1..Len(s)
           /\ \A i \in 1..Len(s) : s[i] \in WatchEvent
<1>1. Len(s) \in Nat \ {0} /\ Head(s) = s[1]
  BY EmptySeq
<1>2. /\ Head(s) \in WatchEvent /\ Tail(s) \in Seq(WatchEvent) /\ Len(Tail(s)) = Len(s) - 1
      /\ \A i \in 1..Len(s) - 1 : Tail(s)[i] = s[i + 1]
  BY HeadTailProperties
<1>3. \A i \in 1..Len(s) : s[i] \in WatchEvent
  BY ElementOfSeq
<1> QED BY <1>1, <1>2, <1>3

-----------------------------------------------------------------------------
(* The cluster.                                                            *)

\* What an appended event leaves and adds.
LEMMA ReportProperties ==
    ASSUME TypeOK, NEW t \in {"ADDED", "MODIFIED", "DELETED"}, NEW r \in Resource,
           NEW v \in 1..MaxVersion, Report(t, r, v)
    PROVE  /\ stream' \in Seq(WatchEvent)
           /\ pc # "watch" => stream' = stream /\ Len(stream) = 0
           /\ pc = "watch" =>
                 /\ Len(stream') = Len(stream) + 1
                 /\ \A i \in 1..Len(stream) : stream'[i] = stream[i]
                 /\ stream'[Len(stream) + 1] = [type |-> t, res |-> r, ver |-> v]
           /\ Len(stream) \in Nat
           /\ \A i \in 1..Len(stream) : stream[i] \in WatchEvent
<1> DEFINE e == [type |-> t, res |-> r, ver |-> v]
<1>1. e \in WatchEvent
  BY DEF WatchEvent
<1>2. stream \in Seq(WatchEvent) /\ (pc # "watch" => stream = <<>>)
  BY DEF TypeOK
<1>3. Len(stream) \in Nat /\ \A i \in 1..Len(stream) : stream[i] \in WatchEvent
  BY <1>2, ElementOfSeq, LenProperties
<1> HIDE DEF e
<1>4. CASE pc = "watch"
  <2>1. stream' = Append(stream, e)
    BY <1>4 DEF Report, e
  <2>2. /\ Append(stream, e) \in Seq(WatchEvent)
        /\ Len(Append(stream, e)) = Len(stream) + 1
        /\ \A i \in 1..Len(stream) : Append(stream, e)[i] = stream[i]
        /\ Append(stream, e)[Len(stream) + 1] = e
    BY <1>1, <1>2, AppendProperties
  <2> QED BY <1>3, <1>4, <2>1, <2>2 DEF e
<1>5. CASE pc # "watch"
  <2>1. stream' = stream
    BY <1>5 DEF Report
  <2> QED BY <1>2, <1>3, <1>5, <2>1, EmptySeq
<1> QED BY <1>4, <1>5

\* A resource is created or changed.
LEMMA ClusterWritesInv ==
    ASSUME InformerIInv, NEW r \in Resource, ClusterWrites(r)
    PROVE  InformerIInv'
<1> DEFINE t == IF cluster[r] = None THEN "ADDED" ELSE "MODIFIED"
           v == cluster[r] + 1
<1>0. /\ TypeOK /\ MaxVersion \in Nat
      /\ \A x \in Resource : cluster[x] \in 0..MaxVersion /\ collected[x] \in 0..MaxVersion
  BY InformerAssumption DEF InformerIInv, TypeOK
<1>1. /\ r \notin retired /\ cluster[r] < MaxVersion
      /\ UNCHANGED <<retired, selected, nsCache, selects, pc, todo, newIndex, resourceIndex,
                     resyncCh, stopping, resyncs, collected, faults>>
      /\ Report(t, r, v)
  BY DEF ClusterWrites, requestVars
<1>2. v \in 1..MaxVersion /\ t \in {"ADDED", "MODIFIED"}
  BY <1>0, <1>1
<1>3. /\ cluster' \in [Resource -> 0..MaxVersion]
      /\ cluster'[r] = v /\ \A x \in Resource \ {r} : cluster'[x] = cluster[x]
  BY <1>0, <1>2 DEF ClusterWrites, TypeOK
<1>4. /\ stream' \in Seq(WatchEvent)
      /\ pc # "watch" => stream' = stream /\ Len(stream) = 0
      /\ pc = "watch" =>
            /\ Len(stream') = Len(stream) + 1
            /\ \A i \in 1..Len(stream) : stream'[i] = stream[i]
            /\ stream'[Len(stream) + 1] = [type |-> t, res |-> r, ver |-> v]
      /\ Len(stream) \in Nat
      /\ \A i \in 1..Len(stream) : stream[i].res \in Resource /\ stream[i].ver \in 1..MaxVersion
  BY <1>0, <1>1, <1>2, ReportProperties DEF WatchEvent
<1> HIDE DEF v, t
<1>5. TypeOK'
  BY <1>1, <1>3, <1>4 DEF InformerIInv, TypeOK
<1>6. /\ selects' \in Nat /\ SelectsAll' /\ RetiredGone' /\ IndexCollected'
  <2>1. retired \subseteq Resource
    BY <1>0 DEF TypeOK
  <2> QED BY <1>1, <1>3, <2>1 DEF InformerIInv, SelectsAll, RetiredGone, IndexCollected
<1>7. CollectedPast'
  BY <1>0, <1>1, <1>3 DEF InformerIInv, CollectedPast, v
<1>8. ListInOrder'
  <2>1. \A item \in todo : item[1] \in Resource /\ item[2] \in 1..MaxVersion
    BY <1>0 DEF TypeOK
  <2>2. \A x \in Resource : cluster[x] <= cluster'[x]
    BY <1>0, <1>3 DEF v
  <2>3. \A x \in Resource : cluster'[x] \in 0..MaxVersion
    BY <1>3
  <2> QED BY <1>0, <1>1, <2>1, <2>2, <2>3 DEF InformerIInv, ListInOrder
<1>9. StreamInOrder'
  <2>1. CASE pc # "watch"
    BY <1>4, <2>1 DEF StreamInOrder
  <2>2. CASE pc = "watch"
    <3>1. ASSUME NEW i \in 1..Len(stream)
          PROVE  /\ stream'[i].type = "DELETED" => stream'[i].res \in retired
                 /\ collected[stream'[i].res] <= stream'[i].ver
                 /\ stream'[i].res \notin retired => stream'[i].ver <= cluster'[stream'[i].res]
                 /\ stream'[i].res = r => stream'[i].ver <= v
      <4>1. stream'[i] = stream[i] /\ stream[i].res \in Resource /\ stream[i].ver \in 1..MaxVersion
        BY <1>4, <2>2
      <4>2. /\ stream[i].type = "DELETED" => stream[i].res \in retired
            /\ collected[stream[i].res] <= stream[i].ver
            /\ stream[i].res \notin retired => stream[i].ver <= cluster[stream[i].res]
        BY DEF InformerIInv, StreamInOrder
      <4>3. CASE stream[i].res = r
        BY <1>0, <1>1, <1>3, <4>1, <4>2, <4>3 DEF v
      <4>4. CASE stream[i].res # r
        <5>1. cluster'[stream[i].res] = cluster[stream[i].res]
          BY <1>3, <4>1, <4>4
        <5> QED BY <4>1, <4>2, <4>4, <5>1
      <4> QED BY <4>3, <4>4
    <3>2. LET i == Len(stream) + 1
          IN  /\ stream'[i].type # "DELETED" /\ stream'[i].res = r /\ stream'[i].ver = v
              /\ collected[stream'[i].res] <= stream'[i].ver
              /\ stream'[i].ver <= cluster'[stream'[i].res]
      BY <1>0, <1>1, <1>2, <1>3, <1>4, <2>2 DEF InformerIInv, CollectedPast, v
    <3>3. \A i \in 1..Len(stream') : i \in 1..Len(stream) \/ i = Len(stream) + 1
      BY <1>4, <2>2
    <3>4. ASSUME NEW i \in 1..Len(stream'), NEW j \in 1..Len(stream'), i < j,
                 stream'[i].res = stream'[j].res
          PROVE  stream'[i].ver <= stream'[j].ver
      <4>1. CASE j \in 1..Len(stream)
        <5>1. i \in 1..Len(stream)
          BY <3>4, <4>1, <1>4
        <5> QED BY <1>4, <2>2, <3>4, <4>1, <5>1 DEF InformerIInv, StreamInOrder
      <4>2. CASE j = Len(stream) + 1
        <5>1. i \in 1..Len(stream)
          BY <1>4, <3>3, <3>4, <4>2
        <5> QED BY <3>1, <3>2, <3>4, <4>2, <5>1
      <4> QED BY <3>3, <4>1, <4>2
    <3> QED BY <1>1, <3>1, <3>2, <3>3, <3>4 DEF StreamInOrder
  <2> QED BY <2>1, <2>2
<1>10. StreamCatchesUp'
  <2> SUFFICES ASSUME pc = "watch", selects = 0, NEW x \in Live'
               PROVE  \/ collected[x] = cluster'[x] /\ x \in resourceIndex
                      \/ \E i \in 1..Len(stream') : stream'[i].res = x /\ stream'[i].ver = cluster'[x]
    BY <1>1 DEF StreamCatchesUp
  <2>1. CASE x = r
    <3>1. Len(stream) + 1 \in 1..Len(stream')
      BY <1>4
    <3>2. stream'[Len(stream) + 1].res = r /\ stream'[Len(stream) + 1].ver = cluster'[r]
      BY <1>3, <1>4
    <3> QED BY <2>1, <3>1, <3>2
  <2>2. CASE x # r
    <3>1. x \in Live /\ cluster'[x] = cluster[x]
      BY <1>3, <2>2 DEF Live
    <3>2. \A i \in 1..Len(stream) : i \in 1..Len(stream') /\ stream'[i] = stream[i]
      BY <1>4
    <3> QED BY <3>1, <3>2 DEF InformerIInv, StreamCatchesUp
  <2> QED BY <2>1, <2>2
<1> QED BY <1>5, <1>6, <1>7, <1>8, <1>9, <1>10 DEF InformerIInv

\* A resource is deleted: from now on nothing bounds what is left of its events but their
\* order.
LEMMA ClusterDeletesInv ==
    ASSUME InformerIInv, NEW r \in Resource, ClusterDeletes(r)
    PROVE  InformerIInv'
<1> DEFINE v == cluster[r]
<1>0. /\ TypeOK /\ MaxVersion \in Nat
      /\ \A x \in Resource : cluster[x] \in 0..MaxVersion /\ collected[x] \in 0..MaxVersion
  BY InformerAssumption DEF InformerIInv, TypeOK
<1>1. /\ v # None /\ retired' = retired \cup {r}
      /\ UNCHANGED <<selected, nsCache, selects, pc, todo, newIndex, resourceIndex,
                     resyncCh, stopping, resyncs, collected, faults>>
      /\ Report("DELETED", r, v)
  BY DEF ClusterDeletes, requestVars
<1>2. v \in 1..MaxVersion /\ r \notin retired
  BY <1>0, <1>1 DEF None, InformerIInv, RetiredGone
<1>3. /\ cluster' \in [Resource -> 0..MaxVersion]
      /\ cluster'[r] = None /\ \A x \in Resource \ {r} : cluster'[x] = cluster[x]
  BY <1>0, <1>2 DEF ClusterDeletes, TypeOK, None
<1>4. /\ stream' \in Seq(WatchEvent)
      /\ pc # "watch" => stream' = stream /\ Len(stream) = 0
      /\ pc = "watch" =>
            /\ Len(stream') = Len(stream) + 1
            /\ \A i \in 1..Len(stream) : stream'[i] = stream[i]
            /\ stream'[Len(stream) + 1] = [type |-> "DELETED", res |-> r, ver |-> v]
      /\ Len(stream) \in Nat
      /\ \A i \in 1..Len(stream) : stream[i].res \in Resource /\ stream[i].ver \in 1..MaxVersion
  BY <1>0, <1>1, <1>2, ReportProperties DEF WatchEvent
<1> HIDE DEF v
<1>5. TypeOK'
  BY <1>1, <1>3, <1>4 DEF InformerIInv, TypeOK
<1>6. /\ selects' \in Nat /\ SelectsAll' /\ RetiredGone' /\ IndexCollected'
  <2>1. retired \subseteq Resource
    BY <1>0 DEF TypeOK
  <2> QED BY <1>1, <1>3, <2>1 DEF InformerIInv, SelectsAll, RetiredGone, IndexCollected
<1>7. CollectedPast'
  BY <1>1, <1>3 DEF InformerIInv, CollectedPast
<1>8. ListInOrder'
  <2>1. \A item \in todo : item[1] \in Resource
    BY <1>0 DEF TypeOK
  <2> QED BY <1>1, <1>3, <2>1 DEF InformerIInv, ListInOrder
<1>9. StreamInOrder'
  <2>1. CASE pc # "watch"
    BY <1>4, <2>1 DEF StreamInOrder
  <2>2. CASE pc = "watch"
    <3>1. ASSUME NEW i \in 1..Len(stream)
          PROVE  /\ stream'[i].type = "DELETED" => stream'[i].res \in retired'
                 /\ collected[stream'[i].res] <= stream'[i].ver
                 /\ stream'[i].res \notin retired' => stream'[i].ver <= cluster'[stream'[i].res]
                 /\ stream'[i].res = r => stream'[i].ver <= v
      <4>1. stream'[i] = stream[i] /\ stream[i].res \in Resource /\ stream[i].ver \in 1..MaxVersion
        BY <1>4, <2>2
      <4>2. /\ stream[i].type = "DELETED" => stream[i].res \in retired
            /\ collected[stream[i].res] <= stream[i].ver
            /\ stream[i].res \notin retired => stream[i].ver <= cluster[stream[i].res]
        BY DEF InformerIInv, StreamInOrder
      <4>3. CASE stream[i].res = r
        BY <1>1, <1>2, <4>1, <4>2, <4>3 DEF v
      <4>4. CASE stream[i].res # r
        <5>1. cluster'[stream[i].res] = cluster[stream[i].res]
          BY <1>3, <4>1, <4>4
        <5> QED BY <1>1, <4>1, <4>2, <4>4, <5>1
      <4> QED BY <4>3, <4>4
    <3>2. LET i == Len(stream) + 1
          IN  /\ stream'[i].res = r /\ stream'[i].ver = v
              /\ r \in retired'
              /\ collected[stream'[i].res] <= stream'[i].ver
      BY <1>1, <1>2, <1>4, <2>2 DEF InformerIInv, CollectedPast, v
    <3>3. \A i \in 1..Len(stream') : i \in 1..Len(stream) \/ i = Len(stream) + 1
      BY <1>4, <2>2
    <3>4. ASSUME NEW i \in 1..Len(stream'), NEW j \in 1..Len(stream'), i < j,
                 stream'[i].res = stream'[j].res
          PROVE  stream'[i].ver <= stream'[j].ver
      <4>1. CASE j \in 1..Len(stream)
        <5>1. i \in 1..Len(stream)
          BY <3>4, <4>1, <1>4
        <5> QED BY <1>4, <2>2, <3>4, <4>1, <5>1 DEF InformerIInv, StreamInOrder
      <4>2. CASE j = Len(stream) + 1
        <5>1. i \in 1..Len(stream)
          BY <1>4, <3>3, <3>4, <4>2
        <5> QED BY <3>1, <3>2, <3>4, <4>2, <5>1
      <4> QED BY <3>3, <4>1, <4>2
    <3> QED BY <1>1, <3>1, <3>2, <3>3, <3>4 DEF StreamInOrder
  <2> QED BY <2>1, <2>2
<1>10. StreamCatchesUp'
  <2> SUFFICES ASSUME pc = "watch", selects = 0, NEW x \in Live'
               PROVE  \/ collected[x] = cluster'[x] /\ x \in resourceIndex
                      \/ \E i \in 1..Len(stream') : stream'[i].res = x /\ stream'[i].ver = cluster'[x]
    BY <1>1 DEF StreamCatchesUp
  <2>1. x \in Live /\ cluster'[x] = cluster[x]
    BY <1>3 DEF Live
  <2>2. \A i \in 1..Len(stream) : i \in 1..Len(stream') /\ stream'[i] = stream[i]
    BY <1>4
  <2> QED BY <2>1, <2>2 DEF InformerIInv, StreamCatchesUp
<1> QED BY <1>5, <1>6, <1>7, <1>8, <1>9, <1>10 DEF InformerIInv

\* The selection changes, or the cached one is resolved again.
LEMMA SelectInv ==
    ASSUME InformerIInv,
           \/ \E S \in SUBSET Namespace : SelectNamespaces(S)
           \/ RefreshNamespaces
    PROVE  InformerIInv'
<1>1. UNCHANGED <<cluster, retired, pc, todo, newIndex, resourceIndex, stream, resyncCh, stopping,
                  resyncs, collected, faults>>
  BY DEF SelectNamespaces, RefreshNamespaces, requestVars
<1>2. /\ selects' \in Nat /\ selected' \cup nsCache' \subseteq Namespace
      /\ selects' = 0 => selects = 0
      /\ selects' = 0 => selected' = Namespace /\ nsCache' = Namespace
  BY DEF SelectNamespaces, RefreshNamespaces, InformerIInv, TypeOK, SelectsAll
<1>3. TypeOK'
  BY <1>1, <1>2 DEF InformerIInv, TypeOK
<1>4. StreamCatchesUp'
  BY <1>1, <1>2 DEF InformerIInv, StreamCatchesUp, Live
<1> QED BY <1>1, <1>2, <1>3, <1>4 DEF InformerIInv, SelectsAll, RetiredGone, CollectedPast,
           ListInOrder, StreamInOrder, IndexCollected

-----------------------------------------------------------------------------
(* The informer.                                                           *)

\* Requests, the backoff, failures and the end of a watch leave what is collected alone, and
\* nothing of a list or a watch behind.
LEMMA ControlInv ==
    ASSUME InformerIInv,
           TriggerResync \/ Cancel \/ BackOff \/ ListFails \/ OpenFails \/ WatchEnds
              \/ TakeResync \/ TakeStop
    PROVE  InformerIInv'
<1>1. /\ UNCHANGED <<cluster, retired, selected, nsCache, selects, newIndex, resourceIndex, collected>>
      /\ todo' = todo \/ todo' = {}
      /\ stream' = stream \/ stream' = <<>>
      /\ \/ UNCHANGED <<pc, todo, stream>>
         \/ pc' \in {"top", "wait"} /\ todo' = {} /\ stream' = <<>> /\ pc # "stopped"
  BY DEF TriggerResync, Cancel, BackOff, ListFails, OpenFails, WatchEnds, TakeResync, TakeStop,
         LeaveWatch, clusterVars, requestVars, InformerIInv, TypeOK
<1>2. faults' \in 0..FaultLimit
  <2>1. faults \in 0..FaultLimit /\ FaultLimit \in Nat
    BY InformerAssumption DEF InformerIInv, TypeOK
  <2> QED BY <2>1 DEF TriggerResync, Cancel, BackOff, ListFails, OpenFails, WatchEnds, TakeResync,
         TakeStop, LeaveWatch, Fault
<1>3. resyncCh' \in BOOLEAN /\ stopping' \in BOOLEAN
  BY DEF TriggerResync, Cancel, BackOff, ListFails, OpenFails, WatchEnds, TakeResync, TakeStop,
         LeaveWatch, requestVars, InformerIInv, TypeOK
<1>4. TypeOK'
  <2>1. /\ pc' \in {"top", "wait", "list", "open", "watch", "stopped"}
        /\ todo' \subseteq Resource \X (1..MaxVersion)
        /\ stream' \in Seq(WatchEvent)
        /\ todo' # {} => pc' = "list"
        /\ stream' # <<>> => pc' = "watch"
    BY <1>1, EmptySeq DEF InformerIInv, TypeOK
  <2> QED BY <1>1, <1>2, <1>3, <2>1 DEF InformerIInv, TypeOK
<1>5. ListInOrder'
  BY <1>1 DEF InformerIInv, ListInOrder
<1>6. StreamInOrder'
  <2>1. CASE stream' = stream
    BY <1>1, <2>1 DEF InformerIInv, StreamInOrder
  <2>2. CASE stream' = <<>>
    BY <2>2 DEF StreamInOrder
  <2> QED BY <1>1, <2>1, <2>2
<1>7. StreamCatchesUp'
  BY <1>1 DEF InformerIInv, StreamCatchesUp, Live
<1> QED BY <1>1, <1>4, <1>5, <1>6, <1>7 DEF InformerIInv, SelectsAll, RetiredGone, CollectedPast,
           IndexCollected

\* The list is taken: it has the versions of the cluster.
LEMMA StartListInv ==
    ASSUME InformerIInv, StartList
    PROVE  InformerIInv'
<1>1. /\ UNCHANGED <<cluster, retired, selected, nsCache, selects, resourceIndex, stream, resyncCh,
                     stopping, resyncs, collected, faults>>
      /\ todo' = {<<r, cluster[r]>> : r \in Live} /\ newIndex' = {}
      /\ pc = "wait" /\ pc' = "list"
  BY DEF StartList, clusterVars, requestVars
<1>2. /\ \A x \in Resource : cluster[x] \in 0..MaxVersion /\ collected[x] \in 0..MaxVersion
      /\ MaxVersion \in Nat
  BY InformerAssumption DEF InformerIInv, TypeOK
<1>3. \A item \in todo' : /\ item[1] \in Resource /\ item[1] \in Live
                          /\ item[2] = cluster[item[1]] /\ item = <<item[1], item[2]>>
  BY <1>1 DEF Live
<1>4. todo' \subseteq Resource \X (1..MaxVersion)
  BY <1>1, <1>2 DEF Live, None
<1>5. TypeOK'
  BY <1>1, <1>4 DEF InformerIInv, TypeOK
<1>6. ListInOrder'
  <2>1. \A x \in Live : x \notin retired
    BY DEF Live, InformerIInv, RetiredGone
  <2>2. \A x \in Live : collected[x] <= cluster[x] /\ cluster[x] <= cluster[x]
    BY <1>2, <2>1 DEF InformerIInv, CollectedPast, Live
  <2> QED BY <1>1, <1>3, <2>1, <2>2 DEF ListInOrder
<1> QED BY <1>1, <1>5, <1>6 DEF InformerIInv, SelectsAll, RetiredGone, CollectedPast,
           StreamInOrder, StreamCatchesUp, IndexCollected

\* A listed resource is added, in a version that is not older than the one collected.
LEMMA AddListedInv ==
    ASSUME InformerIInv, NEW item \in todo, AddListed(item)
    PROVE  InformerIInv' /\ collected'[item[1]] >= collected[item[1]]
             /\ \A x \in Resource \ {item[1]} : collected'[x] = collected[x]
<1>1. /\ UNCHANGED <<cluster, retired, selected, nsCache, selects, pc, resourceIndex, stream, resyncCh,
                     stopping, resyncs, faults>>
      /\ todo' = todo \ {item} /\ pc = "list" /\ stream = <<>>
      /\ \/ /\ collected' = [collected EXCEPT ![item[1]] = item[2]]
            /\ newIndex' = newIndex \cup {item[1]}
         \/ UNCHANGED <<collected, newIndex>>
  BY DEF AddListed, clusterVars, requestVars, InformerIInv, TypeOK
<1>2. /\ collected \in [Resource -> 0..MaxVersion] /\ MaxVersion \in Nat
      /\ \A x \in todo : x[1] \in Resource /\ x[2] \in 1..MaxVersion
  BY InformerAssumption DEF InformerIInv, TypeOK
<1>3. /\ collected[item[1]] <= item[2]
      /\ item[1] \notin retired => item[2] <= cluster[item[1]]
      /\ \A x \in todo' : x[1] # item[1]
  BY <1>1 DEF InformerIInv, ListInOrder
<1>4. /\ collected' \in [Resource -> 0..MaxVersion]
      /\ collected'[item[1]] \in {item[2], collected[item[1]]}
      /\ \A x \in Resource \ {item[1]} : collected'[x] = collected[x]
  BY <1>1, <1>2
<1>5. TypeOK'
  BY <1>1, <1>2, <1>4 DEF InformerIInv, TypeOK
<1>6. CollectedPast'
  BY <1>1, <1>3, <1>4 DEF InformerIInv, CollectedPast
<1>7. ListInOrder'
  BY <1>1, <1>2, <1>3, <1>4 DEF InformerIInv, ListInOrder
<1>8. StreamInOrder' /\ StreamCatchesUp'
  BY <1>1 DEF StreamInOrder, StreamCatchesUp
<1>9. IndexCollected'
  <2>1. item[2] # None
    BY <1>2 DEF None
  <2>2. resourceIndex \subseteq Resource
    BY DEF InformerIInv, TypeOK
  <2> QED BY <1>1, <1>4, <2>1, <2>2 DEF InformerIInv, IndexCollected
<1>10. collected'[item[1]] >= collected[item[1]]
  BY <1>2, <1>3, <1>4
<1> QED BY <1>1, <1>4, <1>5, <1>6, <1>7, <1>8, <1>9, <1>10 DEF InformerIInv, SelectsAll, RetiredGone

\* What is deleted from the collected state is deleted whole, and the rest stays as it is.
LEMMA WithoutProperties ==
    ASSUME TypeOK, NEW S
    PROVE  /\ Without(S) \in [Resource -> 0..MaxVersion]
           /\ \A r \in Resource : Without(S)[r] = IF r \in S THEN None ELSE collected[r]
           /\ \A r \in Resource : Without(S)[r] <= collected[r]
BY InformerAssumption DEF Without, TypeOK, None

\* Deleting lowers what is collected, which every bound on it survives.
LEMMA DeleteInv ==
    ASSUME InformerIInv, DeleteUnlisted \/ Stopped
    PROVE  InformerIInv'
<1>1. /\ UNCHANGED <<cluster, retired, selected, nsCache, selects, todo, newIndex, stream, resyncCh,
                     stopping, resyncs, faults>>
      /\ pc \in {"list", "top"} /\ pc' \in {"open", "stopped"} /\ todo = {} /\ stream = <<>>
      /\ \/ /\ pc' = "open" /\ resourceIndex' = resourceIndex \cap newIndex
            /\ collected' = Without(resourceIndex \ newIndex)
         \/ /\ pc' = "stopped" /\ resourceIndex' = resourceIndex
            /\ collected' = Without(resourceIndex)
  BY DEF DeleteUnlisted, Stopped, clusterVars, requestVars, InformerIInv, TypeOK
<1>2. TypeOK /\ resourceIndex \subseteq Resource
  BY DEF InformerIInv, TypeOK
<1>3. /\ collected' \in [Resource -> 0..MaxVersion]
      /\ \A r \in Resource : collected'[r] <= collected[r]
  BY <1>1, <1>2, WithoutProperties
<1>4. TypeOK'
  BY <1>1, <1>3 DEF InformerIInv, TypeOK
<1>5. CollectedPast'
  <2>1. \A r \in Resource : /\ collected[r] \in 0..MaxVersion /\ collected'[r] \in 0..MaxVersion
                             /\ cluster[r] \in 0..MaxVersion
    BY <1>2, <1>3 DEF TypeOK
  <2> QED BY <1>1, <1>3, <2>1, InformerAssumption DEF InformerIInv, CollectedPast
<1>6. ListInOrder' /\ StreamInOrder' /\ StreamCatchesUp'
  BY <1>1 DEF ListInOrder, StreamInOrder, StreamCatchesUp
<1>7. IndexCollected'
  <2>1. CASE pc' = "open"
    <3>1. /\ resourceIndex' = resourceIndex \cap newIndex
          /\ collected' = Without(resourceIndex \ newIndex)
      BY <1>1, <2>1
    <3>2. \A r \in resourceIndex' : collected'[r] = collected[r] /\ r \in resourceIndex
      BY <1>2, <3>1, WithoutProperties
    <3> QED BY <1>1, <3>2 DEF InformerIInv, IndexCollected
  <2>2. CASE pc' = "stopped"
    BY <2>2 DEF IndexCollected
  <2> QED BY <1>1, <2>1, <2>2
<1> QED BY <1>1, <1>4, <1>5, <1>6, <1>7 DEF InformerIInv, SelectsAll, RetiredGone

\* The watch opens: its first events bring every resource of the cluster up to date.
LEMMA OpenWatchInv ==
    ASSUME InformerIInv, OpenWatch
    PROVE  InformerIInv'
<1>1. /\ UNCHANGED <<cluster, retired, selected, nsCache, selects, todo, newIndex, resourceIndex,
                     resyncCh, stopping, resyncs, collected, faults>>
      /\ pc = "open" /\ pc' = "watch" /\ todo = {}
  BY DEF OpenWatch, clusterVars, requestVars, InformerIInv, TypeOK
<1>2. /\ TypeOK /\ \A x \in Resource : cluster[x] \in 0..MaxVersion /\ collected[x] \in 0..MaxVersion
      /\ MaxVersion \in Nat
  BY InformerAssumption DEF InformerIInv, TypeOK
<1>3. /\ stream' \in Seq(WatchEvent)
      /\ \A i \in 1..Len(stream') :
            /\ stream'[i].type = "ADDED" /\ stream'[i].res \in Live
            /\ stream'[i].ver = cluster[stream'[i].res]
      /\ \A r \in Live : \E i \in 1..Len(stream') : stream'[i].res = r /\ stream'[i].ver = cluster[r]
  BY <1>2, FirstEvents
<1>4. TypeOK'
  BY <1>1, <1>3 DEF InformerIInv, TypeOK
<1>5. ListInOrder'
  BY <1>1 DEF ListInOrder
<1>6. StreamInOrder'
  <2>1. \A r \in Live : /\ r \in Resource /\ r \notin retired
                        /\ collected[r] <= cluster[r] /\ cluster[r] <= cluster[r]
    BY <1>2 DEF Live, InformerIInv, RetiredGone, CollectedPast
  <2> QED BY <1>1, <1>3, <2>1 DEF StreamInOrder
<1>7. StreamCatchesUp'
  BY <1>1, <1>3 DEF StreamCatchesUp, Live
<1> QED BY <1>1, <1>4, <1>5, <1>6, <1>7 DEF InformerIInv, SelectsAll, RetiredGone, CollectedPast,
           IndexCollected

\* An event is handled: the resource goes to a version that is not older, and what is left
\* of the events does not go back from there.
LEMMA HandleEventInv ==
    ASSUME InformerIInv, HandleEvent
    PROVE  InformerIInv' /\ \A r \in Resource : collected'[r] # None => collected'[r] >= collected[r]
<1> DEFINE e == Head(stream)
           n == Len(stream)
<1>1. /\ UNCHANGED <<cluster, retired, selected, nsCache, selects, pc, todo, newIndex, resyncCh,
                     stopping, resyncs, faults>>
      /\ pc = "watch" /\ stream # <<>> /\ todo = {} /\ stream' = Tail(stream)
      /\ TypeOK /\ stream \in Seq(WatchEvent)
  BY DEF HandleEvent, clusterVars, requestVars, InformerIInv, TypeOK
<1>2. /\ \A x \in Resource : cluster[x] \in 0..MaxVersion /\ collected[x] \in 0..MaxVersion
      /\ collected \in [Resource -> 0..MaxVersion] /\ resourceIndex \subseteq Resource
      /\ MaxVersion \in Nat
  BY InformerAssumption DEF InformerIInv, TypeOK
<1>3. /\ n \in Nat \ {0} /\ e = stream[1] /\ e \in WatchEvent
      /\ stream' \in Seq(WatchEvent) /\ Len(stream') = n - 1
      /\ \A i \in 1..n-1 : stream'[i] = stream[i+1] /\ i + 1 \in 1..n
      /\ \A i \in 1..n : stream[i] \in WatchEvent
  BY <1>1, EventTypes
<1>4. /\ \/ ~Allowed(e.res) /\ UNCHANGED <<collected, resourceIndex>>
         \/ /\ e.type = "DELETED" /\ collected' = Without({e.res})
            /\ resourceIndex' = resourceIndex \ {e.res}
         \/ /\ e.type # "DELETED" /\ collected' = [collected EXCEPT ![e.res] = e.ver]
            /\ resourceIndex' = resourceIndex \cup {e.res}
  BY DEF HandleEvent
<1> HIDE DEF e, n
<1>5. /\ e.res \in Resource /\ e.ver \in 1..MaxVersion
      /\ e.type = "DELETED" => e.res \in retired
      /\ collected[e.res] <= e.ver
      /\ e.res \notin retired => e.ver <= cluster[e.res]
      /\ \A i \in 2..n : stream[i].res = e.res => e.ver <= stream[i].ver
  <2>1. 1 \in 1..n
    BY <1>3
  <2>2. \A i \in 2..n : i \in 1..n /\ 1 < i
    BY <1>3
  <2> QED BY <1>3, <2>1, <2>2 DEF InformerIInv, StreamInOrder, WatchEvent, n
<1>6. /\ collected' \in [Resource -> 0..MaxVersion]
      /\ collected'[e.res] \in {collected[e.res], None, e.ver}
      /\ \A x \in Resource \ {e.res} : collected'[x] = collected[x]
      /\ resourceIndex' \subseteq resourceIndex \cup {e.res}
  BY <1>1, <1>2, <1>4, <1>5, WithoutProperties
<1>7. TypeOK'
  BY <1>1, <1>2, <1>3, <1>5, <1>6 DEF InformerIInv, TypeOK
<1>8. \A r \in Resource : collected'[r] # None => collected'[r] >= collected[r]
  BY <1>2, <1>5, <1>6
<1>9. CollectedPast'
  <2> SUFFICES ASSUME NEW r \in Resource \ retired PROVE collected'[r] <= cluster[r]
    BY <1>1 DEF CollectedPast
  <2>1. collected[r] <= cluster[r] /\ cluster[r] \in 0..MaxVersion
    BY <1>2 DEF InformerIInv, CollectedPast
  <2>2. CASE r = e.res
    BY <1>5, <1>6, <2>1, <2>2 DEF None
  <2>3. CASE r # e.res
    BY <1>6, <2>1, <2>3
  <2> QED BY <2>2, <2>3
<1>10. ListInOrder'
  BY <1>1 DEF ListInOrder
<1>11. StreamInOrder'
  <2>1. ASSUME NEW i \in 1..n-1
        PROVE  /\ stream[i+1].type = "DELETED" => stream[i+1].res \in retired
               /\ collected'[stream[i+1].res] <= stream[i+1].ver
               /\ stream[i+1].res \notin retired => stream[i+1].ver <= cluster[stream[i+1].res]
    <3>1. i + 1 \in 1..n /\ i + 1 \in 2..n
      BY <1>3
    <3>2. /\ stream[i+1].type = "DELETED" => stream[i+1].res \in retired
          /\ collected[stream[i+1].res] <= stream[i+1].ver
          /\ stream[i+1].res \notin retired => stream[i+1].ver <= cluster[stream[i+1].res]
          /\ stream[i+1].res \in Resource /\ stream[i+1].ver \in 1..MaxVersion
      BY <1>3, <3>1 DEF InformerIInv, StreamInOrder, WatchEvent, n
    <3>3. CASE stream[i+1].res = e.res
      BY <1>2, <1>5, <1>6, <3>1, <3>2, <3>3 DEF None
    <3>4. CASE stream[i+1].res # e.res
      BY <1>6, <3>2, <3>4
    <3> QED BY <3>2, <3>3, <3>4
  <2>2. ASSUME NEW i \in 1..n-1, NEW j \in 1..n-1, i < j, stream[i+1].res = stream[j+1].res
        PROVE  stream[i+1].ver <= stream[j+1].ver
    <3>1. i + 1 \in 1..n /\ j + 1 \in 1..n /\ i + 1 < j + 1
      BY <1>3, <2>2
    <3> QED BY <2>2, <3>1 DEF InformerIInv, StreamInOrder, n
  <2> QED BY <1>1, <1>3, <2>1, <2>2 DEF StreamInOrder
<1>12. StreamCatchesUp'
  <2> SUFFICES ASSUME selects = 0, NEW r \in Live
               PROVE  \/ collected'[r] = cluster[r] /\ r \in resourceIndex'
                      \/ \E i \in 1..Len(stream') : stream'[i].res = r /\ stream'[i].ver = cluster[r]
    BY <1>1 DEF StreamCatchesUp, Live
  <2>1. /\ r \in Resource /\ r \notin retired
    BY DEF Live, InformerIInv, RetiredGone
  <2>2. Allowed(e.res)
    BY <1>5, InformerAssumption DEF Allowed, InformerIInv, SelectsAll
  <2>3. CASE collected[r] = cluster[r] /\ r \in resourceIndex
    <3>1. CASE e.res # r
      BY <1>4, <1>6, <2>1, <2>2, <2>3, <3>1
    <3>2. CASE e.res = r
      <4>1. e.type # "DELETED" /\ e.ver = cluster[r]
        BY <1>2, <1>5, <2>1, <2>3, <3>2
      <4> QED BY <1>2, <1>4, <1>5, <2>2, <3>2, <4>1
    <3> QED BY <3>1, <3>2
  <2>4. CASE \E i \in 1..n : stream[i].res = r /\ stream[i].ver = cluster[r]
    <3>1. PICK i \in 1..n : stream[i].res = r /\ stream[i].ver = cluster[r]
      BY <2>4
    <3>2. CASE i = 1
      <4>1. e.type # "DELETED" /\ e.ver = cluster[r] /\ e.res = r
        BY <1>3, <1>5, <2>1, <3>1, <3>2
      <4> QED BY <1>2, <1>4, <1>5, <2>2, <4>1
    <3>3. CASE i # 1
      <4>1. i - 1 \in 1..n-1 /\ (i - 1) + 1 = i
        BY <1>3, <3>3
      <4>2. stream'[i - 1] = stream[i]
        BY <1>3, <4>1
      <4> QED BY <1>3, <3>1, <4>1, <4>2
    <3> QED BY <3>2, <3>3
  <2> QED BY <1>1, <2>3, <2>4 DEF InformerIInv, StreamCatchesUp, n
<1>13. IndexCollected'
  <2>1. e.ver # None
    BY <1>5 DEF None
  <2>2. \A r \in resourceIndex : collected[r] # None
    BY <1>1 DEF InformerIInv, IndexCollected
  <2>3. ASSUME NEW r \in resourceIndex' PROVE collected'[r] # None
    <3>1. r \in Resource
      BY <1>2, <1>5, <1>6
    <3>2. CASE r # e.res
      BY <1>6, <2>2, <3>1, <3>2
    <3>3. CASE r = e.res
      BY <1>2, <1>4, <1>5, <2>1, <2>2, <3>3
    <3> QED BY <3>2, <3>3
  <2> QED BY <2>3 DEF IndexCollected
<1> QED BY <1>1, <1>7, <1>8, <1>9, <1>10, <1>11, <1>12, <1>13 DEF InformerIInv, SelectsAll, RetiredGone

-----------------------------------------------------------------------------
(* The theorems.                                                           *)

\* Nothing is collected, listed or watched at the start.
LEMMA InformerIInvInit == Init => InformerIInv
<1> SUFFICES ASSUME Init PROVE InformerIInv
  OBVIOUS
<1>1. stream = <<>> /\ stream \in Seq(WatchEvent) /\ Len(stream) = 0
  BY EmptySeq DEF Init
<1>2. cluster \in [Resource -> 0..MaxVersion] /\ collected \in [Resource -> 0..MaxVersion]
  BY InformerAssumption DEF Init, None
<1>3. 0 \in 0..FaultLimit
  BY InformerAssumption
<1>4. TypeOK
  BY <1>1, <1>2, <1>3 DEF Init, TypeOK
<1>5. StreamInOrder /\ StreamCatchesUp
  BY <1>1 DEF Init, StreamInOrder, StreamCatchesUp
<1>6. CollectedPast
  BY DEF Init, CollectedPast, None
<1> QED BY <1>4, <1>5, <1>6 DEF Init, InformerIInv, SelectsAll, RetiredGone, ListInOrder, IndexCollected

\* Every step keeps the invariant.
LEMMA InformerIInvNext == InformerIInv /\ [Next]_vars => InformerIInv'
<1> SUFFICES ASSUME InformerIInv, [Next]_vars PROVE InformerIInv'
  OBVIOUS
<1>1. CASE InformerStep
  BY <1>1, ControlInv, StartListInv, AddListedInv, DeleteInv, OpenWatchInv, HandleEventInv
     DEF InformerStep
<1>2. CASE ListFails \/ OpenFails \/ WatchEnds \/ TakeResync \/ TakeStop \/ TriggerResync \/ Cancel
  BY <1>2, ControlInv
<1>3. CASE \E r \in Resource : ClusterWrites(r) \/ ClusterDeletes(r)
  BY <1>3, ClusterWritesInv, ClusterDeletesInv
<1>4. CASE (\E S \in SUBSET Namespace : SelectNamespaces(S)) \/ RefreshNamespaces
  BY <1>4, SelectInv
<1>5. CASE UNCHANGED vars
  BY <1>5 DEF vars, clusterVars, requestVars, InformerIInv, TypeOK, SelectsAll, RetiredGone,
     CollectedPast, ListInOrder, StreamInOrder, StreamCatchesUp, Live, IndexCollected
<1> QED BY <1>1, <1>2, <1>3, <1>4, <1>5 DEF Next

\* The invariant holds throughout.
LEMMA InformerIInvariant == Spec => []InformerIInv
BY InformerIInvInit, InformerIInvNext, PTL DEF Spec

\* A watch that has caught up has left nothing to catch up with.
LEMMA CaughtUpHasAll ==
    ASSUME InformerIInv, CaughtUp, selects = 0, NEW r \in Live
    PROVE  collected[r] = cluster[r] /\ r \in resourceIndex
<1>1. Len(stream) = 0
  BY EmptySeq DEF CaughtUp
<1> QED BY <1>1 DEF CaughtUp, InformerIInv, StreamCatchesUp

\* With an unchanged selection, an informer that has handled the events of its watch has
\* collected every resource of the cluster in its last version, whatever failed, was
\* listed twice or changed between the list and the watch.
THEOREM InformerMissesNothing == Spec => []NothingMissed
<1>1. InformerIInv => NothingMissed
  BY CaughtUpHasAll DEF NothingMissed
<1> QED BY <1>1, InformerIInvariant, PTL

\* The index covers what is collected, so that the next list or the end of the informer
\* deletes what is gone.
THEOREM InformerInvariant == Spec => []InformerInv
<1>1. ASSUME InformerIInv PROVE InformerInv
  <2>1. CaughtUp /\ selects = 0 => Live \subseteq resourceIndex
    BY <1>1, CaughtUpHasAll
  <2> QED BY <1>1, <2>1 DEF InformerIInv, InformerInv, IndexCoversCluster, IndexCollected
<1> QED BY <1>1, InformerIInvariant, PTL

\* Lists, the events a watch starts with and those that follow never take a resource back
\* to an older version.
THEOREM InformerInOrder == Spec => VersionsInOrder
<1> DEFINE Forward == \A r \in Resource : collected'[r] # None => collected'[r] >= collected[r]
<1>1. InformerIInv /\ [Next]_vars => Forward
  <2> SUFFICES ASSUME InformerIInv, [Next]_vars PROVE Forward
    OBVIOUS
  <2>0. TypeOK /\ \A r \in Resource : collected[r] \in Nat
    BY InformerAssumption DEF InformerIInv, TypeOK
  <2>1. CASE UNCHANGED collected
    BY <2>0, <2>1
  <2>2. ASSUME NEW item \in todo, AddListed(item) PROVE Forward
    <3>1. /\ collected'[item[1]] >= collected[item[1]]
          /\ \A x \in Resource \ {item[1]} : collected'[x] = collected[x]
      BY <2>2, AddListedInv
    <3> QED BY <2>0, <3>1
  <2>3. CASE HandleEvent
    BY <2>3, HandleEventInv
  <2>4. ASSUME NEW S, collected' = Without(S) PROVE Forward
    BY <2>0, <2>4, WithoutProperties
  <2>5. CASE DeleteUnlisted \/ Stopped
    BY <2>4, <2>5 DEF DeleteUnlisted, Stopped
  <2> QED BY <2>1, <2>2, <2>3, <2>5 DEF Next, InformerStep, BackOff, StartList, OpenWatch, ListFails,
       OpenFails, WatchEnds, TakeResync, TakeStop, LeaveWatch, ClusterWrites, ClusterDeletes,
       SelectNamespaces, RefreshNamespaces, TriggerResync, Cancel, vars
<1> QED BY <1>1, InformerIInvariant, PTL DEF Spec, VersionsInOrder

-----------------------------------------------------------------------------
(* Two informers of one type (Handover), the second started before the     *)
(* first, which was cancelled, has ended.  The types of both come first.   *)

\* Where the events s of a watch lead: one of a deletion is of a resource that is gone, and
\* a resource of the cluster is collected in its last version or the last of its events
\* has that version.
Ends(s) ==
    /\ \A i \in 1..Len(s) : s[i].type = "DELETED" => s[i].res \in retired
    /\ \A r \in Live :
          \/ collected[r] = cluster[r] /\ \A i \in 1..Len(s) : s[i].res # r
          \/ \E i \in 1..Len(s) :
                /\ s[i].res = r /\ s[i].ver = cluster[r]
                /\ \A j \in 1..Len(s) : i < j => s[j].res # r

\* The selection stays, no UID is used again, a successor that is not there yet has done
\* nothing, and one that has listed again did so after the first had stopped.
Standing ==
    /\ HandoverTypeOK
    /\ nsCache = Namespace
    /\ RetiredGone
    /\ pc2 = "off" =>
          /\ todo2 = {} /\ newIndex2 = {} /\ resourceIndex2 = {} /\ stream2 = <<>>
          /\ resyncCh2 = FALSE /\ stopping2 = FALSE /\ relisted = FALSE
    /\ relisted \in BOOLEAN
    /\ relisted => pc = "stopped"

\* What such a list has added is collected, and what its watch has yet to say ends well.
HandoverIInv ==
    /\ Standing
    /\ relisted /\ pc2 \in {"list", "open"} => \A r \in newIndex2 : collected[r] # None
    /\ relisted /\ pc2 = "watch" => Ends(stream2)

\* The first informer keeps its types, whatever it, the registry or the cluster does.
LEMMA FirstTypes ==
    ASSUME TypeOK,
           \/ InformerStep \/ TakeResync \/ TakeStop \/ ListFails \/ OpenFails \/ WatchEnds
           \/ TriggerResync \/ Cancel
           \/ \E r \in Resource : ClusterWrites(r) \/ ClusterDeletes(r)
    PROVE  TypeOK'
<1>0. /\ \A x \in Resource : cluster[x] \in 0..MaxVersion /\ collected[x] \in 0..MaxVersion
      /\ MaxVersion \in Nat /\ FaultLimit \in Nat
      /\ \A x \in todo : x[1] \in Resource /\ x[2] \in 1..MaxVersion
      /\ <<>> \in Seq(WatchEvent)
  BY InformerAssumption, EmptySeq DEF TypeOK
<1>1. CASE TriggerResync \/ Cancel \/ BackOff
  BY <1>1 DEF TriggerResync, Cancel, BackOff, TypeOK, clusterVars, requestVars
<1>2. CASE ListFails \/ OpenFails \/ WatchEnds \/ TakeResync \/ TakeStop
  <2>1. /\ UNCHANGED <<cluster, retired, selected, nsCache, newIndex, resourceIndex, collected, stopping>>
        /\ pc' = "top" /\ todo' = {} /\ stream' = <<>>
    BY <1>2 DEF ListFails, OpenFails, WatchEnds, TakeResync, TakeStop, LeaveWatch, TypeOK,
       clusterVars, requestVars
  <2>2. faults' \in 0..FaultLimit
    BY <1>0, <1>2 DEF ListFails, OpenFails, WatchEnds, TakeResync, TakeStop, Fault, TypeOK
  <2>3. resyncCh' \in BOOLEAN
    BY <1>2 DEF ListFails, OpenFails, WatchEnds, TakeResync, TakeStop, requestVars, TypeOK
  <2> QED BY <1>0, <2>1, <2>2, <2>3 DEF TypeOK
<1>3. CASE StartList
  <2>1. todo' \subseteq Resource \X (1..MaxVersion)
    BY <1>0, <1>3 DEF StartList, Live, None
  <2> QED BY <1>3, <2>1 DEF StartList, TypeOK, clusterVars, requestVars
<1>4. ASSUME NEW item \in todo, AddListed(item) PROVE TypeOK'
  <2>1. collected' \in [Resource -> 0..MaxVersion] /\ newIndex' \subseteq Resource
    BY <1>0, <1>4 DEF AddListed, TypeOK
  <2> QED BY <1>4, <2>1 DEF AddListed, TypeOK, clusterVars, requestVars
<1>5. CASE DeleteUnlisted \/ Stopped
  <2>1. collected' \in [Resource -> 0..MaxVersion]
    BY <1>5, WithoutProperties DEF DeleteUnlisted, Stopped
  <2> QED BY <1>5, <2>1 DEF DeleteUnlisted, Stopped, TypeOK, clusterVars, requestVars
<1>6. CASE OpenWatch
  <2>1. stream' \in Seq(WatchEvent)
    BY <1>6, FirstEvents
  <2> QED BY <1>6, <2>1 DEF OpenWatch, TypeOK, clusterVars, requestVars
<1>7. CASE HandleEvent
  <2>1. Head(stream) \in WatchEvent /\ stream' \in Seq(WatchEvent)
    BY <1>7, EventTypes DEF HandleEvent, TypeOK
  <2>2. Head(stream).res \in Resource /\ Head(stream).ver \in 1..MaxVersion
    BY <2>1 DEF WatchEvent
  <2>3. collected' \in [Resource -> 0..MaxVersion] /\ resourceIndex' \subseteq Resource
    <3> DEFINE e == Head(stream)
    <3>1. \/ UNCHANGED <<collected, resourceIndex>>
          \/ collected' = Without({e.res}) /\ resourceIndex' = resourceIndex \ {e.res}
          \/ /\ collected' = [collected EXCEPT ![e.res] = e.ver]
             /\ resourceIndex' = resourceIndex \cup {e.res}
      BY <1>7 DEF HandleEvent
    <3>2. collected \in [Resource -> 0..MaxVersion] /\ resourceIndex \subseteq Resource
      BY DEF TypeOK
    <3> HIDE DEF e
    <3>3. e.res \in Resource /\ e.ver \in 0..MaxVersion
      BY <1>0, <2>2 DEF e
    <3> QED BY <3>1, <3>2, <3>3, WithoutProperties
  <2> QED BY <1>7, <2>1, <2>3 DEF HandleEvent, TypeOK, clusterVars, requestVars
<1>8. ASSUME NEW r \in Resource, ClusterWrites(r) \/ ClusterDeletes(r) PROVE TypeOK'
  <2>1. /\ UNCHANGED <<selected, nsCache, pc, todo, newIndex, resourceIndex, resyncCh, stopping,
                       collected, faults>>
        /\ retired' \in {retired, retired \cup {r}}
        /\ \E t \in {"ADDED", "MODIFIED", "DELETED"}, v \in 1..MaxVersion : Report(t, r, v)
        /\ cluster' \in [Resource -> 0..MaxVersion]
    BY <1>0, <1>8 DEF ClusterWrites, ClusterDeletes, requestVars, TypeOK, None
  <2>2. stream' \in Seq(WatchEvent) /\ (pc # "watch" => stream' = stream)
    BY <2>1, ReportProperties
  <2> QED BY <2>1, <2>2 DEF TypeOK
<1> QED BY <1>1, <1>2, <1>3, <1>4, <1>5, <1>6, <1>7, <1>8 DEF InformerStep

\* The shared state has its types for both informers.
SharedTypes ==
    /\ cluster \in [Resource -> 0..MaxVersion]
    /\ collected \in [Resource -> 0..MaxVersion]
    /\ retired \subseteq Resource /\ selected \cup nsCache \subseteq Namespace
    /\ faults \in 0..FaultLimit

\* The state of the second informer has its types.
SecondLocal ==
    /\ newIndex2 \cup resourceIndex2 \subseteq Resource
    /\ pc2 \in {"top", "wait", "list", "open", "watch", "stopped"}
    /\ todo2 \subseteq Resource \X (1..MaxVersion)
    /\ stream2 \in Seq(WatchEvent)
    /\ resyncCh2 \in BOOLEAN /\ stopping2 \in BOOLEAN
    /\ todo2 # {} => pc2 = "list"
    /\ stream2 # <<>> => pc2 = "watch"

LEMMA SecondTypeSplit == Second!TypeOK <=> SharedTypes /\ SecondLocal
BY DEF Second!TypeOK, Second!WatchEvent, WatchEvent, SharedTypes, SecondLocal

LEMMA SecondTypeNext == Second!TypeOK' <=> SharedTypes' /\ SecondLocal'
BY DEF Second!TypeOK, Second!WatchEvent, WatchEvent, SharedTypes, SecondLocal

LEMMA FirstTypeShared == TypeOK => SharedTypes
BY DEF TypeOK, SharedTypes

LEMMA FirstKept ==
    ASSUME TypeOK, SharedTypes', UNCHANGED firstVars
    PROVE  TypeOK'
BY DEF TypeOK, SharedTypes, firstVars

\* What the steps of the second informer do to its state and to what is collected.
LEMMA SecondListing ==
    ASSUME SharedTypes, SecondLocal,
           \/ Second!TriggerResync \/ Second!BackOff \/ Second!ListFails \/ Second!OpenFails
           \/ Second!WatchEnds \/ Second!TakeResync \/ Second!StartList
    PROVE  /\ SharedTypes' /\ SecondLocal' /\ UNCHANGED <<cluster, retired, selected, nsCache, collected>>
           /\ \/ pc2' = pc2 /\ UNCHANGED <<newIndex2, stream2>>
              \/ pc2' \in {"top", "wait"}
              \/ pc2 = "wait" /\ pc2' = "list" /\ newIndex2' = {}
<1>0. /\ \A x \in Resource : cluster[x] \in 0..MaxVersion
      /\ MaxVersion \in Nat /\ FaultLimit \in Nat /\ <<>> \in Seq(WatchEvent)
  BY InformerAssumption, EmptySeq DEF SharedTypes
<1>1. /\ UNCHANGED <<cluster, retired, selected, nsCache, collected, resourceIndex2>>
      /\ faults' \in 0..FaultLimit
  BY <1>0 DEF Second!TriggerResync, Second!BackOff, Second!ListFails, Second!OpenFails, Second!WatchEnds,
     Second!TakeResync, Second!StartList, Second!LeaveWatch, Second!Fault, Second!clusterVars, SharedTypes
<1>2. SharedTypes'
  BY <1>1 DEF SharedTypes
<1>3. resyncCh2' \in BOOLEAN /\ stopping2' \in BOOLEAN
  BY DEF Second!TriggerResync, Second!BackOff, Second!ListFails, Second!OpenFails, Second!WatchEnds,
     Second!TakeResync, Second!StartList, Second!LeaveWatch, Second!requestVars, SecondLocal
<1>4. CASE Second!StartList
  <2>1. todo2' \subseteq Resource \X (1..MaxVersion)
    BY <1>0, <1>4 DEF Second!StartList, Second!Live, Second!None
  <2>2. pc2 = "wait" /\ pc2' = "list" /\ newIndex2' = {} /\ UNCHANGED stream2
    BY <1>4 DEF Second!StartList
  <2> QED BY <1>1, <1>2, <1>3, <2>1, <2>2 DEF SecondLocal
<1>5. CASE Second!TriggerResync
  <2>1. UNCHANGED <<pc2, todo2, newIndex2, stream2>>
    BY <1>5 DEF Second!TriggerResync
  <2> QED BY <1>1, <1>2, <1>3, <2>1 DEF SecondLocal
<1>6. CASE Second!BackOff \/ Second!ListFails \/ Second!OpenFails \/ Second!WatchEnds \/ Second!TakeResync
  <2>1. /\ UNCHANGED newIndex2 /\ pc2' \in {"top", "wait"} /\ todo2' = {} /\ stream2' = <<>>
    BY <1>6 DEF Second!BackOff, Second!ListFails, Second!OpenFails, Second!WatchEnds, Second!TakeResync,
       Second!LeaveWatch, SecondLocal
  <2> QED BY <1>0, <1>1, <1>2, <1>3, <2>1 DEF SecondLocal
<1> QED BY <1>4, <1>5, <1>6

\* What is taken out of the collected state, by either informer.
LEMMA SecondWithout ==
    ASSUME SharedTypes, NEW S
    PROVE  /\ Second!Without(S) \in [Resource -> 0..MaxVersion]
           /\ \A r \in Resource : Second!Without(S)[r] = IF r \in S THEN None ELSE collected[r]
BY InformerAssumption DEF Second!Without, SharedTypes, Second!None, None

\* A listed resource is added.
LEMMA SecondAdds ==
    ASSUME SharedTypes, SecondLocal, NEW item \in todo2, Second!AddListed(item)
    PROVE  /\ SharedTypes' /\ SecondLocal'
           /\ UNCHANGED <<cluster, retired, selected, nsCache, pc2>> /\ pc2 = "list"
           /\ (\A r \in newIndex2 : collected[r] # None) => \A r \in newIndex2' : collected'[r] # None
<1>0. item[1] \in Resource /\ item[2] \in 1..MaxVersion /\ MaxVersion \in Nat
  BY InformerAssumption DEF SecondLocal
<1>1. /\ UNCHANGED <<cluster, retired, selected, nsCache, pc2, resourceIndex2, stream2, resyncCh2,
                     stopping2, faults>>
      /\ todo2' = todo2 \ {item} /\ pc2 = "list"
      /\ \/ /\ collected' = [collected EXCEPT ![item[1]] = item[2]]
            /\ newIndex2' = newIndex2 \cup {item[1]}
         \/ UNCHANGED <<collected, newIndex2>>
  BY DEF Second!AddListed, Second!clusterVars, Second!requestVars
<1>2. /\ collected' \in [Resource -> 0..MaxVersion] /\ newIndex2' \subseteq Resource
      /\ (\A r \in newIndex2 : collected[r] # None) => \A r \in newIndex2' : collected'[r] # None
  <2>1. collected \in [Resource -> 0..MaxVersion] /\ newIndex2 \subseteq Resource
    BY DEF SharedTypes, SecondLocal
  <2>2. CASE UNCHANGED <<collected, newIndex2>>
    BY <2>1, <2>2
  <2>3. CASE /\ collected' = [collected EXCEPT ![item[1]] = item[2]]
             /\ newIndex2' = newIndex2 \cup {item[1]}
    <3>1. /\ collected' \in [Resource -> 0..MaxVersion] /\ collected'[item[1]] # None
          /\ \A r \in Resource \ {item[1]} : collected'[r] = collected[r]
      BY <1>0, <2>1, <2>3 DEF None
    <3> QED BY <1>0, <2>1, <2>3, <3>1
  <2> QED BY <1>1, <2>2, <2>3
<1>3. SharedTypes'
  BY <1>1, <1>2 DEF SharedTypes
<1>4. SecondLocal'
  BY <1>1, <1>2 DEF SecondLocal
<1> QED BY <1>1, <1>2, <1>3, <1>4

\* What was indexed and is not listed, or all that was, is deleted.
LEMMA SecondDeletes ==
    ASSUME SharedTypes, SecondLocal, Second!DeleteUnlisted \/ Second!Stopped
    PROVE  /\ SharedTypes' /\ SecondLocal' /\ UNCHANGED <<cluster, retired, selected, nsCache, newIndex2>>
           /\ \/ pc2' = "stopped" /\ stopping2
              \/ pc2 = "list" /\ pc2' = "open" /\ \A r \in newIndex2 : collected'[r] = collected[r]
<1>1. /\ UNCHANGED <<cluster, retired, selected, nsCache, todo2, newIndex2, stream2, resyncCh2,
                     stopping2, faults>>
      /\ \/ /\ pc2 = "list" /\ pc2' = "open" /\ resourceIndex2' = resourceIndex2 \cap newIndex2
            /\ todo2 = {}
            /\ collected' = Second!Without(resourceIndex2 \ newIndex2)
         \/ /\ pc2 = "top" /\ pc2' = "stopped" /\ resourceIndex2' = resourceIndex2 /\ stopping2
            /\ collected' = Second!Without(resourceIndex2)
  BY DEF Second!DeleteUnlisted, Second!Stopped, Second!clusterVars, Second!requestVars
<1>2. collected' \in [Resource -> 0..MaxVersion]
  BY <1>1, SecondWithout
<1>3. pc2' = "open" => \A r \in newIndex2 : collected'[r] = collected[r]
  <2>1. newIndex2 \subseteq Resource
    BY DEF SecondLocal
  <2> QED BY <1>1, <2>1, SecondWithout
<1>4. SharedTypes'
  BY <1>1, <1>2 DEF SharedTypes
<1>5. SecondLocal'
  BY <1>1 DEF SecondLocal
<1> QED BY <1>1, <1>3, <1>4, <1>5

\* The two informers read the operator of the library alike.
LEMMA SecondSetToSeq == \A S : Second!SetToSeq(S) = SetToSeq(S)
BY DEF Second!SetToSeq, SetToSeq, Second!IsInjective, IsInjective, Second!Cardinality, Cardinality

\* The watch opens with a replay of the cluster, which ends with the last versions.
LEMMA SecondOpens ==
    ASSUME TypeOK, SharedTypes, SecondLocal, Second!OpenWatch
    PROVE  /\ SharedTypes' /\ SecondLocal' /\ UNCHANGED <<cluster, retired, selected, nsCache>>
           /\ pc2' = "watch" /\ Ends(stream2)'
<1>1. /\ UNCHANGED <<cluster, retired, selected, nsCache, todo2, newIndex2, resourceIndex2, resyncCh2,
                     stopping2, collected, faults>>
      /\ pc2 = "open" /\ pc2' = "watch"
      /\ stream2' = SetToSeq({[type |-> "ADDED", res |-> r, ver |-> cluster[r]] : r \in Live})
  <2>1. Second!Live = Live
    BY DEF Second!Live, Second!None, Live, None
  <2> DEFINE S == {[type |-> "ADDED", res |-> r, ver |-> cluster[r]] : r \in Live}
  <2>2. stream2' = Second!SetToSeq(S)
    BY <2>1 DEF Second!OpenWatch
  <2>3. stream2' = SetToSeq(S)
    BY <2>2, SecondSetToSeq
  <2> QED BY <2>3 DEF Second!OpenWatch, Second!clusterVars, Second!requestVars
<1>2. /\ stream2' \in Seq(WatchEvent)
      /\ \A i \in 1..Len(stream2') : stream2'[i].type = "ADDED"
      /\ \A r \in Live : \E i \in 1..Len(stream2') :
            /\ stream2'[i].res = r /\ stream2'[i].ver = cluster[r]
            /\ \A j \in 1..Len(stream2') : i < j => stream2'[j].res # r
  <2> DEFINE S == {[type |-> "ADDED", res |-> r, ver |-> cluster[r]] : r \in Live}
  <2>1. \A s : s = SetToSeq(S) =>
            /\ s \in Seq(WatchEvent)
            /\ \A i \in 1..Len(s) : s[i].type = "ADDED"
            /\ \A r \in Live : \E i \in 1..Len(s) :
                  /\ s[i].res = r /\ s[i].ver = cluster[r]
                  /\ \A j \in 1..Len(s) : i < j => s[j].res # r
    BY ReplayProperties
  <2>2. stream2' = SetToSeq(S)
    BY <1>1
  <2> HIDE DEF S
  <2> QED BY <2>1, <2>2
<1>3. SharedTypes'
  BY <1>1 DEF SharedTypes
<1>4. SecondLocal'
  BY <1>1, <1>2 DEF SecondLocal
<1>5. Ends(stream2)'
  BY <1>1, <1>2 DEF Ends, Live
<1> QED BY <1>1, <1>3, <1>4, <1>5

\* An event of the watch is handled: if it is the last of its resource, it has brought it to
\* its last version.
LEMMA SecondHandles ==
    ASSUME SharedTypes, SecondLocal, nsCache = Namespace, RetiredGone, Second!HandleEvent
    PROVE  /\ SharedTypes' /\ SecondLocal' /\ UNCHANGED <<cluster, retired, selected, nsCache, pc2>>
           /\ pc2 = "watch" /\ (Ends(stream2) => Ends(stream2)')
<1> DEFINE e == Head(stream2)
           n == Len(stream2)
<1>1. /\ UNCHANGED <<cluster, retired, selected, nsCache, pc2, todo2, newIndex2, resyncCh2, stopping2, faults>>
      /\ pc2 = "watch" /\ stream2 # <<>> /\ stream2' = Tail(stream2)
      /\ \/ ~Second!Allowed(e.res) /\ UNCHANGED <<collected, resourceIndex2>>
         \/ /\ e.type = "DELETED" /\ collected' = Second!Without({e.res})
            /\ resourceIndex2' = resourceIndex2 \ {e.res}
         \/ /\ e.type # "DELETED" /\ collected' = [collected EXCEPT ![e.res] = e.ver]
            /\ resourceIndex2' = resourceIndex2 \cup {e.res}
  BY DEF Second!HandleEvent, Second!clusterVars, Second!requestVars
<1>2. /\ e \in WatchEvent /\ stream2' \in Seq(WatchEvent)
      /\ n \in Nat \ {0} /\ e = stream2[1] /\ Len(stream2') = n - 1
      /\ \A i \in 1..n - 1 : stream2'[i] = stream2[i + 1] /\ i + 1 \in 1..n
  BY <1>1, EventTypes DEF SecondLocal
<1> HIDE DEF e, n
<1>3. e.res \in Resource /\ e.ver \in 1..MaxVersion /\ Second!Allowed(e.res) /\ MaxVersion \in Nat
  BY <1>2, InformerAssumption DEF WatchEvent, Second!Allowed
<1>4. /\ collected' \in [Resource -> 0..MaxVersion] /\ resourceIndex2' \subseteq Resource
      /\ e.type # "DELETED" => collected'[e.res] = e.ver
      /\ \A r \in Resource \ {e.res} : collected'[r] = collected[r]
  <2>1. collected \in [Resource -> 0..MaxVersion] /\ resourceIndex2 \subseteq Resource
    BY DEF SharedTypes, SecondLocal
  <2> QED BY <1>1, <1>3, <2>1, SecondWithout
<1>5. SharedTypes'
  BY <1>1, <1>4 DEF SharedTypes
<1>6. SecondLocal'
  BY <1>1, <1>2, <1>4 DEF SecondLocal
<1>7. ASSUME Ends(stream2) PROVE Ends(stream2)'
  <2>1. \A i \in 1..Len(stream2') : stream2'[i].type = "DELETED" => stream2'[i].res \in retired
    BY <1>2, <1>7 DEF Ends, n
  <2>2. ASSUME NEW r \in Live
        PROVE  \/ collected'[r] = cluster[r] /\ \A i \in 1..Len(stream2') : stream2'[i].res # r
               \/ \E i \in 1..Len(stream2') :
                     /\ stream2'[i].res = r /\ stream2'[i].ver = cluster[r]
                     /\ \A j \in 1..Len(stream2') : i < j => stream2'[j].res # r
    <3>1. r \in Resource /\ r \notin retired
      BY DEF Live, RetiredGone
    <3>2. CASE collected[r] = cluster[r] /\ \A i \in 1..n : stream2[i].res # r
      <4>1. r # e.res
        BY <1>2, <3>2
      <4>2. collected'[r] = cluster[r]
        BY <1>4, <3>1, <3>2, <4>1
      <4>3. \A i \in 1..n - 1 : stream2'[i].res # r
        BY <1>2, <3>2
      <4> QED BY <1>2, <4>2, <4>3
    <3>3. ASSUME NEW i \in 1..n, stream2[i].res = r, stream2[i].ver = cluster[r],
                 \A j \in 1..n : i < j => stream2[j].res # r
          PROVE  \/ collected'[r] = cluster[r] /\ \A k \in 1..Len(stream2') : stream2'[k].res # r
                 \/ \E k \in 1..Len(stream2') :
                       /\ stream2'[k].res = r /\ stream2'[k].ver = cluster[r]
                       /\ \A j \in 1..Len(stream2') : k < j => stream2'[j].res # r
      <4>1. CASE i = 1
        <5>1. e.type # "DELETED"
          BY <1>2, <1>7, <3>1, <3>3, <4>1 DEF Ends, n
        <5>2. collected'[r] = cluster[r]
          BY <1>2, <1>4, <3>3, <4>1, <5>1
        <5>3. \A k \in 1..n - 1 : stream2'[k].res # r
          BY <1>2, <3>3, <4>1
        <5> QED BY <1>2, <5>2, <5>3
      <4>2. CASE i # 1
        <5>1. i - 1 \in 1..n - 1 /\ (i - 1) + 1 = i
          BY <1>2, <4>2
        <5>2. stream2'[i - 1].res = r /\ stream2'[i - 1].ver = cluster[r]
          BY <1>2, <3>3, <5>1
        <5>3. \A j \in 1..n - 1 : i - 1 < j => stream2'[j].res # r
          BY <1>2, <3>3
        <5> QED BY <1>2, <5>1, <5>2, <5>3
      <4> QED BY <4>1, <4>2
    <3> QED BY <1>7, <3>2, <3>3 DEF Ends, n
  <2> QED BY <1>1, <2>1, <2>2 DEF Ends, Live
<1> QED BY <1>1, <1>5, <1>6, <1>7

\* A successor that is not there takes no step, and a stopped informer none either.
LEMMA AbsentRests == pc2 = "off" => ~(SecondStep \/ SecondFails)
BY DEF SecondStep, SecondFails, Second!InformerStep, Second!BackOff, Second!StartList, Second!AddListed,
   Second!DeleteUnlisted, Second!OpenWatch, Second!HandleEvent, Second!Stopped, Second!TakeResync,
   Second!ListFails, Second!OpenFails, Second!WatchEnds, Second!LeaveWatch

LEMMA StoppedRests == pc = "stopped" => ~(FirstStep \/ FirstFails)
BY DEF FirstStep, FirstFails, InformerStep, BackOff, StartList, AddListed, DeleteUnlisted, OpenWatch,
   HandleEvent, Stopped, TakeResync, TakeStop, ListFails, OpenFails, WatchEnds, LeaveWatch

\* A step of the second informer: it keeps all that stands, and what its list and its watch
\* promise.
LEMMA SecondMoves ==
    ASSUME HandoverIInv, pc2 # "off", UNCHANGED <<firstVars, registered>>,
           SharedTypes', SecondLocal', UNCHANGED <<cluster, retired, selected, nsCache>>,
           relisted' \in {relisted, pc = "stopped"},
           relisted' /\ pc2' \in {"list", "open"} => \A r \in newIndex2' : collected'[r] # None,
           relisted' /\ pc2' = "watch" => Ends(stream2)'
    PROVE  HandoverIInv'
<1>1. TypeOK'
  BY FirstKept DEF HandoverIInv, Standing, HandoverTypeOK
<1>2. Second!TypeOK' /\ pc2' # "off"
  BY SecondTypeNext DEF SecondLocal
<1>3. HandoverTypeOK'
  BY <1>1, <1>2 DEF HandoverIInv, Standing, HandoverTypeOK, firstVars
<1>4. Standing'
  <2>1. relisted' \in BOOLEAN /\ (relisted' => pc' = "stopped")
    BY DEF HandoverIInv, Standing, firstVars
  <2> QED BY <1>2, <1>3, <2>1 DEF HandoverIInv, Standing, RetiredGone
<1> QED BY <1>4 DEF HandoverIInv

LEMMA SecondStepInv ==
    ASSUME HandoverIInv, SecondStep \/ SecondFails \/ (RequestResync /\ registered = "second")
    PROVE  HandoverIInv'
<1>1. pc2 # "off" /\ TypeOK
  BY AbsentRests DEF HandoverIInv, Standing, HandoverTypeOK
<1>2. SharedTypes /\ SecondLocal /\ nsCache = Namespace /\ RetiredGone
  BY <1>1, SecondTypeSplit DEF HandoverIInv, Standing, HandoverTypeOK
<1>3. UNCHANGED <<firstVars, registered>>
  BY DEF SecondStep, SecondFails, RequestResync
<1>4. /\ relisted' = relisted \/ (pc2 = "wait" /\ relisted' = (pc = "stopped"))
      /\ pc2 # "wait" => relisted' = relisted
  BY DEF SecondStep, SecondFails, RequestResync
<1>5. /\ relisted /\ pc2 \in {"list", "open"} => \A r \in newIndex2 : collected[r] # None
      /\ relisted /\ pc2 = "watch" => Ends(stream2)
  BY DEF HandoverIInv
<1>6. CASE \/ Second!TriggerResync \/ Second!BackOff \/ Second!ListFails \/ Second!OpenFails
           \/ Second!WatchEnds \/ Second!TakeResync \/ Second!StartList
  <2>1. /\ SharedTypes' /\ SecondLocal' /\ UNCHANGED <<cluster, retired, selected, nsCache, collected>>
        /\ \/ pc2' = pc2 /\ UNCHANGED <<newIndex2, stream2>>
           \/ pc2' \in {"top", "wait"}
           \/ pc2 = "wait" /\ pc2' = "list" /\ newIndex2' = {}
    BY <1>2, <1>6, SecondListing
  <2>2. relisted' /\ pc2' \in {"list", "open"} => \A r \in newIndex2' : collected'[r] # None
    BY <1>4, <1>5, <2>1
  <2>3. relisted' /\ pc2' = "watch" => Ends(stream2)'
    <3> SUFFICES ASSUME relisted', pc2' = "watch" PROVE Ends(stream2)'
      OBVIOUS
    <3>1. Ends(stream2) /\ UNCHANGED stream2
      BY <1>4, <1>5, <2>1
    <3> QED BY <2>1, <3>1 DEF Ends, Live
  <2> QED BY <1>1, <1>3, <1>4, <2>1, <2>2, <2>3, SecondMoves
<1>7. ASSUME NEW item \in todo2, Second!AddListed(item) PROVE HandoverIInv'
  <2>1. /\ SharedTypes' /\ SecondLocal'
        /\ UNCHANGED <<cluster, retired, selected, nsCache, pc2>> /\ pc2 = "list"
        /\ (\A r \in newIndex2 : collected[r] # None) => \A r \in newIndex2' : collected'[r] # None
    BY <1>2, <1>7, SecondAdds
  <2> QED BY <1>1, <1>3, <1>4, <1>5, <2>1, SecondMoves
<1>8. CASE Second!DeleteUnlisted \/ Second!Stopped
  <2>1. /\ SharedTypes' /\ SecondLocal' /\ UNCHANGED <<cluster, retired, selected, nsCache, newIndex2>>
        /\ \/ pc2' = "stopped" /\ stopping2
           \/ pc2 = "list" /\ pc2' = "open" /\ \A r \in newIndex2 : collected'[r] = collected[r]
    BY <1>2, <1>8, SecondDeletes
  <2> QED BY <1>1, <1>3, <1>4, <1>5, <2>1, SecondMoves
<1>9. CASE Second!OpenWatch
  <2>1. /\ SharedTypes' /\ SecondLocal' /\ UNCHANGED <<cluster, retired, selected, nsCache>>
        /\ pc2' = "watch" /\ Ends(stream2)'
    BY <1>1, <1>2, <1>9, SecondOpens
  <2> QED BY <1>1, <1>3, <1>4, <2>1, SecondMoves
<1>10. CASE Second!HandleEvent
  <2>1. /\ SharedTypes' /\ SecondLocal' /\ UNCHANGED <<cluster, retired, selected, nsCache, pc2>>
        /\ pc2 = "watch" /\ (Ends(stream2) => Ends(stream2)')
    BY <1>2, <1>10, SecondHandles
  <2> QED BY <1>1, <1>3, <1>4, <1>5, <2>1, SecondMoves
<1>11. registered = "second" => (RequestResync => Second!TriggerResync)
  BY DEF RequestResync
<1> QED BY <1>6, <1>7, <1>8, <1>9, <1>10, <1>11 DEF SecondStep, SecondFails, Second!InformerStep

\* A step of the first informer, or a request to it: the successor has not listed again.
LEMMA FirstStepInv ==
    ASSUME HandoverIInv, FirstStep \/ FirstFails \/ (RequestResync /\ registered = "first")
    PROVE  HandoverIInv'
<1>1. /\ InformerStep \/ TakeResync \/ TakeStop \/ ListFails \/ OpenFails \/ WatchEnds \/ TriggerResync
      /\ UNCHANGED <<secondVars, registered, relisted>>
  BY DEF FirstStep, FirstFails, RequestResync
<1>2. TypeOK /\ TypeOK'
  BY <1>1, FirstTypes DEF HandoverIInv, Standing, HandoverTypeOK
<1>3. UNCHANGED <<cluster, retired, selected, nsCache, stopping>>
  BY <1>1 DEF InformerStep, BackOff, StartList, AddListed, DeleteUnlisted, OpenWatch, HandleEvent, Stopped,
     TakeResync, TakeStop, ListFails, OpenFails, WatchEnds, LeaveWatch, TriggerResync, clusterVars, requestVars
<1>4. pc2 # "off" => Second!TypeOK'
  <2>1. pc2 # "off" => SecondLocal'
    BY <1>1, SecondTypeSplit DEF HandoverIInv, Standing, HandoverTypeOK, SecondLocal, secondVars
  <2>2. SharedTypes'
    BY <1>2 DEF TypeOK, SharedTypes
  <2> QED BY <2>1, <2>2, SecondTypeNext
<1>5. relisted => UNCHANGED <<pc, collected>> /\ registered = "first"
  BY <1>1, StoppedRests DEF HandoverIInv, Standing, RequestResync, TriggerResync
<1>6. relisted = FALSE
  <2>1. relisted => pc2 = "off"
    BY <1>5 DEF HandoverIInv, Standing, HandoverTypeOK
  <2> QED BY <2>1 DEF HandoverIInv, Standing
<1>7. HandoverTypeOK'
  BY <1>1, <1>2, <1>3, <1>4 DEF HandoverIInv, Standing, HandoverTypeOK, secondVars
<1>8. Standing'
  BY <1>1, <1>3, <1>6, <1>7 DEF HandoverIInv, Standing, RetiredGone, secondVars
<1> QED BY <1>1, <1>6, <1>8 DEF HandoverIInv

\* The registry lets the first informer go and starts the second.
LEMMA RegistryInv ==
    ASSUME HandoverIInv, StopInformer \/ StartInformer
    PROVE  HandoverIInv'
<1>1. CASE StopInformer
  <2>1. /\ UNCHANGED <<cluster, retired, selected, nsCache, pc, todo, newIndex, resourceIndex, stream,
                       resyncCh, collected, faults>>
        /\ stopping' = TRUE /\ registered = "first" /\ registered' = "none"
        /\ UNCHANGED <<secondVars, relisted>>
    BY <1>1 DEF StopInformer, Cancel, clusterVars
  <2>2. TypeOK' /\ pc2 = "off"
    BY <2>1 DEF HandoverIInv, Standing, HandoverTypeOK, TypeOK
  <2>3. HandoverTypeOK'
    BY <2>1, <2>2 DEF HandoverTypeOK, secondVars
  <2>4. Standing' /\ relisted' = FALSE
    BY <2>1, <2>2, <2>3 DEF HandoverIInv, Standing, RetiredGone, secondVars
  <2> QED BY <2>4 DEF HandoverIInv
<1>2. CASE StartInformer
  <2>1. /\ UNCHANGED <<cluster, retired, selected, nsCache, pc, todo, newIndex, resourceIndex, stream,
                       resyncCh, stopping, collected, faults>>
        /\ UNCHANGED <<todo2, newIndex2, resourceIndex2, stream2, resyncCh2, stopping2, relisted>>
        /\ registered = "none" /\ registered' = "second" /\ pc2' = "top"
    BY <1>2 DEF StartInformer, vars, clusterVars, requestVars
  <2>2. TypeOK' /\ pc2 = "off"
    BY <2>1 DEF HandoverIInv, Standing, HandoverTypeOK, TypeOK
  <2>3. SharedTypes'
    BY <2>2 DEF TypeOK, SharedTypes
  <2>4. SecondLocal'
    BY <2>1, <2>2, EmptySeq DEF HandoverIInv, Standing, SecondLocal
  <2>5. Second!TypeOK'
    BY <2>3, <2>4, SecondTypeNext
  <2>6. HandoverTypeOK'
    BY <2>1, <2>2, <2>5 DEF HandoverIInv, Standing, HandoverTypeOK
  <2>7. Standing' /\ relisted' = FALSE
    BY <2>1, <2>2, <2>6 DEF HandoverIInv, Standing, RetiredGone
  <2> QED BY <2>7 DEF HandoverIInv
<1> QED BY <1>1, <1>2

\* A change of the cluster is the last event of its resource.
LEMMA SecondReports ==
    ASSUME SharedTypes, stream2 \in Seq(WatchEvent), NEW r \in Resource, NEW v \in 1..MaxVersion,
           NEW t \in {"ADDED", "MODIFIED", "DELETED"}, Second!Report(t, r, v)
    PROVE  /\ stream2' \in Seq(WatchEvent)
           /\ pc2 # "watch" => stream2' = stream2
           /\ pc2 = "watch" =>
                 /\ Len(stream2) \in Nat /\ Len(stream2') = Len(stream2) + 1
                 /\ \A i \in 1..Len(stream2) : stream2'[i] = stream2[i]
                 /\ stream2'[Len(stream2) + 1] = [type |-> t, res |-> r, ver |-> v]
<1> DEFINE e == [type |-> t, res |-> r, ver |-> v]
<1>1. e \in WatchEvent
  BY DEF WatchEvent
<1>2. stream2' = IF pc2 = "watch" THEN Append(stream2, e) ELSE stream2
  BY DEF Second!Report
<1> HIDE DEF e
<1>3. /\ Append(stream2, e) \in Seq(WatchEvent)
      /\ Len(Append(stream2, e)) = Len(stream2) + 1
      /\ \A i \in 1..Len(stream2) : Append(stream2, e)[i] = stream2[i]
      /\ Append(stream2, e)[Len(stream2) + 1] = e
  BY <1>1, AppendProperties
<1>4. Len(stream2) \in Nat
  BY LenProperties
<1> QED BY <1>2, <1>3, <1>4 DEF e

LEMMA ClusterChangesInv ==
    ASSUME HandoverIInv, NEW r \in Resource, ClusterChanges(r)
    PROVE  HandoverIInv'
<1>1. /\ TypeOK /\ SharedTypes /\ RetiredGone
      /\ cluster \in [Resource -> 0..MaxVersion] /\ MaxVersion \in Nat
      /\ stream2 \in Seq(WatchEvent) /\ (pc2 # "off" => SecondLocal)
      /\ pc2 = "off" => relisted = FALSE
  BY FirstTypeShared, SecondTypeSplit, InformerAssumption, EmptySeq
     DEF HandoverIInv, Standing, HandoverTypeOK, SharedTypes, SecondLocal
<1>2. /\ UNCHANGED <<selected, nsCache, collected, faults, pc, stopping, registered, relisted, pc2, todo2,
                     newIndex2, resourceIndex2, resyncCh2, stopping2>>
      /\ \/ /\ r \notin retired /\ retired' = retired /\ cluster[r] < MaxVersion
            /\ cluster' = [cluster EXCEPT ![r] = cluster[r] + 1]
            /\ \E t \in {"ADDED", "MODIFIED"} : Second!Report(t, r, cluster[r] + 1)
         \/ /\ cluster[r] # None /\ retired' = retired \cup {r}
            /\ cluster' = [cluster EXCEPT ![r] = None]
            /\ Second!Report("DELETED", r, cluster[r])
  BY DEF ClusterChanges, ClusterWrites, ClusterDeletes, Second!ClusterWrites, Second!ClusterDeletes,
     requestVars, Second!requestVars
<1>3. TypeOK'
  BY <1>1, FirstTypes DEF ClusterChanges
<1>4. /\ stream2' \in Seq(WatchEvent)
      /\ pc2 # "watch" => stream2' = stream2
      /\ pc2 = "watch" =>
            /\ Len(stream2) \in Nat /\ Len(stream2') = Len(stream2) + 1
            /\ \A i \in 1..Len(stream2) : stream2'[i] = stream2[i]
            /\ stream2'[Len(stream2) + 1].res = r
            /\ \/ /\ stream2'[Len(stream2) + 1].type # "DELETED" /\ r \notin retired
                  /\ stream2'[Len(stream2) + 1].ver = cluster'[r]
               \/ r \in retired' /\ cluster'[r] = None
  <2>1. ASSUME NEW t \in {"ADDED", "MODIFIED"}, Second!Report(t, r, cluster[r] + 1),
               cluster[r] < MaxVersion, r \notin retired,
               cluster' = [cluster EXCEPT ![r] = cluster[r] + 1]
        PROVE  /\ stream2' \in Seq(WatchEvent)
               /\ pc2 # "watch" => stream2' = stream2
               /\ pc2 = "watch" =>
                     /\ Len(stream2) \in Nat /\ Len(stream2') = Len(stream2) + 1
                     /\ \A i \in 1..Len(stream2) : stream2'[i] = stream2[i]
                     /\ stream2'[Len(stream2) + 1].res = r
                     /\ stream2'[Len(stream2) + 1].type # "DELETED"
                     /\ stream2'[Len(stream2) + 1].ver = cluster'[r]
    <3>1. cluster[r] + 1 \in 1..MaxVersion /\ cluster'[r] = cluster[r] + 1
      BY <1>1, <2>1
    <3> DEFINE v == cluster[r] + 1
    <3> HIDE DEF v
    <3>2. v \in 1..MaxVersion /\ Second!Report(t, r, v) /\ v = cluster'[r]
      BY <2>1, <3>1 DEF v
    <3>3. /\ stream2' \in Seq(WatchEvent)
          /\ pc2 # "watch" => stream2' = stream2
          /\ pc2 = "watch" =>
                /\ Len(stream2) \in Nat /\ Len(stream2') = Len(stream2) + 1
                /\ \A i \in 1..Len(stream2) : stream2'[i] = stream2[i]
                /\ stream2'[Len(stream2) + 1] = [type |-> t, res |-> r, ver |-> v]
      BY <1>1, <3>2, SecondReports
    <3> QED BY <2>1, <3>2, <3>3
  <2>2. CASE /\ cluster[r] # None /\ retired' = retired \cup {r}
             /\ cluster' = [cluster EXCEPT ![r] = None]
             /\ Second!Report("DELETED", r, cluster[r])
    <3>1. cluster[r] \in 1..MaxVersion /\ cluster'[r] = None
      BY <1>1, <2>2 DEF None
    <3> DEFINE v == cluster[r]
    <3> HIDE DEF v
    <3>2. v \in 1..MaxVersion /\ Second!Report("DELETED", r, v)
      BY <2>2, <3>1 DEF v
    <3>3. /\ stream2' \in Seq(WatchEvent)
          /\ pc2 # "watch" => stream2' = stream2
          /\ pc2 = "watch" =>
                /\ Len(stream2) \in Nat /\ Len(stream2') = Len(stream2) + 1
                /\ \A i \in 1..Len(stream2) : stream2'[i] = stream2[i]
                /\ stream2'[Len(stream2) + 1] = [type |-> "DELETED", res |-> r, ver |-> v]
      BY <1>1, <3>2, SecondReports
    <3> QED BY <2>2, <3>1, <3>3
  <2> QED BY <1>2, <2>1, <2>2
<1>5. /\ \A x \in Resource \ {r} : cluster'[x] = cluster[x]
      /\ retired \subseteq retired' /\ RetiredGone'
  BY <1>1, <1>2 DEF RetiredGone, SharedTypes, None
<1>6. pc2 # "off" => Second!TypeOK'
  <2>1. SharedTypes'
    BY <1>3 DEF TypeOK, SharedTypes
  <2>2. pc2 # "off" => SecondLocal'
    BY <1>1, <1>2, <1>4 DEF SecondLocal
  <2> QED BY <2>1, <2>2, SecondTypeNext
<1>7. Standing'
  <2>1. HandoverTypeOK'
    BY <1>2, <1>3, <1>6 DEF HandoverIInv, Standing, HandoverTypeOK
  <2> QED BY <1>2, <1>4, <1>5, <2>1 DEF HandoverIInv, Standing
<1>8. ASSUME relisted, pc2 = "watch" PROVE Ends(stream2)'
  <2> DEFINE n == Len(stream2)
  <2>1. Ends(stream2) /\ n \in Nat /\ Len(stream2') = n + 1
    BY <1>4, <1>8 DEF HandoverIInv
  <2>2. \A i \in 1..n + 1 : stream2'[i].type = "DELETED" => stream2'[i].res \in retired'
    BY <1>4, <1>5, <1>8, <2>1 DEF Ends
  <2>3. ASSUME NEW x \in Live'
        PROVE  \/ collected[x] = cluster'[x] /\ \A i \in 1..n + 1 : stream2'[i].res # x
               \/ \E i \in 1..n + 1 :
                     /\ stream2'[i].res = x /\ stream2'[i].ver = cluster'[x]
                     /\ \A j \in 1..n + 1 : i < j => stream2'[j].res # x
    <3>1. CASE x = r
      <4>1. cluster'[r] # None /\ r \in Resource
        BY <3>1 DEF Live
      <4>2. stream2'[n + 1].res = x /\ stream2'[n + 1].ver = cluster'[x]
        BY <1>4, <1>8, <3>1, <4>1
      <4>3. \A j \in 1..n + 1 : ~(n + 1 < j)
        BY <2>1
      <4> QED BY <2>1, <4>2, <4>3
    <3>2. CASE x # r
      <4>1. x \in Live /\ cluster'[x] = cluster[x]
        BY <1>5, <3>2 DEF Live
      <4>2. \A j \in 1..n + 1 : stream2'[j].res = x => j \in 1..n /\ stream2'[j] = stream2[j]
        BY <1>4, <1>8, <2>1, <3>2
      <4>3. \A j \in 1..n : j \in 1..n + 1 /\ stream2'[j] = stream2[j]
        BY <1>4, <1>8, <2>1
      <4>4. CASE collected[x] = cluster[x] /\ \A i \in 1..n : stream2[i].res # x
        BY <4>1, <4>2, <4>4
      <4>5. ASSUME NEW i \in 1..n, stream2[i].res = x, stream2[i].ver = cluster[x],
                   \A j \in 1..n : i < j => stream2[j].res # x
            PROVE  \E k \in 1..n + 1 :
                      /\ stream2'[k].res = x /\ stream2'[k].ver = cluster'[x]
                      /\ \A j \in 1..n + 1 : k < j => stream2'[j].res # x
        BY <4>1, <4>2, <4>3, <4>5
      <4> QED BY <2>1, <4>1, <4>4, <4>5 DEF Ends
    <3> QED BY <3>1, <3>2
  <2> QED BY <1>2, <2>1, <2>2, <2>3 DEF Ends
<1>9. relisted' /\ pc2' \in {"list", "open"} => \A x \in newIndex2' : collected'[x] # None
  BY <1>2 DEF HandoverIInv
<1> QED BY <1>2, <1>7, <1>8, <1>9 DEF HandoverIInv

LEMMA HandoverStart == HandoverInit => HandoverIInv
<1> SUFFICES ASSUME HandoverInit PROVE HandoverIInv
  OBVIOUS
<1>1. TypeOK /\ nsCache = Namespace /\ RetiredGone /\ stopping = FALSE
  BY InformerIInvInit DEF HandoverInit, Init, InformerIInv
<1>2. HandoverTypeOK
  BY <1>1 DEF HandoverInit, HandoverTypeOK
<1> QED BY <1>1, <1>2 DEF HandoverInit, HandoverIInv, Standing

LEMMA HandoverAlways == HandoverSpec => []HandoverIInv
<1>1. HandoverIInv /\ [HandoverNext]_allVars => HandoverIInv'
  <2> SUFFICES ASSUME HandoverIInv, [HandoverNext]_allVars PROVE HandoverIInv'
    OBVIOUS
  <2>1. CASE UNCHANGED allVars
    BY <2>1 DEF allVars, vars, clusterVars, requestVars, secondVars, HandoverIInv, Standing, HandoverTypeOK,
       TypeOK, Second!TypeOK, RetiredGone, Ends, Live
  <2>2. CASE RequestResync
    BY <2>2, FirstStepInv, SecondStepInv DEF RequestResync
  <2> QED BY <2>1, <2>2, ClusterChangesInv, RegistryInv, FirstStepInv, SecondStepInv DEF HandoverNext
<1> QED BY <1>1, HandoverStart, PTL DEF HandoverSpec

\* Both informers keep their types, and a successor is there when the registry has it
\* (syncInformers, which forgets a cancelled informer without waiting for it).
THEOREM HandoverTypeCorrect == HandoverSpec => []HandoverTypeOK
<1>1. HandoverIInv => HandoverTypeOK
  BY DEF HandoverIInv, Standing
<1> QED BY <1>1, HandoverAlways, PTL

\* What the cancelled informer of a type removes of its successor's resources comes back
\* with the next list that the successor makes (listAndResync after syncInformers).
THEOREM NextListRepairs == HandoverSpec => []ListRepairs
<1>1. HandoverIInv => ListRepairs
  BY DEF HandoverIInv, ListRepairs
<1> QED BY <1>1, HandoverAlways, PTL

\* After such a list, and once its watch has caught up, the successor has missed nothing.
THEOREM SuccessorMissesNothing == HandoverSpec => []SuccessorCatchesUp
<1>1. HandoverIInv => SuccessorCatchesUp
  <2> SUFFICES ASSUME HandoverIInv, relisted, pc2 = "watch", stream2 = <<>>, NEW r \in Live
               PROVE  collected[r] = cluster[r]
    BY DEF SuccessorCatchesUp
  <2>1. Ends(stream2) /\ Len(stream2) = 0
    BY EmptySeq DEF HandoverIInv
  <2> QED BY <2>1 DEF Ends
<1> QED BY <1>1, HandoverAlways, PTL

-----------------------------------------------------------------------------
(* The selection of namespaces, for any number of informers and            *)
(* namespaces, any selectors and any time to live.  First the inductive    *)
(* invariant.                                                              *)

Resolution == [value : {Everywhere} \cup (SUBSET NamespaceName), from : 0..version]
Reading == [selector : Selectors \cup {Nothing}, from : 0..version]

\* What the writer has read is the selector, unless that has changed since, and not older
\* than the selection that is to be replaced, nor, for an event of a namespace, than the event.
ReadInOrder ==
    \A i \in Routine : At(i, "list") =>
        /\ read \in Reading
        /\ read.from = version => read.selector = selector
        /\ read.from >= asOf
        /\ i = Namespaces => read.from >= event

\* What the writer is about to store was resolved while it held the lock: it is not older
\* than the selection it replaces, nor, for an event of a namespace, than the event.
ResolvedInOrder ==
    \A i \in Routine : At(i, "store") =>
        /\ resolved \in Resolution
        /\ resolved.from >= asOf
        /\ i = Namespaces => resolved.from >= event

\* An informer that is not the one of namespaces resolves only an expired selection, which
\* stays expired until it has stored a new one.
RefreshOnlyExpired ==
    \A i \in Informer :
        /\ step[i] # "lock to regenerate"
        /\ step[i] \in {"resolve", "list", "store"} => Expired

FilterIInv ==
    /\ FilterInv
    /\ resolved \in Resolution \cup {Nothing}
    /\ ReadInOrder
    /\ ResolvedInOrder
    /\ RefreshOnlyExpired

(* The invariant is inductive.                                             *)

\* At most one routine is past the lock.
LEMMA LockExcludes ==
    ASSUME FilterTypeOK, NEW i \in Routine, NEW j \in Routine,
           step[i] \in {"check", "resolve", "list", "store"}, step[j] \in {"check", "resolve", "list", "store"}
    PROVE  i = j
BY DEF FilterTypeOK

\* What resolveCollectNamespaces returns is every namespace, or some that no exclude
\* pattern matches.
LEMMA ResolveExcludes ==
    ASSUME NEW s
    PROVE  /\ resolveCollectNamespaces(s) \in {Everywhere} \cup (SUBSET NamespaceName)
           /\ resolveCollectNamespaces(s) # Everywhere =>
                \A n \in UNION s.exclude : n \notin resolveCollectNamespaces(s)
BY DEF resolveCollectNamespaces, filterByGlobs, filterBySelectors, Existing

\* A change of the cluster leaves what was resolved before it behind.
LEMMA ChangeInv ==
    ASSUME FilterIInv, Change,
           labels' \in [NamespaceName -> (SUBSET Label) \cup {Nothing}],
           selector' \in Selectors \cup {Nothing},
           UNCHANGED <<cacheVars, writer, step, read, resolved, event, handled, filterFaults>>
    PROVE  FilterIInv'
<1>1. /\ version \in Nat /\ version' = version + 1 /\ version' \in 0..ChangeLimit
      /\ asOf \in 0..version /\ event \in 0..version /\ handled \in 0..event
  <2>1. version \in 0..ChangeLimit /\ ChangeLimit \in Nat
    BY NamespaceFilterAssumption DEF FilterIInv, FilterInv, FilterTypeOK
  <2>2. asOf \in 0..version /\ event \in 0..version /\ handled \in 0..event
    BY DEF FilterIInv, FilterInv, FilterTypeOK
  <2> QED BY <2>1, <2>2 DEF Change
<1>2. FilterTypeOK'
  <2>1. asOf \in 0..version' /\ event \in 0..version'
    BY <1>1
  <2> QED BY <1>1, <2>1 DEF FilterIInv, FilterInv, FilterTypeOK, cacheVars
<1>3. resolved' \in (Resolution \cup {Nothing})'
  <2>1. \A v \in 0..version : v \in 0..version'
    BY <1>1
  <2> QED BY <2>1 DEF FilterIInv, Resolution
<1>4. ExcludedNeverSelected'
  <2>1. CASE resolved \in Resolution
    <3>1. resolved.from \in 0..version
      BY <2>1 DEF Resolution
    <3>2. resolved.from # version'
      BY <1>1, <3>1
    <3> QED BY <3>2 DEF ExcludedNeverSelected
  <2>2. CASE resolved = Nothing
    BY <2>2 DEF ExcludedNeverSelected
  <2> QED BY <2>1, <2>2 DEF FilterIInv
<1>5. NamespaceEventSeen' /\ RefreshOnlyExpired'
  BY DEF FilterIInv, FilterInv, NamespaceEventSeen, RefreshOnlyExpired, Expired, cacheVars
<1>6. ResolvedInOrder'
  BY <1>1 DEF FilterIInv, ResolvedInOrder, At, Resolution, cacheVars
<1>7. ReadInOrder'
  <2> SUFFICES ASSUME NEW i \in Routine, step[i] = "list"
               PROVE  /\ read \in Reading' /\ read.from # version'
                      /\ read.from >= asOf /\ (i = Namespaces => read.from >= event)
    BY DEF ReadInOrder, At, cacheVars
  <2>1. /\ read \in Reading
        /\ read.from >= asOf /\ (i = Namespaces => read.from >= event)
    BY DEF FilterIInv, ReadInOrder, At
  <2>2. read.selector \in Selectors \cup {Nothing} /\ read.from \in 0..version
    BY <2>1 DEF Reading
  <2>3. read.from \in 0..version' /\ read.from # version'
    BY <1>1, <2>2
  <2> QED BY <2>1, <2>3 DEF Reading
<1> QED BY <1>2, <1>3, <1>4, <1>5, <1>6, <1>7 DEF FilterIInv, FilterInv

\* A step of a routine up to the lock, or one that gives the lock back unused.
LEMMA LockStepInv ==
    ASSUME FilterIInv, NEW i \in Routine,
           \/ i \in Informer /\ Ask(i)
           \/ i = Namespaces /\ StartRegenerate
           \/ Lock(i)
           \/ CheckAgain(i)
    PROVE  FilterIInv'
<1>1. /\ UNCHANGED <<labels, selector, version, cacheVars, read, resolved, handled, filterFaults>>
      /\ \E s \in {"idle", "lock", "lock to regenerate", "check", "resolve"} : Go(i, s)
      /\ ~At(i, "store") /\ ~At(i, "list")
  BY DEF Ask, StartRegenerate, Lock, CheckAgain, Go, At
<1>2. step \in [Routine -> {"idle", "lock", "lock to regenerate", "check", "resolve", "list", "store"}]
  BY DEF FilterIInv, FilterInv, FilterTypeOK
<1>3. /\ step' \in [Routine -> {"idle", "lock", "lock to regenerate", "check", "resolve", "list", "store"}]
      /\ \A j \in Routine \ {i} : step'[j] = step[j]
      /\ step'[i] \notin {"list", "store"}
  BY <1>1, <1>2 DEF Go
<1>4. /\ event' \in 0..version /\ handled \in 0..event'
      /\ event' # event => i = Namespaces
  <2>1. version \in Nat /\ event \in 0..version /\ handled \in 0..event
    <3>1. version \in 0..ChangeLimit /\ event \in 0..version /\ handled \in 0..event
      BY DEF FilterIInv, FilterInv, FilterTypeOK
    <3>2. ChangeLimit \in Nat
      BY NamespaceFilterAssumption
    <3> QED BY <3>1, <3>2
  <2>2. event' = event \/ (i = Namespaces /\ event' = version /\ handled < version)
    BY DEF Ask, StartRegenerate, Lock, CheckAgain
  <2> QED BY <2>1, <2>2
<1>5. /\ writer' \in Routine \cup {Nothing}
      /\ \A j \in Routine : step'[j] \in {"check", "resolve", "list", "store"} <=> writer' = j
  <2>1. /\ writer \in Routine \cup {Nothing} /\ Nothing \notin Routine
        /\ \A j \in Routine : step[j] \in {"check", "resolve", "list", "store"} <=> writer = j
    BY NamespaceFilterAssumption DEF FilterIInv, FilterInv, FilterTypeOK
  <2>2. CASE Ask(i) \/ (i = Namespaces /\ StartRegenerate)
    BY <1>2, <2>1, <2>2 DEF Ask, StartRegenerate, Go, At
  <2>3. CASE Lock(i)
    BY <1>2, <2>1, <2>3 DEF Lock, Go, At
  <2>4. CASE CheckAgain(i)
    BY <1>2, <2>1, <2>4 DEF CheckAgain, Go, At
  <2> QED BY <2>2, <2>3, <2>4
<1>6. FilterTypeOK'
  BY <1>1, <1>3, <1>4, <1>5 DEF FilterIInv, FilterInv, FilterTypeOK, cacheVars
<1>7. NamespaceEventSeen' /\ ExcludedNeverSelected'
  BY <1>1 DEF FilterIInv, FilterInv, NamespaceEventSeen, ExcludedNeverSelected, cacheVars
<1>8. resolved' \in (Resolution \cup {Nothing})'
  BY <1>1 DEF FilterIInv, Resolution
<1>9. ResolvedInOrder'
  BY <1>1, <1>3, <1>4 DEF FilterIInv, ResolvedInOrder, At, Resolution, cacheVars
<1>10. ReadInOrder'
  BY <1>1, <1>3, <1>4 DEF FilterIInv, ReadInOrder, At, Reading, cacheVars
<1>11. RefreshOnlyExpired'
  <2> SUFFICES ASSUME NEW j \in Informer, step'[j] \in {"resolve", "list", "store"}
               PROVE  Expired
    <3>1. Expired' <=> Expired
      BY <1>1 DEF Expired, cacheVars
    <3>2. ASSUME NEW j \in Informer PROVE step'[j] # "lock to regenerate"
      BY <1>2, NamespaceFilterAssumption
         DEF Ask, StartRegenerate, Lock, CheckAgain, Go, FilterIInv, RefreshOnlyExpired, Routine
    <3> QED BY <3>1, <3>2 DEF RefreshOnlyExpired
  <2>1. CASE j # i
    BY <1>3, <2>1 DEF FilterIInv, RefreshOnlyExpired, Routine
  <2>2. CASE j = i
    <3>1. step[i] # "lock to regenerate" /\ i # Namespaces
      BY <2>2, NamespaceFilterAssumption DEF FilterIInv, RefreshOnlyExpired
    <3>2. CheckAgain(i) /\ Expired
      BY <1>2, <2>2, <3>1 DEF Ask, Lock, CheckAgain, Go, At
    <3> QED BY <3>2
  <2> QED BY <2>1, <2>2
<1> QED BY <1>6, <1>7, <1>8, <1>9, <1>10, <1>11 DEF FilterIInv, FilterInv

\* Time passes only while no informer is refreshing.
LEMMA FilterTickInv ==
    ASSUME FilterIInv, Tick
    PROVE  FilterIInv'
<1>1. /\ age \in 0..TTL /\ TTL \in Nat /\ age < TTL /\ age' = age + 1
      /\ UNCHANGED <<labels, selector, version, allowed, asOf, writer, step, read, resolved, event,
                     handled, filterFaults>>
  BY NamespaceFilterAssumption DEF FilterIInv, FilterInv, FilterTypeOK, Tick
<1>2. age' \in 0..TTL
  BY <1>1
<1>3. FilterTypeOK'
  BY <1>1, <1>2 DEF FilterIInv, FilterInv, FilterTypeOK
<1>4. NamespaceEventSeen' /\ ExcludedNeverSelected'
  BY <1>1 DEF FilterIInv, FilterInv, NamespaceEventSeen, ExcludedNeverSelected
<1>5. resolved' \in (Resolution \cup {Nothing})' /\ ResolvedInOrder' /\ ReadInOrder'
  BY <1>1 DEF FilterIInv, Resolution, ResolvedInOrder, Reading, ReadInOrder, At
<1>6. RefreshOnlyExpired'
  <2>1. ~Expired
    BY <1>1 DEF Expired
  <2> QED BY <1>1, <2>1 DEF FilterIInv, RefreshOnlyExpired
<1> QED BY <1>3, <1>4, <1>5, <1>6 DEF FilterIInv, FilterInv

\* The writer reads the selector, or gives up and takes every namespace.
LEMMA ReadSelectorInv ==
    ASSUME FilterIInv, NEW i \in Routine, ReadSelector(i)
    PROVE  FilterIInv'
<1>1. /\ step[i] = "resolve" /\ UNCHANGED <<labels, selector, version, cacheVars, writer, event, handled>>
      /\ \/ /\ Go(i, "list") /\ UNCHANGED <<resolved, filterFaults>>
            /\ read' = [selector |-> selector, from |-> version]
         \/ /\ Go(i, "store") /\ FilterFault
            /\ resolved' = [value |-> Everywhere, from |-> version]
  BY DEF ReadSelector, At
<1>2. step \in [Routine -> {"idle", "lock", "lock to regenerate", "check", "resolve", "list", "store"}]
  BY DEF FilterIInv, FilterInv, FilterTypeOK
<1>3. /\ step' \in [Routine -> {"idle", "lock", "lock to regenerate", "check", "resolve", "list", "store"}]
      /\ \/ step'[i] = "list" /\ resolved' = resolved /\ read' = [selector |-> selector, from |-> version]
         \/ step'[i] = "store" /\ resolved' = [value |-> Everywhere, from |-> version]
      /\ \A j \in Routine \ {i} : step'[j] = step[j]
  BY <1>1, <1>2 DEF Go
<1>4. filterFaults' \in 0..FilterFaultLimit
  <2>1. filterFaults \in 0..FilterFaultLimit /\ FilterFaultLimit \in Nat
    BY NamespaceFilterAssumption DEF FilterIInv, FilterInv, FilterTypeOK
  <2> QED BY <1>1, <2>1 DEF FilterFault
<1>5. FilterTypeOK'
  <2>1. \A j \in Routine : step'[j] \in {"check", "resolve", "list", "store"} <=> writer' = j
    BY <1>1, <1>3 DEF FilterIInv, FilterInv, FilterTypeOK
  <2> QED BY <1>1, <1>3, <1>4, <2>1 DEF FilterIInv, FilterInv, FilterTypeOK, cacheVars
<1>6. version \in 0..version /\ version >= asOf /\ version >= event
  <2>1. version \in 0..ChangeLimit /\ asOf \in 0..version /\ event \in 0..version
    BY DEF FilterIInv, FilterInv, FilterTypeOK
  <2> QED BY <2>1, NamespaceFilterAssumption
<1>7. NamespaceEventSeen' /\ RefreshOnlyExpired'
  BY <1>1, <1>3 DEF FilterIInv, FilterInv, NamespaceEventSeen, RefreshOnlyExpired, Expired, cacheVars, Routine
<1>8. ExcludedNeverSelected' /\ resolved' \in (Resolution \cup {Nothing})'
  <2>1. CASE resolved' = resolved
    BY <1>1, <2>1 DEF FilterIInv, FilterInv, ExcludedNeverSelected, Resolution
  <2>2. CASE resolved' = [value |-> Everywhere, from |-> version]
    <3>1. resolved'.value = Everywhere
      BY <2>2
    <3>2. resolved' \in [value : {Everywhere} \cup (SUBSET NamespaceName), from : 0..version]
      BY <1>6, <2>2
    <3> QED BY <1>1, <3>1, <3>2 DEF ExcludedNeverSelected, Resolution
  <2> QED BY <1>3, <2>1, <2>2
<1>9. \A j \in Routine : step'[j] \in {"list", "store"} => j = i
  BY <1>1, <1>3, LockExcludes DEF FilterIInv, FilterInv
<1>10. ReadInOrder'
  <2> SUFFICES ASSUME step'[i] = "list"
               PROVE  /\ read' \in Reading'
                      /\ read'.from = version' => read'.selector = selector'
                      /\ read'.from >= asOf' /\ read'.from >= event'
    BY <1>9 DEF ReadInOrder, At
  <2>1. read' = [selector |-> selector, from |-> version]
    BY <1>3
  <2>2. selector \in Selectors \cup {Nothing}
    BY DEF FilterIInv, FilterInv, FilterTypeOK
  <2> QED BY <1>1, <1>6, <2>1, <2>2 DEF Reading, cacheVars
<1>11. ResolvedInOrder'
  <2> SUFFICES ASSUME step'[i] = "store"
               PROVE  resolved' \in Resolution' /\ resolved'.from >= asOf' /\ resolved'.from >= event'
    BY <1>9 DEF ResolvedInOrder, At
  <2>1. resolved' = [value |-> Everywhere, from |-> version]
    BY <1>3
  <2> QED BY <1>1, <1>6, <2>1 DEF Resolution, cacheVars
<1> QED BY <1>5, <1>7, <1>8, <1>10, <1>11 DEF FilterIInv, FilterInv

\* The writer resolves the selector it has read from the namespaces as they are now.
LEMMA ListNamespacesInv ==
    ASSUME FilterIInv, NEW i \in Routine, ListNamespaces(i)
    PROVE  FilterIInv'
<1>1. /\ step[i] = "list" /\ Go(i, "store")
      /\ UNCHANGED <<labels, selector, version, cacheVars, writer, event, handled>>
  BY DEF ListNamespaces, At
<1>2. PICK w \in {resolveCollectNamespaces(read.selector), Everywhere} :
          resolved' = [value |-> w, from |-> read.from]
  BY DEF ListNamespaces
<1>3. step \in [Routine -> {"idle", "lock", "lock to regenerate", "check", "resolve", "list", "store"}]
  BY DEF FilterIInv, FilterInv, FilterTypeOK
<1>4. /\ step' \in [Routine -> {"idle", "lock", "lock to regenerate", "check", "resolve", "list", "store"}]
      /\ step'[i] = "store" /\ \A j \in Routine \ {i} : step'[j] = step[j]
  BY <1>1, <1>3 DEF Go
<1>5. filterFaults' \in 0..FilterFaultLimit
  <2>1. filterFaults \in 0..FilterFaultLimit /\ FilterFaultLimit \in Nat
    BY NamespaceFilterAssumption DEF FilterIInv, FilterInv, FilterTypeOK
  <2> QED BY <2>1 DEF ListNamespaces, FilterFault
<1>6. FilterTypeOK'
  <2>1. \A j \in Routine : step'[j] \in {"check", "resolve", "list", "store"} <=> writer' = j
    BY <1>1, <1>4 DEF FilterIInv, FilterInv, FilterTypeOK
  <2> QED BY <1>1, <1>4, <1>5, <2>1 DEF FilterIInv, FilterInv, FilterTypeOK, cacheVars
<1>7. NamespaceEventSeen'
  BY <1>1 DEF FilterIInv, FilterInv, NamespaceEventSeen, cacheVars
<1>8. /\ read \in Reading
      /\ read.from = version => read.selector = selector
      /\ read.from >= asOf /\ (i = Namespaces => read.from >= event)
  BY <1>1 DEF FilterIInv, ReadInOrder, At
<1>9. resolved'.from = read.from /\ resolved'.value = w
  BY <1>2
<1>10. ExcludedNeverSelected'
  <2> SUFFICES ASSUME w # Everywhere, read.from = version, NEW n \in UNION selector.exclude
               PROVE  n \notin w
    BY <1>1, <1>9 DEF ExcludedNeverSelected
  <2>1. w = resolveCollectNamespaces(selector)
    BY <1>2, <1>8
  <2> QED BY <2>1, ResolveExcludes
<1>11. resolved' \in Resolution'
  <2>1. read.from \in 0..version
    BY <1>8 DEF Reading
  <2>2. w \in {Everywhere} \cup (SUBSET NamespaceName)
    BY ResolveExcludes
  <2> QED BY <1>1, <1>2, <2>1, <2>2 DEF Resolution
<1>12. \A j \in Routine : step'[j] \in {"list", "store"} => j = i
  BY <1>1, <1>4, LockExcludes DEF FilterIInv, FilterInv
<1>13. ResolvedInOrder' /\ ReadInOrder'
  BY <1>1, <1>4, <1>8, <1>9, <1>11, <1>12 DEF ResolvedInOrder, ReadInOrder, At, cacheVars
<1>14. RefreshOnlyExpired'
  BY <1>1, <1>4 DEF FilterIInv, RefreshOnlyExpired, Expired, cacheVars, Routine
<1> QED BY <1>6, <1>7, <1>10, <1>11, <1>13, <1>14 DEF FilterIInv, FilterInv

\* The writer stores what it resolved and gives the lock back.
LEMMA StoreInv ==
    ASSUME FilterIInv, NEW i \in Routine, Store(i)
    PROVE  FilterIInv'
<1>1. /\ At(i, "store") /\ Go(i, "idle")
      /\ allowed' = resolved.value /\ asOf' = resolved.from /\ age' = 0 /\ writer' = Nothing
      /\ handled' = IF i = Namespaces THEN event ELSE handled
      /\ UNCHANGED <<labels, selector, version, read, resolved, event, filterFaults>>
  BY DEF Store
<1>2. /\ resolved \in Resolution /\ resolved.from >= asOf
      /\ i = Namespaces => resolved.from >= event
  BY <1>1 DEF FilterIInv, ResolvedInOrder
<1>3. step \in [Routine -> {"idle", "lock", "lock to regenerate", "check", "resolve", "list", "store"}]
  BY DEF FilterIInv, FilterInv, FilterTypeOK
<1>4. /\ step' \in [Routine -> {"idle", "lock", "lock to regenerate", "check", "resolve", "list", "store"}]
      /\ step'[i] = "idle" /\ \A j \in Routine \ {i} : step'[j] = step[j]
  BY <1>1, <1>3 DEF Go
<1>5. \A j \in Routine : step'[j] \notin {"check", "resolve", "list", "store"}
  BY <1>1, <1>4, LockExcludes DEF At, FilterIInv, FilterInv
<1>6. asOf' \in 0..version /\ (allowed' = Everywhere \/ allowed' \subseteq NamespaceName)
  BY <1>1, <1>2 DEF Resolution
<1>7. handled' \in 0..event /\ age' \in 0..TTL
  <2>1. event \in Nat /\ handled \in 0..event /\ TTL \in Nat
    <3>1. version \in 0..ChangeLimit /\ event \in 0..version /\ handled \in 0..event
      BY DEF FilterIInv, FilterInv, FilterTypeOK
    <3> QED BY <3>1, NamespaceFilterAssumption
  <2> QED BY <1>1, <2>1
<1>8. FilterTypeOK'
  <2>1. Nothing \notin Routine
    BY NamespaceFilterAssumption
  <2>2. /\ labels' \in [NamespaceName -> (SUBSET Label) \cup {Nothing}]
        /\ selector' \in Selectors \cup {Nothing}
        /\ version' \in 0..ChangeLimit /\ event' \in 0..version' /\ filterFaults' \in 0..FilterFaultLimit
    BY <1>1 DEF FilterIInv, FilterInv, FilterTypeOK
  <2> QED BY <1>1, <1>4, <1>5, <1>6, <1>7, <2>1, <2>2 DEF FilterTypeOK
<1>9. NamespaceEventSeen'
  <2>1. asOf >= handled
    BY DEF FilterIInv, FilterInv, NamespaceEventSeen
  <2>2. asOf \in Int /\ handled \in Int /\ resolved.from \in Int /\ event \in Int
    <3>1. asOf \in 0..version /\ event \in 0..version /\ handled \in 0..event
      BY DEF FilterIInv, FilterInv, FilterTypeOK
    <3>2. resolved.from \in 0..version
      BY <1>2 DEF Resolution
    <3> QED BY <3>1, <3>2
  <2> QED BY <1>1, <1>2, <2>1, <2>2 DEF NamespaceEventSeen
<1>10. ExcludedNeverSelected' /\ resolved' \in (Resolution \cup {Nothing})'
  BY <1>1 DEF FilterIInv, FilterInv, ExcludedNeverSelected, Resolution
<1>11. ResolvedInOrder' /\ ReadInOrder'
  BY <1>5 DEF ResolvedInOrder, ReadInOrder, At
<1>12. RefreshOnlyExpired'
  BY <1>4, <1>5 DEF RefreshOnlyExpired, FilterIInv, Routine
<1> QED BY <1>8, <1>9, <1>10, <1>11, <1>12 DEF FilterIInv, FilterInv

\* The invariant holds throughout.
LEMMA FilterIInvariant ==
    FilterSpec => []FilterIInv
<1>1. FilterInit => FilterIInv
  <2> SUFFICES ASSUME FilterInit PROVE FilterIInv
    OBVIOUS
  <2>1. FilterTypeOK
    <3>1. 0 \in 0..ChangeLimit /\ 0 \in 0..FilterFaultLimit /\ TTL \in 0..TTL /\ 0 \in 0..0
      BY NamespaceFilterAssumption
    <3>2. Nothing \notin Routine
      BY NamespaceFilterAssumption
    <3>3. labels \in [NamespaceName -> (SUBSET Label) \cup {Nothing}]
      <4>1. \A x \in {{}, Nothing} : x \in (SUBSET Label) \cup {Nothing}
        OBVIOUS
      <4>2. labels \in [NamespaceName -> {{}, Nothing}]
        BY DEF FilterInit
      <4>3. \A n \in NamespaceName : labels[n] \in (SUBSET Label) \cup {Nothing}
        BY <4>1, <4>2
      <4> QED BY <4>2, <4>3
    <3>4. /\ step \in [Routine -> {"idle", "lock", "lock to regenerate", "check", "resolve", "list", "store"}]
          /\ \A i \in Routine : step[i] = "idle"
      BY DEF FilterInit
    <3> QED BY <3>1, <3>2, <3>3, <3>4 DEF FilterInit, FilterTypeOK
  <2>2. NamespaceEventSeen /\ ExcludedNeverSelected
    BY DEF FilterInit, NamespaceEventSeen, ExcludedNeverSelected
  <2>3. ResolvedInOrder /\ ReadInOrder /\ RefreshOnlyExpired /\ resolved = Nothing
    BY DEF FilterInit, ResolvedInOrder, ReadInOrder, RefreshOnlyExpired, At, Routine
  <2> QED BY <2>1, <2>2, <2>3 DEF FilterIInv, FilterInv
<1>2. FilterIInv /\ [FilterNext]_filterVars => FilterIInv'
  <2> SUFFICES ASSUME FilterIInv, [FilterNext]_filterVars PROVE FilterIInv'
    OBVIOUS
  <2>0. /\ labels \in [NamespaceName -> (SUBSET Label) \cup {Nothing}]
        /\ selector \in Selectors \cup {Nothing}
    BY DEF FilterIInv, FilterInv, FilterTypeOK
  <2>1. ASSUME NEW n \in NamespaceName, ChangeNamespace(n) PROVE FilterIInv'
    BY <2>0, <2>1, ChangeInv DEF ChangeNamespace
  <2>2. CASE EditSelector
    BY <2>0, <2>2, ChangeInv DEF EditSelector
  <2>3. CASE Tick
    BY <2>3, FilterTickInv
  <2>4. ASSUME NEW i \in Informer, Ask(i) PROVE FilterIInv'
    BY <2>4, LockStepInv DEF Routine
  <2>5. CASE StartRegenerate
    BY <2>5, LockStepInv DEF Routine
  <2>6. ASSUME NEW i \in Routine, RoutineStep(i) PROVE FilterIInv'
    BY <2>6, LockStepInv, ReadSelectorInv, ListNamespacesInv, StoreInv DEF RoutineStep
  <2>7. CASE UNCHANGED filterVars
    BY <2>7 DEF filterVars, cacheVars, FilterIInv, FilterInv, FilterTypeOK, NamespaceEventSeen,
       ExcludedNeverSelected, Resolution, ResolvedInOrder, Reading, ReadInOrder, RefreshOnlyExpired, At, Expired
  <2> QED BY <2>1, <2>2, <2>3, <2>4, <2>5, <2>6, <2>7 DEF FilterNext
<1> QED BY <1>1, <1>2, PTL DEF FilterSpec

\* The lock of the cache excludes, no selection older than a handled namespace event is in
\* use, and no excluded name is ever selected.
THEOREM FilterInvariant ==
    FilterSpec => []FilterInv
<1>1. FilterIInv => FilterInv
  BY DEF FilterIInv
<1> QED BY <1>1, FilterIInvariant, PTL

\* However many informers ask, only one of them resolves an expired selection: each of the
\* others finds it refreshed when it gets the lock.
THEOREM OneRefresh ==
    FilterSpec => OneRefreshPerTTL
<1>1. FilterIInv => \A i \in Informer : (At(i, "store") /\ age' # age) => Expired
  BY DEF FilterIInv, RefreshOnlyExpired, At
<1> QED BY <1>1, FilterIInvariant, PTL DEF OneRefreshPerTTL
==============================================================================
