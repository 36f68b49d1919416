-------------------------- MODULE HybridRunner_proofs --------------------------
(***************************************************************************)
(* Proofs of the safety properties of FlowCatalog and HybridRunner for any  *)
(* flows, step lists, requests at a time, tasks and robots.                 *)
(***************************************************************************)
EXTENDS HybridRunner, FiniteSetTheorems, TLAPS

\* Rows are stored one after the other.
RowsInOrder == \A u, v \in Versions : u < v /\ Stored(v) => Stored(u)

\* A number that was read is at most one ahead of the rows that are there.
NumberFits(i) == i # NoInsertion => i.number \in 1..(Cardinality(VersionsOf(i.flow)) + 1)

PendingNumbers == \A e \in Editors : NumberFits(insertion[e])

\* What a webhook request has read was released.
HookReleased ==
    \A h \in Hooks :
        /\ hook[h] # NoHook => hook[h].task \in Tasks
        /\ hook[h].version # 0 =>
              /\ hook[h].version \in VersionsOf(WebhookFlow)
              /\ release[hook[h].version] \in {"published", "archived"}

CatalogInv ==
    /\ CatalogTypeOK
    /\ RowsInOrder
    /\ PointersAgree
    /\ NumbersInOrder
    /\ PendingNumbers
    /\ HookReleased
    /\ SnapshotReleased

-----------------------------------------------------------------------------
\* The rows of a flow can be counted.
LEMMA VersionsFinite ==
    ASSUME NEW f
    PROVE  IsFiniteSet(VersionsOf(f)) /\ Cardinality(VersionsOf(f)) \in Nat
<1>1. IsFiniteSet(Versions)
  BY CatalogAssumption, FS_Interval DEF Versions
<1>2. VersionsOf(f) \in SUBSET Versions
  BY DEF VersionsOf
<1> QED
  BY <1>1, <1>2, FS_Subset, FS_CardinalityType

\* A flow's rows stay the same when no row is added.
LEMMA SameVersions ==
    ASSUME flowOf' = flowOf, \A v \in Versions : Stored(v)' <=> Stored(v)
    PROVE  \A f : VersionsOf(f)' = VersionsOf(f)
  BY DEF VersionsOf

\* The next number is one more than the flow has rows.
LEMMA NextNumberIs ==
    ASSUME CatalogInv, NEW f \in Flows
    PROVE  NextNumber(f) = Cardinality(VersionsOf(f)) + 1
<1> DEFINE n == Cardinality(VersionsOf(f))
           used == {number[v] : v \in VersionsOf(f)} \cup {0}
<1>1. n \in Nat
  BY VersionsFinite
<1>2. used = 0..n
  <2>1. {number[v] : v \in VersionsOf(f)} = 1..n
    BY DEF CatalogInv, NumbersInOrder
  <2> HIDE DEF n
  <2>2. 0..n = (1..n) \cup {0}
    BY <1>1
  <2> QED
    BY <2>1, <2>2
<1> DEFINE c == CHOOSE m \in used : \A k \in used : k <= m
<1>3. NextNumber(f) = 1 + c
  BY DEF NextNumber
<1> HIDE DEF used, n
<1>4. n \in used /\ \A k \in used : k <= n
  BY <1>1, <1>2
<1>5. \A m \in used : (\A k \in used : k <= m) => m = n
  BY <1>1, <1>2, <1>4
<1>6. c \in used /\ \A k \in used : k <= c
  BY <1>4, Zenon
<1> HIDE DEF c
<1>7. c = n
  BY <1>5, <1>6
<1>8. NextNumber(f) = n + 1
  BY <1>1, <1>3, <1>7
<1> QED
  BY <1>8 DEF n

\* Steps that leave the flows, the snapshots and the requests alone, and neither
\* create nor delete a task.
LEMMA CatalogFrame ==
    ASSUME CatalogInv, UNCHANGED catalogVars, \A t \in Tasks : Exists(t)' <=> Exists(t)
    PROVE  CatalogInv'
<1> USE DEF catalogVars, catalogRows, versionRows
<1>1. \A f : VersionsOf(f)' = VersionsOf(f)
  BY SameVersions DEF Stored
<1>2. CatalogTypeOK' /\ RowsInOrder'
  BY DEF CatalogInv, CatalogTypeOK, RowsInOrder, Stored
<1>5. PendingNumbers' /\ HookReleased'
  BY DEF CatalogInv, PendingNumbers, NumberFits, HookReleased, VersionsOf, Stored
<1>3. PointersAgree' /\ NumbersInOrder'
  BY <1>1 DEF CatalogInv, PointersAgree, NumbersInOrder
<1>4. SnapshotReleased'
  BY <1>1 DEF CatalogInv, SnapshotReleased
<1> QED
  BY <1>2, <1>3, <1>4, <1>5 DEF CatalogInv

\* Steps that leave the rows alone.
LEMMA RowsKept ==
    ASSUME CatalogInv, UNCHANGED <<versionRows, published, draft>>
    PROVE  /\ \A f : VersionsOf(f)' = VersionsOf(f)
           /\ RowsInOrder' /\ PointersAgree' /\ NumbersInOrder'
<1> USE DEF versionRows
<1>1. \A f : VersionsOf(f)' = VersionsOf(f)
  BY SameVersions DEF Stored
<1>2. RowsInOrder'
  BY DEF CatalogInv, RowsInOrder, Stored
<1>3. PointersAgree' /\ NumbersInOrder'
  BY <1>1 DEF CatalogInv, PointersAgree, NumbersInOrder
<1> QED
  BY <1>1, <1>2, <1>3

\* A request that reads its number keeps the catalogue's invariant.
LEMMA ReadNumberStep ==
    ASSUME CatalogInv, NEW e \in Editors, NEW f \in Flows, NEW s \in Scripts \cup {NoScript},
           ReadNextNumber(e, f, s)
    PROVE  CatalogInv'
<1> DEFINE row == [flow |-> f, number |-> NextNumber(f), script |-> s]
<1>1. NextNumber(f) = Cardinality(VersionsOf(f)) + 1 /\ Cardinality(VersionsOf(f)) \in Nat
  BY NextNumberIs, VersionsFinite
<1>2. /\ insertion' = [insertion EXCEPT ![e] = row]
      /\ UNCHANGED <<storeVars, templates, flowOf, number, release, script, published, draft,
                     snapshot, hook>>
  BY DEF ReadNextNumber, catalogRows, versionRows
<1>3. /\ row \in [flow : Flows, number : Nat, script : Scripts \cup {NoScript}]
      /\ row.flow = f /\ row.number = NextNumber(f)
  BY <1>1
<1> HIDE DEF row
<1>4. /\ \A g : VersionsOf(g)' = VersionsOf(g)
      /\ RowsInOrder' /\ PointersAgree' /\ NumbersInOrder'
  BY <1>2, RowsKept DEF versionRows
<1>5. CatalogTypeOK'
  BY <1>2, <1>3 DEF CatalogInv, CatalogTypeOK
<1>6. PendingNumbers'
  <2>1. NumberFits(row)
    BY <1>1, <1>3 DEF NumberFits
  <2>2. \A d \in Editors : NumberFits(insertion'[d])
    BY <1>2, <2>1 DEF CatalogInv, CatalogTypeOK, PendingNumbers
  <2>3. \A i : NumberFits(i)' <=> NumberFits(i)
    BY <1>2 DEF NumberFits, VersionsOf, Stored
  <2> QED
    BY <1>2, <2>2 DEF PendingNumbers, NumberFits, VersionsOf, Stored
<1>7. HookReleased' /\ SnapshotReleased'
  BY <1>2, <1>4 DEF CatalogInv, HookReleased, SnapshotReleased, storeVars, taskRow, Exists
<1> QED
  BY <1>4, <1>5, <1>6, <1>7 DEF CatalogInv

\* A version that is inserted gets the next number: the one that was read, if
\* it is not taken by now.
LEMMA InsertVersionStep ==
    ASSUME CatalogInv, NEW e \in Editors, InsertVersion(e)
    PROVE  CatalogInv'
<1>3. PICK f \in Flows, k \in Nat, n \in Nat :
          f = insertion[e].flow /\ k = insertion[e].number /\ n = Cardinality(VersionsOf(f))
  BY VersionsFinite DEF CatalogInv, CatalogTypeOK
<1>1. PICK v \in Versions :
          /\ ~Stored(v)
          /\ \A u \in Versions : u < v => Stored(u)
          /\ flowOf' = [flowOf EXCEPT ![v] = f]
          /\ number' = [number EXCEPT ![v] = k]
          /\ release' = [release EXCEPT ![v] = "draft"]
          /\ script' = [script EXCEPT ![v] = insertion[e].script]
          /\ draft' = [draft EXCEPT ![f] = v]
  BY <1>3 DEF InsertVersion
<1>2. /\ insertion' = [insertion EXCEPT ![e] = NoInsertion]
      /\ UNCHANGED <<templates, published, snapshot, hook, status>>
      /\ insertion[e] # NoInsertion
      /\ \A u \in VersionsOf(f) : number[u] # k
  BY <1>3 DEF InsertVersion, NumberTaken, storeVars, taskRow
<1>4. /\ IsFiniteSet(VersionsOf(f)) /\ n \in Nat
      /\ {number[u] : u \in VersionsOf(f)} = 1..n
      /\ k \in 1..(n + 1)
  BY <1>2, <1>3, VersionsFinite DEF CatalogInv, NumbersInOrder, PendingNumbers, NumberFits
<1>5. \A u \in VersionsOf(f) : number[u] \in 1..n
  BY <1>4
<1>6. k = n + 1
  <2>1. \A i \in 1..n : \E u \in VersionsOf(f) : number[u] = i
    BY <1>4
  <2>2. k \notin 1..n
    BY <1>2, <2>1
  <2> QED
    BY <1>3, <1>4, <2>2
<1>7. \A u \in Versions : Stored(u) => u < v
  BY <1>1 DEF CatalogInv, RowsInOrder, Versions
<1>8. \A u \in Versions : Stored(u)' <=> Stored(u) \/ u = v
  BY <1>1 DEF Stored, CatalogInv, CatalogTypeOK
<1>9. /\ \A g \in Flows : g # f => VersionsOf(g)' = VersionsOf(g)
      /\ VersionsOf(f)' = VersionsOf(f) \cup {v}
  BY <1>1, <1>8 DEF VersionsOf, CatalogInv, CatalogTypeOK
<1>10. Cardinality(VersionsOf(f)') = n + 1
  <2>1. v \notin VersionsOf(f)
    BY <1>1 DEF VersionsOf
  <2> QED
    BY ZenonT(30), <1>3, <1>4, <1>9, <2>1, FS_AddElement
<1>11. \A u \in Versions : u # v =>
          number'[u] = number[u] /\ release'[u] = release[u] /\ script'[u] = script[u]
  BY <1>1 DEF CatalogInv, CatalogTypeOK
<1>12. number'[v] = k /\ release'[v] = "draft"
  BY <1>1 DEF CatalogInv, CatalogTypeOK
<1>13. \A g : /\ VersionsOf(g) \subseteq Versions /\ v \notin VersionsOf(g)
              /\ \A u \in VersionsOf(g) : Stored(u)
  BY <1>1 DEF VersionsOf
<1>14. CatalogTypeOK'
  <2>1. NoInsertion \in [flow : Flows, number : Nat, script : Scripts \cup {NoScript}]
    BY CatalogAssumption DEF NoInsertion
  <2> QED
    BY <1>1, <1>2, <1>3, <2>1 DEF CatalogInv, CatalogTypeOK
<1>15. RowsInOrder'
  BY <1>1, <1>7, <1>8 DEF CatalogInv, RowsInOrder, Versions
<1>16. \A g \in Flows : 
        /\ {w \in VersionsOf(g) : release[w] = "published"}' =
              {w \in VersionsOf(g) : release[w] = "published"}
        /\ {number[w] : w \in VersionsOf(g)}' =
              IF g = f THEN (1..n) \cup {k} ELSE {number[w] : w \in VersionsOf(g)}
  <2> SUFFICES ASSUME NEW g \in Flows
               PROVE  /\ {w \in VersionsOf(g)' : release'[w] = "published"} =
                            {w \in VersionsOf(g) : release[w] = "published"}
                      /\ {number'[w] : w \in VersionsOf(g)'} =
                            IF g = f THEN (1..n) \cup {k} ELSE {number[w] : w \in VersionsOf(g)}
    OBVIOUS
  <2>1. \A w \in VersionsOf(g) : number'[w] = number[w] /\ release'[w] = release[w]
    BY <1>11, <1>13
  <2>2. CASE g = f
    <3>1. VersionsOf(g)' = VersionsOf(g) \cup {v}
      BY <1>9, <2>2
    <3>2. {number'[w] : w \in VersionsOf(g)'} = {number[w] : w \in VersionsOf(g)} \cup {k}
      BY <2>1, <3>1, <1>12
    <3> QED
      BY <1>3, <1>4, <1>12, <2>1, <2>2, <3>1, <3>2
  <2>3. CASE g # f
    BY <1>9, <2>1, <2>3
  <2> QED
    BY <2>2, <2>3
<1>17. PointersAgree'
  <2> SUFFICES ASSUME NEW g \in Flows
               PROVE  (/\ {w \in VersionsOf(g) : release[w] = "published"} =
                              IF published[g] = 0 THEN {} ELSE {published[g]}
                       /\ draft[g] # 0 =>
                              /\ draft[g] \in VersionsOf(g)
                              /\ release[draft[g]] = "draft"
                              /\ \A w \in VersionsOf(g) : w <= draft[g])'
    BY DEF PointersAgree
  <2>1. {w \in VersionsOf(g) : release[w] = "published"}' =
            IF published'[g] = 0 THEN {} ELSE {published'[g]}
    BY <1>2, <1>16 DEF CatalogInv, PointersAgree
  <2>2. CASE g = f
    <3>1. draft'[g] = v
      BY <1>1, <1>3, <2>2 DEF CatalogInv, CatalogTypeOK
    <3>2. \A w \in VersionsOf(g)' : w <= v
      BY <1>7, <1>9, <1>13, <2>2 DEF Versions
    <3> QED
      BY <1>9, <1>12, <2>1, <2>2, <3>1, <3>2
  <2>3. CASE g # f
    <3>1. draft'[g] = draft[g] /\ VersionsOf(g)' = VersionsOf(g)
      BY <1>1, <1>9, <2>3 DEF CatalogInv, CatalogTypeOK
    <3>2. draft[g] # 0 =>
              /\ draft[g] \in VersionsOf(g)
              /\ release[draft[g]] = "draft"
              /\ \A w \in VersionsOf(g) : w <= draft[g]
      BY DEF CatalogInv, PointersAgree
    <3>3. draft[g] # 0 => release'[draft[g]] = "draft"
      BY <1>11, <1>13, <3>2
    <3> QED
      BY <2>1, <3>1, <3>2, <3>3
  <2> QED
    BY <2>2, <2>3
<1>18. NumbersInOrder'
  <2> SUFFICES ASSUME NEW g \in Flows
               PROVE  (/\ {number[w] : w \in VersionsOf(g)} = 1..Cardinality(VersionsOf(g))
                       /\ \A u, w \in VersionsOf(g) : u < w => number[u] < number[w])'
    BY DEF NumbersInOrder
  <2>1. CASE g = f
    <3>1. {number[w] : w \in VersionsOf(g)}' = 1..(n + 1)
      <4>1. (1..n) \cup {n + 1} = 1..(n + 1)
        BY <1>4
      <4> QED
        BY <1>6, <1>16, <2>1, <4>1
    <3>2. Cardinality(VersionsOf(g)') = n + 1
      BY <1>10, <2>1
    <3>3. ASSUME NEW u \in VersionsOf(g)', NEW w \in VersionsOf(g)', u < w
          PROVE  number'[u] < number'[w]
      <4>1. \A x, y \in VersionsOf(g) : x < y => number[x] < number[y]
        BY DEF CatalogInv, NumbersInOrder
      <4>2. /\ u \in Versions /\ w \in Versions
            /\ w \in VersionsOf(g) \/ w = v
            /\ u \in VersionsOf(g) \/ u = v
        BY <1>9, <1>13, <2>1
      <4>3. u \in VersionsOf(g)
        BY <1>7, <1>13, <3>3, <4>2 DEF Versions
      <4>4. CASE w = v
        <5>1. number'[w] = n + 1
          BY <1>6, <1>12, <4>4
        <5>2. number'[u] \in 1..n
          BY <1>5, <1>11, <1>13, <2>1, <4>3
        <5> QED
          BY <1>4, <5>1, <5>2
      <4>5. CASE w \in VersionsOf(g)
        BY <1>11, <1>13, <3>3, <4>1, <4>3, <4>5
      <4> QED
        BY <4>2, <4>4, <4>5
    <3> QED
      BY <3>1, <3>2, <3>3
  <2>2. CASE g # f
    <3>1. VersionsOf(g)' = VersionsOf(g)
      BY <1>9, <2>2
    <3>2. {number[w] : w \in VersionsOf(g)}' = {number[w] : w \in VersionsOf(g)}
      BY <1>16, <2>2
    <3>3. \A w \in VersionsOf(g) : number'[w] = number[w]
      BY <1>11, <1>13
    <3> QED
      BY <3>1, <3>2, <3>3 DEF CatalogInv, NumbersInOrder
  <2> QED
    BY <2>1, <2>2
<1>19. PendingNumbers'
  <2> SUFFICES ASSUME NEW d \in Editors, insertion'[d] # NoInsertion
               PROVE  (insertion[d].number \in 1..(Cardinality(VersionsOf(insertion[d].flow)) + 1))'
    BY DEF PendingNumbers, NumberFits, NoInsertion
  <2>1. insertion'[d] = insertion[d]
    BY <1>2 DEF CatalogInv, CatalogTypeOK
  <2>2. PICK g \in Flows, i \in Nat : g = insertion[d].flow /\ i = insertion[d].number
    BY DEF CatalogInv, CatalogTypeOK
  <2>3. i \in 1..(Cardinality(VersionsOf(g)) + 1)
    BY <2>1, <2>2 DEF CatalogInv, PendingNumbers, NumberFits
  <2>4. i \in 1..(Cardinality(VersionsOf(g)') + 1)
    BY <1>3, <1>9, <1>10, <2>3
  <2> QED
    BY <2>1, <2>2, <2>4
<1>20. HookReleased'
  BY <1>2, <1>9, <1>11, <1>13, CatalogAssumption DEF CatalogInv, HookReleased
<1>21. SnapshotReleased'
  BY <1>2, <1>9, <1>11, <1>13, CatalogAssumption DEF CatalogInv, SnapshotReleased, Exists
<1> QED
  BY <1>14, <1>15, <1>17, <1>18, <1>19, <1>20, <1>21 DEF CatalogInv

\* Publishing moves the pointers of one flow, and releases what they name.
LEMMA PublishStep ==
    ASSUME CatalogInv, NEW f \in Flows, NEW v \in Versions, PublishVersion(f, v)
    PROVE  CatalogInv'
<1>1. /\ v \in VersionsOf(f)
      /\ release' = [u \in Versions |->
            IF u = v THEN "published"
            ELSE IF u \in VersionsOf(f) /\ release[u] = "published" THEN "archived"
            ELSE release[u]]
      /\ published' = [published EXCEPT ![f] = v]
      /\ draft' = [draft EXCEPT ![f] = 0]
      /\ UNCHANGED <<status, templates, flowOf, number, script, snapshot, insertion, hook>>
  BY DEF PublishVersion, storeVars, taskRow
<1>2. \A u \in Versions : release[u] \in {"absent", "draft", "published", "archived"}
  BY DEF CatalogInv, CatalogTypeOK
<1>3. \A u \in Versions : Stored(u)' <=> Stored(u)
  BY <1>1 DEF VersionsOf, Stored
<1>4. \A g : VersionsOf(g)' = VersionsOf(g)
  BY <1>1, <1>3, SameVersions
<1>5. \A g : VersionsOf(g) \subseteq Versions /\ \A w \in VersionsOf(g) : flowOf[w] = g
  BY DEF VersionsOf
<1>6. CatalogTypeOK'
  BY <1>1, <1>2 DEF CatalogInv, CatalogTypeOK
<1>7. RowsInOrder'
  BY <1>3 DEF CatalogInv, RowsInOrder
<1>8. PointersAgree'
  <2> SUFFICES ASSUME NEW g \in Flows
               PROVE  (/\ {w \in VersionsOf(g) : release[w] = "published"} =
                              IF published[g] = 0 THEN {} ELSE {published[g]}
                       /\ draft[g] # 0 =>
                              /\ draft[g] \in VersionsOf(g)
                              /\ release[draft[g]] = "draft"
                              /\ \A w \in VersionsOf(g) : w <= draft[g])'
    BY DEF PointersAgree
  <2>1. CASE g = f
    <3>1. published'[g] = v /\ draft'[g] = 0 /\ v # 0
      BY <1>1, <2>1 DEF CatalogInv, CatalogTypeOK, Versions
    <3>2. {w \in VersionsOf(g)' : release'[w] = "published"} = {v}
      BY <1>1, <1>4, <1>5, <2>1
    <3> QED
      BY <3>1, <3>2
  <2>2. CASE g # f
    <3>1. published'[g] = published[g] /\ draft'[g] = draft[g]
      BY <1>1, <2>2 DEF CatalogInv, CatalogTypeOK
    <3>2. \A w \in VersionsOf(g) : release'[w] = release[w]
      BY <1>1, <1>5, <2>2
    <3> QED
      BY <1>4, <3>1, <3>2 DEF CatalogInv, PointersAgree
  <2> QED
    BY <2>1, <2>2
<1>9. NumbersInOrder'
  BY <1>1, <1>4 DEF CatalogInv, NumbersInOrder
<1>10. PendingNumbers'
  <2> SUFFICES ASSUME NEW d \in Editors
               PROVE  NumberFits(insertion[d])'
    BY DEF PendingNumbers
  <2>1. NumberFits(insertion[d])
    BY DEF CatalogInv, PendingNumbers
  <2>2. VersionsOf(insertion[d].flow)' = VersionsOf(insertion[d].flow)
    BY <1>1, <1>3 DEF VersionsOf
  <2> QED
    BY <1>1, <2>1, <2>2 DEF NumberFits
<1>11. \A w \in Versions :
          release[w] \in {"published", "archived"} => release'[w] \in {"published", "archived"}
  BY <1>1
<1>12. HookReleased' /\ SnapshotReleased'
  BY <1>1, <1>4, <1>5, <1>11 DEF CatalogInv, HookReleased, SnapshotReleased, Exists
<1> QED
  BY <1>6, <1>7, <1>8, <1>9, <1>10, <1>12 DEF CatalogInv

\* A webhook request reads released versions only, and its task gets what it
\* has read.
LEMMA HookStep ==
    ASSUME CatalogInv, StoreTypeOK, NEW h \in Hooks,
           (\E t \in Tasks : ReadKey(h, t)) \/ ReadPublished(h) \/ InsertTask(h)
    PROVE  CatalogInv'
<1>1. UNCHANGED <<templates, flowOf, number, release, script, published, draft, insertion>>
  BY DEF ReadKey, ReadPublished, InsertTask, catalogRows, versionRows
<1>2. /\ \A g : VersionsOf(g)' = VersionsOf(g)
      /\ RowsInOrder' /\ PointersAgree' /\ NumbersInOrder'
  BY <1>1, RowsKept DEF versionRows
<1>3. PendingNumbers'
  BY <1>1 DEF CatalogInv, PendingNumbers, NumberFits, VersionsOf, Stored
<1>4. NoHook \in [task : Tasks \cup {0}, version : Versions \cup {0}] /\ NoHook.version = 0
  BY DEF NoHook
<1>5. CASE \E t \in Tasks : ReadKey(h, t)
  <2>1. PICK t \in Tasks : hook' = [hook EXCEPT ![h] = [task |-> t, version |-> 0]]
    BY <1>5 DEF ReadKey
  <2>2. UNCHANGED <<snapshot, status>>
    BY <1>5 DEF ReadKey, storeVars, taskRow
  <2>3. CatalogTypeOK' /\ HookReleased' /\ SnapshotReleased'
    BY <1>1, <1>2, <2>1, <2>2
       DEF CatalogInv, CatalogTypeOK, HookReleased, SnapshotReleased, Exists, NoHook
  <2> QED
    BY <1>2, <1>3, <2>3 DEF CatalogInv
<1>6. CASE ReadPublished(h)
  <2>1. /\ hook[h] # NoHook
        /\ \/ hook' = [hook EXCEPT ![h] = NoHook]
           \/ /\ published[WebhookFlow] # 0
              /\ hook' = [hook EXCEPT ![h].version = published[WebhookFlow]]
        /\ UNCHANGED <<snapshot, status>>
    BY <1>6 DEF ReadPublished, storeVars, taskRow
  <2>2. published[WebhookFlow] # 0 =>
            /\ published[WebhookFlow] \in VersionsOf(WebhookFlow)
            /\ release[published[WebhookFlow]] = "published"
            /\ published[WebhookFlow] \in Versions
    <3>1. {v \in VersionsOf(WebhookFlow) : release[v] = "published"} =
              IF published[WebhookFlow] = 0 THEN {} ELSE {published[WebhookFlow]}
      BY CatalogAssumption DEF CatalogInv, PointersAgree
    <3> QED
      BY <3>1 DEF VersionsOf
  <2>3. hook[h].task \in Tasks
    BY <2>1 DEF CatalogInv, HookReleased
  <2>4. CASE hook' = [hook EXCEPT ![h] = NoHook]
    <3>1. CatalogTypeOK' /\ HookReleased' /\ SnapshotReleased'
      BY <1>1, <1>2, <1>4, <2>1, <2>4
         DEF CatalogInv, CatalogTypeOK, HookReleased, SnapshotReleased, Exists
    <3> QED
      BY <1>2, <1>3, <3>1 DEF CatalogInv
  <2>5. CASE /\ published[WebhookFlow] # 0
             /\ hook' = [hook EXCEPT ![h].version = published[WebhookFlow]]
    <3>1. CatalogTypeOK'
      BY ZenonT(30), <1>1, <2>1, <2>2, <2>5 DEF CatalogInv, CatalogTypeOK
    <3>2. /\ hook'[h].task = hook[h].task
          /\ hook'[h].version = published[WebhookFlow]
          /\ \A i \in Hooks : i # h => hook'[i] = hook[i]
      BY <2>5 DEF CatalogInv, CatalogTypeOK
    <3>3. HookReleased' /\ SnapshotReleased'
      BY <1>1, <1>2, <2>1, <2>2, <2>3, <3>2
         DEF CatalogInv, HookReleased, SnapshotReleased, Exists
    <3> QED
      BY <1>2, <1>3, <3>1, <3>3 DEF CatalogInv
  <2> QED
    BY <2>1, <2>4, <2>5
<1>7. CASE InsertTask(h)
  <2>1. /\ hook[h].version # 0
        /\ hook' = [hook EXCEPT ![h] = NoHook]
        /\ \/ UNCHANGED <<snapshot, status>>
           \/ /\ status' = [status EXCEPT ![hook[h].task] = "pending"]
              /\ snapshot' = [snapshot EXCEPT ![hook[h].task] = hook[h].version]
    BY <1>7 DEF InsertTask, CreateTask, storeVars, taskRow
  <2>2. /\ hook[h].task \in Tasks
        /\ hook[h].version \in VersionsOf(WebhookFlow)
        /\ release[hook[h].version] \in {"published", "archived"}
    BY <1>4, <2>1 DEF CatalogInv, HookReleased
  <2>3. CatalogTypeOK' /\ HookReleased'
    <3>1. hook[h].version \in Versions
      BY <2>2 DEF VersionsOf
    <3>2. snapshot' \in [Tasks -> Versions \cup {0}]
      BY <2>1, <2>2, <3>1 DEF CatalogInv, CatalogTypeOK
    <3>3. hook' \in [Hooks -> [task : Tasks \cup {0}, version : Versions \cup {0}]]
      BY <1>4, <2>1 DEF CatalogInv, CatalogTypeOK
    <3>4. CatalogTypeOK'
      BY <1>1, <3>2, <3>3 DEF CatalogInv, CatalogTypeOK
    <3>5. \A i \in Hooks : hook'[i] = IF i = h THEN NoHook ELSE hook[i]
      BY <2>1 DEF CatalogInv, CatalogTypeOK
    <3>6. HookReleased'
      BY <1>1, <1>2, <1>4, <3>5 DEF CatalogInv, HookReleased, NoHook
    <3> QED
      BY <3>4, <3>6
  <2>4. SnapshotReleased'
    <3>1. CASE UNCHANGED <<snapshot, status>>
      BY <1>1, <1>2, <3>1 DEF CatalogInv, SnapshotReleased, Exists
    <3>2. CASE /\ status' = [status EXCEPT ![hook[h].task] = "pending"]
               /\ snapshot' = [snapshot EXCEPT ![hook[h].task] = hook[h].version]
      <4>1. \A t \in Tasks : 
                IF t = hook[h].task THEN Exists(t)' /\ snapshot'[t] = hook[h].version
                ELSE (Exists(t)' <=> Exists(t)) /\ snapshot'[t] = snapshot[t]
        BY <3>2, <2>2 DEF CatalogInv, CatalogTypeOK, StoreTypeOK, Exists
      <4> QED
        BY <1>1, <1>2, <2>1, <2>2, <4>1 DEF CatalogInv, SnapshotReleased
    <3> QED
      BY <2>1, <3>1, <3>2
  <2> QED
    BY <1>2, <1>3, <2>3, <2>4 DEF CatalogInv
<1> QED
  BY <1>5, <1>6, <1>7

\* What a step of the routes does to the rows a robot looks at: the row, the
\* snapshot and the steps of a task that exists stay as they are.
LEMMA CatalogStepInv ==
    ASSUME CatalogInv, StoreTypeOK, CatalogStep
    PROVE  /\ CatalogInv' /\ StoreTypeOK'
           /\ UNCHANGED <<attempts, robotRow>>
           /\ \A t \in Tasks : Exists(t) =>
                 /\ status'[t] = status[t]
                 /\ snapshot'[t] = snapshot[t]
                 /\ script'[snapshot[t]] = script[snapshot[t]]
           /\ \A t \in Tasks : ~Exists(t) => status'[t] \in {"absent", "pending"}
<1> DEFINE Goal ==
      /\ CatalogInv' /\ StoreTypeOK'
      /\ UNCHANGED <<attempts, robotRow>>
      /\ \A t \in Tasks : Exists(t) =>
            /\ status'[t] = status[t]
            /\ snapshot'[t] = snapshot[t]
            /\ script'[snapshot[t]] = script[snapshot[t]]
      /\ \A t \in Tasks : ~Exists(t) => status'[t] \in {"absent", "pending"}
<1>1. ASSUME CatalogInv', UNCHANGED storeVars,
             \A t \in Tasks : Exists(t) =>
                 snapshot'[t] = snapshot[t] /\ script'[snapshot[t]] = script[snapshot[t]]
      PROVE  Goal
  <2>1. StoreTypeOK'
    BY <1>1 DEF storeVars, taskRow, StoreTypeOK
  <2>2. \A t \in Tasks : ~Exists(t) => status[t] = "absent"
    BY DEF Exists
  <2> QED
    BY <1>1, <2>1, <2>2 DEF storeVars, taskRow
<1>2. ASSUME NEW f \in Flows, CreateFlow(f) PROVE Goal
  <2>1. UNCHANGED <<storeVars, flowOf, number, release, script, published, draft, snapshot,
                    insertion, hook>>
        /\ templates' = templates \cup {f}
    BY <1>2 DEF CreateFlow, versionRows
  <2>2. RowsInOrder' /\ PointersAgree' /\ NumbersInOrder' /\ \A g : VersionsOf(g)' = VersionsOf(g)
    BY <2>1, RowsKept DEF versionRows
  <2>3. CatalogTypeOK'
    BY <2>1 DEF CatalogInv, CatalogTypeOK
  <2>4. PendingNumbers' /\ HookReleased'
    BY <2>1 DEF CatalogInv, PendingNumbers, NumberFits, HookReleased, VersionsOf, Stored
  <2>5. SnapshotReleased'
    BY <2>1, <2>2 DEF CatalogInv, SnapshotReleased, storeVars, taskRow, Exists
  <2>6. CatalogInv'
    BY <2>2, <2>3, <2>4, <2>5 DEF CatalogInv
  <2> QED
    BY <1>1, <2>1, <2>6
<1>3. ASSUME NEW f \in Flows, NEW v \in Versions, PublishVersion(f, v) PROVE Goal
  <2>1. CatalogInv'
    BY <1>3, PublishStep
  <2>2. UNCHANGED <<storeVars, snapshot, script>>
    BY <1>3 DEF PublishVersion
  <2> QED
    BY <1>1, <2>1, <2>2
<1>4. ASSUME NEW e \in Editors, NEW f \in Flows, NEW s \in Scripts \cup {NoScript},
             ReadNextNumber(e, f, s)
      PROVE  Goal
  <2>1. CatalogInv'
    BY <1>4, ReadNumberStep
  <2>2. UNCHANGED <<storeVars, snapshot, script>>
    BY <1>4 DEF ReadNextNumber, catalogRows, versionRows
  <2> QED
    BY <1>1, <2>1, <2>2
<1>5. ASSUME NEW e \in Editors, NEW f \in Flows, NEW v \in Versions, CopyVersion(e, f, v)
      PROVE  Goal
  <2>1. script[v] \in Scripts \cup {NoScript} /\ ReadNextNumber(e, f, script[v])
    BY <1>5 DEF CopyVersion, CatalogInv, CatalogTypeOK
  <2> QED
    BY <1>4, <2>1
<1>6. ASSUME NEW e \in Editors, InsertVersion(e) PROVE Goal
  <2>1. CatalogInv'
    BY <1>6, InsertVersionStep
  <2>2. PICK v \in Versions : ~Stored(v) /\ script' = [script EXCEPT ![v] = insertion[e].script]
    BY <1>6 DEF InsertVersion
  <2>3. UNCHANGED <<storeVars, snapshot>>
    BY <1>6 DEF InsertVersion
  <2>4. \A t \in Tasks : Exists(t) => snapshot[t] \in Versions /\ Stored(snapshot[t])
    BY DEF CatalogInv, SnapshotReleased, VersionsOf
  <2>5. \A t \in Tasks : Exists(t) =>
            snapshot'[t] = snapshot[t] /\ script'[snapshot[t]] = script[snapshot[t]]
    BY <2>2, <2>3, <2>4 DEF CatalogInv, CatalogTypeOK
  <2> QED
    BY <1>1, <2>1, <2>3, <2>5
<1>7. ASSUME NEW e \in Editors, InsertVersionFails(e) PROVE Goal
  <2>1. /\ UNCHANGED <<storeVars, templates, flowOf, number, release, script, published, draft,
                       snapshot, hook>>
        /\ insertion' = [insertion EXCEPT ![e] = NoInsertion]
    BY <1>7 DEF InsertVersionFails, catalogRows, versionRows
  <2>2. RowsInOrder' /\ PointersAgree' /\ NumbersInOrder' /\ \A g : VersionsOf(g)' = VersionsOf(g)
    BY <2>1, RowsKept DEF versionRows
  <2>3. NoInsertion \in [flow : Flows, number : Nat, script : Scripts \cup {NoScript}]
    BY CatalogAssumption DEF NoInsertion
  <2>4. CatalogTypeOK'
    BY <2>1, <2>3 DEF CatalogInv, CatalogTypeOK
  <2>5. PendingNumbers'
    <3>1. \A d \in Editors : NumberFits(insertion'[d])
      BY <2>1 DEF CatalogInv, CatalogTypeOK, PendingNumbers, NumberFits
    <3> QED
      BY <2>1, <3>1 DEF PendingNumbers, NumberFits, VersionsOf, Stored
  <2>6. HookReleased' /\ SnapshotReleased'
    BY <2>1, <2>2 DEF CatalogInv, HookReleased, SnapshotReleased, storeVars, taskRow, Exists
  <2>7. CatalogInv'
    BY <2>2, <2>4, <2>5, <2>6 DEF CatalogInv
  <2> QED
    BY <1>1, <2>1, <2>7
<1>8. ASSUME NEW h \in Hooks,
             (\E t \in Tasks : ReadKey(h, t)) \/ ReadPublished(h) \/ InsertTask(h)
      PROVE  Goal
  <2>1. CatalogInv'
    BY <1>8, HookStep
  <2>2. CASE UNCHANGED <<storeVars, snapshot>>
    <3>1. UNCHANGED script
      BY <1>8 DEF ReadKey, ReadPublished, InsertTask, catalogRows, versionRows
    <3> QED
      BY <1>1, <2>1, <2>2, <3>1
  <2>3. CASE InsertTask(h) /\ ~Exists(hook[h].task)
    <3>1. /\ status' = [status EXCEPT ![hook[h].task] = "pending"]
          /\ born' = [born EXCEPT ![hook[h].task] = Cardinality({u \in Tasks : Exists(u)}) + 1]
          /\ snapshot' = [snapshot EXCEPT ![hook[h].task] = hook[h].version]
          /\ UNCHANGED <<assigned, check, attempts, orderId, openActions, robotRow, script>>
      BY <2>3 DEF InsertTask, CreateTask, catalogRows, versionRows
    <3>2. Cardinality({u \in Tasks : Exists(u)}) \in Nat
      <4>1. IsFiniteSet({u \in Tasks : Exists(u)})
        BY StoreAssumption, FS_Subset
      <4> QED
        BY <4>1, FS_CardinalityType
    <3>3. StoreTypeOK'
      <4>1. "pending" \in Status
        BY DEF Status
      <4> HIDE DEF Goal
      <4>2. status' \in [Tasks -> Status \cup {"absent"}]
        BY <3>1, <4>1 DEF StoreTypeOK
      <4>3. born' \in [Tasks -> Nat]
        <5>1. PICK k \in Nat : k = Cardinality({u \in Tasks : Exists(u)})
          BY <3>2, Zenon
        <5>2. k + 1 \in Nat /\ born \in [Tasks -> Nat]
          BY DEF StoreTypeOK
        <5>3. born' = [born EXCEPT ![hook[h].task] = k + 1]
          BY <3>1, <5>1, Zenon
        <5> QED
          BY <5>2, <5>3
      <4> QED
        BY <3>1, <4>2, <4>3 DEF StoreTypeOK
    <3>4. \A t \in Tasks : Exists(t) => status'[t] = status[t] /\ snapshot'[t] = snapshot[t]
      BY <2>3, <3>1 DEF CatalogInv, CatalogTypeOK, StoreTypeOK
    <3>5. \A t \in Tasks : ~Exists(t) => status'[t] \in {"absent", "pending"}
      BY <3>1 DEF StoreTypeOK, Exists
    <3> QED
      BY <2>1, <3>1, <3>3, <3>4, <3>5
  <2> QED
    BY <1>8, <2>2, <2>3 DEF ReadKey, ReadPublished, InsertTask
<1> QED
  BY <1>2, <1>3, <1>4, <1>5, <1>6, <1>7, <1>8 DEF CatalogStep


-----------------------------------------------------------------------------
(***************************************************************************)
(* The invariant of the workers.                                           *)
(***************************************************************************)

\* The statuses this deployment writes.
Reached ==
    {"absent", "pending", "checking_login", "running", "waiting_login",
     "waiting_manual_intervention", "waiting_wecom_review", "success"}

\* The snapshot of t submits a review.
Submits(t) ==
    \E i \in 1..Len(script[snapshot[t]]) : script[snapshot[t]][i] = "wecom_submit_review"

\* What holds of the reviews of a task.
ReviewsFit(t) ==
    /\ reviews[t] <= attempts[t] + 1
    /\ status[t] \in {"absent", "pending", "success"} => reviews[t] = 0
    /\ reviews[t] > 0 => Submits(t)

\* What holds of a worker and the task in its hands.
WorkFits(r) ==
    /\ at[r] \notin {"approved", "online"}
    /\ at[r] # "idle" => robotRow[r] = "busy"
    /\ at[r] \in Working => status[job[r]] \in {"checking_login", "running"}
    /\ at[r] \in Working \ {"review"} => reviews[job[r]] <= attempts[job[r]]
    /\ at[r] \in {"claimed", "started", "step"} =>
          \A i \in 1..Len(Steps(r)) : i < next[r] => Steps(r)[i] # "wecom_submit_review"
    /\ at[r] = "ended" => reviews[job[r]] = 0

Alone ==
    \A r, q \in Robots : at[r] \in Working /\ at[q] \in Working /\ job[r] = job[q] => r = q

HybridInv ==
    /\ HybridTypeOK
    /\ CatalogInv
    /\ Alone
    /\ \A t \in Tasks : status[t] \in Reached /\ ReviewsFit(t)
    /\ \A r \in Robots : WorkFits(r)

\* A step of worker r on task t.  It may change what is known of t only while
\* no other worker has t in its hands.
LEMMA StepOfWorker ==
    ASSUME HybridInv, HybridTypeOK', UNCHANGED catalogVars,
           NEW r \in Robots, NEW t \in Tasks,
           \A q \in Robots \ {r} :
               /\ at'[q] = at[q] /\ job'[q] = job[q] /\ next'[q] = next[q]
               /\ robotRow'[q] = robotRow[q],
           \A u \in Tasks \ {t} :
               status'[u] = status[u] /\ attempts'[u] = attempts[u] /\ reviews'[u] = reviews[u],
           \/ \A q \in Robots \ {r} : at[q] \in Working => job[q] # t
           \/ /\ status'[t] = status[t] /\ attempts'[t] = attempts[t] /\ reviews'[t] = reviews[t]
              /\ at'[r] \notin Working,
           status'[t] = "absent" <=> status[t] = "absent", status'[t] \in Reached,
           at'[r] \in Working => job'[r] = t,
           ReviewsFit(t)', WorkFits(r)'
    PROVE  HybridInv'
<1>1. CatalogInv'
  <2>1. \A u \in Tasks : Exists(u)' <=> Exists(u)
    BY DEF Exists
  <2> QED
    BY <2>1, CatalogFrame DEF HybridInv
<1>2. snapshot' = snapshot /\ script' = script
  BY DEF catalogVars, catalogRows, versionRows
<1>3. Alone'
  BY DEF HybridInv, Alone, Working, StatusAfter
<1>4. ASSUME NEW u \in Tasks PROVE status'[u] \in Reached /\ ReviewsFit(u)'
  <2>1. CASE u = t
    BY <2>1
  <2>2. CASE u # t
    BY <2>2, <1>2 DEF HybridInv, ReviewsFit, Submits
  <2> QED
    BY <2>1, <2>2
<1>5. ASSUME NEW q \in Robots PROVE WorkFits(q)'
  <2>1. CASE q = r
    BY <2>1
  <2>2. CASE q # r
    <3>1. at'[q] = at[q] /\ job'[q] = job[q] /\ next'[q] = next[q] /\ robotRow'[q] = robotRow[q]
      BY <2>2
    <3>2. WorkFits(q)
      BY DEF HybridInv
    <3>3. at[q] \in Working =>
             /\ status'[job[q]] = status[job[q]] /\ attempts'[job[q]] = attempts[job[q]]
             /\ reviews'[job[q]] = reviews[job[q]]
      <4>1. at[q] \in Working => job[q] \in Tasks
        BY DEF HybridInv, HybridTypeOK, Working, StatusAfter
      <4> QED
        BY <4>1, <2>2
    <3>4. "step" \in Working /\ "ended" \in Working
      BY DEF Working, StatusAfter
    <3>5. (Working \ {"review"})' = Working \ {"review"}
      BY DEF Working, StatusAfter
    <3>6. Working' = Working
      BY DEF Working, StatusAfter
    <3> HIDE DEF Working
    <3> QED
      BY <1>2, <3>1, <3>2, <3>3, <3>4, <3>5, <3>6 DEF WorkFits, Steps
  <2> QED
    BY <2>1, <2>2
<1> QED
  BY <1>1, <1>3, <1>4, <1>5 DEF HybridInv

\* What the invariant says of a worker with a task in its hands.
LEMMA InHand ==
    ASSUME HybridInv, NEW r \in Robots, at[r] \in Working
    PROVE  /\ job[r] \in Tasks
           /\ \A q \in Robots \ {r} : at[q] \in Working => job[q] # job[r]
           /\ status[job[r]] \in {"checking_login", "running"}
           /\ robotRow[r] = "busy"
           /\ reviews[job[r]] \in Nat /\ attempts[job[r]] \in Nat
           /\ next[r] \in Nat \ {0}
           /\ reviews[job[r]] <= attempts[job[r]] + 1
           /\ reviews[job[r]] > 0 => Submits(job[r])
<1>1. job[r] \in Tasks
  BY DEF HybridInv, HybridTypeOK, Working, StatusAfter
<1>2. at[r] # "idle"
  BY DEF Working, StatusAfter
<1>3. WorkFits(r) /\ ReviewsFit(job[r])
  BY <1>1 DEF HybridInv
<1>4. attempts \in [Tasks -> Nat] /\ reviews \in [Tasks -> Nat] /\ next \in [Robots -> Nat \ {0}]
  BY DEF HybridInv, HybridTypeOK, StoreTypeOK
<1> QED
  BY <1>1, <1>2, <1>3, <1>4 DEF HybridInv, Alone, WorkFits, ReviewsFit

\* A step that moves a worker on through its call; of the rows only the manual
\* actions may change.
LEMMA MoveOn ==
    ASSUME HybridInv, NEW r \in Robots, at[r] \in Working,
           NEW l \in Working \ {"approved", "online"},
           UNCHANGED <<catalogVars, taskRow, orderId, robotRow, job>>,
           openActions' \in [Tasks -> BOOLEAN],
           at' = [at EXCEPT ![r] = l],
           NEW n \in Nat \ {0}, next' = [next EXCEPT ![r] = n],
           context' \in [Tasks -> SUBSET {"corp", "token"}],
           NEW k \in Nat, reviews' = [reviews EXCEPT ![job[r]] = k],
           k <= attempts[job[r]] + 1,
           l # "review" => k <= attempts[job[r]],
           k > 0 => Submits(job[r]),
           l \in {"claimed", "started", "step"} =>
               \A i \in 1..Len(Steps(r)) : i < n => Steps(r)[i] # "wecom_submit_review",
           l = "ended" => k = 0
    PROVE  HybridInv'
<1>0. PICK t \in Tasks : t = job[r]
  BY InHand
<1>1. /\ t \in Tasks
      /\ \A q \in Robots \ {r} : at[q] \in Working => job[q] # t
      /\ status[t] \in {"checking_login", "running"}
      /\ robotRow[r] = "busy"
  BY <1>0, InHand
<1>2. UNCHANGED <<catalogVars, status, assigned, check, attempts, born, robotRow>>
  BY DEF taskRow
<1>3. HybridTypeOK'
  <2>1. StoreTypeOK' /\ CatalogTypeOK'
    <3>1. StoreTypeOK'
      BY <1>2 DEF HybridInv, HybridTypeOK, StoreTypeOK
    <3> QED
      BY <3>1 DEF HybridInv, HybridTypeOK, CatalogTypeOK, catalogVars, catalogRows, versionRows
  <2>2. at \in [Robots -> Working \cup {"idle", "free"}] /\ job \in [Robots -> Tasks \cup {NoTask}]
        /\ (\A q \in Robots : job[q] = NoTask <=> at[q] = "idle")
        /\ next \in [Robots -> Nat \ {0}] /\ reviews \in [Tasks -> Nat]
    BY DEF HybridInv, HybridTypeOK
  <2>3. "idle" \notin Working
    BY DEF Working, StatusAfter
  <2>4. Working' = Working
    BY DEF Working, StatusAfter
  <2> HIDE DEF Working
  <2>5. at' \in [Robots -> Working \cup {"idle", "free"}] /\ next' \in [Robots -> Nat \ {0}]
    BY <2>2
  <2>6. reviews' \in [Tasks -> Nat]
    BY <1>1, <2>2
  <2>7. \A q \in Robots : job'[q] = NoTask <=> at'[q] = "idle"
    BY <1>1, <2>2, <2>3
  <2> QED
    BY <2>1, <2>2, <2>4, <2>5, <2>6, <2>7 DEF HybridTypeOK
<1>4. at'[r] = l /\ next'[r] = n /\ reviews'[t] = k /\ job'[r] = t
  BY <1>0, <1>1 DEF HybridInv, HybridTypeOK
<1>5. snapshot' = snapshot /\ script' = script
  BY <1>2 DEF catalogVars, catalogRows, versionRows
<1>6. ReviewsFit(t)'
  BY <1>0, <1>1, <1>2, <1>4, <1>5 DEF ReviewsFit, Submits
<1>7. WorkFits(r)'
  BY <1>0, <1>1, <1>2, <1>4, <1>5 DEF WorkFits, Steps
<1>8. \A q \in Robots \ {r} :
         at'[q] = at[q] /\ job'[q] = job[q] /\ next'[q] = next[q] /\ robotRow'[q] = robotRow[q]
  BY <1>2 DEF HybridInv, HybridTypeOK
<1>9. \A u \in Tasks \ {t} :
         status'[u] = status[u] /\ attempts'[u] = attempts[u] /\ reviews'[u] = reviews[u]
  BY <1>0, <1>2 DEF HybridInv, HybridTypeOK
<1>10. status[t] # "absent" /\ status'[t] # "absent" /\ status'[t] \in Reached
  BY <1>1, <1>2 DEF Reached
<1> QED
  BY <1>1, <1>2, <1>3, <1>4, <1>6, <1>7, <1>8, <1>9, <1>10, StepOfWorker

\* A step that writes the status of the task in hand.
LEMMA SetAndMove ==
    ASSUME HybridInv, NEW r \in Robots, at[r] \in Working,
           NEW s \in Reached \ {"absent", "pending"}, NEW c \in {"none", "later"},
           NEW a \in Robots \cup {NoRobot}, SetTaskStatus(job[r], s, c, a),
           NEW l \in (Working \cup {"free"}) \ {"approved", "online", "review", "ended"},
           at' = [at EXCEPT ![r] = l],
           UNCHANGED <<catalogVars, job, next, effects>>,
           s = "success" => reviews[job[r]] = 0,
           l # "free" => at[r] # "review" /\ s \in {"checking_login", "running"},
           l \in {"claimed", "started", "step"} => at[r] \in {"claimed", "started", "step"}
    PROVE  HybridInv'
<1>0. PICK t \in Tasks : t = job[r]
  BY InHand
<1>1. /\ \A q \in Robots \ {r} : at[q] \in Working => job[q] # t
      /\ status[t] \in {"checking_login", "running"}
      /\ robotRow[r] = "busy"
  BY <1>0, InHand
<1>2. /\ status' = [status EXCEPT ![t] = s]
      /\ check' = [check EXCEPT ![t] = c]
      /\ assigned' = [assigned EXCEPT ![t] = a]
      /\ UNCHANGED <<attempts, born, orderId, openActions, robotRow, reviews, context>>
  BY <1>0 DEF SetTaskStatus, effects
<1>3. HybridTypeOK'
  <2>1. s \in Status
    BY DEF Reached, Status
  <2>2. StoreTypeOK'
    BY <1>2, <2>1 DEF HybridInv, HybridTypeOK, StoreTypeOK
  <2>3. CatalogTypeOK'
    BY DEF HybridInv, HybridTypeOK, CatalogTypeOK, catalogVars, catalogRows, versionRows
  <2>4. "idle" \notin Working
    BY DEF Working, StatusAfter
  <2>5. Working' = Working
    BY DEF Working, StatusAfter
  <2>6. job[r] # NoTask
    BY <1>0, HybridAssumption
  <2> HIDE DEF Working
  <2>7. at' \in [Robots -> Working \cup {"idle", "free"}]
    BY DEF HybridInv, HybridTypeOK
  <2>8. \A q \in Robots : job'[q] = NoTask <=> at'[q] = "idle"
    BY <2>4, <2>6 DEF HybridInv, HybridTypeOK
  <2> QED
    BY <1>2, <2>2, <2>3, <2>5, <2>7, <2>8 DEF HybridInv, HybridTypeOK
<1>4. at'[r] = l /\ next'[r] = next[r] /\ job'[r] = t /\ status'[t] = s
  BY <1>0, <1>2 DEF HybridInv, HybridTypeOK, StoreTypeOK
<1>5. snapshot' = snapshot /\ script' = script
  BY DEF catalogVars, catalogRows, versionRows
<1>6. ReviewsFit(t)'
  BY <1>0, <1>2, <1>4, <1>5 DEF HybridInv, ReviewsFit, Submits
<1>7. WorkFits(r)'
  <2>1. WorkFits(r)
    BY DEF HybridInv
  <2>2. reviews'[t] = reviews[t] /\ attempts'[t] = attempts[t]
    BY <1>2
  <2>3. Working' = Working /\ "free" \notin Working
    BY DEF Working, StatusAfter
  <2> HIDE DEF Working
  <2>4. at'[r] \in Working => status'[job'[r]] \in {"checking_login", "running"}
    BY <1>4, <2>3
  <2>5. at'[r] \in Working \ {"review"} => reviews'[job'[r]] <= attempts'[job'[r]]
    BY <1>0, <1>4, <2>1, <2>2, <2>3 DEF WorkFits
  <2> QED
    BY <1>0, <1>1, <1>2, <1>4, <1>5, <2>1, <2>3, <2>4, <2>5 DEF WorkFits, Steps
<1>8. \A q \in Robots \ {r} :
         at'[q] = at[q] /\ job'[q] = job[q] /\ next'[q] = next[q] /\ robotRow'[q] = robotRow[q]
  BY <1>2 DEF HybridInv, HybridTypeOK
<1>9. \A u \in Tasks \ {t} :
         status'[u] = status[u] /\ attempts'[u] = attempts[u] /\ reviews'[u] = reviews[u]
  BY <1>2 DEF HybridInv, HybridTypeOK, StoreTypeOK
<1>10. status[t] # "absent" /\ status'[t] # "absent" /\ status'[t] \in Reached
  BY <1>1, <1>4
<1> QED
  BY <1>1, <1>3, <1>4, <1>6, <1>7, <1>8, <1>9, <1>10, StepOfWorker

\* A step that lets go of the task: the worker is idle, its robot's row is not
\* looked at any more.
LEMMA LetGo ==
    ASSUME HybridInv, NEW r \in Robots, at[r] # "idle",
           at' = [at EXCEPT ![r] = "idle"], job' = [job EXCEPT ![r] = NoTask],
           UNCHANGED <<catalogVars, taskRow, orderId, openActions, next, context>>,
           robotRow' \in [Robots -> {"idle", "busy"}],
           \A q \in Robots \ {r} : robotRow'[q] = robotRow[q],
           NEW k \in Nat, reviews' = [reviews EXCEPT ![job[r]] = k],
           k <= attempts[job[r]] + 1,
           k # reviews[job[r]] => at[r] \in Working,
           k > 0 => Submits(job[r])
    PROVE  HybridInv'
<1>0. PICK t \in Tasks : t = job[r]
  BY DEF HybridInv, HybridTypeOK
<1>1. UNCHANGED <<status, attempts, check, assigned, born>>
  BY DEF taskRow
<1>2. at'[r] = "idle" /\ reviews'[t] = k /\ "idle" \notin Working /\ Working' = Working
  BY <1>0 DEF HybridInv, HybridTypeOK, Working, StatusAfter
<1>3. at[r] \in Working =>
         /\ \A q \in Robots \ {r} : at[q] \in Working => job[q] # t
         /\ status[t] \in {"checking_login", "running"}
  BY <1>0, InHand
<1>4. k = reviews[t] => status'[t] = status[t] /\ attempts'[t] = attempts[t] /\ reviews'[t] = reviews[t]
  BY <1>1, <1>2
<1>5. HybridTypeOK'
  <2>1. StoreTypeOK'
    BY <1>1 DEF HybridInv, HybridTypeOK, StoreTypeOK
  <2>2. CatalogTypeOK'
    BY DEF HybridInv, HybridTypeOK, CatalogTypeOK, catalogVars, catalogRows, versionRows
  <2>3. reviews' \in [Tasks -> Nat]
    BY <1>0 DEF HybridInv, HybridTypeOK
  <2> HIDE DEF Working
  <2>4. at' \in [Robots -> Working \cup {"idle", "free"}] /\ job' \in [Robots -> Tasks \cup {NoTask}]
    BY DEF HybridInv, HybridTypeOK
  <2>5. \A q \in Robots : job'[q] = NoTask <=> at'[q] = "idle"
    BY DEF HybridInv, HybridTypeOK
  <2> QED
    BY <1>2, <2>1, <2>2, <2>3, <2>4, <2>5 DEF HybridInv, HybridTypeOK
<1>6. snapshot' = snapshot /\ script' = script
  BY DEF catalogVars, catalogRows, versionRows
<1>7. status[t] \in Reached /\ ReviewsFit(t)
  BY DEF HybridInv
<1>8. ReviewsFit(t)'
  BY <1>0, <1>1, <1>2, <1>3, <1>6, <1>7 DEF ReviewsFit, Submits
<1>9. WorkFits(r)'
  BY <1>2 DEF WorkFits
<1>10. \A q \in Robots \ {r} :
          at'[q] = at[q] /\ job'[q] = job[q] /\ next'[q] = next[q] /\ robotRow'[q] = robotRow[q]
  BY DEF HybridInv, HybridTypeOK
<1>11. \A u \in Tasks \ {t} :
          status'[u] = status[u] /\ attempts'[u] = attempts[u] /\ reviews'[u] = reviews[u]
  BY <1>0, <1>1 DEF HybridInv, HybridTypeOK
<1>12. \/ \A q \in Robots \ {r} : at[q] \in Working => job[q] # t
       \/ /\ status'[t] = status[t] /\ attempts'[t] = attempts[t] /\ reviews'[t] = reviews[t]
          /\ at'[r] \notin Working
  BY <1>0, <1>2, <1>3, <1>4
<1> QED
  BY <1>1, <1>2, <1>5, <1>7, <1>8, <1>9, <1>10, <1>11, <1>12, StepOfWorker

\* The steps of a task are a sequence of actions.
LEMMA ScriptCounted ==
    ASSUME HybridInv, NEW t \in Tasks, Exists(t)
    PROVE  script[snapshot[t]] \in Seq(Actions) /\ Len(script[snapshot[t]]) \in Nat
<1>1. snapshot[t] \in Versions
  BY DEF HybridInv, CatalogInv, SnapshotReleased, VersionsOf
<1>2. script[snapshot[t]] \in Scripts \cup {NoScript}
  BY <1>1 DEF HybridInv, CatalogInv, CatalogTypeOK
<1>3. NoScript \in Seq(Actions)
  BY DEF NoScript
<1>4. script[snapshot[t]] \in Seq(Actions)
  BY <1>2, <1>3, HybridAssumption
<1> QED
  BY <1>4

\* So are those a worker goes through.
LEMMA StepsCounted ==
    ASSUME HybridInv, NEW r \in Robots, at[r] \in Working
    PROVE  Steps(r) \in Seq(Actions) /\ Len(Steps(r)) \in Nat
BY InHand, ScriptCounted DEF Steps, Exists

\* Every step of a worker that has a task keeps the invariant.
LEMMA WorkStepInv ==
    ASSUME HybridInv, NEW r \in Robots, WorkStep(r)
    PROVE  HybridInv'
<1>0. at[r] \in Working => WorkFits(r) /\ job[r] \in Tasks
  BY InHand DEF HybridInv
<1> DEFINE Typed ==
      /\ at \in [Robots -> Working \cup {"idle", "free"}]
      /\ next \in [Robots -> Nat \ {0}]
      /\ reviews \in [Tasks -> Nat]
      /\ context \in [Tasks -> SUBSET {"corp", "token"}]
      /\ openActions \in [Tasks -> BOOLEAN]
<1>t. Typed
  BY DEF HybridInv, HybridTypeOK, StoreTypeOK
<1> DEFINE Same == UNCHANGED <<catalogVars, taskRow, orderId, openActions, robotRow, job>>
<1>u. UNCHANGED platformVars /\ UNCHANGED job => Same
  BY DEF platformVars, storeVars
<1>s. {"claimed", "started", "step", "stub", "pause", "login", "manual", "review", "ended"}
         \subseteq Working \ {"approved", "online"}
      /\ {"idle", "free"} \cap Working = {}
  BY DEF Working, StatusAfter
<1>v. at[r] \in {"claimed", "started", "step", "pause"} =>
         /\ at[r] \in Working
         /\ WorkFits(r)
         /\ reviews[job[r]] \in Nat /\ attempts[job[r]] \in Nat
         /\ reviews[job[r]] <= attempts[job[r]] /\ reviews[job[r]] <= attempts[job[r]] + 1
         /\ reviews[job[r]] > 0 => Submits(job[r])
  <2>1. ASSUME at[r] \in Working \ {"review"} PROVE reviews[job[r]] <= attempts[job[r]]
    BY <1>0, <2>1 DEF WorkFits
  <2> QED
    BY <1>0, <1>s, <2>1, InHand
<1>w. at[r] = "step" =>
         \A i \in 1..Len(Steps(r)) : i < next[r] => Steps(r)[i] # "wecom_submit_review"
  BY <1>v DEF WorkFits
<1>x. next[r] \in Nat \ {0}
  BY <1>t
<1>1. ASSUME ReadStatus(r) PROVE HybridInv'
  <2>1. at[r] = "claimed" /\ UNCHANGED <<platformVars, effects>>
    BY <1>1 DEF ReadStatus
  <2>2. status[job[r]] \in {"checking_login", "running"}
    BY <2>1, <1>s, InHand
  <2>3. Move(r, "started")
    BY <1>1, <2>2 DEF ReadStatus
  <2>4. /\ at' = [at EXCEPT ![r] = "started"] /\ UNCHANGED job
        /\ next' = [next EXCEPT ![r] = next[r]]
        /\ reviews' = [reviews EXCEPT ![job[r]] = reviews[job[r]]]
        /\ context' = context
    BY <2>1, <2>3, <1>t DEF Move, effects
  <2>5. Same
    BY <2>1, <2>4, <1>u
  <2>6. \A i \in 1..Len(Steps(r)) : i < next[r] => Steps(r)[i] # "wecom_submit_review"
    BY <1>v, <2>1 DEF WorkFits
  <2>7. UNCHANGED <<catalogVars, taskRow, orderId, robotRow, job>>
    BY <2>5
  <2>8. openActions' \in [Tasks -> BOOLEAN] /\ context' \in [Tasks -> SUBSET {"corp", "token"}]
    BY <1>t, <2>4, <2>5
  <2> QED
    BY ZenonT(40), <1>s, <1>v, <1>x, <2>1, <2>4, <2>6, <2>7, <2>8, MoveOn
<1>2. ASSUME StartSteps(r) PROVE HybridInv'
  <2>1. /\ at[r] = "started" /\ SetTaskStatus(job[r], "running", "none", r)
        /\ at' = [at EXCEPT ![r] = "step"]
        /\ UNCHANGED <<catalogVars, job, next, effects>>
    BY <1>2 DEF StartSteps, Move
  <2>2. "running" \in Reached \ {"absent", "pending"}
    BY DEF Reached
  <2> QED
    BY <1>s, <2>1, <2>2, SetAndMove
<1>3. ASSUME at[r] = "step", next[r] \in 1..Len(Steps(r)),
             Steps(r)[next[r]] # "wecom_submit_review",
             Proceed(r), UNCHANGED <<platformVars, at, job, reviews>>,
             context' \in [Tasks -> SUBSET {"corp", "token"}]
      PROVE  HybridInv'
  <2>1. /\ at' = [at EXCEPT ![r] = "step"]
        /\ next' = [next EXCEPT ![r] = next[r] + 1]
        /\ reviews' = [reviews EXCEPT ![job[r]] = reviews[job[r]]]
        /\ openActions' = openActions
    BY <1>3, <1>t DEF Proceed, platformVars, storeVars
  <2>2. Same
    BY <1>3, <1>u
  <2>3. \A i \in 1..Len(Steps(r)) : i < next[r] + 1 => Steps(r)[i] # "wecom_submit_review"
    BY <1>3, <1>w, <1>x
  <2>4. next[r] + 1 \in Nat \ {0}
    BY <1>t
  <2>5. UNCHANGED <<catalogVars, taskRow, orderId, robotRow, job>>
    BY <2>2
  <2>6. openActions' \in [Tasks -> BOOLEAN]
    BY <1>t, <2>2
  <2> QED
    BY ZenonT(40), <1>3, <1>s, <1>v, <2>1, <2>3, <2>4, <2>5, <2>6, MoveOn
<1>4. ASSUME ResolveCorp(r) \/ PassStep(r) \/ ConfigureApp(r) PROVE HybridInv'
  <2>1. next[r] \in Nat \ {0}
    BY <1>t
  <2>2. /\ at[r] = "step" /\ next[r] <= Len(Steps(r))
        /\ Steps(r)[next[r]] # "wecom_submit_review"
    BY <1>4 DEF ResolveCorp, PassStep, ConfigureApp, Doing, LaterActions
  <2>3. /\ Proceed(r) /\ UNCHANGED <<platformVars, at, job, reviews>>
    BY <1>4 DEF ResolveCorp, PassStep, ConfigureApp, effects
  <2>4. context' \in [Tasks -> SUBSET {"corp", "token"}]
    BY <1>4, <1>t DEF ResolveCorp, PassStep, ConfigureApp, effects
  <2>5. next[r] \in 1..Len(Steps(r))
    BY <1>s, <2>1, <2>2, StepsCounted
  <2> QED
    BY <1>3, <2>2, <2>3, <2>4, <2>5
<1>5. ASSUME BrowserPauses(r) PROVE HybridInv'
  <2>1. at[r] = "step" /\ UNCHANGED <<platformVars, effects>> /\ Move(r, "pause")
    BY <1>5 DEF BrowserPauses, Doing
  <2>2. /\ at' = [at EXCEPT ![r] = "pause"] /\ UNCHANGED job
        /\ next' = [next EXCEPT ![r] = next[r]]
        /\ reviews' = [reviews EXCEPT ![job[r]] = reviews[job[r]]]
        /\ context' = context
    BY <2>1, <1>t DEF Move, effects
  <2>3. Same
    BY <2>1, <2>2, <1>u
  <2>4. UNCHANGED <<catalogVars, taskRow, orderId, robotRow, job>>
    BY <2>3
  <2>5. openActions' \in [Tasks -> BOOLEAN] /\ context' \in [Tasks -> SUBSET {"corp", "token"}]
    BY <1>t, <2>2, <2>3
  <2> QED
    BY ZenonT(40), <1>s, <1>v, <1>x, <2>1, <2>2, <2>4, <2>5, MoveOn
<1>6. ASSUME Doing(r, "wecom_submit_review") PROVE Submits(job[r])
  BY <1>6, <1>s, <1>t, StepsCounted DEF Doing, Submits, Steps
<1>7. ASSUME SubmitReview(r) PROVE HybridInv'
  <2>1. Doing(r, "wecom_submit_review") /\ at[r] = "step" /\ Move(r, "review")
        /\ UNCHANGED <<platformVars, context>>
    BY <1>7 DEF SubmitReview, Doing
  <2>2. PICK submitted \in {0, 1} : reviews' = [reviews EXCEPT ![job[r]] = @ + submitted]
    BY <1>7 DEF SubmitReview
  <2>3. /\ at' = [at EXCEPT ![r] = "review"] /\ UNCHANGED job
        /\ next' = [next EXCEPT ![r] = next[r]]
        /\ reviews' = [reviews EXCEPT ![job[r]] = reviews[job[r]] + submitted]
    BY <2>1, <2>2, <1>t DEF Move
  <2>4. Same
    BY <2>1, <2>3, <1>u
  <2>6. reviews[job[r]] + submitted \in Nat
        /\ reviews[job[r]] + submitted <= attempts[job[r]] + 1
    BY <1>v, <2>1
  <2>7. Submits(job[r])
    BY <1>6, <2>1
  <2>8. UNCHANGED <<catalogVars, taskRow, orderId, robotRow, job>>
    BY <2>4
  <2>9. openActions' \in [Tasks -> BOOLEAN] /\ context' \in [Tasks -> SUBSET {"corp", "token"}]
    BY <1>t, <2>1, <2>4
  <2> QED
    BY ZenonT(40), <1>s, <1>t, <1>v, <1>x, <2>1, <2>3, <2>4, <2>6, <2>7, <2>8, <2>9, MoveOn
<1>8. ASSUME StepsEnd(r) PROVE HybridInv'
  <2>1. at[r] = "step" /\ next[r] > Len(Steps(r)) /\ Move(r, "ended")
        /\ UNCHANGED <<platformVars, effects>>
    BY <1>8 DEF StepsEnd
  <2>2. /\ at' = [at EXCEPT ![r] = "ended"] /\ UNCHANGED job
        /\ next' = [next EXCEPT ![r] = next[r]]
        /\ reviews' = [reviews EXCEPT ![job[r]] = reviews[job[r]]]
        /\ context' = context
    BY <2>1, <1>t DEF Move, effects
  <2>3. Same
    BY <2>1, <2>2, <1>u
  <2>4. ~Submits(job[r])
    <3>1. Len(Steps(r)) \in Nat
      BY <1>v, <2>1, StepsCounted
    <3>2. \A i \in 1..Len(Steps(r)) : Steps(r)[i] # "wecom_submit_review"
      BY <1>w, <1>x, <2>1, <3>1
    <3> QED
      BY <3>2 DEF Submits, Steps
  <2>5. reviews[job[r]] = 0
    BY <1>v, <2>1, <2>4
  <2>6. UNCHANGED <<catalogVars, taskRow, orderId, robotRow, job>>
    BY <2>3
  <2>7. openActions' \in [Tasks -> BOOLEAN] /\ context' \in [Tasks -> SUBSET {"corp", "token"}]
    BY <1>t, <2>2, <2>3
  <2>8. PICK k \in Nat : k = 0 /\ reviews' = [reviews EXCEPT ![job[r]] = k]
    BY <1>v, <2>1, <2>2, <2>5
  <2>9. /\ k <= attempts[job[r]] /\ k <= attempts[job[r]] + 1 /\ ~(k > 0)
        /\ at[r] \in Working
    BY <1>v, <2>1, <2>8
  <2>10. /\ "ended" \in Working \ {"approved", "online"}
         /\ "ended" \notin {"claimed", "started", "step"}
    BY <1>s
  <2>11. /\ at' = [at EXCEPT ![r] = "ended"]
         /\ next' = [next EXCEPT ![r] = next[r]]
    BY <2>2
  <2> QED
    BY ZenonT(40), <1>x, <2>6, <2>7, <2>8, <2>9, <2>10, <2>11, MoveOn
<1>9. ASSUME StepRaises(r) PROVE HybridInv'
  <2>1. /\ at[r] = "step" /\ at' = [at EXCEPT ![r] = "idle"]
        /\ job' = [job EXCEPT ![r] = NoTask]
        /\ UNCHANGED <<platformVars, next, context>>
    BY <1>9 DEF StepRaises
  <2>2. reviews[job[r]] \in Nat /\ attempts[job[r]] \in Nat /\ reviews[job[r]] <= attempts[job[r]]
    BY <1>v, <2>1
  <2>3. PICK k \in Nat :
            /\ reviews' = [reviews EXCEPT ![job[r]] = k]
            /\ k = reviews[job[r]] \/ (k = reviews[job[r]] + 1 /\ Submits(job[r]))
    <3>1. CASE UNCHANGED reviews
      BY <3>1, <2>2, <1>t
    <3>2. CASE Doing(r, "wecom_submit_review") /\ reviews' = [reviews EXCEPT ![job[r]] = @ + 1]
      <4>1. reviews' = [reviews EXCEPT ![job[r]] = reviews[job[r]] + 1]
        BY <3>2
      <4>2. reviews[job[r]] + 1 \in Nat /\ Submits(job[r])
        BY <1>6, <2>2, <3>2
      <4> QED
        BY <4>1, <4>2
    <3> QED
      BY <1>9, <3>1, <3>2 DEF StepRaises
  <2>4. k <= attempts[job[r]] + 1 /\ (k > 0 => Submits(job[r]))
    BY <1>s, <2>1, <2>2, <2>3, InHand
  <2>5. /\ UNCHANGED <<catalogVars, taskRow, orderId, openActions, robotRow>>
        /\ robotRow \in [Robots -> {"idle", "busy"}]
    BY <2>1 DEF platformVars, storeVars, HybridInv, HybridTypeOK, StoreTypeOK
  <2> QED
    BY <1>s, <2>1, <2>3, <2>4, <2>5, LetGo
<1>10. ASSUME InsertPause(r) PROVE HybridInv'
  <2>1. /\ at[r] = "pause" /\ InsertAction(job[r])
        /\ UNCHANGED <<catalogVars, effects>>
    BY <1>10 DEF InsertPause
  <2>2. PICK l \in {"login", "manual"} : Move(r, l)
    BY <1>10 DEF InsertPause
  <2>3. /\ at' = [at EXCEPT ![r] = l] /\ UNCHANGED job
        /\ next' = [next EXCEPT ![r] = next[r]]
        /\ reviews' = [reviews EXCEPT ![job[r]] = reviews[job[r]]]
        /\ context' = context
    BY <2>1, <2>2, <1>t DEF Move, effects
  <2>4. UNCHANGED <<catalogVars, taskRow, orderId, robotRow, job>>
    BY <2>1, <2>3 DEF InsertAction
  <2>5. openActions' \in [Tasks -> BOOLEAN]
    BY <2>1, <1>t DEF InsertAction
  <2>6. l \in Working \ {"approved", "online"}
    BY <1>s
  <2>7. context' \in [Tasks -> SUBSET {"corp", "token"}]
    BY <1>t, <2>3
  <2> QED
    BY ZenonT(40), <1>v, <1>x, <2>1, <2>3, <2>4, <2>5, <2>6, <2>7, MoveOn
<1>11. ASSUME LeaveTask(r) PROVE HybridInv'
  <2>1. /\ at[r] \in DOMAIN StatusAfter
        /\ SetTaskStatus(job[r], StatusAfter[at[r]], CheckAfter(at[r]), NoRobot)
        /\ at' = [at EXCEPT ![r] = "free"]
        /\ UNCHANGED <<catalogVars, job, next, effects>>
    BY <1>11 DEF LeaveTask, Move
  <2>2. at[r] \in Working
    BY <2>1 DEF Working
  <2>3. at[r] \in {"login", "manual", "review", "ended"}
    BY <1>0, <2>1, <2>2 DEF WorkFits, StatusAfter
  <2>4. StatusAfter[at[r]] \in Reached \ {"absent", "pending"}
        /\ (StatusAfter[at[r]] = "success" => at[r] = "ended")
    BY <2>3 DEF StatusAfter, Reached
  <2>5. CheckAfter(at[r]) \in {"none", "later"}
    BY DEF CheckAfter
  <2>6. at[r] = "ended" => reviews[job[r]] = 0
    BY <1>0, <2>2 DEF WorkFits
  <2> QED
    BY <1>s, <2>1, <2>2, <2>4, <2>5, <2>6, SetAndMove
<1>12. ASSUME FreeRobot(r) PROVE HybridInv'
  <2>1. /\ at[r] = "free" /\ at' = [at EXCEPT ![r] = "idle"]
        /\ job' = [job EXCEPT ![r] = NoTask]
        /\ robotRow' = [robotRow EXCEPT ![r] = "idle"]
        /\ UNCHANGED <<catalogVars, taskRow, orderId, openActions, next, context, reviews>>
    BY <1>12 DEF FreeRobot, SetRobot, effects
  <2>2. job[r] \in Tasks
    BY <2>1 DEF HybridInv, HybridTypeOK
  <2>3. /\ reviews' = [reviews EXCEPT ![job[r]] = reviews[job[r]]]
        /\ reviews[job[r]] \in Nat
        /\ reviews[job[r]] <= attempts[job[r]] + 1
        /\ reviews[job[r]] > 0 => Submits(job[r])
    BY <1>t, <2>1, <2>2 DEF HybridInv, ReviewsFit
  <2>4. /\ robotRow' \in [Robots -> {"idle", "busy"}]
        /\ \A q \in Robots \ {r} : robotRow'[q] = robotRow[q]
    BY <2>1 DEF HybridInv, HybridTypeOK, StoreTypeOK
  <2> QED
    BY <2>1, <2>3, <2>4, LetGo
<1>13. ASSUME ProbeLogins(r) \/ RunStub(r) PROVE HybridInv'
  <2>1. at[r] \in {"claimed", "stub"} /\ UNCHANGED <<catalogVars, effects>>
    BY <1>13 DEF ProbeLogins, RunStub
  <2>2. PICK s \in {"waiting_login", "running"}, a \in Robots \cup {NoRobot},
             l \in {"free", "stub"} :
            /\ SetTaskStatus(job[r], s, "none", a)
            /\ Move(r, l)
            /\ l # "free" => s = "running"
    BY <1>13 DEF ProbeLogins, RunStub
  <2>3. at' = [at EXCEPT ![r] = l] /\ UNCHANGED <<job, next>>
    BY <2>2 DEF Move
  <2>4. s \in Reached \ {"absent", "pending"} /\ s # "success"
    BY DEF Reached
  <2>5. l \in (Working \cup {"free"}) \ {"approved", "online", "review", "ended"}
        /\ l \notin {"claimed", "started", "step"} /\ at[r] # "review" /\ at[r] \in Working
    BY <1>s, <2>1
  <2> QED
    BY <2>1, <2>2, <2>3, <2>4, <2>5, SetAndMove
<1> QED
  BY <1>1, <1>2, <1>4, <1>5, <1>7, <1>8, <1>9, <1>10, <1>11, <1>12, <1>13 DEF WorkStep

\* A claim of the scheduler keeps the invariant.
LEMMA ClaimInv ==
    ASSUME HybridInv, NEW r \in Robots, NEW t \in Tasks, ClaimTask(r, t)
    PROVE  HybridInv'
<1>1. /\ at[r] = "idle" /\ robotRow[r] = "idle" /\ Claimable(t)
      /\ at' = [at EXCEPT ![r] = "claimed"]
      /\ job' = [job EXCEPT ![r] = t]
      /\ next' = [next EXCEPT ![r] = 1]
      /\ status' = [status EXCEPT ![t] = "checking_login"]
      /\ assigned' = [assigned EXCEPT ![t] = r]
      /\ robotRow' = [robotRow EXCEPT ![r] = "busy"]
      /\ UNCHANGED <<check, born, orderId, openActions, catalogVars, reviews, context>>
  BY DEF ClaimTask, ClaimNext, effects
<1>2. IF status[t] \in {"waiting_wecom_review", "waiting_wecom_online_delay"}
      THEN attempts' = [attempts EXCEPT ![t] = @ + 1]
      ELSE UNCHANGED attempts
  BY DEF ClaimTask, ClaimNext
<1>t. /\ at \in [Robots -> Working \cup {"idle", "free"}]
      /\ job \in [Robots -> Tasks \cup {NoTask}]
      /\ next \in [Robots -> Nat \ {0}]
      /\ robotRow \in [Robots -> {"idle", "busy"}]
      /\ status \in [Tasks -> Status \cup {"absent"}]
      /\ attempts \in [Tasks -> Nat]
      /\ reviews \in [Tasks -> Nat]
  BY DEF HybridInv, HybridTypeOK, StoreTypeOK
<1>3. status[t] \in {"pending", "waiting_wecom_review"}
  BY <1>1 DEF Claimable, HybridInv, Reached
<1>4. /\ reviews[t] <= attempts'[t]
      /\ attempts' \in [Tasks -> Nat]
      /\ \A u \in Tasks \ {t} : attempts'[u] = attempts[u]
  <2>1. ReviewsFit(t)
    BY DEF HybridInv
  <2>2. CASE status[t] = "pending"
    BY <1>2, <1>t, <2>1, <2>2 DEF ReviewsFit
  <2>3. CASE status[t] = "waiting_wecom_review"
    <3>1. attempts' = [attempts EXCEPT ![t] = attempts[t] + 1]
      BY <1>2, <2>3
    <3> QED
      BY <3>1, <1>t, <2>1 DEF ReviewsFit
  <2> QED
    BY <1>3, <2>2, <2>3
<1>5. "claimed" \in Working /\ "idle" \notin Working /\ Working' = Working
  BY DEF Working, StatusAfter
<1>6. HybridTypeOK'
  <2>1. "checking_login" \in Status
    BY DEF Status
  <2>2. StoreTypeOK'
    BY <1>1, <1>4, <2>1 DEF HybridInv, HybridTypeOK, StoreTypeOK
  <2>3. CatalogTypeOK'
    BY <1>1 DEF HybridInv, HybridTypeOK, CatalogTypeOK, catalogVars, catalogRows, versionRows
  <2>4. t # NoTask
    BY HybridAssumption
  <2> HIDE DEF Working
  <2>5. at' \in [Robots -> Working \cup {"idle", "free"}] /\ job' \in [Robots -> Tasks \cup {NoTask}]
    BY <1>1, <1>5, <1>t
  <2>6. \A q \in Robots : job'[q] = NoTask <=> at'[q] = "idle"
    BY <1>1, <1>t, <2>4 DEF HybridInv, HybridTypeOK
  <2> QED
    BY <1>1, <1>5, <1>t, <2>2, <2>3, <2>5, <2>6 DEF HybridInv, HybridTypeOK
<1>7. \A q \in Robots \ {r} : at[q] \in Working => job[q] # t
  <2>1. \A q \in Robots : WorkFits(q)
    BY DEF HybridInv
  <2> HIDE DEF Working
  <2> QED
    BY <1>3, <2>1 DEF WorkFits
<1>8. /\ at'[r] = "claimed" /\ job'[r] = t /\ next'[r] = 1 /\ robotRow'[r] = "busy"
      /\ status'[t] = "checking_login" /\ reviews' = reviews
  BY <1>1, <1>t
<1>9. snapshot' = snapshot /\ script' = script
  BY <1>1 DEF catalogVars, catalogRows, versionRows
<1>10. ReviewsFit(t)'
  <2>1. ReviewsFit(t) /\ attempts'[t] \in Nat /\ reviews[t] \in Nat
    BY <1>4, <1>t DEF HybridInv
  <2> QED
    BY <1>4, <1>8, <1>9, <2>1 DEF ReviewsFit, Submits
<1>11. WorkFits(r)'
  <2> HIDE DEF Working
  <2> QED
    BY <1>4, <1>8 DEF WorkFits
<1>12. \A q \in Robots \ {r} :
          at'[q] = at[q] /\ job'[q] = job[q] /\ next'[q] = next[q] /\ robotRow'[q] = robotRow[q]
  BY <1>1, <1>t
<1>13. \A u \in Tasks \ {t} :
          status'[u] = status[u] /\ attempts'[u] = attempts[u] /\ reviews'[u] = reviews[u]
  BY <1>1, <1>4, <1>8, <1>t
<1>14. (status'[t] = "absent" <=> status[t] = "absent") /\ status'[t] \in Reached
       /\ UNCHANGED catalogVars
  BY <1>1, <1>3, <1>8 DEF Reached
<1> QED
  BY <1>6, <1>7, <1>8, <1>10, <1>11, <1>12, <1>13, <1>14, StepOfWorker

\* The clock keeps the invariant.
LEMMA ClockInv ==
    ASSUME HybridInv, NEW t \in Tasks, ReviewComesDue(t)
    PROVE  HybridInv'
<1>1. /\ check' = [check EXCEPT ![t] = "due"]
      /\ UNCHANGED <<status, assigned, attempts, born, orderId, openActions, robotRow,
                     catalogVars, call, effects>>
  BY DEF ReviewComesDue, CheckComesDue
<1>2. CatalogInv'
  BY <1>1, CatalogFrame DEF HybridInv, Exists
<1>3. snapshot' = snapshot /\ script' = script
  BY <1>1 DEF catalogVars, catalogRows, versionRows
<1>4. Working' = Working
  BY DEF Working, StatusAfter
<1>5. HybridTypeOK'
  <2>1. StoreTypeOK'
    BY <1>1 DEF HybridInv, HybridTypeOK, StoreTypeOK
  <2> HIDE DEF Working
  <2> QED
    BY <1>1, <1>2, <1>4, <2>1 DEF HybridInv, HybridTypeOK, CatalogInv, call, effects
<1>6. Alone' /\ \A u \in Tasks : status'[u] \in Reached /\ ReviewsFit(u)'
  BY <1>1, <1>3, <1>4 DEF HybridInv, Alone, ReviewsFit, Submits, call, effects
<1>7. \A r \in Robots : WorkFits(r)'
  BY <1>1, <1>3, <1>4 DEF HybridInv, WorkFits, Steps, call, effects
<1> QED
  BY <1>2, <1>5, <1>6, <1>7 DEF HybridInv

\* The routes keep the invariant.
LEMMA EditInv ==
    ASSUME HybridInv, EditFlows
    PROVE  HybridInv'
<1>1. CatalogStep /\ UNCHANGED <<at, job, next, context, reviews>>
  BY DEF EditFlows, call, effects
<1>2. /\ CatalogInv' /\ StoreTypeOK'
      /\ UNCHANGED <<attempts, robotRow>>
      /\ \A t \in Tasks : Exists(t) =>
            /\ status'[t] = status[t]
            /\ snapshot'[t] = snapshot[t]
            /\ script'[snapshot[t]] = script[snapshot[t]]
      /\ \A t \in Tasks : ~Exists(t) => status'[t] \in {"absent", "pending"}
  BY <1>1, CatalogStepInv DEF HybridInv, HybridTypeOK
<1>3. Working' = Working
  BY DEF Working, StatusAfter
<1>4. HybridTypeOK' /\ Alone'
  BY <1>1, <1>2, <1>3 DEF HybridInv, HybridTypeOK, CatalogInv, Alone
<1>5. ASSUME NEW t \in Tasks PROVE status'[t] \in Reached /\ ReviewsFit(t)'
  <2>1. status[t] \in Reached /\ ReviewsFit(t)
    BY DEF HybridInv
  <2>2. CASE Exists(t)
    BY <1>1, <1>2, <2>1, <2>2 DEF ReviewsFit, Submits
  <2>3. CASE ~Exists(t)
    <3>1. status[t] = "absent" /\ status'[t] \in {"absent", "pending"}
      BY <1>2, <2>3 DEF Exists
    <3>2. reviews'[t] = 0 /\ attempts'[t] = attempts[t] /\ attempts[t] \in Nat
      BY <1>1, <1>2, <2>1, <3>1 DEF ReviewsFit, HybridInv, HybridTypeOK, StoreTypeOK
    <3> QED
      BY <3>1, <3>2 DEF Reached, ReviewsFit
  <2> QED
    BY <2>2, <2>3
<1>6. ASSUME NEW r \in Robots PROVE WorkFits(r)'
  <2>1. WorkFits(r)
    BY DEF HybridInv
  <2>2. at[r] \in Working =>
           /\ status'[job[r]] = status[job[r]]
           /\ snapshot'[job[r]] = snapshot[job[r]]
           /\ script'[snapshot[job[r]]] = script[snapshot[job[r]]]
    BY <1>2, InHand DEF Exists
  <2>3. {"claimed", "started", "step", "ended"} \subseteq Working
    BY DEF Working, StatusAfter
  <2> HIDE DEF Working
  <2> QED
    BY <1>1, <1>2, <1>3, <2>1, <2>2, <2>3 DEF WorkFits, Steps
<1> QED
  BY <1>2, <1>4, <1>5, <1>6 DEF HybridInv

\* The initial states satisfy the invariant.
LEMMA HybridInitInv == HybridInit => HybridInv
<1> SUFFICES ASSUME HybridInit PROVE HybridInv
  OBVIOUS
<1> USE DEF HybridInit
<1>1. StoreTypeOK
  BY DEF StoreInit, StoreTypeOK
<1>2. \A f : VersionsOf(f) = {}
  BY DEF CatalogInit, VersionsOf, Stored
<1>3. CatalogTypeOK
  <2>1. /\ NoScript \in Scripts \cup {NoScript}
        /\ NoInsertion \in [flow : Flows, number : Nat, script : Scripts \cup {NoScript}]
    BY CatalogAssumption DEF NoInsertion
  <2>2. NoHook \in [task : Tasks \cup {0}, version : Versions \cup {0}]
    BY DEF NoHook
  <2> HIDE DEF NoScript, NoInsertion, NoHook
  <2> QED
    BY <2>1, <2>2, CatalogAssumption DEF CatalogInit, CatalogTypeOK
<1>4. RowsInOrder /\ PendingNumbers /\ HookReleased
  BY DEF CatalogInit, RowsInOrder, Stored, PendingNumbers, NumberFits, HookReleased, NoHook
<1>5. PointersAgree
  BY <1>2 DEF CatalogInit, PointersAgree
<1>6. NumbersInOrder
  <2>1. Cardinality({}) = 0
    BY FS_EmptySet
  <2>2. 1..0 = {}
    OBVIOUS
  <2> QED
    BY <1>2, <2>1, <2>2 DEF NumbersInOrder
<1>7. SnapshotReleased
  BY DEF StoreInit, CatalogInit, SnapshotReleased, Exists
<1>8. CatalogInv
  BY <1>3, <1>4, <1>5, <1>6, <1>7 DEF CatalogInv
<1>9. "idle" \notin Working
  BY DEF Working, StatusAfter
<1> HIDE DEF Working
<1>10. HybridTypeOK /\ Alone
  BY <1>1, <1>3, <1>9 DEF HybridTypeOK, Alone
<1>11. \A t \in Tasks : status[t] \in Reached /\ ReviewsFit(t)
  BY DEF StoreInit, Reached, ReviewsFit
<1>12. \A r \in Robots : WorkFits(r)
  BY <1>9 DEF WorkFits
<1> QED
  BY <1>8, <1>10, <1>11, <1>12 DEF HybridInv

\* Every step preserves it.
LEMMA HybridInvStep == HybridInv /\ [HybridNext]_hybridVars => HybridInv'
<1> SUFFICES ASSUME HybridInv, [HybridNext]_hybridVars PROVE HybridInv'
  OBVIOUS
<1>1. CASE EditFlows
  BY <1>1, EditInv
<1>2. CASE \E t \in Tasks : ReviewComesDue(t)
  BY <1>2, ClockInv
<1>3. CASE \E r \in Robots : WorkStep(r) \/ \E t \in Tasks : ClaimTask(r, t)
  BY <1>3, WorkStepInv, ClaimInv
<1>4. CASE UNCHANGED hybridVars
  <2>1. /\ UNCHANGED <<storeVars, catalogVars>>
        /\ UNCHANGED <<at, job, next, context, reviews>>
    BY <1>4 DEF hybridVars, platformVars, call, effects
  <2>2. UNCHANGED <<status, assigned, check, attempts, born, orderId, openActions, robotRow>>
    BY <2>1 DEF storeVars, taskRow
  <2>3. CatalogInv'
    BY <2>1, <2>2, CatalogFrame DEF HybridInv, Exists
  <2>4. snapshot' = snapshot /\ script' = script /\ Working' = Working
    BY <2>1 DEF catalogVars, catalogRows, versionRows, Working, StatusAfter
  <2>5. HybridTypeOK'
    <3>1. StoreTypeOK'
      BY <2>2 DEF HybridInv, HybridTypeOK, StoreTypeOK
    <3> HIDE DEF Working
    <3> QED
      BY <2>1, <2>3, <2>4, <3>1 DEF HybridInv, HybridTypeOK, CatalogInv
  <2>6. Alone' /\ \A t \in Tasks : status'[t] \in Reached /\ ReviewsFit(t)'
    BY <2>1, <2>2, <2>4 DEF HybridInv, Alone, ReviewsFit, Submits
  <2>7. \A r \in Robots : WorkFits(r)'
    BY <2>1, <2>2, <2>4 DEF HybridInv, WorkFits, Steps
  <2> QED
    BY <2>3, <2>5, <2>6, <2>7 DEF HybridInv
<1> QED
  BY <1>1, <1>2, <1>3, <1>4 DEF HybridNext

\* The strengthened invariant is one.
THEOREM HybridInvariant == HybridSpec => []HybridInv
BY HybridInvStep, HybridInitInv, PTL DEF HybridSpec

\* Rows, snapshots, requests and workers keep their types.
THEOREM HybridTypes == HybridSpec => []HybridTypeOK
<1>1. HybridInv => HybridTypeOK
  BY DEF HybridInv
<1> QED
  BY <1>1, HybridInvariant, PTL

\* However the requests of the editors overlap, the pointers of a flow name its
\* published version and its newest draft.
THEOREM PointersAlwaysAgree == HybridSpec => []PointersAgree
<1>1. HybridInv => PointersAgree
  BY DEF HybridInv, CatalogInv
<1> QED
  BY <1>1, HybridInvariant, PTL

\* However they overlap, a flow's version numbers are unique and have no gap.
THEOREM NumbersStayInOrder == HybridSpec => []NumbersInOrder
<1>1. HybridInv => NumbersInOrder
  BY DEF HybridInv, CatalogInv
<1> QED
  BY <1>1, HybridInvariant, PTL

\* No task runs a draft, although the version is read before the task is there.
THEOREM SnapshotsReleased == HybridSpec => []SnapshotReleased
<1>1. HybridInv => SnapshotReleased
  BY DEF HybridInv, CatalogInv
<1> QED
  BY <1>1, HybridInvariant, PTL

\* No worker changes what the flow routes keep.
LEMMA WorkLeavesFlows ==
    ASSUME NEW r \in Robots, WorkStep(r)
    PROVE  UNCHANGED catalogVars
BY DEF WorkStep, ReadStatus, StartSteps, ResolveCorp, PassStep, ConfigureApp, BrowserPauses,
       SubmitReview, StepsEnd, StepRaises, InsertPause, LeaveTask, FreeRobot, ProbeLogins,
       RunStub, platformVars

\* Nothing but the edits of the flows changes what the flow routes keep.
LEMMA OnlyEdits ==
    ASSUME HybridInv, [HybridNext]_hybridVars, ~EditFlows
    PROVE  UNCHANGED catalogVars
<1>1. CASE \E u \in Tasks : ReviewComesDue(u)
  BY <1>1 DEF ReviewComesDue
<1>2. CASE \E r \in Robots : WorkStep(r)
  BY <1>2, WorkLeavesFlows
<1>3. CASE \E r \in Robots, u \in Tasks : ClaimTask(r, u)
  BY <1>3 DEF ClaimTask
<1>4. CASE UNCHANGED hybridVars
  BY <1>4 DEF hybridVars, platformVars
<1> QED
  BY <1>1, <1>2, <1>3, <1>4 DEF HybridNext

\* What a task will run is never changed, not by a request for the same key
\* that overtakes another, either.
THEOREM SnapshotsFixed == HybridSpec => SnapshotFixed
<1>1. HybridInv /\ [HybridNext]_hybridVars =>
         [\A t \in Tasks : Exists(t) => snapshot'[t] = snapshot[t]]_platformVars
  <2> SUFFICES ASSUME HybridInv, [HybridNext]_hybridVars, NEW t \in Tasks, Exists(t)
               PROVE  snapshot'[t] = snapshot[t]
    OBVIOUS
  <2>1. CASE EditFlows
    BY <2>1, CatalogStepInv DEF EditFlows, HybridInv, HybridTypeOK
  <2>2. CASE ~EditFlows
    BY <2>2, OnlyEdits DEF catalogVars
  <2> QED
    BY <2>1, <2>2
<1> QED
  BY <1>1, HybridInvariant, PTL DEF HybridSpec, SnapshotFixed

\* A row of flow_versions is written once: later requests leave its flow, its
\* number and its steps alone, and what was released is never a draft again.
RowFixed(v) ==
    /\ release'[v] # "absent"
    /\ flowOf'[v] = flowOf[v] /\ number'[v] = number[v] /\ script'[v] = script[v]
    /\ release[v] # "draft" => release'[v] # "draft"

VersionsFixed == [][\A v \in Versions : Stored(v) => RowFixed(v)]_hybridVars

\* No flow route rewrites a version, so that a task, its snapshot and whoever
\* rolls back find the steps that were released.
THEOREM VersionsStayFixed == HybridSpec => VersionsFixed
<1>1. HybridInv /\ [HybridNext]_hybridVars =>
         [\A v \in Versions : Stored(v) => RowFixed(v)]_hybridVars
  <2> SUFFICES ASSUME HybridInv, [HybridNext]_hybridVars, NEW v \in Versions, Stored(v)
               PROVE  RowFixed(v)
    OBVIOUS
  <2>t. /\ flowOf \in [Versions -> Flows] /\ number \in [Versions -> Nat]
        /\ release \in [Versions -> {"absent", "draft", "published", "archived"}]
        /\ script \in [Versions -> Scripts \cup {NoScript}]
    BY DEF HybridInv, CatalogInv, CatalogTypeOK
  <2>0. ASSUME UNCHANGED versionRows PROVE RowFixed(v)
    BY <2>0 DEF versionRows, RowFixed, Stored
  <2>1. ASSUME NEW f \in Flows, NEW u \in Versions, PublishVersion(f, u) PROVE RowFixed(v)
    <3>1. UNCHANGED <<flowOf, number, script>> /\ release'[v] \in {"published", "archived", release[v]}
      BY <2>1, <2>t DEF PublishVersion
    <3> QED
      BY <3>1 DEF RowFixed, Stored
  <2>2. ASSUME NEW e \in Editors, InsertVersion(e) PROVE RowFixed(v)
    <3>1. PICK u \in Versions :
              /\ ~Stored(u)
              /\ flowOf' = [flowOf EXCEPT ![u] = insertion[e].flow]
              /\ number' = [number EXCEPT ![u] = insertion[e].number]
              /\ release' = [release EXCEPT ![u] = "draft"]
              /\ script' = [script EXCEPT ![u] = insertion[e].script]
      BY <2>2 DEF InsertVersion
    <3>2. u # v
      BY <3>1
    <3> QED
      BY <2>t, <3>1, <3>2 DEF RowFixed, Stored
  <2>3. CASE EditFlows
    BY <2>0, <2>1, <2>2, <2>3 DEF EditFlows, CatalogStep, CreateFlow, ReadNextNumber, CopyVersion,
            InsertVersionFails, ReadKey, ReadPublished, InsertTask, catalogRows
  <2>4. CASE ~EditFlows
    BY <2>0, <2>4, OnlyEdits DEF catalogVars, catalogRows
  <2> QED
    BY <2>3, <2>4
<1> QED
  BY <1>1, HybridInvariant, PTL DEF HybridSpec, VersionsFixed

\* The steps of a task are fixed when it is created, whatever is edited,
\* published or rolled back while it waits or runs.
RunsOneScript ==
    [][\A t \in Tasks : Exists(t) => script'[snapshot'[t]] = script[snapshot[t]]]_hybridVars

\* No step gives a task that exists another list.
LEMMA ScriptKept ==
    ASSUME HybridInv, [HybridNext]_hybridVars, NEW t \in Tasks, Exists(t)
    PROVE  script'[snapshot'[t]] = script[snapshot[t]]
<1>1. CASE EditFlows
  BY <1>1, CatalogStepInv DEF EditFlows, HybridInv, HybridTypeOK
<1>2. CASE ~EditFlows
  BY <1>2, OnlyEdits DEF catalogVars, catalogRows, versionRows
<1> QED
  BY <1>1, <1>2

\* A worker never sees another list of steps than the one it started with.
THEOREM TasksRunOneScript == HybridSpec => RunsOneScript
<1>1. HybridInv /\ [HybridNext]_hybridVars =>
         [\A t \in Tasks : Exists(t) => script'[snapshot'[t]] = script[snapshot[t]]]_hybridVars
  BY ScriptKept
<1> QED
  BY <1>1, HybridInvariant, PTL DEF HybridSpec, RunsOneScript

\* A task is in the hands of one robot at most, which is 'busy', until that
\* robot has parked or finished it.
THEOREM OneRobot == HybridSpec => []OneRobotPerTask
<1>1. HybridInv => OneRobotPerTask
  BY DEF HybridInv, Alone, WorkFits, OneRobotPerTask
<1> QED
  BY <1>1, HybridInvariant, PTL

\* A claim submits one review at most, also if a call raises: no more of them
\* than the first claim and the claims for a check that came due.
OneReviewPerClaim == \A t \in Tasks : reviews[t] <= attempts[t] + 1

\* However robots, requests and the clock interleave, a task has no more reviews
\* at WeCom than claims that may submit one.
THEOREM ReviewsPerClaim == HybridSpec => []OneReviewPerClaim
<1>1. HybridInv => OneReviewPerClaim
  BY DEF HybridInv, ReviewsFit, OneReviewPerClaim
<1> QED
  BY <1>1, HybridInvariant, PTL
-----------------------------------------------------------------------------
(***************************************************************************)
(* A call comes to its end: a worker is a bounded number of its own steps  *)
(* away from letting go of its task, whatever the others do.               *)
(***************************************************************************)

\* The steps a call has before it at most: at l, with n steps in the flow of its
\* task, of which the i-th comes next.
WorkFrom(l, n, i) ==
    CASE l = "idle" -> 0
      [] l = "free" -> 1
      [] l \in DOMAIN StatusAfter \cup {"stub"} -> 2
      [] l = "pause" -> 3
      [] l = "step" -> (n - i) + 5
      [] l = "started" -> n + 5
      [] l = "claimed" -> n + 6

WorkLeft(r) == WorkFrom(at[r], Len(Steps(r)), next[r])

\* Every path of a call leads to its end: the flow's steps are gone through
\* once, in their order, and an exception, a pause or a review end the call.
\* The routes that edit the flow meanwhile, and the other workers, do not make
\* it longer.
WorkShortens ==
    [][\A r \in Robots : at[r] # "idle" =>
          /\ WorkLeft(r)' <= WorkLeft(r)
          /\ WorkStep(r) => WorkLeft(r)' < WorkLeft(r)]_hybridVars

\* A call is at most one step behind the last one of its flow.
AtSteps == {"claimed", "started", "step"}
NextFits == \A r \in Robots : at[r] \in AtSteps => next[r] <= Len(Steps(r)) + 1

\* WorkFrom, place by place.
LEMMA WorkFromAt ==
    ASSUME NEW n, NEW i
    PROVE  /\ WorkFrom("idle", n, i) = 0
           /\ WorkFrom("free", n, i) = 1
           /\ \A l \in DOMAIN StatusAfter \cup {"stub"} : WorkFrom(l, n, i) = 2
           /\ WorkFrom("pause", n, i) = 3
           /\ WorkFrom("step", n, i) = (n - i) + 5
           /\ WorkFrom("started", n, i) = n + 5
           /\ WorkFrom("claimed", n, i) = n + 6
BY DEF WorkFrom, StatusAfter

\* What is left is a number, and none is left only where there is no call.
LEMMA WorkLeftCounted ==
    ASSUME HybridInv, NextFits, NEW r \in Robots
    PROVE  /\ WorkLeft(r) \in Nat
           /\ at[r] # "idle" => WorkLeft(r) > 0
<1>1. at[r] \in Working \cup {"idle", "free"} /\ next[r] \in Nat \ {0}
  BY DEF HybridInv, HybridTypeOK
<1>2. CASE at[r] \in AtSteps
  <2>1. Len(Steps(r)) \in Nat /\ next[r] <= Len(Steps(r)) + 1
    BY <1>2, StepsCounted DEF NextFits, AtSteps, Working
  <2>2. at[r] = "claimed" \/ at[r] = "started" \/ at[r] = "step"
    BY <1>2 DEF AtSteps
  <2> QED
    BY <1>1, <2>1, <2>2, WorkFromAt DEF WorkLeft
<1>3. CASE at[r] \notin AtSteps
  <2>1. at[r] \in {"idle", "free", "pause"} \cup (DOMAIN StatusAfter \cup {"stub"})
    BY <1>1, <1>3 DEF Working, AtSteps
  <2>2. CASE at[r] \in DOMAIN StatusAfter \cup {"stub"}
    <3>1. WorkLeft(r) = 2
      BY <2>2, WorkFromAt DEF WorkLeft
    <3> QED
      BY <3>1
  <2>3. CASE at[r] \in {"idle", "free", "pause"}
    BY <2>3, WorkFromAt DEF WorkLeft
  <2> QED
    BY <2>1, <2>2, <2>3
<1> QED
  BY <1>2, <1>3

\* A step of another worker, of the clock or of the routes leaves a call where
\* it is, with the steps it has.
LEMMA CallKept ==
    ASSUME HybridInv, [HybridNext]_hybridVars, NEW r \in Robots, at[r] # "idle", ~WorkStep(r)
    PROVE  /\ at'[r] = at[r] /\ next'[r] = next[r] /\ job'[r] = job[r]
           /\ at[r] \in Working => Steps(r)' = Steps(r)
<1>t. at \in [Robots -> Working \cup {"idle", "free"}] /\ job \in [Robots -> Tasks \cup {NoTask}]
      /\ next \in [Robots -> Nat \ {0}]
  BY DEF HybridInv, HybridTypeOK
<1>1. at'[r] = at[r] /\ next'[r] = next[r] /\ job'[r] = job[r]
  <2>1. CASE UNCHANGED call
    BY <2>1 DEF call
  <2>2. ASSUME NEW q \in Robots, WorkStep(q)
        PROVE  at'[r] = at[r] /\ next'[r] = next[r] /\ job'[r] = job[r]
    <3>1. q # r
      BY <2>2
    <3>2. /\ \E l : at' = [at EXCEPT ![q] = l]
          /\ job' = job \/ job' = [job EXCEPT ![q] = NoTask]
          /\ next' = next \/ next' = [next EXCEPT ![q] = @ + 1]
      BY <2>2, <1>t DEF WorkStep, ReadStatus, StartSteps, ResolveCorp, PassStep, ConfigureApp,
              BrowserPauses, SubmitReview, StepsEnd, StepRaises, InsertPause, LeaveTask,
              FreeRobot, ProbeLogins, RunStub, Move, Proceed, Doing
    <3> QED
      BY <1>t, <3>1, <3>2
  <2>3. ASSUME NEW q \in Robots, NEW t \in Tasks, ClaimTask(q, t)
        PROVE  at'[r] = at[r] /\ next'[r] = next[r] /\ job'[r] = job[r]
    BY <2>3, <1>t DEF ClaimTask
  <2>4. CASE EditFlows \/ (\E t \in Tasks : ReviewComesDue(t)) \/ UNCHANGED hybridVars
    BY <2>1, <2>4 DEF EditFlows, ReviewComesDue, hybridVars
  <2> QED
    BY <2>2, <2>3, <2>4 DEF HybridNext
<1>2. ASSUME at[r] \in Working PROVE Steps(r)' = Steps(r)
  <2>1. job[r] \in Tasks /\ Exists(job[r])
    BY <1>2, InHand DEF Exists
  <2>2. script'[snapshot'[job[r]]] = script[snapshot[job[r]]]
    BY <2>1, ScriptKept
  <2> QED
    BY <1>1, <2>2 DEF Steps
<1> QED
  BY <1>1, <1>2

\* A step of a worker brings its call nearer to its end.
LEMMA WorkGoesOn ==
    ASSUME HybridInv, HybridInv', NextFits, NEW r \in Robots, WorkStep(r)
    PROVE  /\ at[r] # "idle" /\ WorkLeft(r) \in Nat
           /\ WorkLeft(r)' \in Int /\ WorkLeft(r)' < WorkLeft(r)
           /\ at'[r] \in AtSteps => next'[r] <= Len(Steps(r))' + 1
<1> DEFINE n == Len(Steps(r))
           i == next[r]
           j == next'[r]
           left == WorkLeft(r)
           leftNext == WorkLeft(r)'
<1>t. /\ at \in [Robots -> Working \cup {"idle", "free"}] /\ job \in [Robots -> Tasks \cup {NoTask}]
      /\ next \in [Robots -> Nat \ {0}]
  BY DEF HybridInv, HybridTypeOK
<1>a. left \in Nat /\ i \in Nat \ {0}
  BY <1>t, WorkLeftCounted
<1>b. at[r] \in AtSteps => n \in Nat /\ i <= n + 1
  BY StepsCounted DEF NextFits, AtSteps, Working
<1>c. UNCHANGED <<job, snapshot, script>> => Len(Steps(r))' = n
  BY DEF Steps
<1>d. UNCHANGED <<snapshot, script>>
  BY WorkLeavesFlows DEF catalogVars, catalogRows, versionRows
<1>e. /\ left = WorkFrom(at[r], n, i)
      /\ leftNext = WorkFrom(at'[r], Len(Steps(r))', j)
  BY DEF WorkLeft
<1> DEFINE Goal == /\ at[r] # "idle" /\ leftNext \in Int /\ leftNext < left
                   /\ at'[r] \in AtSteps => j <= Len(Steps(r))' + 1
<1> HIDE DEF n, i, j, left, leftNext
<1>s. DOMAIN StatusAfter = {"login", "manual", "review", "ended", "approved", "online"}
  BY DEF StatusAfter
<1>f. /\ at[r] = "claimed" => left = n + 6
      /\ at[r] = "started" => left = n + 5
      /\ at[r] = "step" => left = (n - i) + 5
      /\ at[r] = "pause" => left = 3
      /\ at[r] \in DOMAIN StatusAfter \cup {"stub"} => left = 2
      /\ at[r] = "free" => left = 1
  <2>1. at[r] \in DOMAIN StatusAfter \cup {"stub"} => left = 2
    BY <1>e, WorkFromAt
  <2>2. /\ at[r] = "claimed" => left = n + 6
        /\ at[r] = "started" => left = n + 5
        /\ at[r] = "step" => left = (n - i) + 5
    BY <1>e, WorkFromAt
  <2>3. (at[r] = "pause" => left = 3) /\ (at[r] = "free" => left = 1)
    BY <1>e, WorkFromAt
  <2> QED
    BY <2>1, <2>2, <2>3
<1>g. /\ at'[r] = "pause" => leftNext = 3
      /\ at'[r] \in DOMAIN StatusAfter \cup {"stub"} => leftNext = 2
      /\ at'[r] = "free" => leftNext = 1
      /\ at'[r] = "idle" => leftNext = 0
      /\ at'[r] \in {"pause", "free", "idle"} \cup (DOMAIN StatusAfter \cup {"stub"}) =>
            at'[r] \notin AtSteps
  <2>1. at'[r] \in DOMAIN StatusAfter \cup {"stub"} => leftNext = 2
    BY <1>e, WorkFromAt
  <2>2. at'[r] \in {"pause", "free", "idle"} \cup (DOMAIN StatusAfter \cup {"stub"}) =>
            at'[r] \notin AtSteps
    BY <1>s DEF AtSteps
  <2> QED
    BY <1>e, <2>1, <2>2, WorkFromAt
<1>h. /\ at'[r] = "started" /\ UNCHANGED job => leftNext = n + 5
      /\ at'[r] = "step" /\ UNCHANGED job => leftNext = (n - j) + 5
  BY <1>c, <1>d, <1>e, WorkFromAt
<1>m. \A l : Move(r, l) => at'[r] = l /\ j = i /\ UNCHANGED job
  BY <1>t DEF Move, i, j
<1>p. Proceed(r) => j = i + 1
  BY <1>t DEF Proceed, i, j
<1>1. ASSUME ReadStatus(r) PROVE Goal
  <2>1. at[r] = "claimed" /\ \E l \in {"approved", "review", "online", "started"} : Move(r, l)
    BY <1>1 DEF ReadStatus
  <2>2. CASE Move(r, "started")
    <3>1. Len(Steps(r))' = n /\ j = i /\ leftNext = n + 5 /\ left = n + 6
      BY <1>c, <1>d, <1>f, <1>h, <1>m, <2>1, <2>2
    <3> QED
      BY <1>b, <2>1, <3>1 DEF AtSteps
  <2>3. CASE \E l \in {"approved", "review", "online"} : Move(r, l)
    <3>1. leftNext = 2 /\ left = n + 6 /\ at'[r] \notin AtSteps /\ n \in Nat
      BY <1>b, <1>f, <1>g, <1>m, <1>s, <2>1, <2>3 DEF AtSteps
    <3> QED
      BY <2>1, <3>1
  <2> QED
    BY <2>1, <2>2, <2>3
<1>2. ASSUME StartSteps(r) PROVE Goal
  <2>1. at[r] = "started" /\ Move(r, "step")
    BY <1>2 DEF StartSteps
  <2>2. Len(Steps(r))' = n /\ j = i /\ leftNext = (n - j) + 5 /\ left = n + 5
    BY <1>c, <1>d, <1>f, <1>h, <1>m, <2>1
  <2> QED
    BY <1>a, <1>b, <2>1, <2>2 DEF AtSteps
<1>3. ASSUME ResolveCorp(r) \/ PassStep(r) \/ ConfigureApp(r) PROVE Goal
  <2>1. at[r] = "step" /\ i <= n /\ Proceed(r) /\ UNCHANGED <<at, job>>
    BY <1>3 DEF ResolveCorp, PassStep, ConfigureApp, Doing, i, n
  <2>2. Len(Steps(r))' = n /\ j = i + 1 /\ leftNext = (n - j) + 5 /\ left = (n - i) + 5
    BY <1>c, <1>d, <1>f, <1>h, <1>p, <2>1
  <2> QED
    BY <1>a, <1>b, <2>1, <2>2 DEF AtSteps
<1>4. ASSUME BrowserPauses(r) \/ SubmitReview(r) PROVE Goal
  <2>1. at[r] = "step" /\ i <= n /\ (Move(r, "pause") \/ Move(r, "review"))
    BY <1>4 DEF BrowserPauses, SubmitReview, Doing, i, n
  <2>2. leftNext \in {2, 3} /\ at'[r] \notin AtSteps /\ left = (n - i) + 5
    BY <1>f, <1>g, <1>m, <1>s, <2>1
  <2> QED
    BY <1>a, <1>b, <2>1, <2>2 DEF AtSteps
<1>5. ASSUME StepsEnd(r) PROVE Goal
  <2>1. at[r] = "step" /\ Move(r, "ended")
    BY <1>5 DEF StepsEnd
  <2>2. leftNext = 2 /\ at'[r] \notin AtSteps /\ left = (n - i) + 5
    BY <1>f, <1>g, <1>m, <1>s, <2>1
  <2> QED
    BY <1>a, <1>b, <2>1, <2>2 DEF AtSteps
<1>6. ASSUME StepRaises(r) \/ FreeRobot(r) PROVE Goal
  <2>1. (at[r] = "step" \/ at[r] = "free") /\ at'[r] = "idle"
    BY <1>6, <1>t DEF StepRaises, FreeRobot
  <2>2. leftNext = 0 /\ at'[r] \notin AtSteps /\ (left = (n - i) + 5 \/ left = 1)
    BY <1>f, <1>g, <2>1
  <2>3. at[r] = "step" => left = (n - i) + 5
    BY <1>f
  <2>4. left > 0
    <3>1. CASE at[r] = "step"
      BY <1>a, <1>b, <2>3, <3>1 DEF AtSteps
    <3>2. CASE at[r] = "free"
      BY <1>f, <3>2
    <3> QED
      BY <2>1, <3>1, <3>2
  <2> QED
    BY <2>1, <2>2, <2>4
<1>7. ASSUME InsertPause(r) PROVE Goal
  <2>1. at[r] = "pause" /\ (Move(r, "login") \/ Move(r, "manual"))
    BY <1>7 DEF InsertPause
  <2>2. leftNext = 2 /\ at'[r] \notin AtSteps /\ left = 3
    BY <1>f, <1>g, <1>m, <1>s, <2>1
  <2> QED
    BY <2>1, <2>2
<1>8. ASSUME LeaveTask(r) \/ RunStub(r) PROVE Goal
  <2>1. at[r] \in DOMAIN StatusAfter \cup {"stub"} /\ Move(r, "free")
    BY <1>8 DEF LeaveTask, RunStub
  <2>2. leftNext = 1 /\ at'[r] \notin AtSteps /\ left = 2 /\ at[r] # "idle"
    BY <1>f, <1>g, <1>m, <1>s, <2>1
  <2> QED
    BY <2>2
<1>9. ASSUME ProbeLogins(r) PROVE Goal
  <2>1. at[r] = "claimed" /\ (Move(r, "free") \/ Move(r, "stub"))
    BY <1>9 DEF ProbeLogins
  <2>2. leftNext \in {1, 2} /\ at'[r] \notin AtSteps /\ left = n + 6 /\ n \in Nat
    BY <1>b, <1>f, <1>g, <1>m, <2>1 DEF AtSteps
  <2> QED
    BY <2>1, <2>2
<1>10. Goal
  BY <1>1, <1>2, <1>3, <1>4, <1>5, <1>6, <1>7, <1>8, <1>9 DEF WorkStep
<1> QED
  BY <1>a, <1>10 DEF left, leftNext, j

\* No worker steps past the end of its flow.
LEMMA NextFitsStep ==
    ASSUME HybridInv, HybridInv', NextFits, [HybridNext]_hybridVars
    PROVE  NextFits'
<1> SUFFICES ASSUME NEW r \in Robots, at'[r] \in AtSteps
             PROVE  next'[r] <= Len(Steps(r))' + 1
  BY DEF NextFits, AtSteps
<1>s. AtSteps \subseteq Working /\ "idle" \notin AtSteps
  BY DEF AtSteps, Working
<1>1. CASE WorkStep(r)
  BY <1>1, WorkGoesOn
<1>2. CASE ~WorkStep(r) /\ at[r] # "idle"
  BY <1>2, <1>s, CallKept DEF NextFits
<1>3. CASE ~WorkStep(r) /\ at[r] = "idle"
  <2>t. at \in [Robots -> Working \cup {"idle", "free"}] /\ job \in [Robots -> Tasks \cup {NoTask}]
        /\ next \in [Robots -> Nat \ {0}]
    BY DEF HybridInv, HybridTypeOK
  <2>1. PICK t \in Tasks : ClaimTask(r, t)
    <3>1. ASSUME NEW q \in Robots \ {r}, WorkStep(q) \/ \E t \in Tasks : ClaimTask(q, t)
          PROVE  at'[r] = at[r]
      <4>1. \E l : at' = [at EXCEPT ![q] = l]
        BY <2>t, <3>1 DEF ClaimTask, WorkStep, ReadStatus, StartSteps, ResolveCorp, PassStep,
              ConfigureApp, BrowserPauses, SubmitReview, StepsEnd, StepRaises, InsertPause,
              LeaveTask, FreeRobot, ProbeLogins, RunStub, Move, Doing
      <4> QED
        BY <2>t, <4>1
    <3>2. CASE EditFlows \/ (\E t \in Tasks : ReviewComesDue(t)) \/ UNCHANGED hybridVars
      BY <1>3, <1>s, <3>2 DEF EditFlows, ReviewComesDue, hybridVars, call
    <3> QED
      BY <1>3, <1>s, <3>1, <3>2 DEF HybridNext
  <2>2. /\ job' = [job EXCEPT ![r] = t] /\ next' = [next EXCEPT ![r] = 1]
        /\ UNCHANGED <<script, snapshot>> /\ Claimable(t)
    BY <2>1 DEF ClaimTask, ClaimNext, catalogVars, catalogRows, versionRows
  <2>3. Exists(t)
    BY <2>2 DEF Claimable, Exists
  <2>4. next'[r] = 1 /\ Steps(r)' = script[snapshot[t]]
    BY <2>2, <2>t DEF Steps
  <2> QED
    BY <2>3, <2>4, ScriptCounted
<1> QED
  BY <1>1, <1>2, <1>3

\* Another's step does not make a call longer.
LEMMA WorkKept ==
    ASSUME HybridInv, NextFits, [HybridNext]_hybridVars, NEW r \in Robots, at[r] # "idle",
           ~WorkStep(r)
    PROVE  WorkLeft(r)' = WorkLeft(r)
<1>1. at'[r] = at[r] /\ next'[r] = next[r] /\ (at[r] \in Working => Steps(r)' = Steps(r))
  BY CallKept
<1>2. CASE at[r] \in Working
  BY <1>1, <1>2 DEF WorkLeft
<1>3. CASE at[r] \notin Working
  <2>1. at[r] = "free"
    BY <1>3 DEF HybridInv, HybridTypeOK
  <2> QED
    BY <1>1, <2>1, WorkFromAt DEF WorkLeft
<1> QED
  BY <1>2, <1>3

\* A worker lets go of its task, and of its robot unless the call raised, after
\* a number of steps that its flow bounds.
THEOREM WorkGetsShorter == HybridSpec => WorkShortens
<1>1. HybridInit => NextFits
  BY DEF HybridInit, NextFits, AtSteps
<1>2. HybridInv /\ HybridInv' /\ NextFits /\ [HybridNext]_hybridVars => NextFits'
  BY NextFitsStep
<1>3. HybridInv /\ HybridInv' /\ NextFits /\ [HybridNext]_hybridVars =>
         [\A r \in Robots : at[r] # "idle" =>
             /\ WorkLeft(r)' <= WorkLeft(r)
             /\ WorkStep(r) => WorkLeft(r)' < WorkLeft(r)]_hybridVars
  <2> SUFFICES ASSUME HybridInv, HybridInv', NextFits, [HybridNext]_hybridVars,
                      NEW r \in Robots, at[r] # "idle"
               PROVE  /\ WorkLeft(r)' <= WorkLeft(r)
                      /\ WorkStep(r) => WorkLeft(r)' < WorkLeft(r)
    OBVIOUS
  <2>1. CASE WorkStep(r)
    <3>1. WorkLeft(r) \in Nat /\ WorkLeft(r)' \in Int /\ WorkLeft(r)' < WorkLeft(r)
      BY <2>1, WorkGoesOn
    <3> QED
      BY <3>1
  <2>2. CASE ~WorkStep(r)
    <3>1. WorkLeft(r)' = WorkLeft(r) /\ WorkLeft(r) \in Nat
      BY <2>2, WorkKept, WorkLeftCounted
    <3> QED
      BY <2>2, <3>1
  <2> QED
    BY <2>1, <2>2
<1> QED
  BY <1>1, <1>2, <1>3, HybridInvariant, PTL DEF HybridSpec, WorkShortens
-----------------------------------------------------------------------------
(***************************************************************************)
(* The flow routes and the webhook implement FlowReleases, next to workers *)
(* at their tasks.                                                         *)
(***************************************************************************)

\* The variables of FlowReleases.
CountMap == [f \in Flows |-> Cardinality(VersionsOf(f))]
ReleasedMap == [f \in Flows |-> ReleasedNumbers(f)]
LiveMap == [f \in Flows |-> NumberOf(published[f])]
RunsMap == [t \in Tasks |-> NumberOf(snapshot[t])]

\* Its steps, in terms of them.
LEMMA ReleasesMapped ==
    /\ UNCHANGED <<CountMap, ReleasedMap, LiveMap, RunsMap>> => UNCHANGED Releases!releaseVars
    /\ \A f : CountMap' = [CountMap EXCEPT ![f] = @ + 1]
              /\ UNCHANGED <<ReleasedMap, LiveMap, RunsMap>> => Releases!Draft(f)
    /\ \A f, n : n \in 1..CountMap[f]
                 /\ ReleasedMap' = [ReleasedMap EXCEPT ![f] = @ \cup {n}]
                 /\ LiveMap' = [LiveMap EXCEPT ![f] = n]
                 /\ UNCHANGED <<CountMap, RunsMap>> => Releases!Release(f, n)
    /\ \A t, n : RunsMap[t] = 0 /\ n \in ReleasedMap[WebhookFlow]
                 /\ RunsMap' = [RunsMap EXCEPT ![t] = n]
                 /\ UNCHANGED <<CountMap, ReleasedMap, LiveMap>> => Releases!Start(t, n)
<1>1. UNCHANGED <<CountMap, ReleasedMap, LiveMap, RunsMap>> => UNCHANGED Releases!releaseVars
  BY DEF CountMap, ReleasedMap, LiveMap, RunsMap, Releases!releaseVars
<1>2. ASSUME NEW f, CountMap' = [CountMap EXCEPT ![f] = @ + 1],
             UNCHANGED <<ReleasedMap, LiveMap, RunsMap>>
      PROVE  Releases!Draft(f)
  BY <1>2 DEF CountMap, ReleasedMap, LiveMap, RunsMap, Releases!Draft
<1>3. ASSUME NEW f, NEW n, n \in 1..CountMap[f],
             ReleasedMap' = [ReleasedMap EXCEPT ![f] = @ \cup {n}],
             LiveMap' = [LiveMap EXCEPT ![f] = n], UNCHANGED <<CountMap, RunsMap>>
      PROVE  Releases!Release(f, n)
  BY <1>3 DEF CountMap, ReleasedMap, LiveMap, RunsMap, Releases!Release
<1>4. ASSUME NEW t, NEW n, RunsMap[t] = 0, n \in ReleasedMap[WebhookFlow],
             RunsMap' = [RunsMap EXCEPT ![t] = n],
             UNCHANGED <<CountMap, ReleasedMap, LiveMap>>
      PROVE  Releases!Start(t, n)
  BY <1>4 DEF CountMap, ReleasedMap, LiveMap, RunsMap, Releases!Start
<1> QED
  BY <1>1, <1>2, <1>3, <1>4

\* A step that writes no row and no pointer is none of FlowReleases.
LEMMA NothingReleased ==
    ASSUME UNCHANGED <<versionRows, published>>
    PROVE  /\ CountMap' = CountMap /\ ReleasedMap' = ReleasedMap /\ LiveMap' = LiveMap
           /\ UNCHANGED snapshot => RunsMap' = RunsMap
BY DEF versionRows, CountMap, ReleasedMap, LiveMap, RunsMap, ReleasedNumbers, NumberOf,
       VersionsOf, Stored

\* What pointers and snapshots name is stored.
LEMMA NamedIsStored ==
    ASSUME CatalogInv
    PROVE  /\ \A f \in Flows : published[f] # 0 => published[f] \in VersionsOf(f)
           /\ \A t \in Tasks : snapshot[t] # 0 => snapshot[t] \in VersionsOf(WebhookFlow)
<1>1. ASSUME NEW f \in Flows, published[f] # 0 PROVE published[f] \in VersionsOf(f)
  <2>1. {v \in VersionsOf(f) : release[v] = "published"} = {published[f]}
    BY <1>1 DEF CatalogInv, PointersAgree
  <2> QED
    BY <2>1
<1> QED
  BY <1>1 DEF CatalogInv, SnapshotReleased

\* No flow has a version before its first draft.
LEMMA ReleasesInit ==
    ASSUME CatalogInit
    PROVE  Releases!Init
<1>1. \A f : VersionsOf(f) = {}
  BY DEF CatalogInit, VersionsOf, Stored
<1>2. Cardinality({}) = 0
  BY FS_EmptySet
<1>3. /\ \A f \in Flows : Cardinality(VersionsOf(f)) = 0 /\ ReleasedNumbers(f) = {}
      /\ \A f \in Flows : NumberOf(published[f]) = 0
      /\ \A t \in Tasks : NumberOf(snapshot[t]) = 0
  BY <1>1, <1>2 DEF CatalogInit, ReleasedNumbers, NumberOf
<1> QED
  BY <1>3 DEF Releases!Init

\* Inserting a version is a Draft.
LEMMA InsertDrafts ==
    ASSUME CatalogInv, NEW e \in Editors, InsertVersion(e)
    PROVE  Releases!Draft(insertion[e].flow)
<1>1. PICK f \in Flows, v \in Versions :
          /\ f = insertion[e].flow
          /\ ~Stored(v)
          /\ flowOf' = [flowOf EXCEPT ![v] = f]
          /\ number' = [number EXCEPT ![v] = insertion[e].number]
          /\ release' = [release EXCEPT ![v] = "draft"]
          /\ UNCHANGED <<published, snapshot>>
  BY DEF InsertVersion, CatalogInv, CatalogTypeOK
<1>2. /\ \A u \in Versions \ {v} :
            flowOf'[u] = flowOf[u] /\ number'[u] = number[u] /\ release'[u] = release[u]
      /\ flowOf'[v] = f /\ release'[v] = "draft"
  BY <1>1 DEF CatalogInv, CatalogTypeOK
<1>3. \A g : v \notin VersionsOf(g) /\ VersionsOf(g) \subseteq Versions \ {v}
  BY <1>1 DEF VersionsOf
<1>4. /\ VersionsOf(f)' = VersionsOf(f) \cup {v}
      /\ \A g \in Flows \ {f} : VersionsOf(g)' = VersionsOf(g)
  BY <1>1, <1>2 DEF VersionsOf, Stored
<1>5. CountMap' = [CountMap EXCEPT ![f] = @ + 1]
  <2>1. Cardinality(VersionsOf(f)') = Cardinality(VersionsOf(f)) + 1
    BY ZenonT(30), <1>3, <1>4, VersionsFinite, FS_AddElement
  <2> QED
    BY <1>4, <2>1 DEF CountMap
<1>6. ReleasedMap' = ReleasedMap
  <2>1. ASSUME NEW g \in Flows PROVE ReleasedNumbers(g)' = ReleasedNumbers(g)
    <3>1. {u \in VersionsOf(g) : release[u] \in {"published", "archived"}}' =
             {u \in VersionsOf(g) : release[u] \in {"published", "archived"}}
      BY <1>2, <1>3, <1>4
    <3>2. \A u \in VersionsOf(g) : number'[u] = number[u]
      BY <1>2, <1>3
    <3> QED
      BY <3>1, <3>2 DEF ReleasedNumbers
  <2> QED
    BY <2>1 DEF ReleasedMap
<1>7. LiveMap' = LiveMap /\ RunsMap' = RunsMap
  <2>1. \A g \in Flows : NumberOf(published[g])' = NumberOf(published[g])
    BY <1>1, <1>2, <1>3, NamedIsStored DEF NumberOf
  <2>2. \A t \in Tasks : NumberOf(snapshot[t])' = NumberOf(snapshot[t])
    BY <1>1, <1>2, <1>3, NamedIsStored DEF NumberOf
  <2> QED
    BY <2>1, <2>2 DEF LiveMap, RunsMap
<1> QED
  BY <1>1, <1>5, <1>6, <1>7, ReleasesMapped

\* Publishing a version, or rolling back to it, is its Release.
LEMMA PublishReleases ==
    ASSUME CatalogInv, NEW f \in Flows, NEW v \in Versions, PublishVersion(f, v)
    PROVE  \E n \in 1..CountMap[f] : Releases!Release(f, n)
<1>1. /\ v \in VersionsOf(f)
      /\ release' = [u \in Versions |->
            IF u = v THEN "published"
            ELSE IF u \in VersionsOf(f) /\ release[u] = "published" THEN "archived"
            ELSE release[u]]
      /\ published' = [published EXCEPT ![f] = v]
      /\ UNCHANGED <<flowOf, number, snapshot>>
  BY DEF PublishVersion
<1>2. \A g : VersionsOf(g)' = VersionsOf(g)
  <2>1. \A u \in Versions : Stored(u)' <=> Stored(u)
    BY <1>1 DEF VersionsOf, Stored
  <2> QED
    BY <1>1, <2>1, SameVersions
<1>3. number[v] \in 1..CountMap[f]
  BY <1>1 DEF CatalogInv, NumbersInOrder, CountMap
<1>4. CountMap' = CountMap /\ RunsMap' = RunsMap
  BY <1>1, <1>2 DEF CountMap, RunsMap, NumberOf
<1>5. LiveMap' = [LiveMap EXCEPT ![f] = number[v]]
  <2>1. v # 0 /\ published \in [Flows -> Versions \cup {0}]
    BY CatalogAssumption DEF Versions, CatalogInv, CatalogTypeOK
  <2> QED
    BY <1>1, <2>1 DEF LiveMap, NumberOf
<1>6. ReleasedMap' = [ReleasedMap EXCEPT ![f] = @ \cup {number[v]}]
  <2> DEFINE Out(g) == {u \in VersionsOf(g) : release[u] \in {"published", "archived"}}
  <2>1. Out(f)' = Out(f) \cup {v}
    BY <1>1, <1>2 DEF VersionsOf
  <2>2. ASSUME NEW g \in Flows \ {f} PROVE Out(g)' = Out(g)
    <3>1. \A u \in VersionsOf(g) : u # v /\ u \notin VersionsOf(f) /\ u \in Versions
      BY <1>1 DEF VersionsOf
    <3> QED
      BY <1>1, <1>2, <3>1
  <2>3. \A g : ReleasedNumbers(g) = {number[u] : u \in Out(g)}
           /\ ReleasedNumbers(g)' = {number[u] : u \in Out(g)'}
    BY <1>1 DEF ReleasedNumbers
  <2> HIDE DEF Out
  <2>4. ReleasedNumbers(f)' = ReleasedNumbers(f) \cup {number[v]}
    BY <2>1, <2>3
  <2>5. \A g \in Flows \ {f} : ReleasedNumbers(g)' = ReleasedNumbers(g)
    BY <2>2, <2>3
  <2> QED
    BY <2>4, <2>5 DEF ReleasedMap
<1>7. Releases!Release(f, number[v])
  BY <1>3, <1>4, <1>5, <1>6, ReleasesMapped
<1> QED
  BY <1>3, <1>7

\* Inserting a task is a Start, unless another request was faster.
LEMMA InsertStarts ==
    ASSUME CatalogInv, NEW h \in Hooks, InsertTask(h)
    PROVE  \/ UNCHANGED Releases!releaseVars
           \/ \E t \in Tasks : \E n \in ReleasedMap[WebhookFlow] : Releases!Start(t, n)
<1>1. UNCHANGED <<versionRows, published>> /\ hook[h].version # 0
  BY DEF InsertTask, catalogRows
<1>2. CountMap' = CountMap /\ ReleasedMap' = ReleasedMap /\ LiveMap' = LiveMap
  BY <1>1, NothingReleased
<1>3. CASE UNCHANGED snapshot
  BY <1>1, <1>2, <1>3, NothingReleased, ReleasesMapped
<1>4. CASE /\ ~Exists(hook[h].task)
           /\ snapshot' = [snapshot EXCEPT ![hook[h].task] = hook[h].version]
  <2>1. PICK t \in Tasks, v \in VersionsOf(WebhookFlow) :
            /\ t = hook[h].task /\ v = hook[h].version
            /\ release[v] \in {"published", "archived"}
    BY <1>1 DEF CatalogInv, HookReleased, NoHook
  <2>2. number[v] \in ReleasedMap[WebhookFlow]
    BY <2>1, CatalogAssumption DEF ReleasedMap, ReleasedNumbers
  <2>3. RunsMap[t] = 0
    BY <1>4, <2>1 DEF CatalogInv, SnapshotReleased, RunsMap, NumberOf
  <2>4. RunsMap' = [RunsMap EXCEPT ![t] = number[v]]
    <3>1. snapshot \in [Tasks -> Versions \cup {0}] /\ v # 0 /\ UNCHANGED number
      BY <1>1, <2>1 DEF CatalogInv, CatalogTypeOK, versionRows
    <3>2. \A u \in Tasks : snapshot'[u] = IF u = t THEN v ELSE snapshot[u]
      BY <1>4, <2>1, <3>1
    <3> QED
      BY <3>1, <3>2 DEF RunsMap, NumberOf
  <2>5. Releases!Start(t, number[v])
    BY <1>2, <2>2, <2>3, <2>4, ReleasesMapped
  <2> QED
    BY <2>2, <2>5
<1> QED
  BY <1>3, <1>4 DEF InsertTask

\* Every step is one of FlowReleases or a stutter.
LEMMA ReleasesStep ==
    ASSUME HybridInv, [HybridNext]_hybridVars
    PROVE  [Releases!Next]_(Releases!releaseVars)
<1>i. CatalogInv
  BY DEF HybridInv
<1>s. UNCHANGED <<versionRows, published, snapshot>> => UNCHANGED Releases!releaseVars
  BY NothingReleased, ReleasesMapped
<1>1. ASSUME NEW e \in Editors, InsertVersion(e)
      PROVE  Releases!Next
  <2>1. insertion[e].flow \in Flows
    BY <1>i DEF CatalogInv, CatalogTypeOK
  <2> QED
    BY <1>1, <1>i, <2>1, InsertDrafts DEF Releases!Next
<1>2. ASSUME NEW f \in Flows, NEW v \in Versions, PublishVersion(f, v)
      PROVE  Releases!Next
  BY <1>2, <1>i, PublishReleases DEF Releases!Next, CountMap
<1>3. ASSUME NEW h \in Hooks, InsertTask(h)
      PROVE  [Releases!Next]_(Releases!releaseVars)
  BY <1>3, <1>i, InsertStarts DEF Releases!Next, ReleasedMap
<1>4. ASSUME CatalogStep, ~\E e \in Editors : InsertVersion(e),
             ~\E f \in Flows, v \in Versions : PublishVersion(f, v),
             ~\E h \in Hooks : InsertTask(h)
      PROVE  UNCHANGED Releases!releaseVars
  <2>1. UNCHANGED <<versionRows, published, snapshot>>
    BY <1>4 DEF CatalogStep, CreateFlow, ReadNextNumber, CopyVersion, InsertVersionFails, ReadKey,
                ReadPublished, catalogRows
  <2> QED
    BY <2>1, <1>s
<1>5. CASE EditFlows
  BY <1>5, <1>1, <1>2, <1>3, <1>4 DEF EditFlows
<1>6. CASE ~EditFlows
  BY <1>6, <1>s, OnlyEdits DEF catalogVars, catalogRows
<1> QED
  BY <1>5, <1>6

\* Whatever requests overlap and whatever the workers do meanwhile, versions are
\* counted without gaps or repetitions, go live only by being released, and a
\* task runs, for good, one that was.
THEOREM ReleasesImplemented == HybridSpec => ImplementsReleases
<1>1. HybridInit => Releases!Init
  BY ReleasesInit DEF HybridInit
<1>2. HybridInv /\ [HybridNext]_hybridVars => [Releases!Next]_(Releases!releaseVars)
  BY ReleasesStep
<1> QED
  BY <1>1, <1>2, HybridInvariant, PTL DEF HybridSpec, ImplementsReleases, Releases!Spec
=============================================================================
