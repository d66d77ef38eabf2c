-------------------------- MODULE LRUCache_proofs --------------------------
(***************************************************************************)
(* The cache is an LRU cache for every size and every set of jobs.         *)
(***************************************************************************)
EXTENDS LRUCache, LRUList_proofs

---------------------------------------------------------------------------
(* The invariant *)

IInv == TypeOK /\ NoDuplicates /\ HoldsMostRecentlyUsed

LEMMA InvInit == Init => IInv
    BY CacheAssumption DEF Init, IInv, TypeOK, NoDuplicates, HoldsMostRecentlyUsed, Held, IdsOf

\* A use of a job keeps the history of the others and puts the job before them.
LEMMA UseFacts ==
    ASSUME TypeOK, NEW id \in Jobs, Use(id)
    PROVE  /\ used' \subseteq Jobs /\ newer' \subseteq Jobs \X Jobs
           /\ used' = used \cup {id}
           /\ \A a, b : a # id /\ b # id /\ <<a, b>> \in newer => <<a, b>> \in newer'
           /\ \A b \in used : b # id => <<id, b>> \in newer'
    BY DEF TypeOK, Use

\* The list after a call that finds the job: it is at the front, whatever the
\* call then wrote into it, and the others stay in their order.
LEMMA HitStep ==
    ASSUME IInv, NEW id \in Jobs, id \in Held, Use(id),
           list' \in Seq(Item), Len(list') = Len(list), list'[1].id = id,
           \A k \in 2..Len(list) : list'[k] = Found(list, id)[k]
    PROVE  IInv'
    <1> DEFINE l == list
               found == Found(l, id)
    <1>1. l \in Seq(Item) /\ Distinct(l) /\ id \in IdsOf(l) /\ Len(l) \in Nat
        BY DEF IInv, TypeOK, NoDuplicates, Distinct, Held
    <1>2. \A k \in 2..Len(l) : list'[k] = found[k]
        OBVIOUS
    <1>3. Len(list') = Len(l) /\ \A k \in 1..Len(l) : l[k] = list[k]
        OBVIOUS
    <1> HIDE DEF l
    <1>4. /\ found \in Seq(Item)
          /\ Len(found) = Len(l) /\ Len(l) > 0
          /\ Distinct(found)
          /\ IdsOf(found) = IdsOf(l)
          /\ found[1].id = id
          /\ \A k, m \in 2..Len(l) : k < m =>
                \E p, q \in 1..Len(l) : /\ p < q
                                       /\ l[p].id # id /\ l[q].id # id
                                       /\ found[k] = l[p] /\ found[m] = l[q]
        BY <1>1, FoundFacts
    <1> HIDE DEF found
    <1>5. \A k \in 1..Len(l) : list'[k].id = found[k].id
        <2> SUFFICES ASSUME NEW k \in 1..Len(l)
                     PROVE  list'[k].id = found[k].id
            OBVIOUS
        <2>1. CASE k = 1
            BY <1>4, <2>1
        <2>2. CASE k # 1
            <3>1. k \in 2..Len(l)
                BY <1>1, <2>2
            <3> QED
                BY <1>2, <3>1
        <2> QED
            BY <2>1, <2>2
    <1>6. Distinct(list')
        BY <1>3, <1>4, <1>5 DEF Distinct
    <1>7. IdsOf(list') = IdsOf(l)
        <2>1. \A k \in 1..Len(list') : list'[k].id \in IdsOf(found)
            BY <1>3, <1>4, <1>5 DEF IdsOf
        <2>2. \A k \in 1..Len(found) : found[k].id \in IdsOf(list')
            BY <1>3, <1>4, <1>5 DEF IdsOf
        <2>3. IdsOf(list') = IdsOf(found)
            BY <2>1, <2>2 DEF IdsOf
        <2> QED
            BY <1>4, <2>3
    <1>8. Held' = Held
        BY <1>7 DEF Held, l
    <1>9. /\ used' \subseteq Jobs /\ newer' \subseteq Jobs \X Jobs
          /\ used' = used
          /\ \A a, b : (a # id /\ b # id /\ <<a, b>> \in newer) => <<a, b>> \in newer'
          /\ \A b \in used : b # id => <<id, b>> \in newer'
        BY UseFacts DEF IInv, HoldsMostRecentlyUsed
    <1>10. ASSUME NEW k \in 1..Len(list'), NEW m \in 1..Len(list'), k < m
           PROVE  <<list'[k].id, list'[m].id>> \in newer'
        <2>1. CASE k = 1
            <3>1. list'[m].id # id
                BY <1>6, <1>10, <2>1 DEF Distinct
            <3>2. list'[m].id \in Held
                BY <1>8 DEF Held, IdsOf
            <3>3. list'[m].id \in used
                BY <3>2 DEF IInv, HoldsMostRecentlyUsed
            <3> QED
                BY <1>9, <2>1, <3>1, <3>3
        <2>2. CASE k # 1
            <3>1. k \in 2..Len(l) /\ m \in 2..Len(l)
                BY <1>1, <1>3, <1>10, <2>2
            <3>2. PICK p \in 1..Len(l), q \in 1..Len(l) :
                        /\ p < q
                        /\ l[p].id # id /\ l[q].id # id
                        /\ found[k] = l[p] /\ found[m] = l[q]
                BY <1>4, <1>10, <3>1
            <3>3. list'[k].id = l[p].id /\ list'[m].id = l[q].id
                BY <1>2, <3>1, <3>2
            <3>4. <<l[p].id, l[q].id>> \in newer
                BY <3>2 DEF IInv, HoldsMostRecentlyUsed, l
            <3> QED
                BY <1>9, <3>2, <3>3, <3>4
        <2> QED
            BY <2>1, <2>2
    <1>11. \A a \in Held, b \in used \ Held : <<a, b>> \in newer'
        <2> SUFFICES ASSUME NEW a \in Held, NEW b \in used \ Held
                     PROVE  <<a, b>> \in newer'
            OBVIOUS
        <2>1. <<a, b>> \in newer /\ b # id
            BY DEF IInv, HoldsMostRecentlyUsed
        <2> QED
            BY <1>9, <2>1
    <1>12. HoldsMostRecentlyUsed'
        BY <1>8, <1>9, <1>10, <1>11 DEF IInv, HoldsMostRecentlyUsed
    <1> QED
        BY <1>6, <1>9, <1>12 DEF IInv, TypeOK, NoDuplicates, Distinct

\* The list after a call that loads the job: the others stay in their order, and
\* if one had to go it was the one used longest ago.
LEMMA MissStep ==
    ASSUME IInv, NEW id \in Jobs, id \notin Held, Use(id),
           NEW item \in Item, item.id = id, list' = Put(list, item, size)
    PROVE  IInv'
    <1> DEFINE l == list
               new == Put(l, item, size)
    <1>1. /\ l \in Seq(Item) /\ Distinct(l) /\ Len(l) <= size /\ Len(l) \in Nat
          /\ id \notin IdsOf(l) /\ list' = new
        BY DEF IInv, TypeOK, NoDuplicates, Distinct, Held
    <1>2. Held = IdsOf(l)
        BY DEF Held
    <1>3. \A k, m \in 1..Len(l) : k < m => <<l[k].id, l[m].id>> \in newer
        BY DEF IInv, HoldsMostRecentlyUsed
    <1> HIDE DEF l
    <1>4. /\ new \in Seq(Item)
          /\ Distinct(new)
          /\ new[1] = item
          /\ \A k \in 2..Len(new) : new[k] = l[k - 1]
          /\ Len(l) < size => Len(new) = Len(l) + 1
          /\ Len(l) = size => Len(new) = size
        BY <1>1, PutFacts, CacheAssumption
    <1> HIDE DEF new
    <1>5. size \in Nat \ {0}
        BY CacheAssumption
    <1>6. Len(new) <= size /\ Len(new) <= Len(l) + 1 /\ Len(new) >= 1 /\ Len(new) \in Nat
        BY <1>1, <1>4, <1>5
    <1>7. \A k \in 2..Len(new) : k - 1 \in 1..Len(l) /\ new[k].id = l[k - 1].id
        BY <1>1, <1>4, <1>6
    <1>8. /\ used' \subseteq Jobs /\ newer' \subseteq Jobs \X Jobs
          /\ used' = used \cup {id}
          /\ \A a, b : (a # id /\ b # id /\ <<a, b>> \in newer) => <<a, b>> \in newer'
          /\ \A b \in used : b # id => <<id, b>> \in newer'
        BY UseFacts DEF IInv
    <1>9. \A k \in 1..Len(l) : l[k].id \in used /\ l[k].id # id
        BY <1>1, <1>2 DEF IInv, HoldsMostRecentlyUsed, IdsOf
    <1>10. ASSUME NEW k \in 1..Len(new), NEW m \in 1..Len(new), k < m
           PROVE  <<new[k].id, new[m].id>> \in newer'
        <2>1. m \in 2..Len(new)
            BY <1>6, <1>10
        <2>2. new[m].id = l[m - 1].id /\ m - 1 \in 1..Len(l)
            BY <1>7, <2>1
        <2>3. CASE k = 1
            BY <1>4, <1>8, <1>9, <2>2, <2>3
        <2>4. CASE k # 1
            <3>1. k \in 2..Len(new)
                BY <1>6, <1>10, <2>4
            <3>2. new[k].id = l[k - 1].id /\ k - 1 \in 1..Len(l) /\ k - 1 < m - 1
                BY <1>7, <1>10, <3>1, <2>1
            <3>3. <<l[k - 1].id, l[m - 1].id>> \in newer
                BY <1>3, <2>2, <3>2
            <3> QED
                BY <1>8, <1>9, <2>2, <3>2, <3>3
        <2> QED
            BY <2>3, <2>4
    <1>11. Held' = {id} \cup {l[k].id : k \in 1..Len(new) - 1}
        <2>1. Held' = {new[k].id : k \in 1..Len(new)}
            BY <1>1 DEF Held, IdsOf
        <2>2. \A k \in 1..Len(new) - 1 : k + 1 \in 2..Len(new) /\ (k + 1) - 1 = k
            BY <1>6
        <2>3. \A k \in 1..Len(new) - 1 : new[k + 1].id = l[k].id
            BY <1>7, <2>2
        <2>4. new[1].id = id
            BY <1>4
        <2>5. \A k \in 1..Len(new) : k = 1 \/ k - 1 \in 1..Len(new) - 1
            BY <1>6
        <2>6. \A k \in 2..Len(new) : new[k].id = l[k - 1].id /\ k - 1 \in 1..Len(new) - 1
            BY <1>6, <1>7
        <2>7. Held' \subseteq {id} \cup {l[k].id : k \in 1..Len(new) - 1}
            <3> SUFFICES ASSUME NEW k \in 1..Len(new)
                         PROVE  new[k].id \in {id} \cup {l[n].id : n \in 1..Len(new) - 1}
                BY <2>1
            <3>1. CASE k = 1
                BY <2>4, <3>1
            <3>2. CASE k # 1
                <4>1. k \in 2..Len(new)
                    BY <1>6, <3>2
                <4> QED
                    BY <2>6, <4>1
            <3> QED
                BY <3>1, <3>2
        <2>8. {l[k].id : k \in 1..Len(new) - 1} \subseteq Held'
            <3> SUFFICES ASSUME NEW k \in 1..Len(new) - 1
                         PROVE  l[k].id \in Held'
                OBVIOUS
            <3>1. k + 1 \in 1..Len(new)
                BY <1>6
            <3> QED
                BY <2>1, <2>3, <3>1
        <2>9. id \in Held'
            BY <1>6, <2>1, <2>4
        <2> QED
            BY <2>7, <2>8, <2>9
    <1>12. Held' \subseteq used'
        BY <1>6, <1>8, <1>9, <1>11
    <1>13. ASSUME NEW a \in Held', NEW b \in used' \ Held'
           PROVE  <<a, b>> \in newer'
        <2>1. b # id /\ b \in used
            BY <1>8, <1>11, <1>13
        <2>2. CASE a = id
            BY <1>8, <2>1, <2>2
        <2>3. CASE a # id
            <3>1. PICK k \in 1..Len(new) - 1 : a = l[k].id
                BY <1>11, <1>13, <2>3
            <3>2. k \in 1..Len(l)
                BY <1>1, <1>6
            <3>3. CASE b \in Held
                <4>1. PICK m \in 1..Len(l) : b = l[m].id
                    BY <1>2, <3>3 DEF IdsOf
                <4>2. ~(m \in 1..Len(new) - 1)
                    BY <1>11, <1>13, <4>1
                <4>3. k < m
                    BY <1>1, <1>6, <3>2, <4>2
                <4>4. <<a, b>> \in newer
                    BY <1>3, <3>1, <3>2, <4>1, <4>3
                <4> QED
                    BY <1>8, <2>1, <2>3, <4>4
            <3>4. CASE b \notin Held
                <4>1. a \in Held
                    BY <1>2, <3>1, <3>2 DEF IdsOf
                <4>2. <<a, b>> \in newer
                    BY <2>1, <3>4, <4>1 DEF IInv, HoldsMostRecentlyUsed
                <4> QED
                    BY <1>8, <2>1, <2>3, <4>2
            <3> QED
                BY <3>3, <3>4
        <2> QED
            BY <2>2, <2>3
    <1>14. used' # Held' => Len(list') = size
        <2> SUFFICES ASSUME Len(new) # size
                     PROVE  used' = Held'
            BY <1>1
        <2>1. Len(l) < size /\ Len(new) = Len(l) + 1
            BY <1>1, <1>4, <1>5
        <2>2. Held' = {id} \cup IdsOf(l)
            BY <1>1, <1>11, <2>1 DEF IdsOf
        <2>3. used = Held
            BY <2>1 DEF IInv, HoldsMostRecentlyUsed, l
        <2> QED
            BY <1>2, <1>8, <2>2, <2>3
    <1>15. HoldsMostRecentlyUsed'
        BY <1>1, <1>10, <1>12, <1>13, <1>14 DEF HoldsMostRecentlyUsed
    <1> QED
        BY <1>1, <1>4, <1>6, <1>8, <1>15 DEF IInv, TypeOK, NoDuplicates, Distinct

\* UpdateJob exchanges the metadata of what find moved to the front.
LEMMA UpdateFacts ==
    ASSUME IInv, NEW id \in Jobs, id \in Held, NEW m \in Metadata,
           list' = ReplaceFront(Found(list, id), m, size)
    PROVE  /\ list' \in Seq(Item) /\ Len(list') = Len(list)
           /\ list'[1].id = id
           /\ list'[1].data.MetricData = Found(list, id)[1].data.MetricData
           /\ \A k \in 2..Len(list) : list'[k] = Found(list, id)[k]
    <1> DEFINE l == list
               found == Found(l, id)
    <1>1. /\ l \in Seq(Item) /\ Distinct(l) /\ id \in IdsOf(l) /\ Len(l) <= size
          /\ list' = ReplaceFront(found, m, size)
        BY DEF IInv, TypeOK, NoDuplicates, Distinct, Held
    <1> HIDE DEF l
    <1>2. found \in Seq(Item) /\ Len(found) = Len(l) /\ Len(l) > 0 /\ found[1].id = id
        BY <1>1, FoundFacts
    <1> HIDE DEF found
    <1> DEFINE front == [found[1] EXCEPT !.data.Metadata = m]
    <1>5. /\ front \in Item /\ front.id = found[1].id
          /\ front.data.MetricData = found[1].data.MetricData
        <2>1. found[1] \in Item
            BY <1>2
        <2> QED
            BY <2>1 DEF Item
    <1>6. /\ ReplaceFront(found, m, size) \in Seq(Item)
          /\ Len(ReplaceFront(found, m, size)) = Len(found)
          /\ ReplaceFront(found, m, size)[1] = front
          /\ \A k \in 2..Len(found) : ReplaceFront(found, m, size)[k] = found[k]
        <2>1. size \in Nat \ {0} /\ Len(found) > 0 /\ Len(found) <= size /\ found \in Seq(Item)
            BY <1>1, <1>2, CacheAssumption
        <2>2. [found[1] EXCEPT !.data.Metadata = m] \in Item
            BY <1>5
        <2> QED
            BY <2>1, <2>2, ReplaceFrontFacts
    <1> HIDE DEF front
    <1>3. /\ ReplaceFront(found, m, size) \in Seq(Item)
          /\ Len(ReplaceFront(found, m, size)) = Len(found)
          /\ ReplaceFront(found, m, size)[1].id = found[1].id
          /\ ReplaceFront(found, m, size)[1].data.MetricData = found[1].data.MetricData
          /\ \A k \in 2..Len(found) : ReplaceFront(found, m, size)[k] = found[k]
        BY <1>5, <1>6
    <1>4. /\ list' \in Seq(Item) /\ Len(list') = Len(l)
          /\ list'[1].id = id
          /\ list'[1].data.MetricData = found[1].data.MetricData
          /\ \A k \in 2..Len(l) : list'[k] = found[k]
        BY <1>1, <1>2, <1>3
    <1> QED
        BY <1>4 DEF found, l

\* The list after find alone.
LEMMA FoundListFacts ==
    ASSUME IInv, NEW id \in Jobs, id \in Held, list' = Found(list, id)
    PROVE  /\ list' \in Seq(Item) /\ Len(list') = Len(list)
           /\ list'[1].id = id
           /\ \A k \in 2..Len(list) : list'[k] = Found(list, id)[k]
    <1> DEFINE l == list
               found == Found(l, id)
    <1>1. l \in Seq(Item) /\ Distinct(l) /\ id \in IdsOf(l) /\ list' = found
        BY DEF IInv, TypeOK, NoDuplicates, Distinct, Held
    <1> HIDE DEF l
    <1>2. found \in Seq(Item) /\ Len(found) = Len(l) /\ found[1].id = id
        BY <1>1, FoundFacts
    <1> HIDE DEF found
    <1>3. /\ list' \in Seq(Item) /\ Len(list') = Len(l)
          /\ list'[1].id = id
          /\ \A k \in 2..Len(l) : list'[k] = found[k]
        BY <1>1, <1>2
    <1> QED
        BY <1>3 DEF found, l

LEMMA InvStep == IInv /\ [Next]_vars => IInv'
    <1> SUFFICES ASSUME IInv, [Next]_vars
                 PROVE  IInv'
        OBVIOUS
    <1>1. CASE UNCHANGED vars
        BY <1>1 DEF vars, IInv, TypeOK, NoDuplicates, HoldsMostRecentlyUsed, Held
    <1>2. ASSUME NEW id \in Jobs, GetHit(id)
          PROVE  IInv'
        BY <1>2, FoundListFacts, HitStep DEF GetHit
    <1>3. ASSUME NEW id \in Jobs, NEW data \in [Metadata : Metadata, MetricData : MetricData],
                 GetMiss(id, data)
          PROVE  IInv'
        <2> DEFINE item == [id |-> id, data |-> data]
        <2>1. item \in Item /\ item.id = id
            BY DEF Item
        <2>2. id \notin Held /\ Use(id) /\ list' = Put(list, item, size)
            BY <1>3 DEF GetMiss
        <2> HIDE DEF item
        <2> QED
            BY <2>1, <2>2, MissStep
    <1>4. ASSUME NEW id \in Jobs, NEW m \in Metadata, UpdateJob(id, m)
          PROVE  IInv'
        BY <1>4, UpdateFacts, HitStep DEF UpdateJob
    <1>5. ASSUME NEW id \in Jobs, UpdateJobFails(id)
          PROVE  IInv'
        BY <1>5, FoundListFacts, HitStep DEF UpdateJobFails
    <1> QED
        BY <1>1, <1>2, <1>3, <1>4, <1>5 DEF Next

\* The invariant holds of every state of the cache.
THEOREM Invariance == Spec => []IInv
    BY InvInit, InvStep, PTL DEF Spec

\* The list holds items, never outgrows CacheSize and holds no job twice, for every
\* size and all jobs.
THEOREM InvCorrect == Spec => []Inv
    <1>1. IInv => Inv
        BY DEF IInv, Inv
    <1> QED
        BY <1>1, Invariance, PTL

\* What the cache holds is what was used last, in that order.
THEOREM LRUCorrect == Spec => []HoldsMostRecentlyUsed
    <1>1. IInv => HoldsMostRecentlyUsed
        BY DEF IInv
    <1> QED
        BY <1>1, Invariance, PTL

---------------------------------------------------------------------------
(* Metric data *)

\* The data of an id are those of its one item.
LEMMA DataFacts ==
    ASSUME NEW l \in Seq(Item), Distinct(l), NEW k \in 1..Len(l)
    PROVE  DataOf(l, l[k].id) = l[k].data
    <1> DEFINE id == l[k].id
               m == CHOOSE n \in 1..Len(l) : l[n].id = id
    <1>1. m \in 1..Len(l) /\ l[m].id = id
        OBVIOUS
    <1>2. m = k
        BY <1>1 DEF Distinct
    <1>3. DataOf(l, id) = l[m].data
        BY DEF DataOf
    <1> QED
        BY <1>2, <1>3

\* l and n agree on the metric data of what both hold, and on all data but the front's.
KeepsData(l, n) ==
    \A id \in IdsOf(l) \cap IdsOf(n) :
        /\ DataOf(n, id).MetricData = DataOf(l, id).MetricData
        /\ n[1].id # id => DataOf(n, id) = DataOf(l, id)

\* It is so when all items but the first come from the old list.
LEMMA KeepsDataFacts ==
    ASSUME NEW l \in Seq(Item), Distinct(l), NEW n \in Seq(Item), Distinct(n), Len(n) > 0,
           \A k \in 2..Len(n) : \E p \in 1..Len(l) : n[k] = l[p],
           n[1].id \in IdsOf(l) => \E p \in 1..Len(l) :
               l[p].id = n[1].id /\ l[p].data.MetricData = n[1].data.MetricData
    PROVE  KeepsData(l, n)
    <1> SUFFICES ASSUME NEW id \in IdsOf(l) \cap IdsOf(n)
                 PROVE  /\ DataOf(n, id).MetricData = DataOf(l, id).MetricData
                        /\ n[1].id # id => DataOf(n, id) = DataOf(l, id)
        BY DEF KeepsData
    <1>1. PICK k \in 1..Len(n) : n[k].id = id
        BY DEF IdsOf
    <1>2. DataOf(n, id) = n[k].data
        BY <1>1, DataFacts
    <1>3. CASE k = 1
        <2>1. PICK p \in 1..Len(l) : l[p].id = id /\ l[p].data.MetricData = n[1].data.MetricData
            BY <1>1, <1>3
        <2>2. DataOf(l, id) = l[p].data
            BY <2>1, DataFacts
        <2> QED
            BY <1>1, <1>2, <1>3, <2>1, <2>2
    <1>4. CASE k # 1
        <2>1. PICK p \in 1..Len(l) : n[k] = l[p]
            BY <1>4
        <2>2. DataOf(l, id) = l[p].data
            BY <1>1, <2>1, DataFacts
        <2> QED
            BY <1>2, <2>1, <2>2
    <1> QED
        BY <1>3, <1>4

LEMMA KeepsStep == IInv /\ IInv' /\ [Next]_vars => KeepsData(list, list')
    <1> SUFFICES ASSUME IInv, IInv', [Next]_vars
                 PROVE  KeepsData(list, list')
        OBVIOUS
    <1> DEFINE l == list
               n == list'
    <1>1. /\ l \in Seq(Item) /\ Distinct(l) /\ Len(l) <= size /\ Held = IdsOf(l)
          /\ n \in Seq(Item) /\ Distinct(n)
        BY DEF IInv, TypeOK, NoDuplicates, Distinct, Held
    <1>2. CASE UNCHANGED vars
        BY <1>2 DEF vars, KeepsData
    <1>3. ASSUME NEW id \in Jobs, id \in Held, Len(n) = Len(l),
                 n[1].id = id, n[1].data.MetricData = Found(l, id)[1].data.MetricData,
                 \A k \in 2..Len(l) : n[k] = Found(l, id)[k]
          PROVE  KeepsData(l, n)
        <2> HIDE DEF l, n
        <2> DEFINE found == Found(l, id)
        <2>1. Len(l) > 0 /\ \A k \in 1..Len(l) : \E p \in 1..Len(l) : found[k] = l[p]
            BY <1>1, <1>3, FoundItems
        <2>2. found[1].id = id
            BY <1>1, <1>3, FoundFacts
        <2> HIDE DEF found
        <2>3. 1 \in 1..Len(l)
            BY <1>1, <2>1
        <2>4. PICK p \in 1..Len(l) : found[1] = l[p]
            BY <2>1, <2>3
        <2>5. \A k \in 2..Len(n) : \E q \in 1..Len(l) : n[k] = l[q]
            <3> SUFFICES ASSUME NEW k \in 2..Len(n) PROVE \E q \in 1..Len(l) : n[k] = l[q]
                OBVIOUS
            <3>1. k \in 2..Len(l) /\ k \in 1..Len(l) /\ n[k] = found[k]
                BY <1>3 DEF found
            <3> QED
                BY <2>1, <3>1
        <2>6. l[p].id = n[1].id /\ l[p].data.MetricData = n[1].data.MetricData
            BY <1>3, <2>2, <2>4 DEF found
        <2> QED
            BY <1>1, <1>3, <2>1, <2>5, <2>6, KeepsDataFacts
    <1>4. ASSUME NEW id \in Jobs, GetHit(id) \/ UpdateJobFails(id)
          PROVE  KeepsData(l, n)
        <2>1. id \in Held /\ n = Found(l, id)
            BY <1>4 DEF GetHit, UpdateJobFails
        <2>2. Len(n) = Len(l) /\ n[1].id = id
            BY <2>1, FoundListFacts
        <2> QED
            BY <1>3, <2>1, <2>2
    <1>5. ASSUME NEW id \in Jobs, NEW m \in Metadata, UpdateJob(id, m)
          PROVE  KeepsData(l, n)
        <2>1. id \in Held /\ n = ReplaceFront(Found(l, id), m, size)
            BY <1>5 DEF UpdateJob
        <2> QED
            BY <1>3, <2>1, UpdateFacts
    <1>6. ASSUME NEW id \in Jobs, NEW data \in [Metadata : Metadata, MetricData : MetricData],
                 GetMiss(id, data)
          PROVE  KeepsData(l, n)
        <2> DEFINE item == [id |-> id, data |-> data]
        <2>1. item \in Item /\ item.id = id
            BY DEF Item
        <2>2. id \notin IdsOf(l) /\ n = Put(l, item, size)
            BY <1>1, <1>6 DEF GetMiss
        <2> HIDE DEF item, l, n
        <2>3. n[1].id = id /\ \A k \in 2..Len(n) : n[k] = l[k - 1]
            BY <1>1, <2>1, <2>2, PutFacts, CacheAssumption
        <2>4. Len(n) > 0 /\ Len(n) <= Len(l) + 1
            BY <1>1, <2>1, <2>2, PutFacts, CacheAssumption
        <2>5. \A k \in 2..Len(n) : \E p \in 1..Len(l) : n[k] = l[p]
            <3> SUFFICES ASSUME NEW k \in 2..Len(n) PROVE \E p \in 1..Len(l) : n[k] = l[p]
                OBVIOUS
            <3>1. k - 1 \in 1..Len(l) /\ n[k] = l[k - 1]
                BY <1>1, <2>3, <2>4
            <3> QED
                BY <3>1
        <2> QED
            BY <1>1, <2>2, <2>3, <2>4, <2>5, KeepsDataFacts
    <1> QED
        BY <1>2, <1>4, <1>5, <1>6 DEF Next

\* UpdateJob exchanges the metadata of its job and nothing else; no call mixes up data.
THEOREM KeepsMetricDataCorrect == Spec => KeepsMetricData
    <1>1. KeepsData(list, list') =>
              \A id \in Held \cap IdsOf(list') :
                  /\ DataOf(list', id).MetricData = DataOf(list, id).MetricData
                  /\ list'[1].id # id => DataOf(list', id) = DataOf(list, id)
        BY DEF KeepsData, Held
    <1> QED
        BY <1>1, KeepsStep, Invariance, PTL DEF Spec, KeepsMetricData

===========================================================================
