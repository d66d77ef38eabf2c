--------------------------- MODULE LRUList_proofs ---------------------------
(***************************************************************************)
(* What the list operations of the cache return, for lists of any items    *)
(* that have an id.                                                        *)
(***************************************************************************)
EXTENDS LRUList, TLAPS

LEMMA PushFrontFacts ==
    ASSUME NEW S, NEW l \in Seq(S), NEW x \in S
    PROVE  /\ PushFront(l, x) \in Seq(S)
           /\ Len(PushFront(l, x)) = Len(l) + 1
           /\ PushFront(l, x)[1] = x
           /\ \A k \in 2..Len(l) + 1 : PushFront(l, x)[k] = l[k - 1]
    BY DEF PushFront

LEMMA RemoveBackFacts ==
    ASSUME NEW S, NEW l \in Seq(S), Len(l) > 0
    PROVE  /\ RemoveBack(l) \in Seq(S)
           /\ Len(RemoveBack(l)) = Len(l) - 1
           /\ \A k \in 1..Len(l) - 1 : RemoveBack(l)[k] = l[k]
    BY DEF RemoveBack

LEMMA MoveToFrontFacts ==
    ASSUME NEW S, NEW l \in Seq(S), NEW i \in 1..Len(l)
    PROVE  /\ MoveToFront(l, i) \in Seq(S)
           /\ Len(MoveToFront(l, i)) = Len(l)
           /\ MoveToFront(l, i)[1] = l[i]
           /\ \A k \in 2..i : MoveToFront(l, i)[k] = l[k - 1]
           /\ \A k \in i + 1..Len(l) : MoveToFront(l, i)[k] = l[k]
    BY DEF MoveToFront

LEMMA TailFacts ==
    ASSUME NEW S, NEW l \in Seq(S), Len(l) > 0
    PROVE  /\ Tail(l) \in Seq(S)
           /\ Len(Tail(l)) = Len(l) - 1
           /\ \A k \in 1..Len(l) - 1 : Tail(l)[k] = l[k + 1]
    OBVIOUS

\* A list without two items of one id.
Distinct(l) == \A k, m \in 1..Len(l) : l[k].id = l[m].id => k = m

\* In such a list find stops at the one item with the id.
LEMMA FindFacts ==
    ASSUME NEW S, NEW l \in Seq(S), Distinct(l), NEW id \in IdsOf(l)
    PROVE  Find(l, id) \in 1..Len(l) /\ l[Find(l, id)].id = id
    <1>1. PICK k \in 1..Len(l) : l[k].id = id
        BY DEF IdsOf
    <1>2. \A m \in 1..k - 1 : l[m].id # id
        BY <1>1 DEF Distinct
    <1> QED
        BY <1>1, <1>2 DEF Find

\* find keeps the ids and the order of all others, and moves the id to the front.
LEMMA FoundFacts ==
    ASSUME NEW S, NEW l \in Seq(S), Distinct(l), NEW id \in IdsOf(l)
    PROVE  /\ Found(l, id) \in Seq(S)
           /\ Len(Found(l, id)) = Len(l) /\ Len(l) > 0
           /\ Distinct(Found(l, id))
           /\ IdsOf(Found(l, id)) = IdsOf(l)
           /\ Found(l, id)[1].id = id
           /\ \A k, m \in 2..Len(l) : k < m =>
                 \E p, q \in 1..Len(l) : /\ p < q
                                        /\ l[p].id # id /\ l[q].id # id
                                        /\ Found(l, id)[k] = l[p] /\ Found(l, id)[m] = l[q]
    <1> DEFINE i == Find(l, id)
               moved == MoveToFront(l, i)
               Source(k) == IF k = 1 THEN i ELSE IF k <= i THEN k - 1 ELSE k
    <1>1. i \in 1..Len(l) /\ l[i].id = id
        BY FindFacts
    <1> HIDE DEF i
    <1>2. /\ moved \in Seq(S)
          /\ Len(moved) = Len(l) /\ Len(l) > 0
          /\ \A k \in 1..Len(l) : moved[k] = l[Source(k)]
        BY <1>1, MoveToFrontFacts
    <1>3. /\ \A k \in 1..Len(l) : Source(k) \in 1..Len(l)
          /\ \A k, m \in 1..Len(l) : Source(k) = Source(m) => k = m
          /\ \A p \in 1..Len(l) : \E k \in 1..Len(l) : Source(k) = p
          /\ \A k, m \in 2..Len(l) : k < m => Source(k) < Source(m) /\ Source(k) # i /\ Source(m) # i
        <2>0. Len(l) \in Nat
            OBVIOUS
        <2>1. ASSUME NEW p \in 1..Len(l)
              PROVE  \E k \in 1..Len(l) : Source(k) = p
            <3>1. CASE p < i
                <4>1. p + 1 \in 1..Len(l) /\ Source(p + 1) = p
                    BY <1>1, <2>0, <3>1
                <4> QED
                    BY <4>1
            <3>2. CASE p = i
                <4>1. 1 \in 1..Len(l) /\ Source(1) = p
                    BY <1>1, <2>0, <3>2
                <4> QED
                    BY <4>1
            <3>3. CASE p > i
                <4>1. Source(p) = p
                    BY <1>1, <2>0, <3>3
                <4> QED
                    BY <4>1
            <3> QED
                BY <1>1, <2>0, <3>1, <3>2, <3>3
        <2>2. \A k \in 1..Len(l) : Source(k) \in 1..Len(l)
            BY <1>1, <2>0
        <2>3. \A k, m \in 1..Len(l) : Source(k) = Source(m) => k = m
            BY <1>1, <2>0
        <2>4. \A k, m \in 2..Len(l) : k < m => Source(k) < Source(m) /\ Source(k) # i /\ Source(m) # i
            BY <1>1, <2>0
        <2> QED
            BY <2>1, <2>2, <2>3, <2>4
    <1> HIDE DEF Source, moved
    <1>4. Distinct(moved)
        <2> SUFFICES ASSUME NEW k \in 1..Len(moved), NEW m \in 1..Len(moved),
                            moved[k].id = moved[m].id
                     PROVE  k = m
            BY DEF Distinct
        <2>1. k \in 1..Len(l) /\ m \in 1..Len(l)
            BY <1>2
        <2>2. l[Source(k)].id = l[Source(m)].id
            BY <1>2, <2>1
        <2>3. Source(k) = Source(m)
            BY <1>3, <2>1, <2>2 DEF Distinct
        <2> QED
            BY <1>3, <2>1, <2>3
    <1>5. IdsOf(moved) = IdsOf(l)
        <2>1. IdsOf(moved) \subseteq IdsOf(l)
            <3> SUFFICES ASSUME NEW k \in 1..Len(l)
                         PROVE  moved[k].id \in IdsOf(l)
                BY <1>2 DEF IdsOf
            <3>1. moved[k].id = l[Source(k)].id /\ Source(k) \in 1..Len(l)
                BY <1>2, <1>3
            <3> QED
                BY <3>1 DEF IdsOf
        <2>2. IdsOf(l) \subseteq IdsOf(moved)
            <3> SUFFICES ASSUME NEW p \in 1..Len(l)
                         PROVE  l[p].id \in IdsOf(moved)
                BY DEF IdsOf
            <3>1. PICK k \in 1..Len(l) : Source(k) = p
                BY <1>3
            <3> QED
                BY <1>2, <3>1 DEF IdsOf
        <2> QED
            BY <2>1, <2>2
    <1>6. moved[1].id = id
        BY <1>1, <1>2 DEF Source
    <1>7. \A k, m \in 2..Len(l) : k < m =>
             \E p, q \in 1..Len(l) : /\ p < q
                                    /\ l[p].id # id /\ l[q].id # id
                                    /\ moved[k] = l[p] /\ moved[m] = l[q]
        <2> SUFFICES ASSUME NEW k \in 2..Len(l), NEW m \in 2..Len(l), k < m
                     PROVE  \E p, q \in 1..Len(l) : /\ p < q
                                                   /\ l[p].id # id /\ l[q].id # id
                                                   /\ moved[k] = l[p] /\ moved[m] = l[q]
            OBVIOUS
        <2>1. k \in 1..Len(l) /\ m \in 1..Len(l)
            OBVIOUS
        <2>2. l[Source(k)].id # id /\ l[Source(m)].id # id
            BY <1>1, <1>3, <2>1 DEF Distinct
        <2>3. Source(k) \in 1..Len(l) /\ Source(m) \in 1..Len(l) /\ Source(k) < Source(m)
            BY <1>3, <2>1
        <2>4. moved[k] = l[Source(k)] /\ moved[m] = l[Source(m)]
            BY <1>2, <2>1
        <2> QED
            BY <2>2, <2>3, <2>4
    <1> QED
        BY <1>2, <1>4, <1>5, <1>6, <1>7 DEF Found, moved, i

\* A new item goes to the front, and the item at the back leaves a full cache.
LEMMA PutFacts ==
    ASSUME NEW size \in Nat \ {0}, NEW S, NEW l \in Seq(S), Distinct(l), Len(l) <= size,
           NEW item \in S, item.id \notin IdsOf(l)
    PROVE  /\ Put(l, item, size) \in Seq(S)
           /\ Distinct(Put(l, item, size))
           /\ Put(l, item, size)[1] = item
           /\ \A k \in 2..Len(Put(l, item, size)) : Put(l, item, size)[k] = l[k - 1]
           /\ Len(l) < size => Len(Put(l, item, size)) = Len(l) + 1
           /\ Len(l) = size => Len(Put(l, item, size)) = size
    <1> DEFINE kept == IF Len(l) >= size THEN RemoveBack(l) ELSE l
    <1>1. /\ kept \in Seq(S)
          /\ Len(kept) <= Len(l)
          /\ \A k \in 1..Len(kept) : kept[k] = l[k]
          /\ Len(l) < size => Len(kept) = Len(l)
          /\ Len(l) = size => Len(kept) = size - 1
        <2>1. CASE Len(l) >= size
            BY <2>1, RemoveBackFacts
        <2>2. CASE Len(l) < size
            BY <2>2
        <2> QED
            BY <2>1, <2>2
    <1> HIDE DEF kept
    <1>2. /\ PushFront(kept, item) \in Seq(S)
          /\ Len(PushFront(kept, item)) = Len(kept) + 1
          /\ PushFront(kept, item)[1] = item
          /\ \A k \in 2..Len(kept) + 1 : PushFront(kept, item)[k] = l[k - 1]
        BY <1>1, PushFrontFacts
    <1>3. Distinct(PushFront(kept, item))
        <2> DEFINE new == PushFront(kept, item)
        <2>0. \A k \in 1..Len(kept) : l[k].id # item.id
            BY <1>1 DEF IdsOf
        <2>1. \A k \in 2..Len(new) : k - 1 \in 1..Len(kept) /\ new[k] = l[k - 1]
            BY <1>1, <1>2
        <2>2. /\ \A k \in 2..Len(new) : new[k].id # item.id
              /\ \A k, m \in 2..Len(new) : new[k].id = new[m].id => k = m
            <3>1. \A k \in 2..Len(new) : new[k].id # item.id
                BY <2>0, <2>1
            <3>2. ASSUME NEW k \in 2..Len(new), NEW m \in 2..Len(new), new[k].id = new[m].id
                  PROVE  k = m
                <4>1. l[k - 1].id = l[m - 1].id /\ k - 1 \in 1..Len(l) /\ m - 1 \in 1..Len(l)
                    BY <1>1, <2>1, <3>2
                <4> QED
                    BY <4>1 DEF Distinct
            <3> QED
                BY <3>1, <3>2
        <2> HIDE DEF new
        <2>3. new[1] = item
            BY <1>2 DEF new
        <2>4. Distinct(new)
            BY <2>2, <2>3 DEF Distinct
        <2> QED
            BY <2>4 DEF new
    <1> QED
        BY <1>1, <1>2, <1>3 DEF Put, kept

\* Another item in the place of the front.
LEMMA ExchangeFacts ==
    ASSUME NEW S, NEW l \in Seq(S), Len(l) > 0, NEW front \in S
    PROVE  /\ PushFront(Tail(l), front) \in Seq(S)
           /\ Len(PushFront(Tail(l), front)) = Len(l)
           /\ PushFront(Tail(l), front)[1] = front
           /\ \A k \in 2..Len(l) : PushFront(Tail(l), front)[k] = l[k]
    <1>1. /\ Tail(l) \in Seq(S) /\ Len(Tail(l)) = Len(l) - 1
          /\ \A k \in 1..Len(l) - 1 : Tail(l)[k] = l[k + 1]
        BY TailFacts
    <1> DEFINE rest == Tail(l)
    <1>2. rest \in Seq(S)
        BY <1>1
    <1> HIDE DEF rest
    <1>3. /\ PushFront(rest, front) \in Seq(S)
          /\ Len(PushFront(rest, front)) = Len(rest) + 1
          /\ PushFront(rest, front)[1] = front
          /\ \A k \in 2..Len(rest) + 1 : PushFront(rest, front)[k] = rest[k - 1]
        BY <1>2, PushFrontFacts
    <1>4. ASSUME NEW k \in 2..Len(l)
          PROVE  rest[k - 1] = l[k]
        <2>1. k - 1 \in 1..Len(l) - 1 /\ (k - 1) + 1 = k
            OBVIOUS
        <2> QED
            BY <1>1, <2>1 DEF rest
    <1>5. Len(rest) = Len(l) - 1 /\ Len(l) \in Nat
        BY <1>1 DEF rest
    <1>6. /\ Len(PushFront(rest, front)) = Len(l)
          /\ \A k \in 2..Len(l) : PushFront(rest, front)[k] = l[k]
        BY <1>3, <1>4, <1>5
    <1> QED
        BY <1>3, <1>6 DEF rest

\* UpdateJob replaces the front in its place: nothing is evicted.
LEMMA ReplaceFrontFacts ==
    ASSUME NEW size \in Nat \ {0}, NEW S, NEW l \in Seq(S), Len(l) > 0, Len(l) <= size, NEW m,
           [l[1] EXCEPT !.data.Metadata = m] \in S
    PROVE  /\ ReplaceFront(l, m, size) \in Seq(S)
           /\ Len(ReplaceFront(l, m, size)) = Len(l)
           /\ ReplaceFront(l, m, size)[1] = [l[1] EXCEPT !.data.Metadata = m]
           /\ \A k \in 2..Len(l) : ReplaceFront(l, m, size)[k] = l[k]
    <1> DEFINE front == [l[1] EXCEPT !.data.Metadata = m]
    <1>1. front \in S
        OBVIOUS
    <1>2. ReplaceFront(l, m, size) = Put(Tail(l), front, size)
        BY DEF ReplaceFront
    <1> HIDE DEF front
    <1>3. Put(Tail(l), front, size) = PushFront(Tail(l), front)
        <2>1. Len(Tail(l)) < size
            BY TailFacts
        <2> QED
            BY <2>1 DEF Put
    <1>4. /\ PushFront(Tail(l), front) \in Seq(S)
          /\ Len(PushFront(Tail(l), front)) = Len(l)
          /\ PushFront(Tail(l), front)[1] = front
          /\ \A k \in 2..Len(l) : PushFront(Tail(l), front)[k] = l[k]
        BY <1>1, ExchangeFacts
    <1>5. /\ ReplaceFront(l, m, size) \in Seq(S)
          /\ Len(ReplaceFront(l, m, size)) = Len(l)
          /\ ReplaceFront(l, m, size)[1] = front
          /\ \A k \in 2..Len(l) : ReplaceFront(l, m, size)[k] = l[k]
        BY <1>2, <1>3, <1>4
    <1> QED
        BY <1>5 DEF front

\* What find leaves in the list was there before.
LEMMA FoundItems ==
    ASSUME NEW S, NEW l \in Seq(S), Distinct(l), NEW id \in IdsOf(l)
    PROVE  /\ Len(Found(l, id)) = Len(l) /\ Len(l) > 0
           /\ \A k \in 1..Len(l) : \E p \in 1..Len(l) : Found(l, id)[k] = l[p]
    <1> DEFINE i == Find(l, id)
    <1>1. i \in 1..Len(l)
        BY FindFacts
    <1>2. Found(l, id) = MoveToFront(l, i)
        BY DEF Found
    <1> HIDE DEF i
    <1>3. ASSUME NEW k \in 1..Len(l)
          PROVE  \E p \in 1..Len(l) : Found(l, id)[k] = l[p]
        <2>1. CASE k = 1
            BY <1>1, <1>2, <2>1 DEF MoveToFront
        <2>2. CASE k \in 2..i
            <3>1. k - 1 \in 1..Len(l) /\ Found(l, id)[k] = l[k - 1]
                BY <1>1, <1>2, <2>2 DEF MoveToFront
            <3> QED
                BY <3>1
        <2>3. CASE k > i
            BY <1>1, <1>2, <2>3 DEF MoveToFront
        <2> QED
            BY <1>1, <2>1, <2>2, <2>3
    <1> QED
        BY <1>1, <1>2, <1>3 DEF MoveToFront

===========================================================================
