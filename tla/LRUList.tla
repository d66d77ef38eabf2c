------------------------------ MODULE LRUList ------------------------------
(***************************************************************************)
(* The doubly linked list of lru_cache.go: items with an id, the most      *)
(* recently used first. MoveToFront, PushFront and RemoveBack are those of *)
(* Go's container/list; Find and Put are the private methods find and put. *)
(* A Go list is a sequence here; Tail removes its front.                   *)
(***************************************************************************)
EXTENDS Naturals, Sequences

PushFront(l, item) ==
    [k \in 1..Len(l) + 1 |-> IF k = 1 THEN item ELSE l[k - 1]]

RemoveBack(l) == [k \in 1..Len(l) - 1 |-> l[k]]

MoveToFront(l, i) ==
    [k \in 1..Len(l) |-> IF k = 1 THEN l[i]
                            ELSE IF k <= i THEN l[k - 1] ELSE l[k]]

IdsOf(l) == {l[k].id : k \in 1..Len(l)}

\* The position at which find stops; the loop runs from the front.
Find(l, id) ==
    CHOOSE k \in 1..Len(l) :
        l[k].id = id /\ \A m \in 1..k - 1 : l[m].id # id

\* Mutant of Found: find leaves the list alone.
FoundInPlace(l, id) == l

\* The list after find found the id.
Found(l, id) == MoveToFront(l, Find(l, id))

\* A full cache gives up the item at the back first.
Put(l, item, size) ==
    PushFront(IF Len(l) >= size THEN RemoveBack(l) ELSE l, item)

\* Mutants of ReplaceFront: the back is removed instead of the front, or the metric
\* data is that of the back.
ReplaceBack(l, metadata, size) ==
    Put(RemoveBack(l), [l[1] EXCEPT !.data.Metadata = metadata], size)

ReplaceFrontByBack(l, metadata, size) ==
    Put(Tail(l), [l[1] EXCEPT !.data = [@ EXCEPT !.Metadata = metadata,
                                                 !.MetricData = l[Len(l)].data.MetricData]], size)

\* The front, where find left it, is replaced by an item with other metadata.
ReplaceFront(l, metadata, size) ==
    Put(Tail(l), [l[1] EXCEPT !.data.Metadata = metadata], size)

===========================================================================
