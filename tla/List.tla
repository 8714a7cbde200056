-------------------------------- MODULE List --------------------------------
(***************************************************************************)
(* The doubly-linked list of EPOS (List in utility/list.h), pointer by     *)
(* pointer.  A list is a record: its head, its tail, its size and, of      *)
(* every element there is, in the list or not, the pointers prev and next. *)
(* A null pointer is 0.                                                    *)
(***************************************************************************)
EXTENDS Naturals, Sequences, FiniteSets, FiniteSetsExt

EmptyList(Element) ==
    [head |-> 0, tail |-> 0, size |-> 0,
     prev |-> [e \in Element |-> 0], next |-> [e \in Element |-> 0]]

InsertFirst(l, e) ==
    [l EXCEPT !.prev[e] = 0, !.next[e] = 0, !.head = e, !.tail = e, !.size = @ + 1]

InsertTail(l, e) ==
    IF l.size = 0 THEN InsertFirst(l, e)
    ELSE [l EXCEPT !.next = [@ EXCEPT ![l.tail] = e, ![e] = 0], !.prev[e] = l.tail, !.tail = e, !.size = @ + 1]

RemoveLast(l) == [l EXCEPT !.head = 0, !.tail = 0, !.size = @ - 1]

RemoveHead(l) ==
    IF l.size = 0 THEN l
    ELSE IF l.size = 1 THEN RemoveLast(l)
    ELSE [l EXCEPT !.head = l.next[@], !.prev[l.next[l.head]] = 0, !.size = @ - 1]

(* A slip: the new tail keeps its next.                                      *)
RemoveTailLoose(l) ==
    IF l.size = 0 THEN l
    ELSE IF l.size = 1 THEN RemoveLast(l)
    ELSE [l EXCEPT !.tail = l.prev[@], !.size = @ - 1]

RemoveTail(l) ==
    IF l.size = 0 THEN l
    ELSE IF l.size = 1 THEN RemoveLast(l)
    ELSE [l EXCEPT !.tail = l.prev[@], !.next[l.prev[l.tail]] = 0, !.size = @ - 1]

Remove(l, e) ==
    IF l.size = 1 THEN RemoveLast(l)
    ELSE IF l.prev[e] = 0 THEN RemoveHead(l)
    ELSE IF l.next[e] = 0 THEN RemoveTail(l)
    ELSE [l EXCEPT !.next[l.prev[e]] = l.next[e], !.prev[l.next[e]] = l.prev[e], !.size = @ - 1]

(* The elements met from the head on, in order: what an iterator or a search *)
(* sees.  A walk longer than there are elements goes round in a circle.      *)
Walk(l) ==
    LET n == Cardinality(DOMAIN l.next)
        at[k \in 0 .. n] == IF k = 0 THEN l.head ELSE IF at[k - 1] = 0 THEN 0 ELSE l.next[at[k - 1]]
    IN  [k \in 1 .. Min({i \in 0 .. n : i = n \/ at[i] = 0}) |-> at[k - 1]]

(* The first element of a kind, 0 if there is none.                          *)
First(l, S) ==
    LET w == Walk(l)
        hits == {i \in DOMAIN w : w[i] \in S}
    IN  IF hits = {} THEN 0 ELSE w[Min(hits)]
=============================================================================
