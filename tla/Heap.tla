-------------------------------- MODULE Heap --------------------------------
(***************************************************************************)
(* The heap of EPOS (utility/heap.h): a Grouping_List of free blocks whose *)
(* elements live in the free memory itself, first-fit allocation from the  *)
(* end of a block, and merging with both neighbours on free().             *)
(*                                                                         *)
(* Memory is counted in cells; cell numbers are addresses.  A flow is a    *)
(* thread or a handler.  An operation is broken where another flow may     *)
(* come between what it has read of the list and what it does with it:     *)
(* after the search of alloc() and after the searches of insert_merging(). *)
(***************************************************************************)
EXTENDS Integers, Sequences, FiniteSets, FiniteSetsExt, List

CONSTANTS
    Flow,        \* threads and handlers that use the heap
    Cells,       \* bytes of the heap
    ELEMENT,     \* sizeof(Element)
    WORD,        \* sizeof(long), the room for the size of a block
    Requests,    \* sizes asked for
    MULTICORE,   \* Traits<System>::multicore: Atomic_Heap instead of Heap_Base
    Calls,       \* which of "alloc", "free" and "delete" are called
    NoFlow

ASSUME HeapAssumption ==
    /\ Cells \in Nat /\ ELEMENT \in Nat \ {0} /\ WORD \in Nat /\ ELEMENT <= Cells
    /\ Requests \subseteq Nat
    /\ MULTICORE \in BOOLEAN
    /\ NoFlow \notin Flow

Address == 1 .. Cells

VARIABLES
    list,       \* the Grouping_List: head, tail, size, and the elements' pointers
    room,       \* the elements' size()
    grouped,    \* _grouped_size
    blocks,     \* what the program holds: [at, bytes]
    holder,     \* who has Atomic_Heap's _lock
    act          \* where each flow is

vars == <<list, room, grouped, blocks, holder, act>>

Idle == [pc |-> "idle", e |-> 0, bytes |-> 0, r |-> 0, l |-> 0]

-----------------------------------------------------------------------------
(* A slip: what is left of a block need not hold an element.                 *)
FitsTight(e, s) == room[e] >= s

(* search_size(): a block of exactly that size, or one with an element's     *)
(* room to spare.                                                            *)
Fits(e, s) == room[e] = s \/ room[e] >= ELEMENT + s
SearchSize(s) == First(list, {e \in Address : Fits(e, s)})

(* A slip: the right neighbour is never found.                               *)
SearchRightNone(a) == 0

(* search() for the block that starts at an address, search_left() for the   *)
(* one that ends there.                                                      *)
SearchRight(a) == First(list, {a})
SearchLeft(a) == First(list, {e \in Address : e + room[e] = a})

(* What alloc() asks of the list for a request, which is rounded to words    *)
(* where the machine wants it (Requests): room for the size, and never       *)
(* less than an element, for the block must hold one when it is freed.       *)
Padded(bytes) == Max({bytes + WORD, ELEMENT})

(* An element out of the list that no other flow is about to use is memory   *)
(* like any other: nothing reads its fields before free() makes an element   *)
(* there again, and the model keeps none.                                    *)
Live(f, l) == {Walk(l)[i] : i \in DOMAIN Walk(l)} \cup (UNION {{act[g].e, act[g].r, act[g].l} : g \in Flow \ {f}})
TidyList(f, l) ==
    [l EXCEPT !.prev = [a \in Address |-> IF a \in Live(f, l) THEN @[a] ELSE 0],
              !.next = [a \in Address |-> IF a \in Live(f, l) THEN @[a] ELSE 0]]
TidyRoom(f, l, n) == [a \in Address |-> IF a \in Live(f, l) THEN n[a] ELSE 0]

-----------------------------------------------------------------------------
(* Atomic_Heap::enter() and leave(); Heap_Base has no lock.                  *)
Enter(f) == IF MULTICORE THEN holder = NoFlow /\ holder' = f ELSE UNCHANGED holder
Leave(f) == IF MULTICORE THEN holder' = NoFlow ELSE UNCHANGED holder

At(f, l) == act[f].pc = l

(* alloc(): enter and search; nothing fits: 0 is returned.                   *)
Alloc(f) ==
    \E bytes \in Requests \ {0} :
        /\ "alloc" \in Calls
        /\ At(f, "idle")
        /\ Enter(f)
        /\ act' = [act EXCEPT ![f] = [Idle EXCEPT !.pc = "take", !.e = SearchSize(Padded(bytes)), !.bytes = Padded(bytes)]]
        /\ UNCHANGED <<list, room, grouped, blocks>>

OutOfMemory(f) ==
    /\ At(f, "take") /\ act[f].e = 0
    /\ Leave(f)
    /\ act' = [act EXCEPT ![f] = Idle]
    /\ UNCHANGED <<list, room, grouped, blocks>>

(* A slip: the address is computed from the size before it shrinks.          *)
TakeBeyond(f) ==
    LET e == act[f].e
        s == act[f].bytes
        rest == IF room[e] = s THEN Remove(list, e) ELSE list
    IN  /\ At(f, "take") /\ e # 0
        /\ room' = TidyRoom(f, rest, [room EXCEPT ![e] = @ - s])
        /\ grouped' = grouped - s
        /\ list' = TidyList(f, rest)
        /\ blocks' = blocks \cup {[at |-> e + room[e], bytes |-> s]}
        /\ Leave(f)
        /\ act' = [act EXCEPT ![f] = Idle]

(* search_decrementing(): the end of the element is the new block; an        *)
(* element that is used up leaves the list.                                  *)
Take(f) ==
    LET e == act[f].e
        s == act[f].bytes
        rest == IF room[e] = s THEN Remove(list, e) ELSE list
    IN  /\ At(f, "take") /\ e # 0
        /\ room' = TidyRoom(f, rest, [room EXCEPT ![e] = @ - s])
        /\ grouped' = grouped - s
        /\ list' = TidyList(f, rest)
        /\ blocks' = blocks \cup {[at |-> e + room[e] - s, bytes |-> s]}
        /\ Leave(f)
        /\ act' = [act EXCEPT ![f] = Idle]

(* insert_merging(), first part: the block becomes an element, is counted,   *)
(* its neighbours are searched for; without a left one it is linked.  free() *)
(* ignores what cannot hold an element.                                      *)
InsertMerging(f, b) ==
    LET l == SearchLeft(b.at)
    IN  /\ b.bytes >= ELEMENT
        /\ blocks' = blocks \ {b}
        /\ room' = [room EXCEPT ![b.at] = b.bytes]
        /\ grouped' = grouped + b.bytes
        /\ list' = IF l = 0 THEN InsertTail(list, b.at) ELSE list
        /\ act' = [act EXCEPT ![f] = [Idle EXCEPT !.pc = "right", !.e = b.at, !.r = SearchRight(b.at + b.bytes), !.l = l]]

(* Atomic_Heap::free(), under the lock.                                      *)
Free(f) ==
    \E b \in blocks :
        /\ "free" \in Calls
        /\ At(f, "idle")
        /\ Enter(f)
        /\ InsertMerging(f, b)

(* delete and ::free(): typed_free() and untyped_free() have a Heap_Base,    *)
(* whose free() is not virtual and knows no lock.                            *)
Delete(f) ==
    \E b \in blocks :
        /\ "delete" \in Calls
        /\ At(f, "idle")
        /\ InsertMerging(f, b)
        /\ UNCHANGED holder

(* A slip: the block is not added to the left neighbour.                     *)
MergeLeftDropped(f) ==
    /\ At(f, "left")
    /\ room' = TidyRoom(f, list, room)
    /\ list' = TidyList(f, list)
    /\ IF holder = f THEN Leave(f) ELSE UNCHANGED holder
    /\ act' = [act EXCEPT ![f] = Idle]
    /\ UNCHANGED <<grouped, blocks>>

(* insert_merging(), second part: the right neighbour is taken in, then all  *)
(* goes to the left one.                                                     *)
MergeRight(f) ==
    LET e == act[f].e
        r == act[f].r
    IN  /\ At(f, "right")
        /\ room' = IF r = 0 THEN room ELSE [room EXCEPT ![e] = @ + room[r]]
        /\ list' = IF r = 0 THEN list ELSE Remove(list, r)
        /\ act' = [act EXCEPT ![f].pc = "left"]
        /\ UNCHANGED <<grouped, blocks, holder>>

MergeLeft(f) ==
    LET e == act[f].e
        l == act[f].l
    IN  /\ At(f, "left")
        /\ room' = TidyRoom(f, list, IF l = 0 THEN room ELSE [room EXCEPT ![l] = @ + room[e]])
        /\ list' = TidyList(f, list)
        /\ IF holder = f THEN Leave(f) ELSE UNCHANGED holder
        /\ act' = [act EXCEPT ![f] = Idle]
        /\ UNCHANGED <<grouped, blocks>>

-----------------------------------------------------------------------------
(* The heap as Heap_Base(addr, bytes) leaves it: one free block.             *)
Init ==
    /\ list = InsertTail(EmptyList(Address), 1)
    /\ room = [a \in Address |-> IF a = 1 THEN Cells ELSE 0]
    /\ grouped = Cells
    /\ blocks = {}
    /\ holder = NoFlow
    /\ act = [f \in Flow |-> Idle]

Next ==
    \E f \in Flow :
        \/ Alloc(f) \/ OutOfMemory(f) \/ Take(f)
        \/ Free(f) \/ Delete(f) \/ MergeRight(f) \/ MergeLeft(f)

Spec == Init /\ [][Next]_vars

-----------------------------------------------------------------------------
Extent(at, n) == at .. at + n - 1
Elements == {Walk(list)[i] : i \in DOMAIN Walk(list)}

(* Nobody is in the middle of insert_merging().                              *)
Quiet == \A f \in Flow : act[f].pc \in {"idle", "take"}

(* Type invariant. *)
TypeOK ==
    /\ {list.head, list.tail} \subseteq 0 .. Cells
    /\ list.size \in 0 .. Cells
    /\ list.prev \in [Address -> 0 .. Cells] /\ list.next \in [Address -> 0 .. Cells]
    /\ room \in [Address -> 0 .. Cells]
    /\ grouped \in 0 .. Cells
    /\ \A b \in blocks : b.at \in Nat /\ b.bytes \in Padded(0) .. Cells
    /\ holder \in Flow \cup {NoFlow}
    /\ \A f \in Flow : act[f].pc \in {"idle", "take", "right", "left"}

(* The pointers of the free list are those of a doubly-linked list of as     *)
(* many elements as it counts: backwards from every element is the one       *)
(* before it, whatever insertions, merges and removals came before.          *)
ListSound ==
    LET w == Walk(list)
    IN  /\ Len(w) = list.size /\ Cardinality(Elements) = list.size
        /\ list.size > 0 => list.head = w[1] /\ list.tail = w[list.size]
        /\ \A i \in DOMAIN w : list.prev[w[i]] = (IF i = 1 THEN 0 ELSE w[i - 1])

(* alloc() never hands out memory that is held.                              *)
BlocksDisjoint ==
    \A b \in blocks : /\ Extent(b.at, b.bytes) \subseteq Address
                      /\ \A c \in blocks \ {b} : Extent(b.at, b.bytes) \cap Extent(c.at, c.bytes) = {}

(* The elements of the free list lie in memory nobody holds, whole: what the *)
(* program writes to its blocks cannot reach the list's pointers.            *)
ElementsInFreeMemory ==
    \A e \in Elements, b \in blocks : Extent(e, Max({ELEMENT, room[e]})) \cap Extent(b.at, b.bytes) = {}

(* Every cell is held or free, none is lost to the heap, and grouped_size()  *)
(* is what is free.                                                          *)
NothingLost ==
    Quiet => /\ Address = (UNION {Extent(b.at, b.bytes) : b \in blocks}) \cup (UNION {Extent(e, room[e]) : e \in Elements})
             /\ grouped = Cardinality(UNION {Extent(e, room[e]) : e \in Elements})

(* No two free blocks lie side by side: freed in any order, the blocks grow  *)
(* together again.                                                           *)
Coalesced == Quiet => \A e, d \in Elements : e + room[e] # d
=============================================================================
