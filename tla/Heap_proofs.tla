----------------------------- MODULE Heap_proofs -----------------------------
(***************************************************************************)
(* The heap's free list stays a doubly-linked list, and free blocks and    *)
(* held ones share out the memory, for any heap and any sizes.  One flow   *)
(* uses the heap, or several do under Atomic_Heap's lock (Serial).         *)
(*                                                                         *)
(* The proof has three layers.  The list: its pointers lead through a      *)
(* sequence of elements (Chain), a walk meets just these, and insertion    *)
(* and removal change the sequence as they should; from there on it is a   *)
(* set (Good).  The memory: blocks and elements are intervals that cover   *)
(* the cells without overlap (Partition), of which one is cut in two       *)
(* (Split), handed back (Return) or joined with the next (Join).  The      *)
(* flow: what it has searched for and not yet merged (Doing, Shares).      *)
(***************************************************************************)
EXTENDS Heap, SequenceTheorems, FunctionTheorems, FiniteSetTheorems, WellFoundedInduction, TLAPS

(* Induction over the natural numbers, for a set of them.                  *)
LEMMA Induction ==
  ASSUME NEW S, 0 \in S, \A n \in Nat : n \in S => n + 1 \in S
  PROVE  \A n \in Nat : n \in S
<1> DEFINE R == OpToRel(<, Nat)
           T == Nat \ S
<1>1. IsWellFoundedOn(R, Nat)
  BY NatLessThanWellFounded, Zenon
<1>2. \A x, y \in Nat : x < y => <<x, y>> \in R
  BY DEF OpToRel
<1> SUFFICES ASSUME T # {} PROVE FALSE
  OBVIOUS
<1>3. T \subseteq Nat
  OBVIOUS
<1>t. T # {}
  OBVIOUS
<1>u. \A x \in Nat : x \in T <=> x \notin S
  OBVIOUS
<1> HIDE DEF R, T
<1>4. PICK x \in T : \A y \in T : <<y, x>> \notin R
  BY <1>1, <1>3, <1>t, WFMin
<1>5. x \in Nat /\ x # 0
  BY <1>3, <1>u, <1>4
<1>6. x - 1 \in Nat /\ (x - 1) + 1 = x /\ x - 1 < x
  BY <1>5
<1>7. x - 1 \in T
  BY <1>4, <1>5, <1>6, <1>u
<1>8. QED
  BY <1>2, <1>4, <1>5, <1>6, <1>7

(* A set of natural numbers has a least member, and two a greatest.        *)
LEMMA Least ==
  ASSUME NEW S \in SUBSET Nat, S # {}
  PROVE  Min(S) \in S /\ \A y \in S : Min(S) <= y
<1> DEFINE R == OpToRel(<, Nat)
<1>1. IsWellFoundedOn(R, Nat)
  BY NatLessThanWellFounded, Zenon
<1>2. \A x, y \in Nat : x < y => <<x, y>> \in R
  BY DEF OpToRel
<1> HIDE DEF R
<1>3. PICK x \in S : \A y \in S : <<y, x>> \notin R
  BY <1>1, WFMin
<1>4. ASSUME NEW y \in S PROVE x <= y
  <2>1. x \in Nat /\ y \in Nat
    OBVIOUS
  <2>2. ~(y < x)
    BY <1>2, <1>3, <2>1
  <2>3. QED
    BY <2>1, <2>2
<1>5. \E z \in S : \A y \in S : z <= y
  BY <1>4
<1>6. QED
  BY <1>5, Zenon DEF Min

LEMMA Most ==
  ASSUME NEW a \in Nat, NEW b \in Nat
  PROVE  Max({a, b}) \in {a, b} /\ \A y \in {a, b} : y <= Max({a, b})
<1> DEFINE S == {a, b}
           big(x) == x \in S /\ \A y \in S : x >= y
<1>1. \E x : big(x)
  <2>1. CASE a <= b
    <3>1. big(b)
      BY <2>1
    <3>2. QED
      BY <3>1
  <2>2. CASE b <= a
    <3>1. big(a)
      BY <2>2
    <3>2. QED
      BY <3>1
  <2>3. QED
    BY <2>1, <2>2
<1>2. Max(S) = CHOOSE x \in S : \A y \in S : x >= y
  BY DEF Max
<1>3. Max(S) \in S /\ \A y \in S : Max(S) >= y
  <2> HIDE DEF S
  <2>1. QED
    BY <1>1, <1>2
<1>4. QED
  BY <1>3

-----------------------------------------------------------------------------
(* A list whose pointers lead through w, forwards and backwards.           *)
Lists == [head : Nat, tail : Nat, size : Nat, prev : [Address -> Nat], next : [Address -> Nat]]
Members(w) == {w[i] : i \in DOMAIN w}
Distinct(w) == \A i, j \in 1 .. Len(w) : w[i] = w[j] => i = j
Way(w) == w \in Seq(Address) /\ Distinct(w)
Linked(hd, tl, sz, pv, nx, w) ==
    /\ sz = Len(w)
    /\ hd = (IF Len(w) = 0 THEN 0 ELSE w[1]) /\ tl = (IF Len(w) = 0 THEN 0 ELSE w[Len(w)])
    /\ \A i \in 1 .. Len(w) : /\ pv[w[i]] = (IF i = 1 THEN 0 ELSE w[i - 1])
                              /\ nx[w[i]] = (IF i = Len(w) THEN 0 ELSE w[i + 1])
Chain(l, w) == l \in Lists /\ Way(w) /\ Linked(l.head, l.tail, l.size, l.prev, l.next, w)

(* There are as many addresses as cells.                                   *)
LEMMA AddressCount == IsFiniteSet(Address) /\ Cardinality(Address) = Cells /\ Cells \in Nat
<1>1. Cells \in Nat
  BY HeapAssumption
<1>2. Cardinality(1 .. Cells) = IF 1 > Cells THEN 0 ELSE Cells - 1 + 1
  BY <1>1, FS_Interval
<1>3. IsFiniteSet(1 .. Cells)
  BY <1>1, FS_Interval
<1>4. QED
  BY <1>1, <1>2, <1>3 DEF Address

(* Elements are met once, so there are no more of them than addresses.     *)
LEMMA WayFacts ==
  ASSUME NEW w, Way(w)
  PROVE  /\ Len(w) \in Nat /\ Len(w) <= Cells /\ DOMAIN w = 1 .. Len(w)
         /\ w = [k \in 1 .. Len(w) |-> w[k]]
         /\ \A i \in 1 .. Len(w) : w[i] \in Address /\ w[i] # 0
         /\ IsFiniteSet(Members(w)) /\ Cardinality(Members(w)) = Len(w)
         /\ \A e : e \in Members(w) <=> \E i \in 1 .. Len(w) : w[i] = e
<1>1. /\ w \in Seq(Address) /\ Len(w) \in Nat /\ DOMAIN w = 1 .. Len(w)
      /\ \A i \in 1 .. Len(w) : w[i] \in Address
  BY LenProperties, ElementOfSeq DEF Way
<1>2. \A i \in 1 .. Len(w) : w[i] \in Address /\ w[i] # 0
  BY <1>1 DEF Address
<1>3. w = [k \in 1 .. Len(w) |-> w[k]]
  BY <1>1
<1>4. \A e : e \in Members(w) <=> \E i \in 1 .. Len(w) : w[i] = e
  BY <1>1 DEF Members
<1>5. IsFiniteSet(1 .. Len(w)) /\ Cardinality(1 .. Len(w)) = Len(w)
  <2>1. Cardinality(1 .. Len(w)) = IF 1 > Len(w) THEN 0 ELSE Len(w) - 1 + 1
    BY <1>1, FS_Interval
  <2>2. QED
    BY <1>1, <2>1, FS_Interval
<1>6. IsFiniteSet(Members(w)) /\ Cardinality(Members(w)) = Len(w)
  <2> DEFINE g == [i \in 1 .. Len(w) |-> w[i]]
  <2>1. /\ g \in [1 .. Len(w) -> Members(w)]
        /\ \A i, j \in 1 .. Len(w) : g[i] = g[j] => i = j
        /\ \A e \in Members(w) : \E i \in 1 .. Len(w) : g[i] = e
    BY <1>1, <1>4 DEF Way, Distinct
  <2> HIDE DEF g
  <2>2. g \in Bijection(1 .. Len(w), Members(w))
    BY <2>1, Fun_IsBij
  <2>3. QED
    BY <1>5, <2>2, FS_Bijection DEF ExistsBijection
<1>7. Len(w) <= Cells
  <2>1. Members(w) \subseteq Address
    BY <1>2, <1>4
  <2>2. QED
    BY <1>6, <2>1, AddressCount, FS_Subset
<1>8. QED
  BY <1>1, <1>2, <1>3, <1>4, <1>6, <1>7

(* A walk over n elements.                                                 *)
Steps(l, n) ==
    LET at[k \in 0 .. n] == IF k = 0 THEN l.head ELSE IF at[k - 1] = 0 THEN 0 ELSE l.next[at[k - 1]]
    IN  [k \in 1 .. Min({i \in 0 .. n : i = n \/ at[i] = 0}) |-> at[k - 1]]

(* The walk from the head meets the elements in order, and stops.          *)
LEMMA ChainIsWalk ==
  ASSUME NEW l, NEW w, Chain(l, w)
  PROVE  Walk(l) = w
<1>1. /\ Len(w) \in Nat /\ Len(w) <= Cells /\ DOMAIN w = 1 .. Len(w)
      /\ w = [k \in 1 .. Len(w) |-> w[k]]
      /\ \A i \in 1 .. Len(w) : w[i] \in Address /\ w[i] # 0
  BY WayFacts DEF Chain
<1>2. Cells \in Nat /\ Cardinality(DOMAIN l.next) = Cells
  BY AddressCount DEF Chain, Lists
<1>3. /\ l.head = (IF Len(w) = 0 THEN 0 ELSE w[1])
      /\ \A i \in 1 .. Len(w) : l.next[w[i]] = (IF i = Len(w) THEN 0 ELSE w[i + 1])
  BY DEF Chain, Linked
<1> DEFINE at == CHOOSE f : f = [k \in 0 .. Cells |-> IF k = 0 THEN l.head ELSE IF f[k - 1] = 0 THEN 0 ELSE l.next[f[k - 1]]]
           go == [k \in 0 .. Cells |-> IF k < Len(w) THEN w[k + 1] ELSE 0]
           M == {i \in 0 .. Cells : i = Cells \/ at[i] = 0}
<1>4. Walk(l) = [k \in 1 .. Min(M) |-> at[k - 1]]
  <2>1. Walk(l) = Steps(l, Cardinality(DOMAIN l.next))
    BY Zenon DEF Walk, Steps
  <2>2. Walk(l) = Steps(l, Cells)
    BY <1>2, <2>1
  <2>3. QED
    BY <2>2, Zenon DEF Steps
<1>5. go = [k \in 0 .. Cells |-> IF k = 0 THEN l.head ELSE IF go[k - 1] = 0 THEN 0 ELSE l.next[go[k - 1]]]
  <2> SUFFICES ASSUME NEW k \in 0 .. Cells
               PROVE  go[k] = IF k = 0 THEN l.head ELSE IF go[k - 1] = 0 THEN 0 ELSE l.next[go[k - 1]]
    OBVIOUS
  <2>1. CASE k = 0
    BY <1>1, <1>2, <1>3, <2>1
  <2>2. CASE k # 0 /\ k - 1 < Len(w)
    <3>1. k \in 1 .. Len(w) /\ k - 1 \in 0 .. Cells /\ (k - 1) + 1 = k
      BY <1>1, <1>2, <2>2
    <3>2. go[k - 1] = w[k] /\ w[k] # 0
      BY <1>1, <2>2, <3>1
    <3>3. go[k] = IF k = Len(w) THEN 0 ELSE w[k + 1]
      BY <1>1, <3>1
    <3> HIDE DEF go
    <3>4. QED
      BY <1>3, <2>2, <3>1, <3>2, <3>3
  <2>3. CASE k # 0 /\ ~(k - 1 < Len(w))
    <3>1. k - 1 \in 0 .. Cells /\ ~(k < Len(w))
      BY <1>1, <1>2, <2>3
    <3>2. go[k - 1] = 0 /\ go[k] = 0
      BY <2>3, <3>1
    <3> HIDE DEF go
    <3>3. QED
      BY <2>3, <3>2
  <2>4. QED
    BY <2>1, <2>2, <2>3
<1>6. at = [k \in 0 .. Cells |-> IF k = 0 THEN l.head ELSE IF at[k - 1] = 0 THEN 0 ELSE l.next[at[k - 1]]]
  <2> HIDE DEF go
  <2>1. QED
    BY <1>5
<1> HIDE DEF at
<1>7. \A k \in 0 .. Cells : at[k] = go[k]
  <2> DEFINE S == {k \in Nat : k <= Cells => at[k] = go[k]}
  <2> HIDE DEF go
  <2>1. 0 \in S
    BY <1>2, <1>5, <1>6
  <2>2. ASSUME NEW k \in Nat, k \in S PROVE k + 1 \in S
    <3> SUFFICES ASSUME k + 1 <= Cells PROVE at[k + 1] = go[k + 1]
      OBVIOUS
    <3>1. k + 1 \in 0 .. Cells /\ k + 1 # 0 /\ (k + 1) - 1 = k /\ at[k] = go[k]
      BY <1>2, <2>2
    <3>2. at[k + 1] = IF at[k] = 0 THEN 0 ELSE l.next[at[k]]
      BY <1>6, <3>1
    <3>3. go[k + 1] = IF go[k] = 0 THEN 0 ELSE l.next[go[k]]
      BY <1>5, <3>1
    <3>4. QED
      BY <3>1, <3>2, <3>3
  <2> HIDE DEF S
  <2>3. \A k \in Nat : k \in S
    BY <2>1, <2>2, Induction, Zenon
  <2>4. QED
    BY <1>2, <2>3 DEF S
<1>8. Min(M) = Len(w)
  <2>1. M \subseteq Nat /\ Len(w) \in M
    <3>1. Len(w) \in 0 .. Cells
      BY <1>1, <1>2
    <3>2. go[Len(w)] = 0
      BY <1>1, <3>1
    <3>3. at[Len(w)] = 0
      BY <1>7, <3>1, <3>2
    <3>4. QED
      BY <1>2, <3>1, <3>3
  <2>2. ASSUME NEW i \in M PROVE Len(w) <= i
    <3>1. CASE i = Cells
      BY <1>1, <3>1
    <3>2. CASE i < Len(w)
      <4>1. i \in 0 .. Cells /\ i + 1 \in 1 .. Len(w)
        BY <1>1, <1>2, <3>2
      <4>2. at[i] = w[i + 1]
        BY <1>7, <3>2, <4>1
      <4>3. at[i] # 0
        BY <1>1, <4>1, <4>2
      <4>4. i = Cells
        BY <4>3
      <4>5. QED
        BY <1>1, <1>2, <3>2, <4>4
    <3>3. QED
      BY <1>1, <1>2, <3>1, <3>2
  <2> HIDE DEF M
  <2>3. Min(M) \in M /\ \A y \in M : Min(M) <= y
    BY <2>1, Least
  <2>4. Min(M) <= Len(w) /\ Len(w) <= Min(M) /\ Min(M) \in Nat
    BY <2>1, <2>2, <2>3
  <2>5. QED
    BY <1>1, <2>4
<1>9. \A k \in 1 .. Len(w) : at[k - 1] = w[k]
  <2> SUFFICES ASSUME NEW k \in 1 .. Len(w) PROVE at[k - 1] = w[k]
    OBVIOUS
  <2>1. k - 1 \in 0 .. Cells /\ k - 1 < Len(w) /\ (k - 1) + 1 = k
    BY <1>1, <1>2
  <2>2. go[k - 1] = w[k]
    BY <2>1
  <2>3. QED
    BY <1>7, <2>1, <2>2
<1> HIDE DEF M, go
<1>10. QED
  BY <1>1, <1>4, <1>8, <1>9

(* A search finds an element of the kind if there is one.                  *)
LEMMA FirstFinds ==
  ASSUME NEW l, NEW w, Chain(l, w), NEW S
  PROVE  \/ First(l, S) = 0 /\ Members(w) \cap S = {}
         \/ First(l, S) \in Members(w) /\ First(l, S) \in S
<1>1. Walk(l) = w
  BY ChainIsWalk
<1>2. /\ Len(w) \in Nat /\ DOMAIN w = 1 .. Len(w)
      /\ \A e : e \in Members(w) <=> \E i \in 1 .. Len(w) : w[i] = e
  BY WayFacts DEF Chain
<1> DEFINE hits == {i \in DOMAIN w : w[i] \in S}
<1>3. First(l, S) = IF hits = {} THEN 0 ELSE w[Min(hits)]
  BY <1>1 DEF First
<1>4. CASE hits = {}
  BY <1>2, <1>3, <1>4
<1>5. CASE hits # {}
  <2>1. hits \subseteq Nat
    BY <1>2
  <2>2. Min(hits) \in hits
    <3> HIDE DEF hits
    <3>1. QED
      BY <1>5, <2>1, Least
  <2>3. QED
    BY <1>2, <1>3, <1>5, <2>2
<1>6. QED
  BY <1>4, <1>5

-----------------------------------------------------------------------------
(* The list as the rest of the heap sees it: a set of elements.            *)
Good(l, S) == \E w : Chain(l, w) /\ Members(w) = S

(* InsertTail() adds its element.                                          *)
LEMMA InsertKeeps ==
  ASSUME NEW l, NEW S, Good(l, S), NEW e \in Address, e \notin S
  PROVE  Good(InsertTail(l, e), S \cup {e})
<1>1. PICK w : Chain(l, w) /\ Members(w) = S
  BY DEF Good
<1>0. PICK n \in Nat : n = Len(w)
  BY <1>1, WayFacts DEF Chain
<1>2. /\ DOMAIN w = 1 .. n
      /\ \A i \in 1 .. n : w[i] \in Address /\ w[i] # 0
      /\ \A i \in 1 .. n : w[i] # e
  BY <1>0, <1>1, WayFacts DEF Chain
<1>3. e \in Nat /\ e # 0 /\ Address \subseteq Nat
  BY DEF Address
<1> DEFINE x == Append(w, e)
<1>4. /\ x \in Seq(Address) /\ Len(x) = n + 1
      /\ \A i \in 1 .. n : x[i] = w[i]
      /\ x[n + 1] = e
  BY <1>0, <1>1, <1>2, AppendProperties DEF Chain, Way
<1> HIDE DEF x
<1>5. Way(x)
  <2>1. ASSUME NEW i \in 1 .. Len(x), NEW j \in 1 .. Len(x), x[i] = x[j] PROVE i = j
    <3>1. CASE i \in 1 .. n /\ j \in 1 .. n
      BY <1>0, <1>1, <1>4, <2>1, <3>1 DEF Chain, Way, Distinct
    <3>2. (i \in 1 .. n \/ i = n + 1) /\ (j \in 1 .. n \/ j = n + 1)
      BY <1>2, <1>4
    <3>3. QED
      BY <1>2, <1>4, <2>1, <3>1, <3>2
  <2>2. QED
    BY <1>4, <2>1 DEF Way, Distinct
<1> DEFINE m == InsertTail(l, e)
<1>6. /\ l.size = n /\ l.head = (IF n = 0 THEN 0 ELSE w[1]) /\ l.tail = (IF n = 0 THEN 0 ELSE w[n])
      /\ \A i \in 1 .. n : /\ l.prev[w[i]] = (IF i = 1 THEN 0 ELSE w[i - 1])
                                /\ l.next[w[i]] = (IF i = n THEN 0 ELSE w[i + 1])
      /\ l \in Lists
  BY <1>0, <1>1 DEF Chain, Linked
<1>7. ASSUME n = 0 PROVE Chain(m, x)
  <2>1. m = InsertFirst(l, e)
    BY <1>6, <1>7 DEF InsertTail
  <2>2. /\ m \in Lists /\ m.head = e /\ m.tail = e /\ m.size = 1
        /\ m.prev[e] = 0 /\ m.next[e] = 0
    <3>1. /\ m.head = e /\ m.tail = e /\ m.size = 1
          /\ m.prev = [l.prev EXCEPT ![e] = 0] /\ m.next = [l.next EXCEPT ![e] = 0]
      BY <1>6, <1>7, <2>1 DEF InsertFirst, Lists
    <3>2. m = [head |-> m.head, tail |-> m.tail, size |-> m.size, prev |-> m.prev, next |-> m.next]
      BY <1>6, <2>1 DEF InsertFirst, Lists
    <3>3. /\ m.head \in Nat /\ m.tail \in Nat /\ m.size \in Nat
          /\ m.prev \in [Address -> Nat] /\ m.next \in [Address -> Nat]
          /\ m.prev[e] = 0 /\ m.next[e] = 0
      BY <1>3, <1>6, <3>1 DEF Lists
    <3>4. m \in Lists
      BY <3>2, <3>3 DEF Lists
    <3>5. QED
      BY <3>1, <3>3, <3>4
  <2> HIDE DEF m
  <2>3. Len(x) = 1 /\ x[1] = e
    BY <1>4, <1>7
  <2>4. Linked(m.head, m.tail, m.size, m.prev, m.next, x)
    BY <2>2, <2>3 DEF Linked
  <2>5. QED
    BY <1>5, <2>2, <2>4 DEF Chain
<1>8. ASSUME n # 0 PROVE Chain(m, x)
  <2> DEFINE t == w[n]
  <2>1. m = [l EXCEPT !.next = [@ EXCEPT ![t] = e, ![e] = 0], !.prev[e] = t, !.tail = e, !.size = @ + 1]
    BY <1>6, <1>8 DEF InsertTail
  <2>2. t \in Address /\ t \in Nat /\ t # e /\ n \in 1 .. n /\ 1 \in 1 .. n
    <3>1. n \in 1 .. n /\ 1 \in 1 .. n
      BY <1>8
    <3>2. w[n] \in Address /\ w[n] # e
      BY <1>2, <3>1
    <3>3. QED
      BY <1>3, <3>1, <3>2
  <2> HIDE DEF t
  <2>3. /\ m \in Lists /\ m.head = l.head /\ m.tail = e /\ m.size = l.size + 1
        /\ m.prev = [l.prev EXCEPT ![e] = t]
        /\ m.next = [l.next EXCEPT ![t] = e, ![e] = 0]
    <3>1. /\ m.head = l.head /\ m.tail = e /\ m.size = l.size + 1
          /\ m.prev = [l.prev EXCEPT ![e] = t]
          /\ m.next = [l.next EXCEPT ![t] = e, ![e] = 0]
      BY <1>6, <2>1 DEF Lists
    <3>2. m = [head |-> m.head, tail |-> m.tail, size |-> m.size, prev |-> m.prev, next |-> m.next]
      BY <1>6, <2>1 DEF Lists
    <3>3. /\ m.head \in Nat /\ m.tail \in Nat /\ m.size \in Nat
          /\ m.prev \in [Address -> Nat] /\ m.next \in [Address -> Nat]
      BY <1>3, <1>6, <2>2, <3>1 DEF Lists
    <3>4. m \in Lists
      BY <3>2, <3>3 DEF Lists
    <3>5. QED
      BY <3>1, <3>4
  <2> HIDE DEF m
  <2>4. /\ \A a \in Address : m.prev[a] = IF a = e THEN t ELSE l.prev[a]
        /\ \A a \in Address : m.next[a] = IF a = e THEN 0 ELSE IF a = t THEN e ELSE l.next[a]
    BY <1>6, <2>2, <2>3 DEF Lists
  <2>5. ASSUME NEW i \in 1 .. Len(x)
        PROVE  /\ m.prev[x[i]] = (IF i = 1 THEN 0 ELSE x[i - 1])
               /\ m.next[x[i]] = (IF i = Len(x) THEN 0 ELSE x[i + 1])
    <3>1. CASE i = n + 1
      <4>1. x[i] = e /\ i # 1 /\ i = Len(x) /\ x[i - 1] = t
        BY <1>2, <1>4, <1>8, <2>2, <3>1 DEF t
      <4>2. QED
        BY <2>4, <4>1
    <3>2. CASE i \in 1 .. n /\ i # n
      <4>1. /\ x[i] = w[i] /\ w[i] # e /\ i # Len(x) /\ i + 1 \in 1 .. n /\ x[i + 1] = w[i + 1]
            /\ i # 1 => i - 1 \in 1 .. n
        BY <1>2, <1>4, <3>2
      <4>2. w[i] # t
        BY <1>0, <1>1, <2>2, <3>2 DEF Chain, Way, Distinct, t
      <4>3. m.prev[x[i]] = l.prev[w[i]] /\ m.next[x[i]] = l.next[w[i]]
        BY <1>2, <2>4, <3>2, <4>1, <4>2
      <4>4. i # 1 => x[i - 1] = w[i - 1]
        BY <1>4, <4>1
      <4>5. QED
        BY <1>6, <3>2, <4>1, <4>3, <4>4
    <3>3. CASE i = n
      <4>1. /\ i \in 1 .. n /\ x[i] = t /\ i # Len(x) /\ x[i + 1] = e
            /\ i # 1 => i - 1 \in 1 .. n
        BY <1>2, <1>4, <1>8, <3>3 DEF t
      <4>2. m.prev[x[i]] = l.prev[t] /\ m.next[x[i]] = e
        BY <2>2, <2>4, <4>1
      <4>3. l.prev[t] = IF i = 1 THEN 0 ELSE w[i - 1]
        BY <1>6, <3>3, <4>1 DEF t
      <4>4. i # 1 => x[i - 1] = w[i - 1]
        BY <1>4, <4>1
      <4>5. QED
        BY <4>1, <4>2, <4>3, <4>4
    <3>4. i = n + 1 \/ i = n \/ (i \in 1 .. n /\ i # n)
      BY <1>2, <1>4
    <3>5. QED
      BY <3>1, <3>2, <3>3, <3>4
  <2>6. /\ m.size = Len(x) /\ Len(x) # 0 /\ m.head = x[1] /\ m.tail = x[Len(x)]
    BY <1>2, <1>4, <1>6, <1>8, <2>2, <2>3
  <2>7. Linked(m.head, m.tail, m.size, m.prev, m.next, x)
    BY <2>5, <2>6 DEF Linked
  <2>8. QED
    BY <1>5, <2>3, <2>7 DEF Chain
<1>9. Members(x) = S \cup {e}
  <2>1. \A a : a \in Members(x) <=> \E i \in 1 .. Len(x) : x[i] = a
    BY <1>5, WayFacts
  <2>2. \A a : a \in S <=> \E i \in 1 .. n : w[i] = a
    BY <1>0, <1>1, WayFacts DEF Chain
  <2>3. ASSUME NEW a PROVE a \in Members(x) <=> a \in S \/ a = e
    <3>1. ASSUME NEW i \in 1 .. Len(x), x[i] = a PROVE a \in S \/ a = e
      <4>1. i \in 1 .. n \/ i = n + 1
        BY <1>2, <1>4
      <4>2. QED
        BY <1>4, <2>2, <3>1, <4>1
    <3>2. ASSUME NEW i \in 1 .. n, w[i] = a PROVE a \in Members(x)
      <4>1. i \in 1 .. Len(x)
        BY <1>2, <1>4
      <4>2. QED
        BY <1>4, <2>1, <3>2, <4>1
    <3>3. e \in Members(x)
      <4>1. n + 1 \in 1 .. Len(x)
        BY <1>2, <1>4
      <4>2. QED
        BY <1>4, <2>1, <4>1
    <3>4. QED
      BY <2>1, <2>2, <3>1, <3>2, <3>3
  <2>4. QED
    BY <2>3
<1>10. Chain(m, x)
  BY <1>2, <1>7, <1>8
<1>11. QED
  BY <1>9, <1>10 DEF Good

(* A list of five fields is known by them.                                 *)
LEMMA ListFields ==
  ASSUME NEW m, m = [head |-> m.head, tail |-> m.tail, size |-> m.size, prev |-> m.prev, next |-> m.next],
         m.head \in Nat, m.tail \in Nat, m.size \in Nat, m.prev \in [Address -> Nat], m.next \in [Address -> Nat]
  PROVE  m \in Lists
  BY DEF Lists

(* What a removal leaves of the k-th element's neighbours.                 *)
Unlinked(m, l, w, k) ==
    LET n == Len(w)
    IN  /\ m \in Lists /\ m.size = n - 1
        /\ m.head = (IF n = 1 THEN 0 ELSE IF k = 1 THEN w[2] ELSE w[1])
        /\ m.tail = (IF n = 1 THEN 0 ELSE IF k = n THEN w[n - 1] ELSE w[n])
        /\ \A a \in Address : m.next[a] = IF k # 1 /\ a = w[k - 1] THEN l.next[w[k]] ELSE l.next[a]
        /\ \A a \in Address : m.prev[a] = IF k # n /\ a = w[k + 1] THEN l.prev[w[k]] ELSE l.prev[a]

(* Each of the four cases of Remove() does just that.                      *)
LEMMA RemoveUnlinks ==
  ASSUME NEW l, NEW w, Chain(l, w), NEW k \in 1 .. Len(w)
  PROVE  Unlinked(Remove(l, w[k]), l, w, k)
<1>1. PICK n \in Nat : n = Len(w)
  BY WayFacts DEF Chain
<1>2. /\ k \in 1 .. n /\ k \in Nat /\ n # 0 /\ 1 \in 1 .. n /\ n \in 1 .. n
      /\ \A i \in 1 .. n : w[i] \in Address /\ w[i] # 0
      /\ \A i, j \in 1 .. n : w[i] = w[j] => i = j
  <2>1. \A i \in 1 .. n : w[i] \in Address /\ w[i] # 0
    BY <1>1, WayFacts DEF Chain
  <2>2. \A i, j \in 1 .. n : w[i] = w[j] => i = j
    BY <1>1 DEF Chain, Way, Distinct
  <2>3. QED
    BY <1>1, <2>1, <2>2
<1>3. /\ l.size = n /\ l.head = w[1] /\ l.tail = w[n]
      /\ \A i \in 1 .. n : /\ l.prev[w[i]] = (IF i = 1 THEN 0 ELSE w[i - 1])
                           /\ l.next[w[i]] = (IF i = n THEN 0 ELSE w[i + 1])
      /\ l \in Lists
  BY <1>1, <1>2 DEF Chain, Linked
<1>4. /\ l = [head |-> l.head, tail |-> l.tail, size |-> l.size, prev |-> l.prev, next |-> l.next]
      /\ l.head \in Nat /\ l.tail \in Nat
      /\ l.prev \in [Address -> Nat] /\ l.next \in [Address -> Nat]
      /\ Address \subseteq Nat
  BY <1>3 DEF Lists, Address
<1> DEFINE m == Remove(l, w[k])
           U == /\ m \in Lists /\ m.size = n - 1
                /\ m.head = (IF n = 1 THEN 0 ELSE IF k = 1 THEN w[2] ELSE w[1])
                /\ m.tail = (IF n = 1 THEN 0 ELSE IF k = n THEN w[n - 1] ELSE w[n])
                /\ \A a \in Address : m.next[a] = IF k # 1 /\ a = w[k - 1] THEN l.next[w[k]] ELSE l.next[a]
                /\ \A a \in Address : m.prev[a] = IF k # n /\ a = w[k + 1] THEN l.prev[w[k]] ELSE l.prev[a]
<1>5. ASSUME n = 1 PROVE U
  <2>1. m = [l EXCEPT !.head = 0, !.tail = 0, !.size = @ - 1]
    <3>1. l.size = 1
      BY <1>3, <1>5
    <3>2. QED
      BY <3>1 DEF Remove, RemoveLast
  <2> HIDE DEF m
  <2>2. /\ m.head = 0 /\ m.tail = 0 /\ m.size = 0 /\ m.prev = l.prev /\ m.next = l.next
        /\ m = [head |-> m.head, tail |-> m.tail, size |-> m.size, prev |-> m.prev, next |-> m.next]
    <3>1. l.size - 1 = 0
      BY <1>3, <1>5
    <3>2. QED
      BY <1>4, <2>1, <3>1
  <2>3. m \in Lists
    <3>1. m.head \in Nat /\ m.tail \in Nat /\ m.size \in Nat
      BY <2>2
    <3>2. m.prev \in [Address -> Nat] /\ m.next \in [Address -> Nat]
      BY <1>4, <2>2
    <3>3. QED
      BY <2>2, <3>1, <3>2, ListFields, Zenon
  <2>4. k = 1
    BY <1>2, <1>5
  <2>5. QED
    BY <1>5, <2>2, <2>3, <2>4
<1>6. ASSUME n # 1, k = 1 PROVE U
  <2>1. 2 \in 1 .. n /\ 1 + 1 = 2
    BY <1>2, <1>6
  <2>2. l.prev[w[1]] = 0 /\ l.next[w[1]] = w[2]
    BY <1>2, <1>3, <1>6, <2>1
  <2>3. m = [l EXCEPT !.head = l.next[l.head], !.prev[l.next[l.head]] = 0, !.size = l.size - 1]
    <3>1. l.size # 0 /\ l.size # 1 /\ l.prev[w[k]] = 0
      BY <1>2, <1>3, <1>6, <2>2
    <3>2. m = RemoveHead(l)
      BY <3>1 DEF Remove
    <3>3. QED
      BY <3>1, <3>2 DEF RemoveHead
  <2> HIDE DEF m
  <2>4. /\ m.head = w[2] /\ m.tail = l.tail /\ m.size = n - 1 /\ m.next = l.next
        /\ m.prev = [l.prev EXCEPT ![w[2]] = 0]
        /\ m = [head |-> m.head, tail |-> m.tail, size |-> m.size, prev |-> m.prev, next |-> m.next]
    BY <1>3, <1>4, <2>2, <2>3
  <2>5. \A a \in Address : m.prev[a] = IF a = w[2] THEN 0 ELSE l.prev[a]
    BY <1>4, <2>4
  <2>6. m.prev \in [Address -> Nat] /\ m.head \in Nat /\ m.size \in Nat
    BY <1>2, <1>4, <2>1, <2>4
  <2>7. m \in Lists
    BY <1>4, <2>4, <2>6, ListFields, Zenon
  <2>8. k # n /\ k + 1 = 2
    BY <1>6
  <2>9. QED
    BY <1>3, <1>6, <2>2, <2>4, <2>5, <2>7, <2>8
<1>7. ASSUME n # 1, k = n PROVE U
  <2>1. n - 1 \in 1 .. n /\ k # 1
    BY <1>2, <1>7
  <2>2. l.prev[w[n]] = w[n - 1] /\ l.next[w[n]] = 0 /\ w[n - 1] # 0
    BY <1>2, <1>3, <1>7, <2>1
  <2>3. m = [l EXCEPT !.tail = l.prev[l.tail], !.next[l.prev[l.tail]] = 0, !.size = l.size - 1]
    <3>1. l.size # 0 /\ l.size # 1 /\ l.prev[w[k]] # 0 /\ l.next[w[k]] = 0
      BY <1>2, <1>3, <1>7, <2>2
    <3>2. m = RemoveTail(l)
      BY <3>1 DEF Remove
    <3>3. QED
      BY <3>1, <3>2 DEF RemoveTail
  <2> HIDE DEF m
  <2>4. /\ m.tail = w[n - 1] /\ m.head = l.head /\ m.size = n - 1 /\ m.prev = l.prev
        /\ m.next = [l.next EXCEPT ![w[n - 1]] = 0]
        /\ m = [head |-> m.head, tail |-> m.tail, size |-> m.size, prev |-> m.prev, next |-> m.next]
    <3>1. l.prev[l.tail] = w[n - 1] /\ l.size - 1 = n - 1
      BY <1>3, <2>2
    <3>2. m = [l EXCEPT !.tail = w[n - 1], !.next[w[n - 1]] = 0, !.size = n - 1]
      BY <2>3, <3>1
    <3>3. QED
      BY <1>4, <3>2
  <2>5. \A a \in Address : m.next[a] = IF a = w[n - 1] THEN 0 ELSE l.next[a]
    BY <1>4, <2>4
  <2>6. m.next \in [Address -> Nat] /\ m.tail \in Nat /\ m.size \in Nat
    BY <1>2, <1>4, <2>1, <2>4
  <2>7. m \in Lists
    BY <1>4, <2>4, <2>6, ListFields, Zenon
  <2>8. QED
    BY <1>3, <1>7, <2>1, <2>2, <2>4, <2>5, <2>7
<1>8. ASSUME k # 1, k # n PROVE U
  <2>1. k - 1 \in 1 .. n /\ k + 1 \in 1 .. n /\ n # 1
    BY <1>2, <1>8
  <2>2. /\ l.prev[w[k]] = w[k - 1] /\ l.next[w[k]] = w[k + 1] /\ w[k - 1] # 0 /\ w[k + 1] # 0
        /\ w[k - 1] \in Address /\ w[k + 1] \in Address
    BY <1>2, <1>3, <1>8, <2>1
  <2>3. m = [l EXCEPT !.next[l.prev[w[k]]] = l.next[w[k]], !.prev[l.next[w[k]]] = l.prev[w[k]], !.size = l.size - 1]
    <3>1. l.size # 1 /\ l.prev[w[k]] # 0 /\ l.next[w[k]] # 0
      BY <1>3, <2>1, <2>2
    <3>2. QED
      BY <3>1 DEF Remove
  <2> HIDE DEF m
  <2>4. /\ m.tail = l.tail /\ m.head = l.head /\ m.size = n - 1
        /\ m.prev = [l.prev EXCEPT ![w[k + 1]] = w[k - 1]]
        /\ m.next = [l.next EXCEPT ![w[k - 1]] = w[k + 1]]
        /\ m = [head |-> m.head, tail |-> m.tail, size |-> m.size, prev |-> m.prev, next |-> m.next]
    BY <1>3, <1>4, <2>2, <2>3
  <2>5. /\ \A a \in Address : m.next[a] = IF a = w[k - 1] THEN w[k + 1] ELSE l.next[a]
        /\ \A a \in Address : m.prev[a] = IF a = w[k + 1] THEN w[k - 1] ELSE l.prev[a]
    BY <1>4, <2>4
  <2>6. m.next \in [Address -> Nat] /\ m.prev \in [Address -> Nat] /\ m.size \in Nat
    <3>1. w[k - 1] \in Nat /\ w[k + 1] \in Nat
      BY <1>4, <2>2
    <3> HIDE DEF U
    <3>2. m.next \in [Address -> Nat]
      BY <1>4, <2>2, <2>4, <3>1
    <3>3. m.prev \in [Address -> Nat]
      BY <1>4, <2>2, <2>4, <3>1
    <3>4. QED
      BY <1>2, <2>4, <3>2, <3>3
  <2>7. m \in Lists
    BY <1>4, <2>4, <2>6, ListFields, Zenon
  <2>8. QED
    BY <1>3, <1>8, <2>1, <2>2, <2>4, <2>5, <2>7
<1> HIDE DEF m
<1>9. U
  BY <1>5, <1>6, <1>7, <1>8
<1>10. QED
  BY <1>1, <1>9 DEF Unlinked, m

(* A way without its k-th element.                                         *)
Without(w, k) == [i \in 1 .. Len(w) - 1 |-> IF i < k THEN w[i] ELSE w[i + 1]]

(* The other elements are there still, in the same order.                  *)
LEMMA WithoutFacts ==
  ASSUME NEW w, Way(w), NEW k \in 1 .. Len(w)
  PROVE  /\ Way(Without(w, k)) /\ Len(Without(w, k)) = Len(w) - 1
         /\ \A i \in 1 .. Len(w) - 1 : Without(w, k)[i] = IF i < k THEN w[i] ELSE w[i + 1]
         /\ Members(Without(w, k)) = Members(w) \ {w[k]}
<1>1. PICK n \in Nat : n = Len(w)
  BY WayFacts
<1>2. /\ \A i \in 1 .. n : w[i] \in Address
      /\ \A i, j \in 1 .. n : w[i] = w[j] => i = j
      /\ \A e : e \in Members(w) <=> \E i \in 1 .. n : w[i] = e
      /\ k \in 1 .. n
  BY <1>1, WayFacts DEF Way, Distinct
<1> DEFINE x == Without(w, k)
           at(i) == IF i < k THEN i ELSE i + 1
<1>3. \A i \in 1 .. n - 1 : at(i) \in 1 .. n
  BY <1>2
<1>4. x = [i \in 1 .. n - 1 |-> w[at(i)]]
  BY <1>1 DEF Without
<1>5. \A i \in 1 .. n - 1 : x[i] = w[at(i)]
  BY <1>4
<1>6. x \in [1 .. n - 1 -> Address]
  BY <1>2, <1>3, <1>4
<1>7. n - 1 \in Nat
  BY <1>2
<1>8. x \in Seq(Address) /\ Len(x) = n - 1
  <2> HIDE DEF x
  <2>1. x \in Seq(Address)
    BY <1>6, <1>7, SeqDef
  <2>2. DOMAIN x = 1 .. n - 1
    BY <1>6
  <2>3. QED
    BY <1>7, <2>1, <2>2, LenProperties
<1> HIDE DEF x
<1>9. Way(x)
  <2>1. ASSUME NEW i \in 1 .. n - 1, NEW j \in 1 .. n - 1, x[i] = x[j] PROVE i = j
    <3>1. at(i) = at(j)
      BY <1>2, <1>3, <1>5, <2>1
    <3>2. QED
      BY <1>2, <3>1
  <2>2. QED
    BY <1>8, <2>1 DEF Way, Distinct
<1>10. Members(x) = Members(w) \ {w[k]}
  <2>1. \A e : e \in Members(x) <=> \E i \in 1 .. n - 1 : x[i] = e
    BY <1>8, <1>9, WayFacts
  <2>2. ASSUME NEW i \in 1 .. n - 1 PROVE x[i] \in Members(w) /\ x[i] # w[k]
    <3>1. at(i) \in 1 .. n /\ at(i) # k /\ x[i] = w[at(i)]
      BY <1>2, <1>3, <1>5
    <3> HIDE DEF at
    <3>2. QED
      BY <1>2, <3>1
  <2>3. ASSUME NEW j \in 1 .. n, w[j] # w[k] PROVE w[j] \in Members(x)
    <3>1. j # k
      BY <2>3
    <3> DEFINE i == IF j < k THEN j ELSE j - 1
    <3>2. i \in 1 .. n - 1 /\ at(i) = j
      BY <1>2, <3>1
    <3> HIDE DEF i, at
    <3>3. x[i] = w[j]
      BY <1>5, <3>2
    <3>4. QED
      BY <2>1, <3>2, <3>3
  <2>4. QED
    BY <1>2, <2>1, <2>2, <2>3
<1>11. QED
  BY <1>1, <1>5, <1>8, <1>9, <1>10 DEF x

(* Remove() takes out its element, wherever it is.                         *)
LEMMA RemoveKeeps ==
  ASSUME NEW l, NEW S, Good(l, S), NEW e \in S
  PROVE  Good(Remove(l, e), S \ {e})
<1>1. PICK w : Chain(l, w) /\ Members(w) = S
  BY DEF Good
<1>2. PICK n \in Nat : n = Len(w)
  BY <1>1, WayFacts DEF Chain
<1>3. PICK k \in 1 .. n : w[k] = e
  BY <1>1, <1>2, WayFacts DEF Chain
<1>4. /\ \A i \in 1 .. n : w[i] \in Address
      /\ \A i, j \in 1 .. n : w[i] = w[j] => i = j
      /\ k \in 1 .. n /\ k \in Nat
      /\ \A i \in 1 .. n : /\ l.prev[w[i]] = (IF i = 1 THEN 0 ELSE w[i - 1])
                           /\ l.next[w[i]] = (IF i = n THEN 0 ELSE w[i + 1])
  BY <1>1, <1>2, WayFacts DEF Chain, Way, Distinct, Linked
<1> DEFINE m == Remove(l, e)
           x == Without(w, k)
<1>5. Unlinked(m, l, w, k)
  BY <1>1, <1>2, <1>3, RemoveUnlinks
<1> HIDE DEF m
<1>6. /\ m \in Lists /\ m.size = n - 1
      /\ m.head = (IF n = 1 THEN 0 ELSE IF k = 1 THEN w[2] ELSE w[1])
      /\ m.tail = (IF n = 1 THEN 0 ELSE IF k = n THEN w[n - 1] ELSE w[n])
      /\ \A a \in Address : m.next[a] = IF k # 1 /\ a = w[k - 1] THEN l.next[w[k]] ELSE l.next[a]
      /\ \A a \in Address : m.prev[a] = IF k # n /\ a = w[k + 1] THEN l.prev[w[k]] ELSE l.prev[a]
  BY <1>2, <1>5 DEF Unlinked
<1>7. /\ Way(x) /\ Len(x) = n - 1 /\ Members(x) = S \ {e}
      /\ \A i \in 1 .. n - 1 : x[i] = IF i < k THEN w[i] ELSE w[i + 1]
  BY <1>1, <1>2, <1>3, WithoutFacts DEF Chain
<1> HIDE DEF x
<1>8. /\ m.head = (IF n - 1 = 0 THEN 0 ELSE x[1]) /\ m.tail = (IF n - 1 = 0 THEN 0 ELSE x[n - 1])
  <2>1. CASE n = 1
    BY <1>6, <2>1
  <2>2. CASE n # 1
    <3>1. 1 \in 1 .. n - 1 /\ n - 1 \in 1 .. n - 1 /\ (n - 1) + 1 = n /\ n - 1 # 0 /\ 1 + 1 = 2
      BY <1>4, <2>2
    <3>2. x[1] = IF k = 1 THEN w[2] ELSE w[1]
      BY <1>4, <1>7, <3>1
    <3>3. x[n - 1] = IF k = n THEN w[n - 1] ELSE w[n]
      BY <1>4, <1>7, <3>1
    <3>4. QED
      BY <1>6, <2>2, <3>1, <3>2, <3>3
  <2>3. QED
    BY <2>1, <2>2
<1>9. ASSUME NEW i \in 1 .. n - 1
      PROVE  m.prev[x[i]] = IF i = 1 THEN 0 ELSE x[i - 1]
  <2>1. CASE i < k
    <3>1. /\ i \in 1 .. n /\ x[i] = w[i] /\ (i # 1 => i - 1 \in 1 .. n - 1 /\ i - 1 < k)
          /\ (k # n => k + 1 \in 1 .. n /\ i # k + 1)
      BY <1>4, <1>7, <2>1
    <3>2. m.prev[w[i]] = l.prev[w[i]]
      BY <1>4, <1>6, <3>1
    <3>3. i # 1 => x[i - 1] = w[i - 1]
      BY <1>7, <3>1
    <3>4. QED
      BY <1>4, <3>1, <3>2, <3>3
  <2>2. CASE i = k
    <3>1. /\ i + 1 \in 1 .. n /\ k # n /\ x[i] = w[k + 1] /\ (i # 1 => i - 1 \in 1 .. n - 1 /\ i - 1 < k)
      BY <1>4, <1>7, <2>2
    <3>2. m.prev[x[i]] = l.prev[w[k]]
      BY <1>4, <1>6, <2>2, <3>1
    <3>3. i # 1 => x[i - 1] = w[i - 1]
      BY <1>7, <3>1
    <3>4. QED
      BY <1>4, <2>2, <3>1, <3>2, <3>3
  <2>3. CASE i > k
    <3>1. /\ i + 1 \in 1 .. n /\ i + 1 # 1 /\ x[i] = w[i + 1] /\ i # 1 /\ i - 1 \in 1 .. n - 1 /\ ~(i - 1 < k)
          /\ (i - 1) + 1 = i /\ (i + 1) - 1 = i /\ i # k
          /\ (k # n => k + 1 \in 1 .. n /\ i + 1 # k + 1)
      BY <1>4, <1>7, <2>3
    <3>2. m.prev[x[i]] = l.prev[w[i + 1]]
      BY <1>4, <1>6, <3>1
    <3>3. x[i - 1] = w[i]
      BY <1>7, <3>1
    <3>4. l.prev[w[i + 1]] = w[i]
      BY <1>4, <3>1
    <3>5. QED
      BY <3>1, <3>2, <3>3, <3>4
  <2>4. QED
    BY <1>4, <2>1, <2>2, <2>3
<1>10. ASSUME NEW i \in 1 .. n - 1
       PROVE  m.next[x[i]] = IF i = n - 1 THEN 0 ELSE x[i + 1]
  <2>1. CASE i = k - 1
    <3>1. /\ i \in 1 .. n /\ i < k /\ k # 1 /\ x[i] = w[k - 1] /\ ~(i + 1 < k) /\ (i + 1) + 1 = k + 1
          /\ (i # n - 1 => i + 1 \in 1 .. n - 1 /\ k # n) /\ (i = n - 1 => k = n)
      <4>1. i \in 1 .. n /\ i < k /\ k # 1 /\ ~(i + 1 < k) /\ (i + 1) + 1 = k + 1
        BY <1>4, <2>1
      <4>2. x[i] = w[i]
        BY <1>7, <4>1
      <4>3. (i # n - 1 => i + 1 \in 1 .. n - 1 /\ k # n) /\ (i = n - 1 => k = n)
        BY <1>4, <2>1
      <4>4. QED
        BY <2>1, <4>1, <4>2, <4>3
    <3>2. m.next[x[i]] = l.next[w[k]]
      BY <1>4, <1>6, <2>1, <3>1
    <3>3. i # n - 1 => x[i + 1] = w[k + 1]
      BY <1>7, <3>1
    <3>4. QED
      BY <1>4, <3>1, <3>2, <3>3
  <2>2. CASE i < k - 1
    <3>1. /\ i \in 1 .. n /\ i < k /\ i + 1 < k /\ i + 1 \in 1 .. n - 1 /\ x[i] = w[i] /\ i # n /\ i # n - 1
          /\ (k # 1 => k - 1 \in 1 .. n /\ i # k - 1)
      BY <1>4, <1>7, <2>2
    <3>2. m.next[x[i]] = l.next[w[i]]
      BY <1>4, <1>6, <3>1
    <3>3. x[i + 1] = w[i + 1]
      BY <1>7, <3>1
    <3>4. QED
      BY <1>4, <3>1, <3>2, <3>3
  <2>3. CASE ~(i < k)
    <3>1. /\ i + 1 \in 1 .. n /\ x[i] = w[i + 1] /\ ~(i + 1 < k)
          /\ (i # n - 1 => i + 1 \in 1 .. n - 1 /\ i + 1 # n) /\ (i = n - 1 => i + 1 = n)
          /\ (k # 1 => k - 1 \in 1 .. n /\ i + 1 # k - 1)
      BY <1>4, <1>7, <2>3
    <3>2. m.next[x[i]] = l.next[w[i + 1]]
      BY <1>4, <1>6, <3>1
    <3>3. i # n - 1 => x[i + 1] = w[(i + 1) + 1]
      BY <1>7, <3>1
    <3>4. QED
      BY <1>4, <3>1, <3>2, <3>3
  <2>4. QED
    BY <1>4, <2>1, <2>2, <2>3
<1>11. Linked(m.head, m.tail, m.size, m.prev, m.next, x)
  BY <1>6, <1>7, <1>8, <1>9, <1>10 DEF Linked
<1>12. Chain(m, x)
  BY <1>6, <1>7, <1>11 DEF Chain
<1>13. QED
  BY <1>7, <1>12 DEF Good, m

(* What a walk and a search see of it.                                     *)
LEMMA GoodFacts ==
  ASSUME NEW l, NEW S, Good(l, S)
  PROVE  /\ S \subseteq Address /\ {Walk(l)[i] : i \in DOMAIN Walk(l)} = S
         /\ \A T : \/ First(l, T) = 0 /\ S \cap T = {}
                   \/ First(l, T) \in S /\ First(l, T) \in T
<1>1. PICK w : Chain(l, w) /\ Members(w) = S
  BY DEF Good
<1>2. Walk(l) = w
  BY <1>1, ChainIsWalk
<1>3. S \subseteq Address
  BY <1>1, WayFacts DEF Chain
<1>4. \A T : \/ First(l, T) = 0 /\ S \cap T = {}
             \/ First(l, T) \in S /\ First(l, T) \in T
  BY <1>1, FirstFinds
<1>5. QED
  BY <1>1, <1>2, <1>3, <1>4 DEF Members

(* Clearing the pointers of what is not in the list does not change it.    *)
LEMMA TidyKeeps ==
  ASSUME NEW l, NEW S, Good(l, S), NEW f
  PROVE  Good(TidyList(f, l), S)
<1>1. PICK w : Chain(l, w) /\ Members(w) = S
  BY DEF Good
<1>2. PICK n \in Nat : n = Len(w)
  BY <1>1, WayFacts DEF Chain
<1>3. \A i \in 1 .. n : w[i] \in Address /\ w[i] \in S
  BY <1>1, <1>2, WayFacts DEF Chain
<1>4. S \subseteq Live(f, l)
  BY GoodFacts DEF Live
<1> DEFINE m == TidyList(f, l)
<1>5. l \in Lists
  BY <1>1 DEF Chain
<1>6. /\ m.head = l.head /\ m.tail = l.tail /\ m.size = l.size
      /\ m.prev = [a \in Address |-> IF a \in Live(f, l) THEN l.prev[a] ELSE 0]
      /\ m.next = [a \in Address |-> IF a \in Live(f, l) THEN l.next[a] ELSE 0]
      /\ m = [head |-> m.head, tail |-> m.tail, size |-> m.size, prev |-> m.prev, next |-> m.next]
  <2>1. l = [head |-> l.head, tail |-> l.tail, size |-> l.size, prev |-> l.prev, next |-> l.next]
    BY <1>5 DEF Lists
  <2> DEFINE p == [a \in Address |-> IF a \in Live(f, l) THEN l.prev[a] ELSE 0]
             q == [a \in Address |-> IF a \in Live(f, l) THEN l.next[a] ELSE 0]
  <2>2. m = [l EXCEPT !.prev = p, !.next = q]
    BY DEF TidyList
  <2> HIDE DEF m, p, q
  <2>3. /\ m.head = l.head /\ m.tail = l.tail /\ m.size = l.size /\ m.prev = p /\ m.next = q
        /\ m = [head |-> m.head, tail |-> m.tail, size |-> m.size, prev |-> m.prev, next |-> m.next]
    BY <2>1, <2>2
  <2>4. QED
    BY <2>3 DEF p, q
<1> HIDE DEF m
<1>7. \A i \in 1 .. n : m.prev[w[i]] = l.prev[w[i]] /\ m.next[w[i]] = l.next[w[i]]
  BY <1>3, <1>4, <1>6
<1>8. m \in Lists
  <2>1. m.head \in Nat /\ m.tail \in Nat /\ m.size \in Nat
    BY <1>5, <1>6 DEF Lists
  <2>2. m.prev \in [Address -> Nat] /\ m.next \in [Address -> Nat]
    <3>1. l.prev \in [Address -> Nat] /\ l.next \in [Address -> Nat]
      BY <1>5 DEF Lists
    <3>2. QED
      BY <1>6, <3>1
  <2>3. QED
    BY <1>6, <2>1, <2>2, ListFields, Zenon
<1>9. Linked(m.head, m.tail, m.size, m.prev, m.next, w)
  BY <1>1, <1>2, <1>6, <1>7 DEF Chain, Linked
<1>10. QED
  BY <1>1, <1>8, <1>9 DEF Chain, Good, m

(* ListSound is what the sequence says.                                    *)
LEMMA GoodIsSound ==
  ASSUME Good(list, Elements)
  PROVE  ListSound
<1>1. PICK w : Chain(list, w) /\ Members(w) = Elements
  BY DEF Good
<1>2. Walk(list) = w
  BY <1>1, ChainIsWalk
<1>3. PICK n \in Nat : n = Len(w)
  BY <1>1, WayFacts DEF Chain
<1>4. DOMAIN w = 1 .. n /\ Cardinality(Elements) = n
  BY <1>1, <1>3, WayFacts DEF Chain
<1>5. /\ list.size = n
      /\ n > 0 => list.head = w[1] /\ list.tail = w[n]
      /\ \A i \in 1 .. n : list.prev[w[i]] = (IF i = 1 THEN 0 ELSE w[i - 1])
  BY <1>1, <1>3 DEF Chain, Linked
<1>6. QED
  BY <1>2, <1>3, <1>4, <1>5 DEF ListSound

(* The list before the first insertion.                                    *)
LEMMA EmptyIsGood == Good(EmptyList(Address), {})
<1> DEFINE l == EmptyList(Address)
<1>1. /\ l.head = 0 /\ l.tail = 0 /\ l.size = 0 /\ l.prev \in [Address -> Nat] /\ l.next \in [Address -> Nat]
      /\ l = [head |-> l.head, tail |-> l.tail, size |-> l.size, prev |-> l.prev, next |-> l.next]
  BY DEF EmptyList
<1> HIDE DEF l
<1>2. l \in Lists
  <2>1. l.head \in Nat /\ l.tail \in Nat /\ l.size \in Nat
    BY <1>1
  <2>2. QED
    BY <1>1, <2>1, ListFields, Zenon
<1>3. << >> \in Seq(Address) /\ Len(<< >>) = 0 /\ DOMAIN << >> = {}
  BY EmptySeq
<1>4. Way(<< >>) /\ Members(<< >>) = {}
  BY <1>3 DEF Way, Distinct, Members
<1>5. Linked(l.head, l.tail, l.size, l.prev, l.next, << >>)
  BY <1>1, <1>3 DEF Linked
<1>6. QED
  BY <1>2, <1>4, <1>5 DEF Chain, Good, l

-----------------------------------------------------------------------------
(* Free blocks and held blocks share out the cells, none smaller than an   *)
(* element.                                                                *)
Apart(a, m, b, n) == a + m <= b \/ b + n <= a
Inside(a, n) == a \in Address /\ n \in Nat /\ n >= ELEMENT /\ a + n <= Cells + 1
Held == [at : Nat, bytes : Nat]
Partition(F, rm, B) ==
    /\ B \subseteq Held
    /\ \A x \in F : Inside(x, rm[x])
    /\ \A b \in B : Inside(b.at, b.bytes)
    /\ \A x, y \in F : x # y => Apart(x, rm[x], y, rm[y])
    /\ \A x \in F, b \in B : Apart(x, rm[x], b.at, b.bytes)
    /\ \A b, c \in B : b # c => Apart(b.at, b.bytes, c.at, c.bytes)
    /\ \A a \in Address : \/ \E x \in F : x <= a /\ a < x + rm[x]
                          \/ \E b \in B : b.at <= a /\ a < b.at + b.bytes
Covered(F, rm) == {a \in Address : \E x \in F : x <= a /\ a < x + rm[x]}

(* The numbers of the heap.                                                *)
LEMMA Bounds == /\ Cells \in Nat /\ ELEMENT \in Nat /\ ELEMENT >= 1 /\ ELEMENT <= Cells
                /\ \A a : a \in Address <=> a \in Nat /\ a >= 1 /\ a <= Cells
                /\ \A a : a \in Address => a \in Int
  BY HeapAssumption DEF Address

(* The free cells can be counted.                                          *)
LEMMA CoveredFinite ==
  ASSUME NEW F, NEW rm
  PROVE  IsFiniteSet(Covered(F, rm)) /\ Cardinality(Covered(F, rm)) \in Nat
<1>1. Covered(F, rm) \subseteq Address
  BY DEF Covered
<1>2. IsFiniteSet(Covered(F, rm))
  BY <1>1, AddressCount, FS_Subset
<1>3. QED
  BY <1>2, FS_CardinalityType

(* The cells of an interval.                                               *)
LEMMA ExtentCount ==
  ASSUME NEW a \in Nat, NEW n \in Nat
  PROVE  IsFiniteSet(Extent(a, n)) /\ Cardinality(Extent(a, n)) = n
<1>1. a \in Int /\ a + n - 1 \in Int
  OBVIOUS
<1>2. IsFiniteSet(a .. a + n - 1) /\ Cardinality(a .. a + n - 1) = IF a > a + n - 1 THEN 0 ELSE (a + n - 1) - a + 1
  BY <1>1, FS_Interval
<1>3. QED
  BY <1>2 DEF Extent

(* A block is handed out of the end of a free one: all of it, or all but   *)
(* an element's room.                                                      *)
Grown(G, rn, F, rm, n) == Cardinality(Covered(G, rn)) = Cardinality(Covered(F, rm)) + n
Rear(rm, e, s) == [at |-> e + rm[e] - s, bytes |-> s]
Shortened(F, rm, e, s, G, rn) ==
    /\ e \in F /\ s \in Nat /\ s >= ELEMENT
    /\ rm[e] = s \/ rm[e] >= ELEMENT + s
    /\ G = (IF rm[e] = s THEN F \ {e} ELSE F)
    /\ \A x \in G : rn[x] = IF x = e THEN rm[e] - s ELSE rm[x]

LEMMA Split ==
  ASSUME NEW F, NEW rm, NEW B, Partition(F, rm, B), NEW e, NEW s,
         NEW G, NEW rn, Shortened(F, rm, e, s, G, rn)
  PROVE  /\ Partition(G, rn, B \cup {Rear(rm, e, s)})
         /\ Grown(G, rn, F, rm, -s)
<1> DEFINE a == e + rm[e] - s
           d == [at |-> a, bytes |-> s]
<1>0. /\ e \in F /\ s \in Nat /\ s >= ELEMENT
      /\ rm[e] = s \/ rm[e] >= ELEMENT + s
      /\ G = (IF rm[e] = s THEN F \ {e} ELSE F)
      /\ \A x \in G : rn[x] = IF x = e THEN rm[e] - s ELSE rm[x]
  BY DEF Shortened
<1> USE <1>0
<1>1. /\ Inside(e, rm[e]) /\ e \in Nat /\ rm[e] \in Nat /\ s >= 1
      /\ \A x \in F : Inside(x, rm[x]) /\ x \in Nat /\ rm[x] \in Nat
      /\ \A b \in B : Inside(b.at, b.bytes) /\ b.at \in Nat /\ b.bytes \in Nat
  BY <1>0, Bounds DEF Partition, Inside
<1>2. a \in Nat /\ a >= e /\ a + s = e + rm[e] /\ Inside(a, s)
  BY <1>0, <1>1, Bounds DEF Inside
<1>3. d \in Held /\ d.at = a /\ d.bytes = s
  BY <1>0, <1>2 DEF Held
<1> HIDE DEF a, d
<1>4. G \subseteq F /\ \A x \in F : x # e => x \in G
  BY <1>0
<1>5. \A x \in F : x # e => Apart(x, rm[x], e, rm[e]) /\ Apart(x, rm[x], a, s) /\ rn[x] = rm[x]
  <2> SUFFICES ASSUME NEW x \in F, x # e
               PROVE  Apart(x, rm[x], e, rm[e]) /\ Apart(x, rm[x], a, s) /\ rn[x] = rm[x]
    OBVIOUS
  <2>1. Apart(x, rm[x], e, rm[e]) /\ rn[x] = rm[x]
    BY <1>0, <1>4 DEF Partition
  <2>2. QED
    BY <1>1, <1>2, <2>1 DEF Apart
<1>6. e \in G => rm[e] # s /\ rn[e] = rm[e] - s /\ e + rn[e] = a /\ Inside(e, rn[e])
  <2> SUFFICES ASSUME e \in G PROVE rm[e] # s /\ rn[e] = rm[e] - s /\ e + rn[e] = a /\ Inside(e, rn[e])
    OBVIOUS
  <2>1. rm[e] # s /\ rn[e] = rm[e] - s /\ rm[e] >= ELEMENT + s
    BY <1>0
  <2>2. QED
    BY <1>1, <1>2, <2>1, Bounds DEF Inside, a
<1>7. \A x \in G : Inside(x, rn[x]) /\ Apart(x, rn[x], a, s)
  <2> SUFFICES ASSUME NEW x \in G PROVE Inside(x, rn[x]) /\ Apart(x, rn[x], a, s)
    OBVIOUS
  <2>1. CASE x = e
    <3>1. Apart(e, rn[e], a, s)
      BY <1>1, <1>2, <1>6, <2>1 DEF Apart
    <3>2. QED
      BY <1>6, <2>1, <3>1
  <2>2. CASE x # e
    BY <1>1, <1>4, <1>5, <2>2
  <2>3. QED
    BY <2>1, <2>2
<1>8. ASSUME NEW x \in G, NEW y \in G, x # y PROVE Apart(x, rn[x], y, rn[y])
  <2>1. x \in F /\ y \in F /\ Apart(x, rm[x], y, rm[y])
    BY <1>4, <1>8 DEF Partition
  <2>2. CASE x # e /\ y # e
    BY <1>5, <2>1, <2>2
  <2>3. CASE x = e
    <3>1. rn[y] = rm[y] /\ rn[x] = rm[x] - s /\ rm[x] \in Nat /\ x \in Nat /\ y \in Nat /\ rm[y] \in Nat
      BY <1>1, <1>5, <1>6, <1>8, <2>1, <2>3
    <3>2. QED
      BY <2>1, <3>1 DEF Apart
  <2>4. CASE y = e
    <3>1. rn[x] = rm[x] /\ rn[y] = rm[y] - s /\ rm[x] \in Nat /\ x \in Nat /\ y \in Nat /\ rm[y] \in Nat
      BY <1>1, <1>5, <1>6, <1>8, <2>1, <2>4
    <3>2. QED
      BY <2>1, <3>1 DEF Apart
  <2>5. QED
    BY <2>2, <2>3, <2>4
<1>9. ASSUME NEW b \in B PROVE Apart(b.at, b.bytes, a, s) /\ \A x \in G : Apart(x, rn[x], b.at, b.bytes)
  <2>1. \A x \in F : Apart(x, rm[x], b.at, b.bytes)
    BY DEF Partition
  <2>2. Apart(e, rm[e], b.at, b.bytes)
    BY <2>1
  <2>3. Apart(b.at, b.bytes, a, s)
    BY <1>1, <1>2, <2>2 DEF Apart
  <2>4. ASSUME NEW x \in G PROVE Apart(x, rn[x], b.at, b.bytes)
    <3>1. CASE x = e
      <4>1. rn[e] = rm[e] - s
        BY <1>6, <3>1
      <4>2. Apart(e, rn[e], b.at, b.bytes)
        BY <1>1, <2>2, <4>1 DEF Apart
      <4>3. QED
        BY <3>1, <4>2
    <3>2. CASE x # e
      BY <1>4, <1>5, <2>1, <3>2
    <3>3. QED
      BY <3>1, <3>2
  <2>5. QED
    BY <2>3, <2>4
<1>10. ASSUME NEW c \in Nat
       PROVE  (\E x \in F : x <= c /\ c < x + rm[x]) <=> (\E x \in G : x <= c /\ c < x + rn[x]) \/ (a <= c /\ c < a + s)
  <2>1. ASSUME NEW x \in F, x <= c, c < x + rm[x]
        PROVE  (\E y \in G : y <= c /\ c < y + rn[y]) \/ (a <= c /\ c < a + s)
    <3>1. CASE x # e
      BY <1>4, <1>5, <2>1, <3>1
    <3>2. CASE x = e /\ e \in G /\ c < a
      BY <1>6, <2>1, <3>2
    <3>3. CASE x = e /\ e \in G /\ ~(c < a)
      BY <1>2, <2>1, <3>3
    <3>4. CASE x = e /\ e \notin G
      <4>1. rm[e] = s
        BY <1>0, <3>4
      <4>2. a = e
        BY <1>1, <1>2, <4>1
      <4>3. QED
        BY <2>1, <3>4, <4>1, <4>2
    <3>5. QED
      BY <3>1, <3>2, <3>3, <3>4
  <2>2. ASSUME NEW x \in G, x <= c, c < x + rn[x] PROVE \E y \in F : y <= c /\ c < y + rm[y]
    <3>1. CASE x # e
      BY <1>4, <1>5, <2>2, <3>1
    <3>2. CASE x = e
      <4>1. e <= c /\ c < e + rm[e]
        BY <1>1, <1>6, <2>2, <3>2
      <4>2. QED
        BY <4>1
    <3>3. QED
      BY <3>1, <3>2
  <2>3. ASSUME a <= c, c < a + s PROVE \E y \in F : y <= c /\ c < y + rm[y]
    <3>1. e <= c /\ c < e + rm[e]
      BY <1>1, <1>2, <2>3
    <3>2. QED
      BY <3>1
  <2>4. QED
    BY <2>1, <2>2, <2>3
<1>11. Partition(G, rn, B \cup {d})
  <2>1. B \cup {d} \subseteq Held
    BY <1>3 DEF Partition
  <2>2. \A b \in B \cup {d} : Inside(b.at, b.bytes)
    BY <1>1, <1>2, <1>3
  <2>3. \A x \in G, b \in B \cup {d} : Apart(x, rn[x], b.at, b.bytes)
    BY <1>3, <1>7, <1>9
  <2>4. ASSUME NEW b \in B \cup {d}, NEW c \in B \cup {d}, b # c PROVE Apart(b.at, b.bytes, c.at, c.bytes)
    <3>1. CASE b \in B /\ c \in B
      BY <2>4, <3>1 DEF Partition
    <3>2. CASE b \in B /\ c = d
      BY <1>3, <1>9, <3>2
    <3>3. CASE b = d /\ c \in B
      <4>1. Apart(c.at, c.bytes, a, s)
        BY <1>9, <3>3
      <4>2. QED
        BY <1>3, <3>3, <4>1 DEF Apart
    <3>4. QED
      BY <2>4, <3>1, <3>2, <3>3
  <2>5. ASSUME NEW c \in Address
        PROVE  \/ \E x \in G : x <= c /\ c < x + rn[x]
               \/ \E b \in B \cup {d} : b.at <= c /\ c < b.at + b.bytes
    <3>1. \/ \E x \in F : x <= c /\ c < x + rm[x]
          \/ \E b \in B : b.at <= c /\ c < b.at + b.bytes
      BY DEF Partition
    <3>2. (\E x \in F : x <= c /\ c < x + rm[x]) => (\E x \in G : x <= c /\ c < x + rn[x]) \/ (a <= c /\ c < a + s)
      BY <1>10, Bounds
    <3>3. QED
      BY <1>3, <3>1, <3>2
  <2>6. QED
    BY <1>7, <1>8, <2>1, <2>2, <2>3, <2>4, <2>5 DEF Partition
<1>12. Cardinality(Covered(G, rn)) = Cardinality(Covered(F, rm)) - s
  <2>1. Extent(a, s) \subseteq Covered(F, rm)
    <3>1. ASSUME NEW c \in Extent(a, s) PROVE c \in Covered(F, rm)
      <4>1. c \in Nat /\ a <= c /\ c < a + s /\ c \in Address
        BY <1>2, <3>1, Bounds DEF Extent, Inside
      <4>2. QED
        BY <1>10, <4>1 DEF Covered
    <3>2. QED
      BY <3>1
  <2>2. Covered(G, rn) = Covered(F, rm) \ Extent(a, s)
    <3>1. ASSUME NEW c \in Address PROVE c \in Covered(G, rn) <=> c \in Covered(F, rm) /\ c \notin Extent(a, s)
      <4>1. c \in Nat
        BY Bounds
      <4>2. c \in Extent(a, s) <=> a <= c /\ c < a + s
        BY <1>2, <4>1 DEF Extent
      <4>3. ASSUME a <= c, c < a + s PROVE c \notin Covered(G, rn)
        <5> SUFFICES ASSUME NEW x \in G, x <= c, c < x + rn[x] PROVE FALSE
          BY DEF Covered
        <5>1. Apart(x, rn[x], a, s) /\ x \in Nat /\ rn[x] \in Nat
          BY <1>7, Bounds DEF Inside
        <5>2. QED
          BY <1>2, <4>1, <4>3, <5>1 DEF Apart
      <4>4. QED
        BY <1>10, <4>1, <4>2, <4>3 DEF Covered
    <3>2. QED
      BY <3>1 DEF Covered
  <2>3. IsFiniteSet(Extent(a, s)) /\ Cardinality(Extent(a, s)) = s
    BY <1>2, ExtentCount
  <2>4. Covered(F, rm) \cap Extent(a, s) = Extent(a, s)
    BY <2>1
  <2>5. IsFiniteSet(Covered(F, rm))
    BY CoveredFinite
  <2>6. Cardinality(Covered(F, rm) \ Extent(a, s)) = Cardinality(Covered(F, rm)) - Cardinality(Covered(F, rm) \cap Extent(a, s))
    BY <2>5, FS_Difference, Zenon
  <2>7. QED
    BY <2>2, <2>3, <2>4, <2>6
<1>13. QED
  BY <1>11, <1>12, CoveredFinite DEF Rear, Grown, d, a

(* A held block becomes a free one.                                        *)
LEMMA Return ==
  ASSUME NEW F, NEW rm, NEW B, Partition(F, rm, B), NEW b \in B,
         NEW rn, rn[b.at] = b.bytes, \A x \in F : x # b.at => rn[x] = rm[x]
  PROVE  /\ b.at \in Address /\ b.at \notin F
         /\ Partition(F \cup {b.at}, rn, B \ {b})
         /\ Cardinality(Covered(F \cup {b.at}, rn)) = Cardinality(Covered(F, rm)) + b.bytes
<1> DEFINE G == F \cup {b.at}
           C == B \ {b}
<1>1. /\ \A x \in F : Inside(x, rm[x]) /\ x \in Nat /\ rm[x] \in Nat /\ rm[x] >= 1
      /\ \A c \in B : Inside(c.at, c.bytes) /\ c.at \in Nat /\ c.bytes \in Nat
      /\ b.bytes >= 1 /\ b.at \in Nat /\ b.bytes \in Nat /\ b.at \in Address
      /\ B \subseteq Held
  BY Bounds DEF Partition, Inside
<1>2. \A x \in F : x # b.at /\ Apart(x, rm[x], b.at, b.bytes)
  <2> SUFFICES ASSUME NEW x \in F PROVE x # b.at /\ Apart(x, rm[x], b.at, b.bytes)
    OBVIOUS
  <2>1. Apart(x, rm[x], b.at, b.bytes)
    BY DEF Partition
  <2>2. QED
    BY <1>1, <2>1 DEF Apart
<1>3. \A x \in F : rn[x] = rm[x]
  BY <1>2
<1>4. /\ \A x \in G : Inside(x, rn[x])
      /\ \A c \in C : Inside(c.at, c.bytes)
  BY <1>1, <1>3
<1>5. ASSUME NEW x \in G, NEW y \in G, x # y PROVE Apart(x, rn[x], y, rn[y])
  <2>1. CASE x \in F /\ y \in F
    BY <1>3, <1>5, <2>1 DEF Partition
  <2>2. CASE x \in F /\ y = b.at
    BY <1>2, <1>3, <2>2
  <2>3. CASE x = b.at /\ y \in F
    BY <1>2, <1>3, <2>3 DEF Apart
  <2>4. QED
    BY <1>5, <2>1, <2>2, <2>3
<1>6. ASSUME NEW x \in G, NEW c \in C PROVE Apart(x, rn[x], c.at, c.bytes)
  <2>1. CASE x \in F
    BY <1>3, <2>1 DEF Partition
  <2>2. CASE x = b.at
    BY <2>2 DEF Partition
  <2>3. QED
    BY <2>1, <2>2
<1>7. ASSUME NEW c \in Nat
      PROVE  (\E x \in G : x <= c /\ c < x + rn[x]) <=> (\E x \in F : x <= c /\ c < x + rm[x]) \/ (b.at <= c /\ c < b.at + b.bytes)
  BY <1>3
<1>8. Partition(G, rn, C)
  <2>1. ASSUME NEW c \in Address
        PROVE  \/ \E x \in G : x <= c /\ c < x + rn[x]
               \/ \E d \in C : d.at <= c /\ c < d.at + d.bytes
    <3>1. \/ \E x \in F : x <= c /\ c < x + rm[x]
          \/ \E d \in B : d.at <= c /\ c < d.at + d.bytes
      BY DEF Partition
    <3>2. c \in Nat
      BY Bounds
    <3>3. QED
      BY <1>7, <3>1, <3>2
  <2>2. \A c, d \in C : c # d => Apart(c.at, c.bytes, d.at, d.bytes)
    BY DEF Partition
  <2> HIDE DEF G
  <2>3. QED
    BY <1>1, <1>4, <1>5, <1>6, <2>1, <2>2 DEF Partition
<1>9. Cardinality(Covered(G, rn)) = Cardinality(Covered(F, rm)) + b.bytes
  <2> DEFINE X == Extent(b.at, b.bytes)
  <2>1. \A c \in Nat : c \in X <=> b.at <= c /\ c < b.at + b.bytes
    BY <1>1 DEF Extent
  <2>2. X \subseteq Address
    BY <1>1, Bounds DEF Extent, Inside
  <2> HIDE DEF X, G
  <2>3. Covered(G, rn) = Covered(F, rm) \cup X
    <3>1. ASSUME NEW c \in Address PROVE c \in Covered(G, rn) <=> c \in Covered(F, rm) \/ c \in X
      <4>1. c \in Nat
        BY Bounds
      <4>2. QED
        BY <1>7, <2>1, <4>1 DEF Covered
    <3>2. QED
      BY <2>2, <3>1 DEF Covered
  <2>4. Covered(F, rm) \cap X = {}
    <3> SUFFICES ASSUME NEW c \in Address, c \in X, NEW x \in F, x <= c, c < x + rm[x] PROVE FALSE
      BY DEF Covered
    <3>1. c \in Nat /\ b.at <= c /\ c < b.at + b.bytes
      BY <2>1, Bounds
    <3>2. QED
      BY <1>1, <1>2, <3>1 DEF Apart
  <2>5. IsFiniteSet(X) /\ Cardinality(X) = b.bytes
    BY <1>1, ExtentCount DEF X
  <2>6. IsFiniteSet(Covered(F, rm)) /\ Cardinality(Covered(F, rm)) \in Nat
    BY CoveredFinite
  <2>7. Cardinality(Covered(F, rm) \cup X) = Cardinality(Covered(F, rm)) + Cardinality(X) - Cardinality(Covered(F, rm) \cap X)
    BY <2>5, <2>6, FS_Union, Zenon
  <2>8. Cardinality(Covered(F, rm) \cap X) = 0
    BY <2>4, FS_EmptySet
  <2>9. QED
    BY <1>1, <2>3, <2>5, <2>6, <2>7, <2>8
<1>10. QED
  BY <1>1, <1>2, <1>8, <1>9

(* Two free blocks side by side become one.                                *)
Merged(F, rm, x, y, rn) ==
    /\ x \in F /\ y \in F /\ x + rm[x] = y
    /\ rn[x] = rm[x] + rm[y] /\ \A z \in F \ {x, y} : rn[z] = rm[z]

Alike(G, rn, F, rm) == Covered(G, rn) = Covered(F, rm)

LEMMA Join ==
  ASSUME NEW F, NEW rm, NEW B, Partition(F, rm, B), NEW x, NEW y, NEW rn, Merged(F, rm, x, y, rn)
  PROVE  /\ x # y
         /\ Partition(F \ {y}, rn, B)
         /\ Alike(F \ {y}, rn, F, rm)
<1>0. /\ x \in F /\ y \in F /\ x + rm[x] = y
      /\ rn[x] = rm[x] + rm[y] /\ \A z \in F \ {x, y} : rn[z] = rm[z]
  BY DEF Merged
<1> USE <1>0
<1> DEFINE G == F \ {y}
<1>1. /\ \A z \in F : Inside(z, rm[z]) /\ z \in Nat /\ rm[z] \in Nat /\ rm[z] >= 1
      /\ \A c \in B : Inside(c.at, c.bytes) /\ c.at \in Nat /\ c.bytes \in Nat
  BY Bounds DEF Partition, Inside
<1>2. x # y
  BY <1>1
<1>3. Inside(x, rn[x]) /\ rn[x] \in Nat
  BY <1>1, Bounds DEF Inside
<1>4. ASSUME NEW z \in F \ {x, y} PROVE Apart(x, rn[x], z, rm[z]) /\ Apart(z, rm[z], x, rn[x])
  <2>1. Apart(x, rm[x], z, rm[z]) /\ Apart(y, rm[y], z, rm[z])
    BY <1>4 DEF Partition
  <2>2. x \in Nat /\ y \in Nat /\ z \in Nat /\ rm[x] \in Nat /\ rm[y] \in Nat /\ rm[z] \in Nat /\ rm[z] >= 1 /\ rm[y] >= 1
    BY <1>1
  <2>3. QED
    BY <2>1, <2>2 DEF Apart
<1>5. ASSUME NEW z \in G PROVE Inside(z, rn[z])
  BY <1>1, <1>3
<1>6. ASSUME NEW z \in G, NEW v \in G, z # v PROVE Apart(z, rn[z], v, rn[v])
  <2>1. CASE z # x /\ v # x
    BY <1>6, <2>1 DEF Partition
  <2>2. CASE z = x
    BY <1>4, <1>6, <2>2
  <2>3. CASE v = x
    BY <1>4, <1>6, <2>3
  <2>4. QED
    BY <2>1, <2>2, <2>3
<1>7. ASSUME NEW z \in G, NEW c \in B PROVE Apart(z, rn[z], c.at, c.bytes)
  <2>1. CASE z # x
    BY <2>1 DEF Partition
  <2>2. CASE z = x
    <3>1. Apart(x, rm[x], c.at, c.bytes) /\ Apart(y, rm[y], c.at, c.bytes)
      BY DEF Partition
    <3>2. x \in Nat /\ y \in Nat /\ rm[x] \in Nat /\ rm[y] \in Nat /\ c.at \in Nat /\ c.bytes \in Nat /\ c.bytes >= 1 /\ rm[y] >= 1
      BY <1>1, Bounds DEF Inside
    <3>3. Apart(x, rn[x], c.at, c.bytes)
      BY <3>1, <3>2 DEF Apart
    <3>4. QED
      BY <2>2, <3>3
  <2>3. QED
    BY <2>1, <2>2
<1>8. ASSUME NEW c \in Nat
      PROVE  (\E z \in G : z <= c /\ c < z + rn[z]) <=> (\E z \in F : z <= c /\ c < z + rm[z])
  <2>1. ASSUME NEW z \in G, z <= c, c < z + rn[z] PROVE \E v \in F : v <= c /\ c < v + rm[v]
    <3>1. CASE z # x
      BY <2>1, <3>1
    <3>2. CASE z = x
      <4>1. x \in Nat /\ y \in Nat /\ rm[x] \in Nat /\ rm[y] \in Nat
        BY <1>1
      <4>2. (x <= c /\ c < x + rm[x]) \/ (y <= c /\ c < y + rm[y])
        BY <2>1, <3>2, <4>1
      <4>3. QED
        BY <4>2
    <3>3. QED
      BY <3>1, <3>2
  <2>2. ASSUME NEW z \in F, z <= c, c < z + rm[z] PROVE \E v \in G : v <= c /\ c < v + rn[v]
    <3>1. CASE z # x /\ z # y
      BY <2>2, <3>1
    <3>2. CASE z = x \/ z = y
      <4>1. x \in Nat /\ y \in Nat /\ rm[x] \in Nat /\ rm[y] \in Nat
        BY <1>1
      <4>2. x <= c /\ c < x + rn[x]
        BY <2>2, <3>2, <4>1
      <4>3. QED
        BY <1>2, <4>2
    <3>3. QED
      BY <3>1, <3>2
  <2>3. QED
    BY <2>1, <2>2
<1>9. \A c \in Address : c \in Nat
  BY Bounds
<1>10. Covered(G, rn) = Covered(F, rm)
  BY <1>8, <1>9 DEF Covered
<1>11. Partition(G, rn, B)
  <2>1. ASSUME NEW c \in Address
        PROVE  \/ \E z \in G : z <= c /\ c < z + rn[z]
               \/ \E d \in B : d.at <= c /\ c < d.at + d.bytes
    <3>1. \/ \E z \in F : z <= c /\ c < z + rm[z]
          \/ \E d \in B : d.at <= c /\ c < d.at + d.bytes
      BY DEF Partition
    <3>2. QED
      BY <1>8, <1>9, <3>1
  <2>2. B \subseteq Held /\ (\A b, c \in B : b # c => Apart(b.at, b.bytes, c.at, c.bytes))
    BY DEF Partition
  <2> HIDE DEF G
  <2>3. QED
    BY <1>1, <1>5, <1>6, <1>7, <2>1, <2>2 DEF Partition
<1>12. QED
  BY <1>2, <1>10, <1>11 DEF Alike

-----------------------------------------------------------------------------
(* What holds of the free memory while the flow that works on it, if there *)
(* is one, is at a; S is the set of elements.                              *)
Acts == [pc : {"idle", "take", "right", "left"}, e : Nat, bytes : Nat, r : Nat, l : Nat]
Merging(a) == a.pc \in {"right", "left"}
FreeOnes(S, a) == IF Merging(a) THEN S \cup {a.e} ELSE S
Beside(a, x, y) == (Merging(a) /\ x = a.l /\ y = a.e) \/ (a.pc = "right" /\ x = a.e /\ y = a.r)
Doing(S, rm, a) ==
    /\ a.pc = "idle" => a = Idle
    /\ a.pc = "take" => /\ a.bytes >= ELEMENT
                        /\ a.e = 0 \/ (a.e \in S /\ (rm[a.e] = a.bytes \/ rm[a.e] >= ELEMENT + a.bytes))
    /\ Merging(a) => IF a.l = 0 THEN a.e \in S ELSE a.l \in S /\ a.l + rm[a.l] = a.e /\ a.e \notin S
    /\ a.pc = "right" => a.r = 0 \/ (a.r \in S /\ a.e + rm[a.e] = a.r)
Shares(S, rm, B, gr, a) ==
    /\ a \in Acts /\ Doing(S, rm, a)
    /\ Partition(FreeOnes(S, a), rm, B)
    /\ gr = Cardinality(Covered(FreeOnes(S, a), rm))
    /\ \A x, y \in FreeOnes(S, a) : x + rm[x] = y => Beside(a, x, y)

(* One flow, or all under the lock.                                        *)
Serial == (\A f, g \in Flow : f = g) \/ (MULTICORE /\ "delete" \notin Calls)
Busy == {f \in Flow : act[f].pc # "idle"}
Alone ==
    /\ \A f, g \in Busy : f = g
    /\ MULTICORE /\ "delete" \notin Calls => \A f \in Busy : holder = f
Acting(a) == (\A f \in Busy : act[f] = a) /\ (Busy = {} => a = Idle)
IInv ==
    /\ act \in [Flow -> Acts] /\ room \in [Address -> Nat]
    /\ Alone
    /\ Good(list, Elements)
    /\ \E a \in Acts : Acting(a) /\ Shares(Elements, room, blocks, grouped, a)

(* The parts of a merge, by name.                                          *)
LEMMA SharesFacts ==
  ASSUME NEW S, NEW rm, NEW B, NEW gr, NEW a, Shares(S, rm, B, gr, a)
  PROVE  /\ a.pc \in {"idle", "take", "right", "left"} /\ a.e \in Nat /\ a.bytes \in Nat /\ a.r \in Nat /\ a.l \in Nat
         /\ Doing(S, rm, a)
         /\ Partition(FreeOnes(S, a), rm, B)
         /\ gr = Cardinality(Covered(FreeOnes(S, a), rm))
         /\ \A x, y \in FreeOnes(S, a) : x + rm[x] = y => Beside(a, x, y)
  BY DEF Shares, Acts

(* The sizes, and which of two comes first.                                *)
LEMMA SizesOf ==
  ASSUME NEW F, NEW rm, NEW B, Partition(F, rm, B)
  PROVE  /\ \A x \in F : x \in Address /\ x \in Nat /\ x >= 1 /\ rm[x] \in Nat /\ rm[x] >= ELEMENT /\ rm[x] >= 1
         /\ \A x, y \in F : x # y => x + rm[x] <= y \/ y + rm[y] <= x
<1>1. \A x \in F : x \in Address /\ rm[x] \in Nat /\ rm[x] >= ELEMENT
  BY DEF Partition, Inside
<1>2. \A x \in F : x \in Nat /\ x >= 1 /\ rm[x] >= 1
  BY <1>1, Bounds
<1>3. QED
  BY <1>1, <1>2 DEF Partition, Apart

(* Nobody at work.                                                         *)
LEMMA IdleFacts ==
  /\ Idle \in Acts /\ Idle.pc = "idle" /\ Idle.e = 0 /\ Idle.bytes = 0 /\ Idle.r = 0 /\ Idle.l = 0
  /\ ~Merging(Idle)
  /\ \A S : FreeOnes(S, Idle) = S
  /\ \A x, y : ~Beside(Idle, x, y)
  /\ \A S, rm : Doing(S, rm, Idle)
<1>1. /\ Idle \in Acts /\ Idle.pc = "idle" /\ Idle.e = 0 /\ Idle.bytes = 0 /\ Idle.r = 0 /\ Idle.l = 0
  BY DEF Idle, Acts
<1>2. ~Merging(Idle) /\ (\A x, y : ~Beside(Idle, x, y))
  BY <1>1 DEF Merging, Beside
<1>3. \A S, rm : Doing(S, rm, Idle)
  BY <1>1, <1>2 DEF Doing
<1>4. QED
  BY <1>1, <1>2, <1>3 DEF FreeOnes

(* What matters of the sizes are those of the free blocks.                 *)
LEMMA SameSizes ==
  ASSUME NEW F, NEW rm, NEW B, Partition(F, rm, B), NEW rn, \A x \in F : rn[x] = rm[x]
  PROVE  Partition(F, rn, B) /\ Covered(F, rn) = Covered(F, rm)
  BY DEF Partition, Covered

-----------------------------------------------------------------------------
(* The search of alloc() has found an element that fits, or none.          *)
LEMMA SharesAlloc ==
  ASSUME NEW S, NEW B, NEW gr, Shares(S, room, B, gr, Idle), NEW a \in Acts,
         a.pc = "take", a.bytes >= ELEMENT, a.e = 0 \/ (a.e \in S /\ Fits(a.e, a.bytes))
  PROVE  Shares(S, room, B, gr, a)
<1>1. FreeOnes(S, Idle) = S /\ FreeOnes(S, a) = S /\ ~Merging(a)
  BY IdleFacts DEF FreeOnes, Merging
<1>2. Doing(S, room, a)
  BY <1>1 DEF Doing, Fits
<1>3. QED
  BY <1>1, <1>2, IdleFacts DEF Shares

(* It goes without.                                                        *)
LEMMA SharesOut ==
  ASSUME NEW S, NEW rm, NEW B, NEW gr, NEW a, Shares(S, rm, B, gr, a), a.pc = "take"
  PROVE  Shares(S, rm, B, gr, Idle)
<1>1. FreeOnes(S, Idle) = S /\ FreeOnes(S, a) = S /\ \A x, y : ~Beside(a, x, y)
  BY IdleFacts DEF FreeOnes, Merging, Beside
<1>2. QED
  BY <1>1, IdleFacts DEF Shares

(* It takes the end of the element.                                        *)
LEMMA SharesTake ==
  ASSUME NEW S, NEW rm, NEW B, NEW gr, NEW a, Shares(S, rm, B, gr, a), a.pc = "take",
         NEW G, NEW rn, Shortened(S, rm, a.e, a.bytes, G, rn)
  PROVE  Shares(G, rn, B \cup {Rear(rm, a.e, a.bytes)}, gr - a.bytes, Idle)
<1>1. PICK e, s : e = a.e /\ s = a.bytes
  OBVIOUS
<1>2. FreeOnes(S, a) = S /\ FreeOnes(G, Idle) = G /\ \A x, y : ~Beside(a, x, y)
  BY IdleFacts DEF FreeOnes, Merging, Beside
<1>3. /\ e \in S /\ s \in Nat /\ s >= ELEMENT /\ (rm[e] = s \/ rm[e] >= ELEMENT + s)
      /\ Partition(S, rm, B) /\ gr = Cardinality(Covered(S, rm))
      /\ \A x, y \in S : x + rm[x] # y
  BY <1>1, <1>2, SharesFacts DEF Shortened
<1>4. /\ Partition(G, rn, B \cup {Rear(rm, e, s)})
      /\ Cardinality(Covered(G, rn)) = gr - s
  <2>1. Partition(S, rm, B)
    BY <1>3
  <2>2. Shortened(S, rm, e, s, G, rn)
    BY <1>1
  <2>3. Partition(G, rn, B \cup {Rear(rm, e, s)})
    BY <2>1, <2>2, Split, Zenon
  <2>4. Grown(G, rn, S, rm, -s)
    BY <2>1, <2>2, Split, Zenon
  <2>5. QED
    BY <1>3, <2>3, <2>4, CoveredFinite DEF Grown
<1>5. ASSUME NEW x \in G, NEW y \in G PROVE x + rn[x] # y
  <2>1. x \in S /\ y \in S
    BY DEF Shortened
  <2>2. CASE x # e
    BY <1>1, <1>3, <2>1, <2>2 DEF Shortened
  <2>3. CASE x = e
    <3>1. rn[e] = rm[e] - s /\ rm[e] # s
      BY <1>1, <2>3 DEF Shortened
    <3>2. /\ e \in Nat /\ rm[e] \in Nat /\ y \in Nat /\ rm[y] \in Nat /\ rm[y] >= 1 /\ s \in Nat /\ s >= 1
          /\ y # e => e + rm[e] <= y \/ y + rm[y] <= e
      BY <1>3, <2>1, SizesOf, Bounds
    <3>3. rm[e] > s
      BY <1>3, <3>1, <3>2, Bounds
    <3>4. QED
      BY <2>3, <3>1, <3>2, <3>3
  <2>4. QED
    BY <2>2, <2>3
<1>6. QED
  BY <1>1, <1>2, <1>3, <1>4, <1>5, IdleFacts DEF Shares

(* What insert_merging() finds for a block, and what it links.             *)
Finds(S, b, a) ==
    /\ a \in Acts /\ a.pc = "right" /\ a.e = b.at
    /\ (a.r = 0 /\ S \cap {b.at + b.bytes} = {}) \/ (a.r \in S /\ a.r \in {b.at + b.bytes})
    /\ (a.l = 0 /\ S \cap {e \in Address : e + room[e] = b.at} = {}) \/ (a.l \in S /\ a.l \in {e \in Address : e + room[e] = b.at})
Links(S, b, a) == IF a.l = 0 THEN S \cup {b.at} ELSE S

(* free() has the block and its neighbours.                                *)
LEMMA SharesFree ==
  ASSUME NEW S, NEW B, NEW gr, Shares(S, room, B, gr, Idle), NEW b \in B, NEW a, Finds(S, b, a),
         NEW rn, rn[b.at] = b.bytes, \A x \in S : x # b.at => rn[x] = room[x]
  PROVE  /\ b.at \notin S
         /\ Shares(Links(S, b, a), rn, B \ {b}, gr + b.bytes, a)
<1>0. /\ a \in Acts /\ a.pc = "right" /\ a.e = b.at
      /\ (a.r = 0 /\ S \cap {b.at + b.bytes} = {}) \/ (a.r \in S /\ a.r \in {b.at + b.bytes})
      /\ (a.l = 0 /\ S \cap {e \in Address : e + room[e] = b.at} = {}) \/ (a.l \in S /\ a.l \in {e \in Address : e + room[e] = b.at})
  BY DEF Finds
<1> USE <1>0
<1>1. PICK e, n : e = b.at /\ n = b.bytes
  OBVIOUS
<1>2. /\ Partition(S, room, B) /\ gr = Cardinality(Covered(S, room))
      /\ \A x, y \in S : x + room[x] # y
  BY IdleFacts, SharesFacts
<1>3. /\ e \in Address /\ e \notin S /\ Partition(S \cup {e}, rn, B \ {b})
      /\ Cardinality(Covered(S \cup {e}, rn)) = gr + n
  BY <1>1, <1>2, Return
<1>4. /\ \A x \in S : x \in Address /\ x \in Nat /\ x >= 1 /\ room[x] \in Nat /\ room[x] >= 1 /\ rn[x] = room[x]
      /\ \A x, y \in S : x # y => x + room[x] <= y \/ y + room[y] <= x
      /\ e \in Nat /\ e >= 1 /\ n \in Nat /\ n >= 1 /\ rn[e] = n
  BY <1>1, <1>2, <1>3, SizesOf, Bounds
<1> DEFINE T == IF a.l = 0 THEN S \cup {e} ELSE S
<1>5. /\ a.r = 0 => e + n \notin S
      /\ a.r # 0 => a.r \in S /\ a.r = e + n
      /\ a.l = 0 => \A x \in S : x + room[x] # e
      /\ a.l # 0 => a.l \in S /\ a.l + room[a.l] = e
  BY <1>1, <1>4
<1>6. Merging(a) /\ FreeOnes(T, a) = S \cup {e}
  BY <1>1 DEF Merging, FreeOnes
<1>7. Doing(T, rn, a)
  BY <1>1, <1>3, <1>4, <1>5, <1>6 DEF Doing
<1>8. ASSUME NEW x \in S \cup {e}, NEW y \in S \cup {e}, x + rn[x] = y PROVE Beside(a, x, y)
  <2>1. CASE x \in S /\ y \in S
    BY <1>2, <1>4, <1>8, <2>1
  <2>2. CASE x \in S /\ y = e
    <3>1. x + room[x] = e
      BY <1>4, <1>8, <2>2
    <3>2. a.l # 0 /\ a.l \in S /\ a.l + room[a.l] = e
      BY <1>5, <2>2, <3>1
    <3>3. x = a.l
      <4>1. PICK k : k = a.l
        OBVIOUS
      <4>2. k \in S /\ k + room[k] = e /\ (x # k => x + room[x] <= k \/ k + room[k] <= x)
        BY <1>4, <2>2, <3>2, <4>1
      <4>3. x = k
        BY <1>4, <2>2, <3>1, <4>2
      <4>4. QED
        BY <4>1, <4>3
    <3>4. QED
      BY <1>1, <1>6, <2>2, <3>3 DEF Beside
  <2>3. CASE x = e /\ y \in S
    <3>1. e + n \in S
      BY <1>4, <1>8, <2>3
    <3>2. a.r = y
      BY <1>4, <1>5, <1>8, <2>3, <3>1
    <3>3. QED
      BY <1>1, <2>3, <3>2 DEF Beside
  <2>4. CASE x = e /\ y = e
    BY <1>4, <1>8, <2>4
  <2>5. QED
    BY <2>1, <2>2, <2>3, <2>4
<1>9. Shares(T, rn, B \ {b}, gr + n, a)
  <2> HIDE DEF T
  <2>1. QED
    BY <1>3, <1>6, <1>7, <1>8 DEF Shares
<1>10. QED
  BY <1>1, <1>3, <1>9 DEF Links

(* The right neighbour is taken in.                                        *)
LEMMA SharesRight ==
  ASSUME NEW S, NEW rm, NEW B, NEW gr, NEW a, Shares(S, rm, B, gr, a), a.pc = "right",
         NEW c \in Acts, c.pc = "left", c.e = a.e, c.r = a.r, c.l = a.l,
         NEW rn, rn = (IF a.r = 0 THEN rm ELSE [rm EXCEPT ![a.e] = @ + rm[a.r]]),
         rm \in [Address -> Nat]
  PROVE  /\ a.r # 0 => a.r \in S
         /\ Shares(IF a.r = 0 THEN S ELSE S \ {a.r}, rn, B, gr, c)
<1>1. PICK e, r, l : e = a.e /\ r = a.r /\ l = a.l
  OBVIOUS
<1> DEFINE F == S \cup {e}
           T == IF r = 0 THEN S ELSE S \ {r}
<1>2. /\ Merging(a) /\ Merging(c) /\ FreeOnes(S, a) = F /\ FreeOnes(T, c) = T \cup {e}
      /\ \A x, y : Beside(a, x, y) <=> (x = l /\ y = e) \/ (x = e /\ y = r)
      /\ \A x, y : Beside(c, x, y) <=> (x = l /\ y = e)
  BY <1>1 DEF Merging, FreeOnes, Beside
<1>3. /\ Partition(F, rm, B) /\ gr = Cardinality(Covered(F, rm))
      /\ \A x, y \in F : x + rm[x] = y => (x = l /\ y = e) \/ (x = e /\ y = r)
      /\ IF l = 0 THEN e \in S ELSE l \in S /\ l + rm[l] = e /\ e \notin S
      /\ r = 0 \/ (r \in S /\ e + rm[e] = r)
  <2>1. /\ Doing(S, rm, a) /\ Partition(F, rm, B) /\ gr = Cardinality(Covered(F, rm))
        /\ \A x, y \in F : x + rm[x] = y => Beside(a, x, y)
    BY <1>2, SharesFacts
  <2> HIDE DEF F
  <2>2. QED
    BY <1>1, <1>2, <2>1 DEF Doing
<1>4. /\ \A x \in F : x \in Address /\ x \in Nat /\ x >= 1 /\ rm[x] \in Nat /\ rm[x] >= 1
      /\ e \in F
  BY <1>3, SizesOf
<1>5. ASSUME r = 0 PROVE Shares(S, rm, B, gr, c)
  <2>1. FreeOnes(S, c) = F
    BY <1>2, <1>5
  <2>2. Doing(S, rm, c)
    BY <1>1, <1>2, <1>3 DEF Doing
  <2>3. \A x, y \in F : x + rm[x] = y => Beside(c, x, y)
    BY <1>2, <1>3, <1>4, <1>5
  <2> HIDE DEF F
  <2>4. QED
    BY <1>3, <2>1, <2>2, <2>3 DEF Shares
<1>6. ASSUME r # 0 PROVE Shares(T, rn, B, gr, c)
  <2>1. /\ r \in S /\ r \in F /\ e + rm[e] = r /\ e # r /\ T = S \ {r} /\ T \cup {e} = F \ {r}
    BY <1>3, <1>4, <1>6
  <2>2. /\ rn[e] = rm[e] + rm[r] /\ \A z \in F \ {e} : rn[z] = rm[z]
    BY <1>1, <1>4, <1>6, <2>1
  <2>3. Partition(F \ {r}, rn, B) /\ Covered(F \ {r}, rn) = Covered(F, rm)
    <3> HIDE DEF F
    <3>1. Merged(F, rm, e, r, rn)
      BY <1>4, <2>1, <2>2 DEF Merged
    <3>2. Partition(F, rm, B)
      BY <1>3
    <3>3. Partition(F \ {r}, rn, B)
      BY <3>1, <3>2, Join, Zenon
    <3>4. Alike(F \ {r}, rn, F, rm)
      BY <3>1, <3>2, Join, Zenon
    <3>5. QED
      BY <3>3, <3>4 DEF Alike
  <2>4. l # 0 => l \in T /\ l \in F /\ l # e /\ l # r /\ rn[l] = rm[l]
    BY <1>3, <1>4, <2>1, <2>2
  <2>5. Doing(T, rn, c)
    BY <1>1, <1>2, <1>3, <2>1, <2>4 DEF Doing
  <2>6. ASSUME NEW x \in F \ {r}, NEW y \in F \ {r}, x + rn[x] = y PROVE x = l /\ y = e
    <3>1. CASE x # e
      BY <1>3, <2>2, <2>6, <3>1
    <3>2. CASE x = e
      <4>1. r + rm[r] = y
        BY <1>4, <2>1, <2>2, <2>6, <3>2
      <4>2. r = l /\ y = e
        BY <1>3, <2>1, <2>6, <4>1
      <4>3. l # 0
        BY <1>6, <4>2
      <4>4. FALSE
        BY <2>4, <4>2, <4>3
      <4>5. QED
        BY <4>4
    <3>3. QED
      BY <3>1, <3>2
  <2>7. FreeOnes(T, c) = F \ {r}
    BY <1>2, <2>1
  <2> HIDE DEF F, T
  <2>8. QED
    BY <1>2, <1>3, <2>3, <2>5, <2>6, <2>7 DEF Shares
<1>7. QED
  BY <1>1, <1>3, <1>5, <1>6

(* All goes to the left neighbour, if there is one.                        *)
LEMMA SharesLeft ==
  ASSUME NEW S, NEW rm, NEW B, NEW gr, NEW a, Shares(S, rm, B, gr, a), a.pc = "left",
         NEW rn, \A x \in S : rn[x] = IF a.l # 0 /\ x = a.l THEN rm[a.l] + rm[a.e] ELSE rm[x]
  PROVE  Shares(S, rn, B, gr, Idle)
<1>1. PICK e, l : e = a.e /\ l = a.l
  OBVIOUS
<1> DEFINE F == S \cup {e}
<1>2. /\ Merging(a) /\ FreeOnes(S, a) = F /\ FreeOnes(S, Idle) = S
      /\ \A x, y : Beside(a, x, y) <=> (x = l /\ y = e)
  BY <1>1, IdleFacts DEF Merging, FreeOnes, Beside
<1>3. /\ Partition(F, rm, B) /\ gr = Cardinality(Covered(F, rm))
      /\ \A x, y \in F : x + rm[x] = y => x = l /\ y = e
      /\ IF l = 0 THEN e \in S ELSE l \in S /\ l + rm[l] = e /\ e \notin S
  <2>1. /\ Doing(S, rm, a) /\ Partition(F, rm, B) /\ gr = Cardinality(Covered(F, rm))
        /\ \A x, y \in F : x + rm[x] = y => Beside(a, x, y)
    BY <1>2, SharesFacts
  <2> HIDE DEF F
  <2>2. QED
    BY <1>1, <1>2, <2>1 DEF Doing
<1>4. /\ \A x \in F : x \in Address /\ x \in Nat /\ x >= 1 /\ rm[x] \in Nat /\ rm[x] >= 1
      /\ e \in F
  BY <1>3, SizesOf
<1>5. /\ Partition(S, rn, B) /\ Covered(S, rn) = Covered(F, rm)
      /\ \A x, y \in S : x + rn[x] # y
  <2>1. CASE l = 0
    <3>1. F = S /\ \A x \in F : rn[x] = rm[x]
      BY <1>1, <1>3, <2>1
    <3> HIDE DEF F
    <3>2. Partition(F, rn, B) /\ Covered(F, rn) = Covered(F, rm)
      BY <1>3, <3>1, SameSizes
    <3>3. \A x, y \in F : x + rn[x] # y
      BY <1>3, <1>4, <2>1, <3>1
    <3>4. QED
      BY <3>1, <3>2, <3>3
  <2>2. CASE l # 0
    <3>1. /\ l \in F /\ l \in S /\ l + rm[l] = e /\ F \ {e} = S /\ l # e /\ e \notin S
          /\ rn[l] = rm[l] + rm[e] /\ (\A z \in F \ {l, e} : rn[z] = rm[z])
      BY <1>1, <1>3, <1>4, <2>2
    <3>2. Partition(F \ {e}, rn, B) /\ Covered(F \ {e}, rn) = Covered(F, rm)
      <4> HIDE DEF F
      <4>1. Merged(F, rm, l, e, rn)
        BY <1>4, <3>1 DEF Merged
      <4>2. Partition(F, rm, B)
        BY <1>3
      <4>3. Partition(F \ {e}, rn, B)
        BY <4>1, <4>2, Join, Zenon
      <4>4. Alike(F \ {e}, rn, F, rm)
        BY <4>1, <4>2, Join, Zenon
      <4>5. QED
        BY <4>3, <4>4 DEF Alike
    <3>3. ASSUME NEW x \in S, NEW y \in S, x + rn[x] = y PROVE FALSE
      <4>1. CASE x # l
        BY <1>3, <3>1, <3>3, <4>1
      <4>2. CASE x = l
        <5>1. e + rm[e] = y
          BY <1>4, <3>1, <3>3, <4>2
        <5>2. e = l
          BY <1>3, <1>4, <5>1
        <5>3. QED
          BY <3>1, <5>2
      <4>3. QED
        BY <4>1, <4>2
    <3>4. QED
      BY <3>1, <3>2, <3>3
  <2>3. QED
    BY <2>1, <2>2
<1>6. \A x, y \in S : x + rn[x] = y => Beside(Idle, x, y)
  BY <1>5
<1>7. QED
  BY <1>2, <1>3, <1>5, <1>6, IdleFacts DEF Shares

-----------------------------------------------------------------------------
(* From the flow at work to the state and back.                            *)
LEMMA Working ==
  ASSUME IInv, NEW f \in Flow, act[f].pc # "idle"
  PROVE  /\ Busy \subseteq {f} /\ act[f] \in Acts
         /\ MULTICORE /\ "delete" \notin Calls => holder = f
         /\ Shares(Elements, room, blocks, grouped, act[f])
<1>1. PICK a \in Acts : Acting(a) /\ Shares(Elements, room, blocks, grouped, a)
  BY DEF IInv
<1>2. f \in Busy
  BY DEF Busy
<1>3. act[f] = a
  BY <1>1, <1>2 DEF Acting
<1>4. QED
  BY <1>1, <1>2, <1>3 DEF IInv, Alone

(* Whoever begins an operation finds nobody at work.                       *)
LEMMA Resting ==
  ASSUME IInv, Serial, NEW f \in Flow, act[f].pc = "idle",
         MULTICORE /\ "delete" \notin Calls => holder = NoFlow
  PROVE  /\ Busy = {}
         /\ Shares(Elements, room, blocks, grouped, Idle)
<1>1. PICK a \in Acts : Acting(a) /\ Shares(Elements, room, blocks, grouped, a)
  BY DEF IInv
<1>2. Busy = {}
  <2> SUFFICES ASSUME NEW g \in Busy PROVE FALSE
    OBVIOUS
  <2>1. g \in Flow /\ g # f
    BY DEF Busy
  <2>2. MULTICORE /\ "delete" \notin Calls
    BY <2>1 DEF Serial
  <2>3. holder = g
    BY <2>2 DEF IInv, Alone
  <2>4. QED
    BY <2>1, <2>2, <2>3, HeapAssumption
<1>3. QED
  BY <1>1, <1>2 DEF Acting

(* After a step of f the one at work is f, or nobody.                      *)
LEMMA Settled ==
  ASSUME NEW f \in Flow, Busy \subseteq {f}, act \in [Flow -> Acts], NEW a \in Acts,
         act' = [act EXCEPT ![f] = a], a.pc = "idle" => a = Idle,
         a.pc # "idle" /\ MULTICORE /\ "delete" \notin Calls => holder' = f,
         room' \in [Address -> Nat], NEW S, Good(list', S), Shares(S, room', blocks', grouped', a)
  PROVE  IInv'
<1>1. act' \in [Flow -> Acts] /\ act'[f] = a /\ \A g \in Flow : g # f => act'[g] = act[g]
  OBVIOUS
<1>2. Busy' \subseteq {f} /\ (f \in Busy' <=> a.pc # "idle")
  BY <1>1 DEF Busy
<1>3. Elements' = S
  BY GoodFacts DEF Elements
<1>4. Acting(a)'
  BY <1>1, <1>2 DEF Acting
<1>5. Alone'
  BY <1>2 DEF Alone
<1>6. \E c \in Acts : Acting(c)' /\ Shares(S, room', blocks', grouped', c)
  BY <1>4
<1>7. QED
  BY <1>1, <1>3, <1>5, <1>6 DEF IInv

(* The sizes of what stays in the list are kept.                           *)
LEMMA TidyRoomKeeps ==
  ASSUME NEW l, NEW S, Good(l, S), NEW f, NEW n \in [Address -> Nat]
  PROVE  TidyRoom(f, l, n) \in [Address -> Nat] /\ \A x \in S : TidyRoom(f, l, n)[x] = n[x]
<1>1. S \subseteq Live(f, l) /\ S \subseteq Address
  BY GoodFacts DEF Live
<1>2. QED
  BY <1>1 DEF TidyRoom

(* One lemma for each action.                                              *)
LEMMA StepAlloc ==
  ASSUME IInv, Serial, NEW f \in Flow, Alloc(f)
  PROVE  IInv'
<1>1. PICK bytes \in Requests \ {0} :
        /\ act[f].pc = "idle" /\ Enter(f)
        /\ act' = [act EXCEPT ![f] = [Idle EXCEPT !.pc = "take", !.e = SearchSize(Padded(bytes)), !.bytes = Padded(bytes)]]
        /\ UNCHANGED <<list, room, grouped, blocks>>
  BY DEF Alloc, At
<1>2. MULTICORE => holder = NoFlow /\ holder' = f
  BY <1>1 DEF Enter
<1>3. Busy = {} /\ Shares(Elements, room, blocks, grouped, Idle)
  BY <1>1, <1>2, Resting
<1>4. Good(list, Elements) /\ act \in [Flow -> Acts] /\ room \in [Address -> Nat]
  BY DEF IInv
<1> DEFINE s == Padded(bytes)
           e == SearchSize(s)
           a == [Idle EXCEPT !.pc = "take", !.e = e, !.bytes = s]
<1>5. s \in Nat /\ s >= ELEMENT
  <2>1. bytes + WORD \in Nat /\ ELEMENT \in Nat
    BY HeapAssumption
  <2>2. {bytes + WORD, ELEMENT} \in SUBSET Nat /\ {bytes + WORD, ELEMENT} # {}
    BY <2>1
  <2>3. Max({bytes + WORD, ELEMENT}) \in {bytes + WORD, ELEMENT} /\ \A y \in {bytes + WORD, ELEMENT} : y <= Max({bytes + WORD, ELEMENT})
    BY <2>1, Most
  <2>4. QED
    BY <2>1, <2>3 DEF Padded
<1> HIDE DEF s
<1>6. e = 0 \/ (e \in Elements /\ Fits(e, s) /\ e \in Address)
  <2>1. e = First(list, {x \in Address : Fits(x, s)})
    BY DEF SearchSize
  <2>2. e = 0 \/ (e \in Elements /\ e \in {x \in Address : Fits(x, s)})
    BY <1>4, <2>1, GoodFacts
  <2>3. QED
    BY <2>2
<1> HIDE DEF e
<1>7. e \in Nat
  BY <1>6, Bounds
<1>8. a \in Acts /\ a.pc = "take" /\ a.e = e /\ a.bytes = s
  BY <1>5, <1>7 DEF Idle, Acts
<1>9. act' = [act EXCEPT ![f] = a]
  BY <1>1 DEF s, e
<1> HIDE DEF a
<1>10. Shares(Elements, room, blocks, grouped, a)
  BY <1>3, <1>5, <1>6, <1>8, SharesAlloc
<1>11. Shares(Elements, room', blocks', grouped', a) /\ Good(list', Elements) /\ room' \in [Address -> Nat]
  BY <1>1, <1>4, <1>10
<1>12. QED
  BY <1>2, <1>3, <1>4, <1>8, <1>9, <1>11, Settled

LEMMA StepOut ==
  ASSUME IInv, NEW f \in Flow, OutOfMemory(f)
  PROVE  IInv'
<1>1. /\ act[f].pc = "take" /\ act' = [act EXCEPT ![f] = Idle]
      /\ UNCHANGED <<list, room, grouped, blocks>>
  BY DEF OutOfMemory, At
<1>2. Busy \subseteq {f} /\ act[f] \in Acts /\ Shares(Elements, room, blocks, grouped, act[f])
  BY <1>1, Working
<1>3. Good(list, Elements) /\ act \in [Flow -> Acts] /\ room \in [Address -> Nat]
  BY DEF IInv
<1>4. Shares(Elements, room, blocks, grouped, Idle)
  BY <1>1, <1>2, SharesOut
<1>5. Shares(Elements, room', blocks', grouped', Idle) /\ Good(list', Elements) /\ room' \in [Address -> Nat]
  BY <1>1, <1>3, <1>4
<1>6. QED
  BY <1>1, <1>2, <1>3, <1>5, IdleFacts, Settled

LEMMA StepTake ==
  ASSUME IInv, NEW f \in Flow, Take(f)
  PROVE  IInv'
<1> DEFINE e == act[f].e
           s == act[f].bytes
           rest == IF room[e] = s THEN Remove(list, e) ELSE list
           less == [room EXCEPT ![e] = @ - s]
           T == IF room[e] = s THEN Elements \ {e} ELSE Elements
<1>1. /\ act[f].pc = "take" /\ e # 0
      /\ room' = TidyRoom(f, rest, less)
      /\ grouped' = grouped - s
      /\ list' = TidyList(f, rest)
      /\ blocks' = blocks \cup {[at |-> e + room[e] - s, bytes |-> s]}
      /\ act' = [act EXCEPT ![f] = Idle]
  BY DEF Take, At
<1>2. Busy \subseteq {f} /\ act[f] \in Acts /\ Shares(Elements, room, blocks, grouped, act[f])
  BY <1>1, Working
<1>3. Good(list, Elements) /\ act \in [Flow -> Acts] /\ room \in [Address -> Nat]
  BY DEF IInv
<1>4. s \in Nat /\ e \in Elements /\ s >= ELEMENT /\ (room[e] = s \/ room[e] >= ELEMENT + s)
  <2>1. Doing(Elements, room, act[f]) /\ s \in Nat
    BY <1>2, SharesFacts
  <2>2. QED
    BY <1>1, <2>1 DEF Doing
<1>5. e \in Address /\ room[e] \in Nat /\ ELEMENT \in Nat
  BY <1>3, <1>4, GoodFacts, Bounds
<1>6. Good(rest, T)
  BY <1>3, <1>4, RemoveKeeps
<1>7. less \in [Address -> Nat] /\ \A x \in Address : less[x] = IF x = e THEN room[e] - s ELSE room[x]
  <2>1. room[e] - s \in Nat
    BY <1>4, <1>5
  <2> HIDE DEF e, s
  <2>2. QED
    BY <1>3, <1>5, <2>1
<1> HIDE DEF rest, less
<1>8. room' \in [Address -> Nat] /\ \A x \in T : room'[x] = less[x]
  BY <1>1, <1>6, <1>7, TidyRoomKeeps
<1>9. Shortened(Elements, room, e, s, T, room')
  <2>1. \A x \in T : x \in Address
    BY <1>6, GoodFacts
  <2> HIDE DEF e, s
  <2>2. QED
    BY <1>4, <1>7, <1>8, <2>1 DEF Shortened
<1> HIDE DEF T
<1>10. Shares(T, room', blocks \cup {Rear(room, e, s)}, grouped - s, Idle)
  BY <1>1, <1>2, <1>9, SharesTake, Zenon
<1>11. blocks' = blocks \cup {Rear(room, e, s)}
  BY <1>1 DEF Rear
<1>12. Shares(T, room', blocks', grouped', Idle)
  BY <1>1, <1>10, <1>11
<1>13. Good(list', T)
  BY <1>1, <1>6, TidyKeeps
<1>14. QED
  BY <1>1, <1>2, <1>3, <1>8, <1>12, <1>13, IdleFacts, Settled

LEMMA StepInsert ==
  ASSUME IInv, NEW f \in Flow, NEW b \in blocks, InsertMerging(f, b),
         Busy = {}, Shares(Elements, room, blocks, grouped, Idle),
         MULTICORE /\ "delete" \notin Calls => holder' = f
  PROVE  IInv'
<1> DEFINE e == b.at
           n == b.bytes
           r == SearchRight(e + n)
           l == SearchLeft(e)
           a == [Idle EXCEPT !.pc = "right", !.e = e, !.r = r, !.l = l]
           T == Links(Elements, b, a)
<1>1. /\ blocks' = blocks \ {b}
      /\ room' = [room EXCEPT ![e] = n]
      /\ grouped' = grouped + n
      /\ list' = IF l = 0 THEN InsertTail(list, e) ELSE list
      /\ act' = [act EXCEPT ![f] = a]
  BY DEF InsertMerging
<1>2. Good(list, Elements) /\ act \in [Flow -> Acts] /\ room \in [Address -> Nat]
  BY DEF IInv
<1>3. Elements \subseteq Address
  BY <1>2, GoodFacts
<1>4. e \in Address /\ n \in Nat
  <2>1. Partition(Elements, room, blocks)
    BY SharesFacts, IdleFacts
  <2>2. QED
    BY <2>1 DEF Partition, Inside
<1>5. (r = 0 /\ Elements \cap {e + n} = {}) \/ (r \in Elements /\ r \in {e + n})
  <2>1. r = First(list, {e + n})
    BY DEF SearchRight
  <2> HIDE DEF r
  <2>2. QED
    BY <1>2, <2>1, GoodFacts
<1>6. (l = 0 /\ Elements \cap {x \in Address : x + room[x] = e} = {}) \/ (l \in Elements /\ l \in {x \in Address : x + room[x] = e})
  <2> DEFINE X == {x \in Address : x + room[x] = e}
  <2>1. l = First(list, X)
    BY DEF SearchLeft
  <2> HIDE DEF l, X
  <2>2. (l = 0 /\ Elements \cap X = {}) \/ (l \in Elements /\ l \in X)
    BY <1>2, <2>1, GoodFacts
  <2>3. QED
    BY <2>2 DEF X
<1> HIDE DEF r, l
<1>7. r \in Nat /\ l \in Nat /\ e \in Nat
  <2>1. \A x \in Elements : x \in Nat
    BY <1>3, Bounds
  <2>2. QED
    BY <1>4, <1>5, <1>6, <2>1, Bounds
<1>8. a \in Acts /\ a.pc = "right" /\ a.e = e /\ a.r = r /\ a.l = l
  BY <1>7 DEF Idle, Acts
<1> HIDE DEF a
<1>9. room' \in [Address -> Nat] /\ room'[b.at] = b.bytes /\ \A x \in Elements : x # b.at => room'[x] = room[x]
  BY <1>1, <1>2, <1>3, <1>4
<1>10. b.at \notin Elements /\ Shares(Links(Elements, b, a), room', blocks \ {b}, grouped + b.bytes, a)
  <2>1. a.e = b.at
    BY <1>8
  <2>2. (a.r = 0 /\ Elements \cap {b.at + b.bytes} = {}) \/ (a.r \in Elements /\ a.r \in {b.at + b.bytes})
    BY <1>5, <1>8
  <2>3. (a.l = 0 /\ Elements \cap {x \in Address : x + room[x] = b.at} = {}) \/ (a.l \in Elements /\ a.l \in {x \in Address : x + room[x] = b.at})
    BY <1>6, <1>8
  <2>4. Finds(Elements, b, a)
    BY <1>8, <2>1, <2>2, <2>3 DEF Finds
  <2>5. QED
    BY <1>9, <2>4, SharesFree
<1>11. Good(list', T)
  BY <1>1, <1>2, <1>4, <1>8, <1>10, InsertKeeps DEF Links
<1> HIDE DEF T
<1>12. Shares(T, room', blocks', grouped', a)
  BY <1>1, <1>10 DEF T
<1>13. QED
  BY <1>1, <1>2, <1>8, <1>9, <1>11, <1>12, Settled

LEMMA StepFree ==
  ASSUME IInv, Serial, NEW f \in Flow, Free(f)
  PROVE  IInv'
<1>1. PICK b \in blocks : act[f].pc = "idle" /\ Enter(f) /\ InsertMerging(f, b)
  BY DEF Free, At
<1>2. MULTICORE => holder = NoFlow /\ holder' = f
  BY <1>1 DEF Enter
<1>3. Busy = {} /\ Shares(Elements, room, blocks, grouped, Idle)
  BY <1>1, <1>2, Resting
<1>4. QED
  BY <1>1, <1>2, <1>3, StepInsert

LEMMA StepDelete ==
  ASSUME IInv, Serial, NEW f \in Flow, Delete(f)
  PROVE  IInv'
<1>1. PICK b \in blocks : "delete" \in Calls /\ act[f].pc = "idle" /\ InsertMerging(f, b)
  BY DEF Delete, At
<1>2. Busy = {} /\ Shares(Elements, room, blocks, grouped, Idle)
  BY <1>1, Resting
<1>3. QED
  BY <1>1, <1>2, StepInsert

LEMMA StepRight ==
  ASSUME IInv, NEW f \in Flow, MergeRight(f)
  PROVE  IInv'
<1> DEFINE e == act[f].e
           r == act[f].r
           c == [act[f] EXCEPT !.pc = "left"]
           T == IF act[f].r = 0 THEN Elements ELSE Elements \ {act[f].r}
<1>1. /\ act[f].pc = "right"
      /\ room' = (IF r = 0 THEN room ELSE [room EXCEPT ![e] = @ + room[r]])
      /\ list' = IF r = 0 THEN list ELSE Remove(list, r)
      /\ act' = [act EXCEPT ![f].pc = "left"]
      /\ UNCHANGED <<grouped, blocks, holder>>
  BY DEF MergeRight, At
<1>2. /\ Busy \subseteq {f} /\ act[f] \in Acts /\ Shares(Elements, room, blocks, grouped, act[f])
      /\ MULTICORE /\ "delete" \notin Calls => holder = f
  BY <1>1, Working
<1>3. Good(list, Elements) /\ act \in [Flow -> Acts] /\ room \in [Address -> Nat]
  BY DEF IInv
<1>4. act' = [act EXCEPT ![f] = c]
  BY <1>1, <1>3
<1>5. c \in Acts /\ c.pc = "left" /\ c.e = act[f].e /\ c.r = act[f].r /\ c.l = act[f].l
  BY <1>2 DEF Acts
<1> HIDE DEF c
<1>6. (act[f].r # 0 => act[f].r \in Elements) /\ Shares(T, room', blocks, grouped, c)
  <2>1. room' = (IF act[f].r = 0 THEN room ELSE [room EXCEPT ![act[f].e] = @ + room[act[f].r]])
    BY <1>1
  <2>2. QED
    BY <1>1, <1>2, <1>3, <1>5, <2>1, SharesRight
<1>7. Good(list', T)
  BY <1>1, <1>3, <1>6, RemoveKeeps
<1>8. room' \in [Address -> Nat]
  <2>1. r # 0 => r \in Address
    BY <1>3, <1>6, GoodFacts
  <2>2. r # 0 => room[r] \in Nat
    BY <1>3, <2>1
  <2>3. \A x \in Address : room[x] \in Nat
    BY <1>3
  <2> HIDE DEF r, e
  <2>4. CASE e \in Address
    BY <1>1, <1>3, <2>2, <2>3, <2>4
  <2>5. CASE e \notin Address
    BY <1>1, <1>3, <2>5
  <2>6. QED
    BY <2>4, <2>5
<1> HIDE DEF T
<1>9. Shares(T, room', blocks', grouped', c)
  BY <1>1, <1>6
<1>10. QED
  BY <1>1, <1>2, <1>3, <1>4, <1>5, <1>7, <1>8, <1>9, Settled

LEMMA StepLeft ==
  ASSUME IInv, NEW f \in Flow, MergeLeft(f)
  PROVE  IInv'
<1> DEFINE e == act[f].e
           l == act[f].l
           more == IF l = 0 THEN room ELSE [room EXCEPT ![l] = @ + room[e]]
<1>1. /\ act[f].pc = "left"
      /\ room' = TidyRoom(f, list, more)
      /\ list' = TidyList(f, list)
      /\ act' = [act EXCEPT ![f] = Idle]
      /\ UNCHANGED <<grouped, blocks>>
  BY DEF MergeLeft, At
<1>2. Busy \subseteq {f} /\ act[f] \in Acts /\ Shares(Elements, room, blocks, grouped, act[f])
  BY <1>1, Working
<1>3. Good(list, Elements) /\ act \in [Flow -> Acts] /\ room \in [Address -> Nat]
  BY DEF IInv
<1>4. e \in Address
  <2>1. Merging(act[f]) /\ FreeOnes(Elements, act[f]) = Elements \cup {e}
    BY <1>1 DEF Merging, FreeOnes
  <2>2. Partition(Elements \cup {e}, room, blocks)
    BY <1>2, <2>1, SharesFacts
  <2>3. QED
    BY <2>2 DEF Partition, Inside
<1>5. /\ more \in [Address -> Nat]
      /\ \A x \in Address : more[x] = IF l # 0 /\ x = l THEN room[l] + room[e] ELSE room[x]
  <2>1. room[e] \in Nat
    BY <1>3, <1>4
  <2>2. \A x \in Address : room[x] \in Nat
    BY <1>3
  <2> HIDE DEF e, l
  <2>3. more \in [Address -> Nat]
    <3>1. CASE l \in Address
      BY <1>3, <2>1, <2>2, <3>1
    <3>2. CASE l \notin Address
      BY <1>3, <3>2
    <3>3. QED
      BY <3>1, <3>2
  <2>4. QED
    BY <1>3, <2>3
<1> HIDE DEF more
<1>6. room' \in [Address -> Nat] /\ \A x \in Elements : room'[x] = more[x]
  BY <1>1, <1>3, <1>5, TidyRoomKeeps
<1>7. \A x \in Elements : room'[x] = IF act[f].l # 0 /\ x = act[f].l THEN room[act[f].l] + room[act[f].e] ELSE room[x]
  <2>1. Elements \subseteq Address
    BY <1>3, GoodFacts
  <2>2. QED
    BY <1>5, <1>6, <2>1
<1>8. Shares(Elements, room', blocks, grouped, Idle)
  BY <1>1, <1>2, <1>7, SharesLeft
<1>9. Shares(Elements, room', blocks', grouped', Idle)
  BY <1>1, <1>8
<1>10. Good(list', Elements)
  BY <1>1, <1>3, TidyKeeps
<1>11. QED
  BY <1>1, <1>2, <1>3, <1>6, <1>9, <1>10, IdleFacts, Settled

(* The heap as the constructor leaves it.                                  *)
LEMMA InitIInv == Init => IInv
<1> SUFFICES ASSUME Init PROVE IInv
  OBVIOUS
<1>1. 1 \in Address
  BY Bounds
<1>2. Good(list, {1})
  <2>1. Good(InsertTail(EmptyList(Address), 1), {} \cup {1})
    BY <1>1, EmptyIsGood, InsertKeeps
  <2>2. {} \cup {1} = {1}
    OBVIOUS
  <2>3. QED
    BY <2>1, <2>2 DEF Init
<1>3. Elements = {1}
  BY <1>2, GoodFacts DEF Elements
<1>4. /\ room \in [Address -> Nat] /\ room[1] = Cells /\ act \in [Flow -> Acts]
      /\ Busy = {} /\ Alone /\ Acting(Idle)
  <2>1. room \in [Address -> Nat] /\ room[1] = Cells
    BY <1>1, Bounds DEF Init
  <2>2. act \in [Flow -> Acts] /\ Busy = {}
    BY IdleFacts DEF Init, Busy
  <2>3. QED
    BY <2>1, <2>2 DEF Alone, Acting
<1>5. Partition({1}, room, blocks)
  <2>1. Inside(1, room[1])
    BY <1>1, <1>4, Bounds DEF Inside
  <2>2. \A a \in Address : 1 <= a /\ a < 1 + room[1]
    BY <1>4, Bounds
  <2>3. blocks = {}
    BY DEF Init
  <2>4. QED
    BY <2>1, <2>2, <2>3 DEF Partition
<1>6. grouped = Cardinality(Covered({1}, room))
  <2>1. Covered({1}, room) = Address
    BY <1>4, Bounds DEF Covered
  <2>2. QED
    BY <2>1, AddressCount DEF Init
<1>7. \A x, y \in {1} : x + room[x] # y
  BY <1>4, Bounds
<1>8. Shares({1}, room, blocks, grouped, Idle)
  BY <1>5, <1>6, <1>7, IdleFacts DEF Shares
<1>9. QED
  BY <1>2, <1>3, <1>4, <1>8, IdleFacts DEF IInv

(* The invariant is inductive.                                             *)
LEMMA StepIInv ==
  ASSUME Serial, IInv, [Next]_vars
  PROVE  IInv'
<1>1. ASSUME NEW f \in Flow, Alloc(f) PROVE IInv'
  BY <1>1, StepAlloc
<1>2. ASSUME NEW f \in Flow, OutOfMemory(f) PROVE IInv'
  BY <1>2, StepOut
<1>3. ASSUME NEW f \in Flow, Take(f) PROVE IInv'
  BY <1>3, StepTake
<1>4. ASSUME NEW f \in Flow, Free(f) PROVE IInv'
  BY <1>4, StepFree
<1>5. ASSUME NEW f \in Flow, Delete(f) PROVE IInv'
  BY <1>5, StepDelete
<1>6. ASSUME NEW f \in Flow, MergeRight(f) PROVE IInv'
  BY <1>6, StepRight
<1>7. ASSUME NEW f \in Flow, MergeLeft(f) PROVE IInv'
  BY <1>7, StepLeft
<1>8. CASE UNCHANGED vars
  <2>1. list' = list /\ room' = room /\ grouped' = grouped /\ blocks' = blocks /\ holder' = holder /\ act' = act
    BY <1>8 DEF vars
  <2>2. Elements' = Elements /\ Busy' = Busy
    BY <2>1 DEF Elements, Busy
  <2>3. Alone' /\ \A a : Acting(a)' <=> Acting(a)
    BY <2>1, <2>2 DEF IInv, Alone, Acting
  <2>4. QED
    BY <2>1, <2>2, <2>3 DEF IInv
<1>9. CASE Next
  BY <1>1, <1>2, <1>3, <1>4, <1>5, <1>6, <1>7, <1>9 DEF Next
<1>10. QED
  BY <1>8, <1>9

(* What the free memory is in a state: its owner is nobody, or one flow.   *)
LEMMA Sharing ==
  ASSUME IInv
  PROVE  \E a : /\ Shares(Elements, room, blocks, grouped, a)
                /\ Quiet => FreeOnes(Elements, a) = Elements /\ \A x, y : ~Beside(a, x, y)
<1>1. PICK a \in Acts : Acting(a) /\ Shares(Elements, room, blocks, grouped, a)
  BY DEF IInv
<1>2. ASSUME Quiet PROVE FreeOnes(Elements, a) = Elements /\ \A x, y : ~Beside(a, x, y)
  <2>1. CASE Busy = {}
    BY <1>1, <2>1, IdleFacts DEF Acting
  <2>2. CASE Busy # {}
    <3>1. PICK f \in Busy : act[f] = a
      BY <1>1, <2>2 DEF Acting
    <3>2. a.pc \in {"idle", "take"}
      BY <1>2, <3>1 DEF Quiet, Busy
    <3>3. QED
      BY <3>2 DEF FreeOnes, Merging, Beside
  <2>3. QED
    BY <2>1, <2>2
<1>3. QED
  BY <1>1, <1>2

-----------------------------------------------------------------------------
(* The pointers of the free list are those of a doubly-linked list of as   *)
(* many elements as it counts, through every insertion, removal and merge: *)
(* one flow, or several that all go through the lock of Atomic_Heap.       *)
THEOREM ListStaysSound == ASSUME Serial PROVE Spec => []ListSound
<1>1. IInv => ListSound
  BY GoodIsSound DEF IInv
<1>2. QED
  BY <1>1, InitIInv, StepIInv, PTL DEF Spec

(* alloc() never hands out memory that is held: the blocks the program has *)
(* lie inside the heap and apart from each other.                          *)
THEOREM BlocksAreDisjoint == ASSUME Serial PROVE Spec => []BlocksDisjoint
<1>1. ASSUME IInv PROVE BlocksDisjoint
  <2>1. PICK a : Shares(Elements, room, blocks, grouped, a)
    BY <1>1, Sharing
  <2>2. Partition(FreeOnes(Elements, a), room, blocks)
    BY <2>1, SharesFacts
  <2>3. ASSUME NEW b \in blocks
        PROVE  /\ Extent(b.at, b.bytes) \subseteq Address
               /\ \A c \in blocks \ {b} : Extent(b.at, b.bytes) \cap Extent(c.at, c.bytes) = {}
    <3>1. \A c \in blocks : c.at \in Nat /\ c.at >= 1 /\ c.bytes \in Nat /\ c.at + c.bytes <= Cells + 1
      BY <2>2, Bounds DEF Partition, Inside
    <3>2. Extent(b.at, b.bytes) \subseteq Address
      BY <3>1, Bounds DEF Extent
    <3>3. ASSUME NEW c \in blocks \ {b} PROVE Extent(b.at, b.bytes) \cap Extent(c.at, c.bytes) = {}
      <4>1. b.at + b.bytes <= c.at \/ c.at + c.bytes <= b.at
        BY <2>2 DEF Partition, Apart
      <4>2. QED
        BY <3>1, <4>1 DEF Extent
    <3>4. QED
      BY <3>2, <3>3
  <2>4. QED
    BY <2>3 DEF BlocksDisjoint
<1>2. QED
  BY <1>1, InitIInv, StepIInv, PTL DEF Spec

(* The elements of the free list lie whole in memory nobody holds: what    *)
(* the program writes to its blocks cannot reach the list's pointers.      *)
THEOREM ElementsAreApart == ASSUME Serial PROVE Spec => []ElementsInFreeMemory
<1>1. ASSUME IInv PROVE ElementsInFreeMemory
  <2>1. PICK a : Shares(Elements, room, blocks, grouped, a)
    BY <1>1, Sharing
  <2>2. Partition(FreeOnes(Elements, a), room, blocks) /\ Elements \subseteq FreeOnes(Elements, a)
    BY <2>1, SharesFacts DEF FreeOnes
  <2>3. ASSUME NEW e \in Elements, NEW b \in blocks
        PROVE  Extent(e, Max({ELEMENT, room[e]})) \cap Extent(b.at, b.bytes) = {}
    <3>1. /\ e \in Nat /\ room[e] \in Nat /\ room[e] >= ELEMENT /\ ELEMENT \in Nat
          /\ b.at \in Nat /\ b.bytes \in Nat
          /\ e + room[e] <= b.at \/ b.at + b.bytes <= e
      BY <2>2, Bounds DEF Partition, Inside, Apart
    <3>2. Max({ELEMENT, room[e]}) = room[e]
      <4>1. /\ Max({ELEMENT, room[e]}) \in {ELEMENT, room[e]}
            /\ \A y \in {ELEMENT, room[e]} : y <= Max({ELEMENT, room[e]})
        BY <3>1, Most
      <4>2. QED
        BY <3>1, <4>1
    <3>3. Extent(e, room[e]) \cap Extent(b.at, b.bytes) = {}
      BY <3>1 DEF Extent
    <3>4. QED
      BY <3>2, <3>3
  <2>4. QED
    BY <2>3 DEF ElementsInFreeMemory
<1>2. QED
  BY <1>1, InitIInv, StepIInv, PTL DEF Spec

(* While nobody is in the middle of insert_merging(), every cell is held   *)
(* or in the free list, and grouped_size() is what is free.                *)
THEOREM NothingIsLost == ASSUME Serial PROVE Spec => []NothingLost
<1>1. ASSUME IInv PROVE NothingLost
  <2> SUFFICES ASSUME Quiet
               PROVE  /\ Address = (UNION {Extent(b.at, b.bytes) : b \in blocks}) \cup (UNION {Extent(e, room[e]) : e \in Elements})
                      /\ grouped = Cardinality(UNION {Extent(e, room[e]) : e \in Elements})
    BY DEF NothingLost
  <2>1. PICK a : Shares(Elements, room, blocks, grouped, a) /\ FreeOnes(Elements, a) = Elements
    BY <1>1, Sharing
  <2>2. Partition(Elements, room, blocks) /\ grouped = Cardinality(Covered(Elements, room))
    BY <2>1, SharesFacts
  <2>3. /\ \A x \in Elements : x \in Nat /\ x >= 1 /\ room[x] \in Nat /\ x + room[x] <= Cells + 1
        /\ \A b \in blocks : b.at \in Nat /\ b.at >= 1 /\ b.bytes \in Nat /\ b.at + b.bytes <= Cells + 1
    BY <2>2, Bounds DEF Partition, Inside
  <2>4. \A x \in Elements, c \in Int : c \in Extent(x, room[x]) <=> x <= c /\ c < x + room[x]
    BY <2>3 DEF Extent
  <2>5. \A b \in blocks, c \in Int : c \in Extent(b.at, b.bytes) <=> b.at <= c /\ c < b.at + b.bytes
    BY <2>3 DEF Extent
  <2>6. /\ \A x \in Elements : Extent(x, room[x]) \subseteq Address
        /\ \A b \in blocks : Extent(b.at, b.bytes) \subseteq Address
    BY <2>3, Bounds DEF Extent
  <2>7. UNION {Extent(e, room[e]) : e \in Elements} = Covered(Elements, room)
    <3>1. ASSUME NEW c \in Address PROVE c \in Covered(Elements, room) <=> \E x \in Elements : c \in Extent(x, room[x])
      <4>1. c \in Int
        BY Bounds
      <4>2. QED
        BY <2>4, <4>1 DEF Covered
    <3>2. QED
      BY <2>6, <3>1 DEF Covered
  <2>8. Address = (UNION {Extent(b.at, b.bytes) : b \in blocks}) \cup (UNION {Extent(e, room[e]) : e \in Elements})
    <3>1. ASSUME NEW c \in Address
          PROVE  (\E x \in Elements : c \in Extent(x, room[x])) \/ (\E b \in blocks : c \in Extent(b.at, b.bytes))
      <4>1. c \in Int
        BY Bounds
      <4>2. \/ \E x \in Elements : x <= c /\ c < x + room[x]
            \/ \E b \in blocks : b.at <= c /\ c < b.at + b.bytes
        BY <2>2 DEF Partition
      <4>3. QED
        BY <2>4, <2>5, <4>1, <4>2
    <3> DEFINE X == UNION {Extent(b.at, b.bytes) : b \in blocks}
               Y == UNION {Extent(e, room[e]) : e \in Elements}
    <3>2. X \subseteq Address /\ Y \subseteq Address
      BY <2>6
    <3>3. ASSUME NEW c \in Address PROVE c \in X \/ c \in Y
      <4>1. CASE \E x \in Elements : c \in Extent(x, room[x])
        BY <4>1
      <4>2. CASE \E b \in blocks : c \in Extent(b.at, b.bytes)
        BY <4>2
      <4>3. QED
        BY <3>1, <4>1, <4>2
    <3>4. Address = X \cup Y
      <4> HIDE DEF X, Y
      <4>1. QED
        BY <3>2, <3>3
    <3>5. QED
      BY <3>4
  <2>9. QED
    BY <2>2, <2>7, <2>8
<1>2. QED
  BY <1>1, InitIInv, StepIInv, PTL DEF Spec

(* No two free blocks lie side by side once insert_merging() is done:      *)
(* freed in any order, the blocks grow together again.                     *)
THEOREM FreeBlocksCoalesce == ASSUME Serial PROVE Spec => []Coalesced
<1>1. ASSUME IInv PROVE Coalesced
  <2> SUFFICES ASSUME Quiet, NEW e \in Elements, NEW d \in Elements PROVE e + room[e] # d
    BY DEF Coalesced
  <2>1. PICK a : /\ Shares(Elements, room, blocks, grouped, a) /\ FreeOnes(Elements, a) = Elements
                 /\ \A x, y : ~Beside(a, x, y)
    BY <1>1, Sharing
  <2>2. \A x, y \in Elements : x + room[x] = y => Beside(a, x, y)
    BY <2>1, SharesFacts
  <2>3. QED
    BY <2>1, <2>2
<1>2. QED
  BY <1>1, InitIInv, StepIInv, PTL DEF Spec
=============================================================================
