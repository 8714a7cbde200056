--------------------------- MODULE Scheduling_proofs ---------------------------
(***************************************************************************)
(* What the scheduler's lists promise the operations of Thread.            *)
(***************************************************************************)
EXTENDS Thread, SequenceTheorems, WellFoundedInduction, TLAPS

(* Each element is there once.                                             *)
Distinct(q) == \A i, j \in DOMAIN q : q[i] = q[j] => i = j

(* The elements at the positions m to n.                                   *)
Between(q, m, n) == {q[i] : i \in m..n}

(* A non-empty set of positions has a least one.                           *)
LEMMA MinPosition ==
  ASSUME NEW S \in SUBSET Nat, S # {}
  PROVE  Min(S) \in S /\ \A y \in S : Min(S) <= y
<1> DEFINE R == {p \in Nat \X Nat : p[1] < p[2]}
<1>2. IsWellFoundedOn(R, Nat)
  BY NatLessThanWellFounded, Zenon DEF OpToRel
<1> HIDE DEF R
<1>3. PICK x \in S : \A y \in S : ~ (<<y, x>> \in R)
  BY <1>2, WFMin
<1>4. ASSUME NEW y \in S PROVE x <= y
  <2>1. x \in Nat /\ y \in Nat
    OBVIOUS
  <2>2. y < x => <<y, x>> \in R
    BY <2>1 DEF R
  <2>3. QED
    BY <1>3, <2>1, <2>2
<1>5. \E z \in S : \A y \in S : z <= y
  BY <1>4
<1>6. QED
  BY <1>5, Zenon DEF Min

(* The elements of a concatenation, and when they are distinct.            *)
LEMMA JoinedElements ==
  ASSUME NEW T, NEW l \in Seq(T), NEW m \in Seq(T)
  PROVE  /\ l \o m \in Seq(T)
         /\ ToSet(l \o m) = ToSet(l) \cup ToSet(m)
         /\ Distinct(l) /\ Distinct(m) /\ ToSet(l) \cap ToSet(m) = {} => Distinct(l \o m)
<1>0. PICK x : x = l \o m
  OBVIOUS
<1>1. /\ x \in Seq(T) /\ Len(x) = Len(l) + Len(m)
      /\ \A i \in 1..Len(l) : x[i] = l[i]
      /\ \A i \in 1..Len(m) : x[Len(l) + i] = m[i]
  BY <1>0
<1>2. Len(l) \in Nat /\ Len(m) \in Nat /\ Len(x) \in Nat
  BY <1>1, LenProperties
<1>3. DOMAIN l = 1..Len(l) /\ DOMAIN m = 1..Len(m) /\ DOMAIN x = 1..Len(x)
  BY <1>1, LenProperties
<1>4. ASSUME NEW i \in DOMAIN x
      PROVE  \/ i \in DOMAIN l /\ x[i] = l[i]
             \/ i - Len(l) \in DOMAIN m /\ x[i] = m[i - Len(l)]
  <2>1. CASE i <= Len(l)
    BY <2>1, <1>1, <1>2, <1>3
  <2>2. CASE i > Len(l)
    <3>1. i - Len(l) \in 1..Len(m)
      BY <2>2, <1>1, <1>2, <1>3
    <3>2. i = Len(l) + (i - Len(l))
      BY <1>2, <1>3
    <3>3. QED
      BY <3>1, <3>2, <1>1, <1>3
  <2>3. QED
    BY <2>1, <2>2, <1>2, <1>3
<1>5. ASSUME NEW i \in DOMAIN l PROVE i \in DOMAIN x /\ x[i] = l[i]
  BY <1>1, <1>2, <1>3
<1>6. ASSUME NEW i \in DOMAIN m PROVE Len(l) + i \in DOMAIN x /\ x[Len(l) + i] = m[i]
  BY <1>1, <1>2, <1>3
<1>7. ToSet(x) = ToSet(l) \cup ToSet(m)
  <2>1. ASSUME NEW e \in ToSet(x) PROVE e \in ToSet(l) \cup ToSet(m)
    <3>1. PICK i \in DOMAIN x : x[i] = e
      BY DEF ToSet
    <3>2. QED
      BY <3>1, <1>4 DEF ToSet
  <2>2. ASSUME NEW e \in ToSet(l) PROVE e \in ToSet(x)
    BY <1>5 DEF ToSet
  <2>3. ASSUME NEW e \in ToSet(m) PROVE e \in ToSet(x)
    BY <1>6 DEF ToSet
  <2>4. QED
    BY <2>1, <2>2, <2>3
<1>8. ASSUME Distinct(l), Distinct(m), ToSet(l) \cap ToSet(m) = {} PROVE Distinct(x)
  <2> SUFFICES ASSUME NEW i \in DOMAIN x, NEW j \in DOMAIN x, x[i] = x[j] PROVE i = j
    BY DEF Distinct
  <2>0. i \in Int /\ j \in Int
    BY <1>3
  <2>1. ~ (\E a \in DOMAIN l, b \in DOMAIN m : l[a] = m[b])
    BY <1>8 DEF ToSet
  <2>2. CASE i \in DOMAIN l /\ x[i] = l[i]
    BY <2>2, <2>1, <1>4, <1>8 DEF Distinct
  <2>3. CASE i - Len(l) \in DOMAIN m /\ x[i] = m[i - Len(l)]
    <3>1. j - Len(l) \in DOMAIN m /\ x[j] = m[j - Len(l)]
      BY <2>3, <2>1, <1>4
    <3>2. i - Len(l) = j - Len(l)
      BY <2>3, <3>1, <1>8 DEF Distinct
    <3>3. QED
      BY <3>2, <2>0, <1>2
  <2>4. QED
    BY <2>2, <2>3, <1>4
<1>9. l \o m \in Seq(T)
  BY <1>0, <1>1, Zenon
<1>10. ToSet(l \o m) = ToSet(l) \cup ToSet(m)
  BY <1>0, <1>7, Zenon
<1>11. ASSUME Distinct(l), Distinct(m), ToSet(l) \cap ToSet(m) = {} PROVE Distinct(l \o m)
  BY <1>0, <1>8, <1>11, Zenon
<1>12. QED
  BY <1>9, <1>10, <1>11, Zenon

(* The length and the elements of the part of a sequence between two       *)
(* positions.                                                              *)
LEMMA Cut ==
  ASSUME NEW T, NEW q \in Seq(T), NEW m \in 1..Len(q) + 1, NEW n \in 0..Len(q),
         NEW x, x = SubSeq(q, m, n)
  PROVE  /\ x \in Seq(T)
         /\ \A i \in DOMAIN x : m + i - 1 \in m..n /\ x[i] = q[m + i - 1]
         /\ \A i \in m..n : i - m + 1 \in DOMAIN x /\ x[i - m + 1] = q[i]
<1>1. Len(q) \in Nat /\ DOMAIN q = 1..Len(q)
  BY LenProperties
<1>2. m \in Int /\ n \in Int /\ m >= 1 /\ n <= Len(q)
  BY <1>1
<1>3. \A i \in m..n : q[i] \in T
  BY <1>1, <1>2, ElementOfSeq
<1>4. /\ x \in Seq(T)
      /\ Len(x) = IF m <= n THEN n - m + 1 ELSE 0
      /\ \A i \in 1..n - m + 1 : x[i] = q[m + i - 1]
  BY <1>2, <1>3, SubSeqProperties
<1>5. DOMAIN x = 1..Len(x)
  BY <1>4, LenProperties
<1>6. \A i \in DOMAIN x : m + i - 1 \in m..n /\ x[i] = q[m + i - 1]
  BY <1>2, <1>4, <1>5
<1>7. ASSUME NEW i \in m..n PROVE i - m + 1 \in DOMAIN x /\ x[i - m + 1] = q[i]
  <2>1. i - m + 1 \in 1..n - m + 1
    BY <1>2
  <2>2. m + (i - m + 1) - 1 = i
    BY <1>2
  <2>3. i - m + 1 \in DOMAIN x
    BY <2>1, <1>2, <1>4, <1>5
  <2>4. QED
    BY <2>1, <2>2, <2>3, <1>4
<1>8. QED
  BY <1>4, <1>6, <1>7

(* What is at the positions m..n, and that distinct elements stay so.      *)
LEMMA CutElements ==
  ASSUME NEW T, NEW q \in Seq(T), NEW m \in 1..Len(q) + 1, NEW n \in 0..Len(q)
  PROVE  /\ SubSeq(q, m, n) \in Seq(T)
         /\ ToSet(SubSeq(q, m, n)) = Between(q, m, n)
         /\ Distinct(q) => Distinct(SubSeq(q, m, n))
<1>x. PICK x : x = SubSeq(q, m, n)
  OBVIOUS
<1>1. Len(q) \in Nat /\ DOMAIN q = 1..Len(q)
  BY LenProperties
<1>2. /\ x \in Seq(T)
      /\ \A i \in DOMAIN x : m + i - 1 \in m..n /\ x[i] = q[m + i - 1]
      /\ \A i \in m..n : i - m + 1 \in DOMAIN x /\ x[i - m + 1] = q[i]
  BY <1>x, Cut
<1>0. DOMAIN x = 1..Len(x)
  BY <1>2, LenProperties
<1>3. ASSUME NEW e \in ToSet(x) PROVE e \in Between(q, m, n)
  <2>1. PICK i \in DOMAIN x : x[i] = e
    BY DEF ToSet
  <2>2. QED
    BY <2>1, <1>2 DEF Between
<1>4. ASSUME NEW e \in Between(q, m, n) PROVE e \in ToSet(x)
  <2>1. PICK i \in m..n : q[i] = e
    BY DEF Between
  <2>2. QED
    BY <2>1, <1>2 DEF ToSet
<1>5. ASSUME Distinct(q) PROVE Distinct(x)
  <2> SUFFICES ASSUME NEW i \in DOMAIN x, NEW j \in DOMAIN x, x[i] = x[j] PROVE i = j
    BY DEF Distinct
  <2>0. m..n \subseteq DOMAIN q
    BY <1>1
  <2>1. m + i - 1 \in DOMAIN q /\ m + j - 1 \in DOMAIN q
    BY <2>0, <1>2
  <2>2. m + i - 1 = m + j - 1
    BY <2>1, <1>2, <1>5 DEF Distinct
  <2>3. i \in Int /\ j \in Int /\ m \in Int
    BY <1>0, <1>1
  <2>4. QED
    BY <2>2, <2>3
<1>6. ToSet(x) = Between(q, m, n)
  BY <1>3, <1>4
<1>7. SubSeq(q, m, n) \in Seq(T)
  BY <1>x, <1>2, Zenon
<1>8. ToSet(SubSeq(q, m, n)) = Between(q, m, n)
  BY <1>x, <1>6, Zenon
<1>9. ASSUME Distinct(q) PROVE Distinct(SubSeq(q, m, n))
  BY <1>x, <1>5, <1>9, Zenon
<1>10. QED
  BY <1>7, <1>8, <1>9, Zenon

(* Ordered_List::insert() adds the element, once.                          *)
LEMMA InsertAtElements ==
  ASSUME NEW T, NEW q \in Seq(T), NEW p \in 1..Len(q) + 1, NEW t \in T
  PROVE  /\ InsertAt(q, p, t) \in Seq(T)
         /\ ToSet(InsertAt(q, p, t)) = ToSet(q) \cup {t}
         /\ Distinct(q) /\ t \notin ToSet(q) => Distinct(InsertAt(q, p, t))
<1>1. Len(q) \in Nat /\ DOMAIN q = 1..Len(q)
  BY LenProperties
<1>2. p \in Int /\ p - 1 \in 0..Len(q) /\ 1 \in 1..Len(q) + 1 /\ Len(q) \in 0..Len(q)
  BY <1>1
<1>3. PICK l : l = SubSeq(q, 1, p - 1)
  OBVIOUS
<1>4. PICK r : r = SubSeq(q, p, Len(q))
  OBVIOUS
<1>5. /\ l \in Seq(T) /\ ToSet(l) = Between(q, 1, p - 1)
      /\ Distinct(q) => Distinct(l)
  BY <1>2, <1>3, CutElements, Zenon
<1>6. /\ r \in Seq(T) /\ ToSet(r) = Between(q, p, Len(q))
      /\ Distinct(q) => Distinct(r)
  BY <1>2, <1>4, CutElements, Zenon
<1>7. PICK m : m = <<t>>
  OBVIOUS
<1>8. m \in Seq(T) /\ ToSet(m) = {t} /\ Distinct(m)
  BY <1>7 DEF ToSet, Distinct
<1>9. PICK lm : lm = l \o m
  OBVIOUS
<1>10. PICK x : x = lm \o r
  OBVIOUS
<1>11. InsertAt(q, p, t) = x
  BY <1>3, <1>4, <1>7, <1>9, <1>10, Zenon DEF InsertAt
<1>12. /\ lm \in Seq(T) /\ ToSet(lm) = ToSet(l) \cup ToSet(m)
       /\ Distinct(l) /\ Distinct(m) /\ ToSet(l) \cap ToSet(m) = {} => Distinct(lm)
  BY <1>5, <1>8, <1>9, JoinedElements, Zenon
<1>13. /\ x \in Seq(T) /\ ToSet(x) = ToSet(lm) \cup ToSet(r)
       /\ Distinct(lm) /\ Distinct(r) /\ ToSet(lm) \cap ToSet(r) = {} => Distinct(x)
  <2>1. /\ lm \o r \in Seq(T)
        /\ ToSet(lm \o r) = ToSet(lm) \cup ToSet(r)
        /\ Distinct(lm) /\ Distinct(r) /\ ToSet(lm) \cap ToSet(r) = {} => Distinct(lm \o r)
    BY <1>6, <1>12, JoinedElements, Zenon
  <2>2. QED
    BY <1>10, <2>1
<1>14. ToSet(q) = ToSet(l) \cup ToSet(r)
  <2>1. 1..Len(q) = (1..p - 1) \cup (p..Len(q))
    BY <1>1, <1>2
  <2>2. QED
    BY <2>1, <1>1, <1>5, <1>6 DEF ToSet, Between
<1>15. Distinct(q) => ToSet(l) \cap ToSet(r) = {}
  <2>1. ASSUME Distinct(q), NEW i \in 1..p - 1, NEW j \in p..Len(q) PROVE q[i] # q[j]
    <3>1. i \in DOMAIN q /\ j \in DOMAIN q /\ i # j
      BY <1>1, <1>2
    <3>2. QED
      BY <2>1, <3>1 DEF Distinct
  <2>2. QED
    BY <2>1, <1>5, <1>6 DEF Between
<1>16. ToSet(x) = ToSet(q) \cup {t}
  BY <1>8, <1>12, <1>13, <1>14
<1>17. ASSUME Distinct(q), t \notin ToSet(q) PROVE Distinct(x)
  <2>1. ToSet(l) \cap ToSet(m) = {} /\ ToSet(lm) \cap ToSet(r) = {}
    BY <1>8, <1>12, <1>14, <1>15, <1>17
  <2>2. QED
    BY <2>1, <1>5, <1>6, <1>8, <1>12, <1>13, <1>17
<1>18. QED
  BY <1>11, <1>13, <1>16, <1>17

(* List::remove() takes the element out, and no other.                     *)
LEMMA RemoveAtElements ==
  ASSUME NEW T, NEW q \in Seq(T), NEW p \in 1..Len(q), Distinct(q)
  PROVE  /\ RemoveAt(q, p) \in Seq(T)
         /\ ToSet(RemoveAt(q, p)) = ToSet(q) \ {q[p]}
         /\ Distinct(RemoveAt(q, p))
<1>1. Len(q) \in Nat /\ DOMAIN q = 1..Len(q)
  BY LenProperties
<1>2. /\ p \in Int /\ p - 1 \in 0..Len(q) /\ 1 \in 1..Len(q) + 1
      /\ p + 1 \in 1..Len(q) + 1 /\ Len(q) \in 0..Len(q)
  BY <1>1
<1>3. PICK l : l = SubSeq(q, 1, p - 1)
  OBVIOUS
<1>4. PICK r : r = SubSeq(q, p + 1, Len(q))
  OBVIOUS
<1>5. l \in Seq(T) /\ ToSet(l) = Between(q, 1, p - 1) /\ Distinct(l)
  BY <1>2, <1>3, CutElements, Zenon
<1>6. r \in Seq(T) /\ ToSet(r) = Between(q, p + 1, Len(q)) /\ Distinct(r)
  BY <1>2, <1>4, CutElements, Zenon
<1>7. PICK x : x = l \o r
  OBVIOUS
<1>8. RemoveAt(q, p) = x
  BY <1>3, <1>4, <1>7, Zenon DEF RemoveAt
<1>9. /\ x \in Seq(T) /\ ToSet(x) = ToSet(l) \cup ToSet(r)
      /\ Distinct(l) /\ Distinct(r) /\ ToSet(l) \cap ToSet(r) = {} => Distinct(x)
  <2>1. /\ l \o r \in Seq(T)
        /\ ToSet(l \o r) = ToSet(l) \cup ToSet(r)
        /\ Distinct(l) /\ Distinct(r) /\ ToSet(l) \cap ToSet(r) = {} => Distinct(l \o r)
    BY <1>5, <1>6, JoinedElements, Zenon
  <2>2. QED
    BY <1>7, <2>1
<1>10. \A i, j \in 1..Len(q) : q[i] = q[j] => i = j
  BY <1>1 DEF Distinct
<1>11. ToSet(l) \cap ToSet(r) = {}
  <2>1. ASSUME NEW i \in 1..p - 1, NEW j \in p + 1..Len(q) PROVE q[i] # q[j]
    <3>1. i \in 1..Len(q) /\ j \in 1..Len(q) /\ i # j
      BY <1>1, <1>2
    <3>2. QED
      BY <3>1, <1>10
  <2>2. QED
    BY <2>1, <1>5, <1>6 DEF Between
<1>12. ToSet(x) = ToSet(q) \ {q[p]}
  <2>1. (1..p - 1) \cup (p + 1..Len(q)) = 1..Len(q) \ {p}
    BY <1>1, <1>2
  <2>2. ToSet(x) = {q[i] : i \in 1..Len(q) \ {p}}
    BY <2>1, <1>5, <1>6, <1>9 DEF Between
  <2>3. QED
    BY <2>2, <1>1, <1>10 DEF ToSet
<1>13. QED
  BY <1>5, <1>6, <1>8, <1>9, <1>11, <1>12

(* insert() finds a place in the list for an element of any rank.          *)
LEMMA OrderedInsertElements ==
  ASSUME NEW T, NEW q \in Seq(T), NEW t \in T, NEW rank
  PROVE  /\ OrderedInsert(q, rank, t) \in Seq(T)
         /\ ToSet(OrderedInsert(q, rank, t)) = ToSet(q) \cup {t}
         /\ Distinct(q) /\ t \notin ToSet(q) => Distinct(OrderedInsert(q, rank, t))
<1> DEFINE S == {i \in 1..Len(q) + 1 : i <= Len(q) => rank[q[i]] > rank[t]}
           p == InsertPos(q, rank, rank[t])
<1>1. Len(q) \in Nat
  BY LenProperties
<1>2. S \in SUBSET Nat
  BY <1>1
<1>3. S # {}
  <2>1. Len(q) + 1 \in S
    BY <1>1
  <2>2. QED
    BY <2>1, Zenon
<1>4. p = Min(S)
  BY Zenon DEF InsertPos
<1>5. Min(S) \in S
  <2> HIDE DEF S
  <2>1. QED
    BY <1>2, <1>3, MinPosition, Zenon
<1>6. p \in 1..Len(q) + 1
  BY <1>4, <1>5, Zenon
<1> HIDE DEF p
<1>7. OrderedInsert(q, rank, t) = InsertAt(q, p, t)
  BY Zenon DEF OrderedInsert, p
<1>8. /\ InsertAt(q, p, t) \in Seq(T)
      /\ ToSet(InsertAt(q, p, t)) = ToSet(q) \cup {t}
      /\ Distinct(q) /\ t \notin ToSet(q) => Distinct(InsertAt(q, p, t))
  BY <1>6, InsertAtElements, Zenon
<1>9. QED
  BY <1>7, <1>8

(* remove() of a linked element takes out that element.                    *)
LEMMA RemoveFirstElements ==
  ASSUME NEW T, NEW q \in Seq(T), NEW t, Distinct(q)
  PROVE  /\ RemoveFirst(q, t) \in Seq(T)
         /\ ToSet(RemoveFirst(q, t)) = ToSet(q) \ {t}
         /\ Distinct(RemoveFirst(q, t))
<1>1. Len(q) \in Nat /\ DOMAIN q = 1..Len(q)
  BY LenProperties
<1>2. CASE ~ \E i \in 1..Len(q) : q[i] = t
  <2>1. RemoveFirst(q, t) = q
    BY <1>2, Zenon DEF RemoveFirst
  <2>2. t \notin ToSet(q)
    BY <1>1, <1>2 DEF ToSet
  <2>3. ToSet(q) = ToSet(q) \ {t}
    BY <2>2
  <2>4. QED
    BY <2>1, <2>3
<1>3. CASE \E i \in 1..Len(q) : q[i] = t
  <2> DEFINE I == {i \in 1..Len(q) : q[i] = t}
  <2>1. I \in SUBSET Nat /\ I # {}
    BY <1>1, <1>3
  <2>2. Min(I) \in I
    <3> HIDE DEF I
    <3>1. QED
      BY <2>1, MinPosition, Zenon
  <2>3. RemoveFirst(q, t) = RemoveAt(q, Min(I))
    BY <1>3, <2>1, Zenon DEF RemoveFirst, SelectInSeq
  <2>4. Min(I) \in 1..Len(q) /\ q[Min(I)] = t
    BY <2>2
  <2> HIDE DEF I
  <2>5. PICK p \in 1..Len(q) : p = Min(I) /\ q[p] = t
    BY <2>4
  <2>6. /\ RemoveAt(q, p) \in Seq(T)
        /\ ToSet(RemoveAt(q, p)) = ToSet(q) \ {q[p]}
        /\ Distinct(RemoveAt(q, p))
    BY RemoveAtElements, Zenon
  <2>7. QED
    BY <2>3, <2>5, <2>6
<1>4. QED
  BY <1>2, <1>3

(* remove_head() takes the first element out.                              *)
LEMMA HeadTailElements ==
  ASSUME NEW T, NEW q \in Seq(T), q # <<>>
  PROVE  /\ Head(q) \in T /\ Head(q) \in ToSet(q)
         /\ Tail(q) \in Seq(T)
         /\ Distinct(q) => ToSet(Tail(q)) = ToSet(q) \ {Head(q)} /\ Distinct(Tail(q))
<1>1. Len(q) \in Nat /\ DOMAIN q = 1..Len(q) /\ Len(q) >= 1
  BY LenProperties, EmptySeq
<1>2. Head(q) = q[1] /\ Head(q) \in T /\ Tail(q) \in Seq(T)
  BY <1>1, HeadTailProperties
<1>3. Head(q) \in ToSet(q)
  BY <1>1, <1>2 DEF ToSet
<1>4. PICK x : x = Tail(q)
  OBVIOUS
<1>5. x \in Seq(T) /\ Len(x) = Len(q) - 1 /\ \A i \in 1..Len(q) - 1 : x[i] = q[i + 1]
  BY <1>4, HeadTailProperties
<1>6. DOMAIN x = 1..Len(q) - 1
  BY <1>5, LenProperties
<1>7. ASSUME Distinct(q) PROVE ToSet(x) = ToSet(q) \ {Head(q)} /\ Distinct(x)
  <2>1. \A i, j \in 1..Len(q) : q[i] = q[j] => i = j
    BY <1>1, <1>7 DEF Distinct
  <2>2. ASSUME NEW i \in 1..Len(q) - 1
        PROVE  i + 1 \in 1..Len(q) /\ x[i] = q[i + 1] /\ x[i] # q[1]
    BY <1>1, <1>5, <2>1
  <2>3. ASSUME NEW i \in 1..Len(q), i # 1
        PROVE  i - 1 \in 1..Len(q) - 1 /\ x[i - 1] = q[i]
    BY <1>1, <1>5, <2>3
  <2>4. ASSUME NEW e \in ToSet(x) PROVE e \in ToSet(q) \ {Head(q)}
    <3>1. PICK i \in 1..Len(q) - 1 : x[i] = e
      BY <1>6 DEF ToSet
    <3>2. i + 1 \in 1..Len(q) /\ e = q[i + 1] /\ e # q[1]
      BY <2>2, <3>1
    <3>3. QED
      BY <3>2, <1>1, <1>2 DEF ToSet
  <2>5. ASSUME NEW e \in ToSet(q) \ {Head(q)} PROVE e \in ToSet(x)
    <3>1. PICK i \in 1..Len(q) : q[i] = e
      BY <1>1 DEF ToSet
    <3>2. i # 1
      BY <3>1, <1>2
    <3>3. i - 1 \in 1..Len(q) - 1 /\ x[i - 1] = e
      BY <2>3, <3>1, <3>2
    <3>4. QED
      BY <3>3, <1>6 DEF ToSet
  <2>6. Distinct(x)
    <3> SUFFICES ASSUME NEW i \in 1..Len(q) - 1, NEW j \in 1..Len(q) - 1, x[i] = x[j]
                 PROVE  i = j
      BY <1>6 DEF Distinct
    <3>1. i + 1 = j + 1
      BY <2>1, <2>2
    <3>2. QED
      BY <3>1
  <2>7. QED
    BY <2>4, <2>5, <2>6
<1>8. QED
  BY <1>2, <1>3, <1>4, <1>7

(* The positions of the elements once one more has been put at position p. *)
LEMMA InsertAtPositions ==
  ASSUME NEW T, NEW q \in Seq(T), NEW p \in 1..Len(q) + 1, NEW t \in T
  PROVE  /\ InsertAt(q, p, t) \in Seq(T)
         /\ Len(InsertAt(q, p, t)) = Len(q) + 1
         /\ InsertAt(q, p, t)[p] = t
         /\ \A i \in 1..Len(q) : i < p => InsertAt(q, p, t)[i] = q[i]
         /\ \A i \in 1..Len(q) : i >= p => InsertAt(q, p, t)[i + 1] = q[i]
<1>1. Len(q) \in Nat /\ DOMAIN q = 1..Len(q)
  BY LenProperties
<1>2. PICK l, m : l = SubSeq(q, 1, p - 1) /\ m = SubSeq(q, p, Len(q))
  OBVIOUS
<1>3. /\ l \in Seq(T) /\ Len(l) = p - 1 /\ \A i \in 1..p - 1 : l[i] = q[i]
  <2>1. \A i \in 1..p - 1 : q[i] \in T
    BY <1>1, ElementOfSeq
  <2>2. /\ l \in Seq(T) /\ Len(l) = IF 1 <= p - 1 THEN p - 1 - 1 + 1 ELSE 0
        /\ \A i \in 1..p - 1 - 1 + 1 : l[i] = q[1 + i - 1]
    BY <1>1, <1>2, <2>1, SubSeqProperties
  <2>3. QED
    BY <1>1, <2>2
<1>4. /\ m \in Seq(T) /\ Len(m) = Len(q) - p + 1
      /\ \A i \in p..Len(q) : i - p + 1 \in 1..Len(m) /\ m[i - p + 1] = q[i]
  <2>1. \A i \in p..Len(q) : q[i] \in T
    BY <1>1, ElementOfSeq
  <2>2. /\ m \in Seq(T) /\ Len(m) = IF p <= Len(q) THEN Len(q) - p + 1 ELSE 0
        /\ \A i \in 1..Len(q) - p + 1 : m[i] = q[p + i - 1]
    BY <1>1, <1>2, <2>1, SubSeqProperties
  <2>3. Len(m) = Len(q) - p + 1
    BY <1>1, <2>2
  <2>4. ASSUME NEW i \in p..Len(q)
        PROVE  i - p + 1 \in 1..Len(m) /\ m[i - p + 1] = q[i]
    <3>1. i - p + 1 \in 1..Len(q) - p + 1 /\ p + (i - p + 1) - 1 = i
      BY <1>1
    <3>2. QED
      BY <2>2, <2>3, <3>1
  <2>5. QED
    BY <2>2, <2>3, <2>4
<1>5. PICK e, y : e = <<t>> /\ y = l \o e
  OBVIOUS
<1>6. /\ y \in Seq(T) /\ Len(y) = p /\ y[p] = t
      /\ \A i \in 1..p - 1 : y[i] = q[i]
  BY <1>1, <1>3, <1>5
<1>7. PICK x : x = y \o m
  OBVIOUS
<1>8. /\ x \in Seq(T) /\ Len(x) = Len(y) + Len(m)
      /\ \A i \in 1..Len(y) : x[i] = y[i]
      /\ \A i \in 1..Len(m) : x[Len(y) + i] = m[i]
  BY <1>4, <1>6, <1>7
<1>9. ASSUME NEW i \in 1..Len(q), i < p PROVE x[i] = q[i]
  BY <1>1, <1>6, <1>8, <1>9
<1>10. ASSUME NEW i \in 1..Len(q), i >= p PROVE x[i + 1] = q[i]
  <2>1. i - p + 1 \in 1..Len(m) /\ m[i - p + 1] = q[i] /\ p + (i - p + 1) = i + 1
    BY <1>1, <1>4, <1>10
  <2>2. x[Len(y) + (i - p + 1)] = m[i - p + 1]
    BY <1>8, <2>1
  <2>3. QED
    BY <1>6, <2>1, <2>2
<1>11. x \in Seq(T) /\ Len(x) = Len(q) + 1 /\ x[p] = t
  BY <1>1, <1>4, <1>6, <1>8
<1>12. InsertAt(q, p, t) = x
  BY <1>2, <1>5, <1>7, Zenon DEF InsertAt
<1>13. QED
  BY <1>9, <1>10, <1>11, <1>12, Zenon

(* The smaller ranks come first.                                           *)
Sorted(q, rank) == \A i, j \in DOMAIN q : i < j => rank[q[i]] <= rank[q[j]]

(* insert() keeps a list in the order of its ranks.                        *)
LEMMA OrderedInsertSorted ==
  ASSUME NEW T, NEW q \in Seq(T), NEW t \in T, NEW rank \in [T -> Int]
  PROVE  /\ Len(OrderedInsert(q, rank, t)) = Len(q) + 1
         /\ Sorted(q, rank) => Sorted(OrderedInsert(q, rank, t), rank)
<1> DEFINE S == {i \in 1..Len(q) + 1 : i <= Len(q) => rank[q[i]] > rank[t]}
           p == InsertPos(q, rank, rank[t])
<1>1. Len(q) \in Nat /\ DOMAIN q = 1..Len(q) /\ \A i \in DOMAIN q : q[i] \in T
  BY LenProperties, ElementOfSeq
<1>2. S \in SUBSET Nat
  BY <1>1
<1>3. S # {}
  <2>1. Len(q) + 1 \in S
    BY <1>1
  <2>2. QED
    BY <2>1, Zenon
<1>4. p = Min(S)
  BY Zenon DEF InsertPos
<1>5. p \in S /\ \A y \in S : p <= y
  <2> HIDE DEF S
  <2>1. Min(S) \in S /\ \A y \in S : Min(S) <= y
    BY <1>2, <1>3, MinPosition, Zenon
  <2>2. QED
    BY <1>4, <2>1, Zenon
<1> HIDE DEF p
<1>6. /\ p \in 1..Len(q) + 1
      /\ p <= Len(q) => rank[q[p]] > rank[t]
      /\ \A i \in 1..Len(q) : i < p => rank[q[i]] <= rank[t]
  <2>1. p \in 1..Len(q) + 1 /\ (p <= Len(q) => rank[q[p]] > rank[t])
    BY <1>5
  <2>2. ASSUME NEW i \in 1..Len(q), i < p PROVE rank[q[i]] <= rank[t]
    <3>1. i \notin S
      BY <1>1, <1>5, <2>1, <2>2
    <3>2. ~(rank[q[i]] > rank[t])
      BY <1>1, <3>1
    <3>3. rank[q[i]] \in Int /\ rank[t] \in Int
      BY <1>1
    <3>4. QED
      BY <3>2, <3>3
  <2>3. QED
    BY <2>1, <2>2
<1>7. PICK x : x = InsertAt(q, p, t)
  OBVIOUS
<1>8. /\ x \in Seq(T) /\ Len(x) = Len(q) + 1 /\ x[p] = t
      /\ \A i \in 1..Len(q) : i < p => x[i] = q[i]
      /\ \A i \in 1..Len(q) : i >= p => x[i + 1] = q[i]
  <2>1. /\ InsertAt(q, p, t) \in Seq(T)
        /\ Len(InsertAt(q, p, t)) = Len(q) + 1
        /\ InsertAt(q, p, t)[p] = t
        /\ \A i \in 1..Len(q) : i < p => InsertAt(q, p, t)[i] = q[i]
        /\ \A i \in 1..Len(q) : i >= p => InsertAt(q, p, t)[i + 1] = q[i]
    <3>1. p \in 1..Len(q) + 1
      BY <1>6
    <3>2. QED
      BY <3>1, InsertAtPositions, SMTT(30)
  <2>2. QED
    BY <1>7, <2>1, Zenon
<1>9. DOMAIN x = 1..Len(q) + 1
  BY <1>8, LenProperties
<1>10. ASSUME NEW i \in DOMAIN x
       PROVE  \/ i < p /\ i \in 1..Len(q) /\ x[i] = q[i]
              \/ i = p /\ x[i] = t
              \/ i > p /\ i - 1 \in 1..Len(q) /\ x[i] = q[i - 1]
  <2>1. CASE i < p
    BY <1>1, <1>6, <1>8, <1>9, <2>1
  <2>2. CASE i = p
    BY <1>8, <2>2
  <2>3. CASE i > p
    <3>1. i - 1 \in 1..Len(q) /\ i - 1 >= p /\ (i - 1) + 1 = i
      BY <1>1, <1>6, <1>9, <2>3
    <3>2. x[(i - 1) + 1] = q[i - 1]
      BY <1>8, <3>1
    <3>3. QED
      BY <2>3, <3>1, <3>2
  <2>4. QED
    BY <1>6, <1>9, <2>1, <2>2, <2>3
<1>11. ASSUME Sorted(q, rank), NEW i \in DOMAIN x, NEW j \in DOMAIN x, i < j
       PROVE  rank[x[i]] <= rank[x[j]]
  <2>1. \A a, b \in 1..Len(q) : a <= b => rank[q[a]] <= rank[q[b]]
    BY <1>1, <1>11 DEF Sorted
  <2>2. i \in Int /\ j \in Int /\ p \in Int
    BY <1>6, <1>9
  <2>3. rank[t] \in Int /\ \A a \in 1..Len(q) : rank[q[a]] \in Int
    BY <1>1
  <2>4. CASE i < p
    <3>1. i \in 1..Len(q) /\ x[i] = q[i] /\ rank[q[i]] <= rank[t]
      BY <1>6, <1>10, <2>2, <2>4
    <3>2. CASE j < p
      <4>1. j \in 1..Len(q) /\ x[j] = q[j]
        BY <1>10, <2>2, <3>2
      <4>2. QED
        BY <1>11, <2>1, <2>2, <3>1, <4>1
    <3>3. CASE j = p
      BY <1>8, <3>1, <3>3
    <3>4. CASE j > p
      <4>1. j - 1 \in 1..Len(q) /\ x[j] = q[j - 1]
        BY <1>10, <2>2, <3>4
      <4>2. i <= j - 1
        BY <1>11, <2>2
      <4>3. QED
        BY <2>1, <3>1, <4>1, <4>2
    <3>5. QED
      BY <2>2, <3>2, <3>3, <3>4
  <2>5. CASE i = p
    <3>1. j - 1 \in 1..Len(q) /\ x[j] = q[j - 1] /\ x[i] = t
      <4>1. j > p
        BY <1>11, <2>2, <2>5
      <4>2. QED
        BY <1>8, <1>10, <2>2, <2>5, <4>1, SMTT(30)
    <3>2. p <= j - 1 /\ p \in 1..Len(q)
      BY <1>1, <1>6, <1>11, <2>2, <2>5, <3>1
    <3>3. rank[q[p]] <= rank[q[j - 1]] /\ rank[t] < rank[q[p]]
      BY <1>1, <1>6, <2>1, <3>1, <3>2
    <3>4. QED
      BY <2>3, <3>1, <3>2, <3>3
  <2>6. CASE i > p
    <3>1. /\ i - 1 \in 1..Len(q) /\ x[i] = q[i - 1]
          /\ j - 1 \in 1..Len(q) /\ x[j] = q[j - 1] /\ i - 1 <= j - 1
      BY <1>10, <1>11, <2>2, <2>6
    <3>2. QED
      BY <2>1, <3>1
  <2>7. QED
    BY <2>2, <2>4, <2>5, <2>6
<1>12. OrderedInsert(q, rank, t) = x
  BY <1>7, Zenon DEF OrderedInsert, p
<1>13. QED
  BY <1>8, <1>11, <1>12 DEF Sorted

(* remove_head() takes out the first of the smallest ranks.                *)
LEMMA TailSorted ==
  ASSUME NEW T, NEW q \in Seq(T), q # <<>>, NEW rank \in [T -> Int], Sorted(q, rank)
  PROVE  /\ Len(Tail(q)) = Len(q) - 1 /\ Sorted(Tail(q), rank)
         /\ \A t \in ToSet(q) : rank[Head(q)] <= rank[t]
<1>1. Len(q) \in Nat /\ DOMAIN q = 1..Len(q) /\ Len(q) >= 1 /\ \A i \in DOMAIN q : q[i] \in T
  BY LenProperties, EmptySeq, ElementOfSeq
<1>2. PICK x : x = Tail(q)
  OBVIOUS
<1>3. Head(q) = q[1] /\ x \in Seq(T) /\ Len(x) = Len(q) - 1 /\ \A i \in 1..Len(q) - 1 : x[i] = q[i + 1]
  BY <1>1, <1>2, HeadTailProperties
<1>4. DOMAIN x = 1..Len(q) - 1
  BY <1>3, LenProperties
<1>5. ASSUME NEW i \in DOMAIN x, NEW j \in DOMAIN x, i < j PROVE rank[x[i]] <= rank[x[j]]
  <2>1. i + 1 \in DOMAIN q /\ j + 1 \in DOMAIN q /\ i + 1 < j + 1
    BY <1>1, <1>4, <1>5
  <2>2. x[i] = q[i + 1] /\ x[j] = q[j + 1]
    BY <1>3, <1>4
  <2>3. QED
    BY <2>1, <2>2 DEF Sorted
<1>6. ASSUME NEW t \in ToSet(q) PROVE rank[Head(q)] <= rank[t]
  <2>1. PICK i \in DOMAIN q : q[i] = t
    BY DEF ToSet
  <2>2. CASE i = 1
    <3>1. rank[t] \in Int
      BY <1>1, <2>1
    <3>2. QED
      BY <1>3, <2>1, <2>2, <3>1
  <2>3. CASE i # 1
    <3>1. 1 \in DOMAIN q /\ 1 < i
      BY <1>1, <2>3
    <3>2. QED
      BY <1>3, <2>1, <3>1 DEF Sorted
  <2>4. QED
    BY <2>2, <2>3
<1>7. Sorted(x, rank)
  BY <1>5 DEF Sorted
<1>8. QED
  BY <1>2, <1>3, <1>6, <1>7

(* A change of ranks that no element has leaves the list in order.         *)
LEMMA SortedSame ==
  ASSUME NEW q, NEW rank, NEW new, \A t \in ToSet(q) : new[t] = rank[t], Sorted(q, rank)
  PROVE  Sorted(q, new)
<1>1. \A i \in DOMAIN q : new[q[i]] = rank[q[i]]
  BY DEF ToSet
<1>2. QED
  BY <1>1 DEF Sorted
-----------------------------------------------------------------------------
Fields == {"chosen", "ready", "rank", "queue", "intact", "state", "target", "ipi"}

(* The types of the attributes the scheduler works on.                     *)
Shape(s) == /\ DOMAIN s = Fields
            /\ s.chosen \in [CPU -> Threads \cup {Null}]
            /\ s.ready \in [CPU -> Seq(Threads)]
            /\ s.queue \in [Threads -> CPU]

(* The lists are in order: what is in the list of a CPU, once, or chosen   *)
(* there has that CPU for its queue, and a CPU has nothing in its list if  *)
(* it has nothing chosen.                                                  *)
Placed(s) == /\ s.intact = TRUE
             /\ \A c \in CPU : /\ Distinct(s.ready[c])
                               /\ s.chosen[c] \notin ToSet(s.ready[c])
                               /\ s.chosen[c] = Null => s.ready[c] = <<>>
                               /\ s.chosen[c] # Null => s.queue[s.chosen[c]] = c
                               /\ \A t \in ToSet(s.ready[c]) : s.queue[t] = c

(* t is in the scheduler, chosen or in a list.                             *)
In(s, t) == s.chosen[s.queue[t]] = t \/ t \in ToSet(s.ready[s.queue[t]])

(* The scheduler's operations change the lists only.                       *)
SameAttributes(s, x) == /\ x.rank = s.rank /\ x.queue = s.queue /\ x.state = s.state
                        /\ x.target = s.target /\ x.ipi = s.ipi

(* What linking, unlinking and choosing the head do to the fields.         *)
Linked(s, c, t, x) ==
    /\ DOMAIN x = Fields /\ SameAttributes(s, x)
    /\ x.chosen = s.chosen
    /\ x.ready = [s.ready EXCEPT ![c] = OrderedInsert(s.ready[c], s.rank, t)]
    /\ s.intact = TRUE /\ (\A d \in DOMAIN s.ready : t \notin ToSet(s.ready[d])) => x.intact = TRUE

Unlinked(s, c, t, x) ==
    /\ DOMAIN x = Fields /\ SameAttributes(s, x)
    /\ x.chosen = s.chosen
    /\ x.ready = [s.ready EXCEPT ![c] = RemoveFirst(s.ready[c], t)]
    /\ s.intact = TRUE /\ t \in ToSet(s.ready[c]) => x.intact = TRUE

HeadChosen(s, c, x) ==
    /\ DOMAIN x = Fields /\ SameAttributes(s, x)
    /\ x.chosen = [s.chosen EXCEPT ![c] = Head(s.ready[c])]
    /\ x.ready = [s.ready EXCEPT ![c] = Tail(s.ready[c])]
    /\ x.intact = s.intact

(* insert() of the list changes the list of that CPU alone.                *)
LEMMA LinkFields ==
  ASSUME NEW s, NEW c, NEW t, DOMAIN s = Fields
  PROVE  Linked(s, c, t, Link(s, c, t))
  BY DEF Fields, Link, Linked, SameAttributes, IsLinked

(* remove() of the list changes the list of that CPU alone.                *)
LEMMA UnlinkFields ==
  ASSUME NEW s, NEW c, NEW t, DOMAIN s = Fields
  PROVE  Unlinked(s, c, t, Unlink(s, c, t))
  BY DEF Fields, Unlink, Unlinked, SameAttributes, IsLinked

(* remove_head() moves the head of the list to chosen.                     *)
LEMMA ChooseHeadFields ==
  ASSUME NEW s, NEW c, DOMAIN s = Fields, s.ready[c] # <<>>
  PROVE  HeadChosen(s, c, ChooseHead(s, c))
  BY DEF Fields, ChooseHead, HeadChosen, SameAttributes

(* Null is no thread, so a thread that is chosen is none that is missing.  *)
LEMMA NullIsNoThread == Null \notin Threads
  BY ThreadAssumption

(* Giving CPU c another chosen thread h and another list l.                *)
Rearranged(s, c, h, l, x) ==
    /\ DOMAIN x = Fields
    /\ SameAttributes(s, x)
    /\ x.chosen = [s.chosen EXCEPT ![c] = h]
    /\ x.ready = [s.ready EXCEPT ![c] = l]
    /\ x.intact = TRUE

(* They are in order again if h and l are, and belong to c.                *)
LEMMA RearrangedPlaced ==
  ASSUME NEW s, NEW c \in CPU, NEW h \in Threads \cup {Null}, NEW l \in Seq(Threads), NEW x,
         Shape(s), Placed(s), Rearranged(s, c, h, l, x),
         Distinct(l), h \notin ToSet(l), h = Null => l = <<>>,
         h # Null => s.queue[h] = c,
         \A t \in ToSet(l) : s.queue[t] = c
  PROVE  /\ Shape(x) /\ Placed(x)
         /\ \A u \in Threads : In(x, u) <=> IF s.queue[u] = c THEN u = h \/ u \in ToSet(l)
                                                              ELSE In(s, u)
<1>1. Shape(x)
  BY DEF Shape, Rearranged, SameAttributes
<1>2. x.chosen[c] = h /\ x.ready[c] = l /\ x.queue = s.queue
  BY DEF Shape, Rearranged, SameAttributes
<1>3. ASSUME NEW d \in CPU, d # c PROVE x.chosen[d] = s.chosen[d] /\ x.ready[d] = s.ready[d]
  BY <1>3 DEF Shape, Rearranged
<1>4. x.intact = TRUE
  BY DEF Rearranged
<1>5. ASSUME NEW d \in CPU
      PROVE  /\ Distinct(x.ready[d])
             /\ x.chosen[d] \notin ToSet(x.ready[d])
             /\ x.chosen[d] = Null => x.ready[d] = <<>>
             /\ x.chosen[d] # Null => x.queue[x.chosen[d]] = d
             /\ \A t \in ToSet(x.ready[d]) : x.queue[t] = d
  <2>1. CASE d = c
    BY <2>1, <1>2
  <2>2. CASE d # c
    BY <2>2, <1>2, <1>3 DEF Placed
  <2>3. QED
    BY <2>1, <2>2
<1>6. ASSUME NEW u \in Threads
      PROVE  In(x, u) <=> IF s.queue[u] = c THEN u = h \/ u \in ToSet(l) ELSE In(s, u)
  <2>1. CASE s.queue[u] = c
    BY <2>1, <1>2 DEF In
  <2>2. CASE s.queue[u] # c
    <3>1. s.queue[u] \in CPU
      BY DEF Shape
    <3>2. QED
      BY <2>2, <3>1, <1>2, <1>3 DEF In
  <2>3. QED
    BY <2>1, <2>2
<1>7. QED
  BY <1>1, <1>4, <1>5, <1>6 DEF Placed

(* insert() and resume() of a thread that is not in the scheduler put it   *)
(* there and leave the chosen threads alone.                               *)
AfterInsert(s, t, x) ==
    /\ Shape(x) /\ Placed(x) /\ SameAttributes(s, x)
    /\ \A u \in Threads : In(x, u) <=> In(s, u) \/ u = t
    /\ \A d \in CPU : s.chosen[d] # Null => x.chosen[d] = s.chosen[d]
    /\ \A d \in CPU : x.chosen[d] = s.chosen[d] \/ x.chosen[d] = t

(* Scheduler::insert() of a thread that is not in the scheduler puts it    *)
(* there and keeps the lists in order.                                     *)
LEMMA InsertKeeps ==
  ASSUME NEW s, NEW t \in Threads, Shape(s), Placed(s), ~In(s, t)
  PROVE  AfterInsert(s, t, SchedulerInsert(s, t))
<1>0. PICK c \in CPU : c = s.queue[t]
  BY DEF Shape
<1>1. PICK x : x = SchedulerInsert(s, t)
  OBVIOUS
<1>2. /\ s.chosen[c] \in Threads \cup {Null} /\ s.ready[c] \in Seq(Threads)
      /\ s.chosen[c] # t /\ t \notin ToSet(s.ready[c]) /\ DOMAIN s = Fields
      /\ s.chosen \in [CPU -> Threads \cup {Null}] /\ s.ready \in [CPU -> Seq(Threads)]
  BY <1>0 DEF Shape, In
<1>3. CASE s.chosen[c] = Null
  <2>1. x = [s EXCEPT !.chosen[c] = t]
    BY <1>0, <1>1, <1>3 DEF SchedulerInsert
  <2>2. s.ready[c] = <<>> /\ ToSet(s.ready[c]) = {} /\ Distinct(s.ready[c])
    BY <1>3 DEF Placed, ToSet
  <2>3. Rearranged(s, c, t, s.ready[c], x)
    <3>1. /\ DOMAIN x = Fields
          /\ SameAttributes(s, x)
          /\ x.chosen = [s.chosen EXCEPT ![c] = t]
          /\ x.ready = s.ready
          /\ x.intact = s.intact
      BY <1>2, <2>1 DEF Fields, SameAttributes
    <3>2. s.ready = [s.ready EXCEPT ![c] = s.ready[c]]
      BY <1>2
    <3>3. s.intact = TRUE
      BY DEF Placed
    <3>4. QED
      BY <3>1, <3>2, <3>3, Zenon DEF Rearranged
  <2>4. t # Null
    BY NullIsNoThread
  <2>5. /\ Shape(x) /\ Placed(x)
        /\ \A u \in Threads : In(x, u) <=> IF s.queue[u] = c THEN u = t \/ u \in ToSet(s.ready[c])
                                                              ELSE In(s, u)
    BY <1>0, <1>2, <2>2, <2>3, <2>4, RearrangedPlaced
  <2>6. \A u \in Threads : s.queue[u] = c => ~In(s, u)
    BY <1>3, <2>2, NullIsNoThread DEF In
  <2>7. \A u \in Threads : In(x, u) <=> In(s, u) \/ u = t
    BY <1>0, <2>2, <2>5, <2>6
  <2>8. \A d \in CPU : /\ s.chosen[d] # Null => x.chosen[d] = s.chosen[d]
                       /\ x.chosen[d] = s.chosen[d] \/ x.chosen[d] = t
    BY <1>2, <1>3, <2>3 DEF Rearranged
  <2>9. QED
    BY <1>1, <2>3, <2>5, <2>7, <2>8 DEF AfterInsert, Rearranged
<1>4. CASE s.chosen[c] # Null
  <2>1. x = Link(s, c, t)
    BY <1>0, <1>1, <1>4 DEF SchedulerInsert
  <2>2. PICK l : l = OrderedInsert(s.ready[c], s.rank, t)
    OBVIOUS
  <2>3. l \in Seq(Threads) /\ ToSet(l) = ToSet(s.ready[c]) \cup {t} /\ Distinct(l)
    <3>1. Distinct(s.ready[c])
      BY DEF Placed
    <3>2. /\ OrderedInsert(s.ready[c], s.rank, t) \in Seq(Threads)
          /\ ToSet(OrderedInsert(s.ready[c], s.rank, t)) = ToSet(s.ready[c]) \cup {t}
          /\ Distinct(s.ready[c]) /\ t \notin ToSet(s.ready[c])
                => Distinct(OrderedInsert(s.ready[c], s.rank, t))
      BY <1>2, OrderedInsertElements, Zenon
    <3>3. QED
      BY <1>2, <2>2, <3>1, <3>2
  <2>4. Rearranged(s, c, s.chosen[c], l, x)
    <3>1. Linked(s, c, t, x)
      BY <1>2, <2>1, LinkFields, Zenon
    <3>2. s.chosen = [s.chosen EXCEPT ![c] = s.chosen[c]]
      BY <1>2
    <3>3. \A d \in DOMAIN s.ready : t \notin ToSet(s.ready[d])
      BY <1>0, <1>2 DEF Placed
    <3>4. x.intact = TRUE
      BY <3>1, <3>3, Zenon DEF Placed, Linked
    <3>5. x.ready = [s.ready EXCEPT ![c] = l]
      BY <3>1, <2>2, Zenon DEF Linked
    <3>6. QED
      BY <3>1, <3>2, <3>4, <3>5, Zenon DEF Rearranged, Linked
  <2>5. s.chosen[c] \notin ToSet(l) /\ s.queue[s.chosen[c]] = c /\ \A u \in ToSet(l) : s.queue[u] = c
    BY <1>0, <1>2, <1>4, <2>3 DEF Placed
  <2>6. /\ Shape(x) /\ Placed(x)
        /\ \A u \in Threads : In(x, u) <=> IF s.queue[u] = c THEN u = s.chosen[c] \/ u \in ToSet(l)
                                                              ELSE In(s, u)
    BY <1>2, <1>4, <2>3, <2>4, <2>5, RearrangedPlaced
  <2>7. \A u \in Threads : In(x, u) <=> In(s, u) \/ u = t
    BY <1>0, <2>3, <2>6 DEF In
  <2>8. \A d \in CPU : x.chosen[d] = s.chosen[d]
    BY <1>2, <2>4 DEF Rearranged
  <2>9. QED
    BY <1>1, <2>4, <2>6, <2>7, <2>8 DEF AfterInsert, Rearranged
<1>5. QED
  BY <1>3, <1>4

(* remove() and suspend() of a thread that is in the scheduler take it out,*)
(* and change no chosen thread but it.                                     *)
AfterRemove(s, t, x) ==
    /\ Shape(x) /\ Placed(x) /\ SameAttributes(s, x)
    /\ \A u \in Threads : In(x, u) <=> In(s, u) /\ u # t
    /\ \A d \in CPU : s.chosen[d] # t => x.chosen[d] = s.chosen[d]

(* Scheduler::remove() of a thread that is in the scheduler takes it out   *)
(* and keeps the lists in order.                                           *)
LEMMA RemoveKeeps ==
  ASSUME NEW s, NEW t \in Threads, Shape(s), Placed(s), In(s, t)
  PROVE  AfterRemove(s, t, SchedulerRemove(s, t))
<1>0. PICK c \in CPU : c = s.queue[t]
  BY DEF Shape
<1>1. PICK x : x = SchedulerRemove(s, t)
  OBVIOUS
<1>2. /\ s.chosen[c] \in Threads \cup {Null} /\ s.ready[c] \in Seq(Threads) /\ DOMAIN s = Fields
      /\ s.chosen \in [CPU -> Threads \cup {Null}] /\ s.ready \in [CPU -> Seq(Threads)]
  BY <1>0 DEF Shape
<1>3. /\ Distinct(s.ready[c]) /\ s.chosen[c] \notin ToSet(s.ready[c])
      /\ \A u \in ToSet(s.ready[c]) : s.queue[u] = c
      /\ s.intact = TRUE
  BY DEF Placed
<1>4. CASE s.chosen[c] = t /\ s.ready[c] = <<>>
  <2>1. x = [s EXCEPT !.chosen[c] = Null]
    BY <1>0, <1>1, <1>4 DEF SchedulerRemove, ChooseHead
  <2>2. ToSet(s.ready[c]) = {}
    BY <1>4 DEF ToSet
  <2>3. Rearranged(s, c, Null, s.ready[c], x)
    <3>1. /\ DOMAIN x = Fields
          /\ SameAttributes(s, x)
          /\ x.chosen = [s.chosen EXCEPT ![c] = Null]
          /\ x.ready = s.ready
          /\ x.intact = s.intact
      BY <1>2, <2>1 DEF Fields, SameAttributes
    <3>2. s.ready = [s.ready EXCEPT ![c] = s.ready[c]]
      BY <1>2
    <3>3. QED
      BY <3>1, <3>2, <1>3, Zenon DEF Rearranged
  <2>4. /\ Shape(x) /\ Placed(x)
        /\ \A u \in Threads : In(x, u) <=> s.queue[u] # c /\ In(s, u)
    <3>1. PICK h \in Threads \cup {Null} : h = Null
      OBVIOUS
    <3>2. PICK l \in Seq(Threads) : l = s.ready[c]
      BY <1>2
    <3>3. Distinct(l) /\ ToSet(l) = {} /\ l = <<>>
      BY <1>3, <1>4, <2>2, <3>2
    <3>4. Rearranged(s, c, h, l, x)
      BY <2>3, <3>1, <3>2, Zenon
    <3>5. /\ Shape(x) /\ Placed(x)
          /\ \A u \in Threads : In(x, u) <=> IF s.queue[u] = c THEN u = h \/ u \in ToSet(l)
                                                                ELSE In(s, u)
      BY <3>1, <3>3, <3>4, RearrangedPlaced
    <3>6. QED
      BY <3>1, <3>3, <3>5, NullIsNoThread
  <2>5. \A u \in Threads : In(x, u) <=> In(s, u) /\ u # t
    BY <1>0, <1>4, <2>2, <2>4, NullIsNoThread DEF In
  <2>6. \A d \in CPU : s.chosen[d] # t => x.chosen[d] = s.chosen[d]
    BY <1>2, <1>4, <2>3 DEF Rearranged
  <2>7. QED
    BY <1>1, <2>3, <2>4, <2>5, <2>6 DEF AfterRemove, Rearranged
<1>5. CASE s.chosen[c] = t /\ s.ready[c] # <<>>
  <2>1. x = ChooseHead(s, c)
    BY <1>0, <1>1, <1>5 DEF SchedulerRemove
  <2>2. HeadChosen(s, c, x)
    BY <1>2, <1>5, <2>1, ChooseHeadFields, Zenon
  <2>3. PICK l : l = Tail(s.ready[c])
    OBVIOUS
  <2>4. PICK h : h = Head(s.ready[c])
    OBVIOUS
  <2>5. /\ h \in Threads /\ h \in ToSet(s.ready[c]) /\ l \in Seq(Threads)
        /\ ToSet(l) = ToSet(s.ready[c]) \ {h} /\ Distinct(l)
    BY <1>2, <1>3, <1>5, <2>3, <2>4, HeadTailElements
  <2>6. Rearranged(s, c, h, l, x)
    BY <1>3, <2>2, <2>3, <2>4, Zenon DEF Rearranged, HeadChosen
  <2>7. h # Null /\ h \notin ToSet(l) /\ s.queue[h] = c /\ \A u \in ToSet(l) : s.queue[u] = c
    BY <1>3, <2>5, NullIsNoThread
  <2>8. /\ Shape(x) /\ Placed(x)
        /\ \A u \in Threads : In(x, u) <=> IF s.queue[u] = c THEN u = h \/ u \in ToSet(l)
                                                              ELSE In(s, u)
    BY <2>5, <2>6, <2>7, RearrangedPlaced
  <2>9. \A u \in Threads : In(x, u) <=> In(s, u) /\ u # t
    BY <1>0, <1>3, <1>5, <2>5, <2>8 DEF In
  <2>10. \A d \in CPU : s.chosen[d] # t => x.chosen[d] = s.chosen[d]
    BY <1>2, <1>5, <2>6 DEF Rearranged
  <2>11. QED
    BY <1>1, <2>6, <2>8, <2>9, <2>10 DEF AfterRemove, Rearranged
<1>6. CASE s.chosen[c] # t
  <2>1. x = Unlink(s, c, t)
    BY <1>0, <1>1, <1>6 DEF SchedulerRemove
  <2>2. Unlinked(s, c, t, x)
    BY <1>2, <2>1, UnlinkFields, Zenon
  <2>3. PICK l : l = RemoveFirst(s.ready[c], t)
    OBVIOUS
  <2>4. l \in Seq(Threads) /\ ToSet(l) = ToSet(s.ready[c]) \ {t} /\ Distinct(l)
    BY <1>2, <1>3, <2>3, RemoveFirstElements
  <2>5. t \in ToSet(s.ready[c])
    BY <1>0, <1>6 DEF In
  <2>6. Rearranged(s, c, s.chosen[c], l, x)
    <3>1. s.chosen = [s.chosen EXCEPT ![c] = s.chosen[c]]
      BY <1>2
    <3>2. x.intact = TRUE
      BY <1>3, <2>2, <2>5, Zenon DEF Unlinked
    <3>3. QED
      BY <2>2, <2>3, <3>1, <3>2, Zenon DEF Unlinked, Rearranged
  <2>7. /\ s.chosen[c] # Null /\ s.chosen[c] \notin ToSet(l) /\ s.queue[s.chosen[c]] = c
        /\ \A u \in ToSet(l) : s.queue[u] = c
    <3>1. s.ready[c] # <<>>
      BY <2>5 DEF ToSet
    <3>2. QED
      BY <3>1, <1>3, <2>4 DEF Placed
  <2>8. /\ Shape(x) /\ Placed(x)
        /\ \A u \in Threads : In(x, u) <=> IF s.queue[u] = c THEN u = s.chosen[c] \/ u \in ToSet(l)
                                                              ELSE In(s, u)
    BY <1>2, <2>4, <2>6, <2>7, RearrangedPlaced
  <2>9. \A u \in Threads : In(x, u) <=> In(s, u) /\ u # t
    BY <1>0, <1>6, <2>4, <2>8 DEF In
  <2>10. \A d \in CPU : x.chosen[d] = s.chosen[d]
    BY <1>2, <2>6 DEF Rearranged
  <2>11. QED
    BY <1>1, <2>6, <2>8, <2>9, <2>10 DEF AfterRemove, Rearranged
<1>7. QED
  BY <1>4, <1>5, <1>6

(* choose() and choose_another() on CPU c keep every thread, and change no *)
(* other CPU's chosen one.                                                 *)
AfterChoose(s, c, x) ==
    /\ Shape(x) /\ Placed(x) /\ SameAttributes(s, x)
    /\ \A u \in Threads : In(x, u) <=> In(s, u)
    /\ \A d \in CPU : d # c => x.chosen[d] = s.chosen[d]
    /\ x.chosen[c] \in Threads

(* Exchanging the chosen thread with one of the list, or with itself,      *)
(* keeps the lists in order.                                               *)
LEMMA Exchanged ==
  ASSUME NEW s, NEW c \in CPU, NEW h \in Threads, NEW l \in Seq(Threads), NEW x,
         Shape(s), Placed(s), Rearranged(s, c, h, l, x),
         Distinct(l), h \notin ToSet(l),
         ToSet(l) \cup {h} = ToSet(s.ready[c]) \cup {s.chosen[c]}, s.chosen[c] # Null
  PROVE  AfterChoose(s, c, x)
<1>1. /\ s.queue[s.chosen[c]] = c
      /\ \A u \in ToSet(s.ready[c]) : s.queue[u] = c
  BY DEF Placed
<1>2. h # Null /\ s.queue[h] = c /\ \A u \in ToSet(l) : s.queue[u] = c
  BY <1>1, NullIsNoThread
<1>3. /\ Shape(x) /\ Placed(x)
      /\ \A u \in Threads : In(x, u) <=> IF s.queue[u] = c THEN u = h \/ u \in ToSet(l)
                                                            ELSE In(s, u)
  BY <1>2, RearrangedPlaced
<1>4. \A u \in Threads : In(x, u) <=> In(s, u)
  BY <1>3 DEF In
<1>5. \A d \in CPU : d # c => x.chosen[d] = s.chosen[d]
  BY DEF Rearranged, Shape
<1>6. x.chosen[c] \in Threads
  BY DEF Rearranged, Shape
<1>7. QED
  BY <1>3, <1>4, <1>5, <1>6 DEF AfterChoose, Rearranged

(* Choosing keeps the lists in order when there is nobody else to choose.  *)
LEMMA NotExchanged ==
  ASSUME NEW s, NEW c \in CPU, Shape(s), Placed(s), s.chosen[c] # Null
  PROVE  AfterChoose(s, c, s)
  BY DEF AfterChoose, Shape, SameAttributes

(* Scheduler::choose() neither loses nor adds a thread and keeps the lists *)
(* in order.                                                               *)
LEMMA ChooseKeeps ==
  ASSUME NEW s, NEW c \in CPU, Shape(s), Placed(s), s.chosen[c] # Null
  PROVE  AfterChoose(s, c, Choose(s, c))
<1>1. PICK ch \in Threads : ch = s.chosen[c]
  BY DEF Shape
<1>2. /\ s.ready[c] \in Seq(Threads) /\ DOMAIN s = Fields
      /\ s.chosen \in [CPU -> Threads \cup {Null}] /\ s.ready \in [CPU -> Seq(Threads)]
  BY DEF Shape
<1>3. /\ Distinct(s.ready[c]) /\ ch \notin ToSet(s.ready[c])
      /\ \A u \in ToSet(s.ready[c]) : s.queue[u] = c
      /\ s.intact = TRUE /\ s.queue[ch] = c
  BY <1>1, NullIsNoThread DEF Placed
<1>4. Rehome(s, c) = s
  BY <1>1, <1>3 DEF Rehome
<1>5. \A d \in DOMAIN s.ready : ch \notin ToSet(s.ready[d])
  BY <1>2, <1>3 DEF Placed
<1>6. CASE s.ready[c] = <<>>
  <2>1. Choose(s, c) = s
    BY <1>4, <1>6 DEF Choose
  <2>2. QED
    BY <2>1, NotExchanged
<1>7. CASE s.ready[c] # <<>>
  <2>1. PICK y : y = Link(s, c, ch)
    OBVIOUS
  <2>2. Choose(s, c) = ChooseHead(y, c)
    BY <1>1, <1>4, <1>7, <2>1 DEF Choose
  <2>3. Linked(s, c, ch, y)
    BY <1>2, <2>1, LinkFields, Zenon
  <2>4. PICK q : q = OrderedInsert(s.ready[c], s.rank, ch)
    OBVIOUS
  <2>5. q \in Seq(Threads) /\ ToSet(q) = ToSet(s.ready[c]) \cup {ch} /\ Distinct(q)
    <3>1. /\ OrderedInsert(s.ready[c], s.rank, ch) \in Seq(Threads)
          /\ ToSet(OrderedInsert(s.ready[c], s.rank, ch)) = ToSet(s.ready[c]) \cup {ch}
          /\ Distinct(s.ready[c]) /\ ch \notin ToSet(s.ready[c])
                => Distinct(OrderedInsert(s.ready[c], s.rank, ch))
      BY <1>2, OrderedInsertElements, Zenon
    <3>2. QED
      BY <1>3, <2>4, <3>1
  <2>6. y.ready = [s.ready EXCEPT ![c] = q] /\ y.chosen = s.chosen /\ DOMAIN y = Fields
    BY <2>3, <2>4, Zenon DEF Linked
  <2>7. y.ready[c] = q /\ y.intact = TRUE
    <3>1. y.intact = TRUE
      BY <1>3, <1>5, <2>3, Zenon DEF Linked
    <3>2. QED
      BY <3>1, <2>6, <1>2
  <2>8. q # <<>>
    BY <2>5 DEF ToSet
  <2>9. PICK x : x = ChooseHead(y, c)
    OBVIOUS
  <2>10. HeadChosen(y, c, x)
    BY <2>6, <2>7, <2>8, <2>9, ChooseHeadFields
  <2>11. PICK h : h = Head(q)
    OBVIOUS
  <2>12. PICK l : l = Tail(q)
    OBVIOUS
  <2>13. /\ h \in Threads /\ h \in ToSet(q) /\ l \in Seq(Threads)
         /\ ToSet(l) = ToSet(q) \ {h} /\ Distinct(l)
    BY <2>5, <2>8, <2>11, <2>12, HeadTailElements
  <2>14. Rearranged(s, c, h, l, x)
    <3>1. x.chosen = [s.chosen EXCEPT ![c] = h]
      BY <2>6, <2>7, <2>10, <2>11, Zenon DEF HeadChosen
    <3>2. x.ready = [y.ready EXCEPT ![c] = l]
      BY <2>7, <2>10, <2>12, Zenon DEF HeadChosen
    <3>3. x.ready = [s.ready EXCEPT ![c] = l]
      BY <1>2, <2>6, <3>2
    <3>4. SameAttributes(s, x)
      BY <2>3, <2>10, Zenon DEF Linked, HeadChosen, SameAttributes
    <3>5. DOMAIN x = Fields /\ x.intact = TRUE
      BY <2>7, <2>10, Zenon DEF HeadChosen
    <3>6. QED
      BY <3>1, <3>3, <3>4, <3>5, Zenon DEF Rearranged
  <2>15. h \notin ToSet(l) /\ ToSet(l) \cup {h} = ToSet(s.ready[c]) \cup {s.chosen[c]}
    BY <1>1, <2>5, <2>13
  <2>16. AfterChoose(s, c, x)
    BY <2>13, <2>14, <2>15, Exchanged
  <2>17. QED
    BY <2>2, <2>9, <2>16, Zenon
<1>8. QED
  BY <1>6, <1>7

(* So does Scheduler::choose_another().                                    *)
LEMMA ChooseAnotherKeeps ==
  ASSUME NEW s, NEW c \in CPU, Shape(s), Placed(s), s.chosen[c] # Null
  PROVE  AfterChoose(s, c, ChooseAnother(s, c))
<1>1. PICK ch \in Threads : ch = s.chosen[c]
  BY DEF Shape
<1>2. /\ s.ready[c] \in Seq(Threads) /\ DOMAIN s = Fields
      /\ s.chosen \in [CPU -> Threads \cup {Null}] /\ s.ready \in [CPU -> Seq(Threads)]
  BY DEF Shape
<1>3. /\ Distinct(s.ready[c]) /\ ch \notin ToSet(s.ready[c])
      /\ \A u \in ToSet(s.ready[c]) : s.queue[u] = c
      /\ s.intact = TRUE /\ s.queue[ch] = c
  BY <1>1, NullIsNoThread DEF Placed
<1>4. Rehome(s, c) = s
  BY <1>1, <1>3 DEF Rehome
<1>5. \A d \in DOMAIN s.ready : ch \notin ToSet(s.ready[d])
  BY <1>2, <1>3 DEF Placed
<1>6. CASE s.ready[c] = <<>> \/ s.rank[Head(s.ready[c])] = IdleRank
  <2>1. ChooseAnother(s, c) = s
    BY <1>4, <1>6 DEF ChooseAnother
  <2>2. QED
    BY <2>1, NotExchanged
<1>7. CASE ~(s.ready[c] = <<>> \/ s.rank[Head(s.ready[c])] = IdleRank)
  <2>1. PICK y : y = ChooseHead(s, c)
    OBVIOUS
  <2>2. PICK x : x = Link(y, c, ch)
    OBVIOUS
  <2>3. ChooseAnother(s, c) = x
    BY <1>1, <1>4, <1>7, <2>1, <2>2 DEF ChooseAnother
  <2>4. HeadChosen(s, c, y)
    BY <1>2, <1>7, <2>1, ChooseHeadFields, Zenon
  <2>5. PICK h : h = Head(s.ready[c])
    OBVIOUS
  <2>6. PICK r : r = Tail(s.ready[c])
    OBVIOUS
  <2>7. /\ h \in Threads /\ h \in ToSet(s.ready[c]) /\ r \in Seq(Threads)
        /\ ToSet(r) = ToSet(s.ready[c]) \ {h} /\ Distinct(r)
    BY <1>2, <1>3, <1>7, <2>5, <2>6, HeadTailElements
  <2>8. /\ y.chosen = [s.chosen EXCEPT ![c] = h] /\ y.ready = [s.ready EXCEPT ![c] = r]
        /\ DOMAIN y = Fields /\ y.intact = TRUE
    BY <1>3, <2>4, <2>5, <2>6, Zenon DEF HeadChosen
  <2>9. Linked(y, c, ch, x)
    BY <2>2, <2>8, LinkFields, Zenon
  <2>10. y.ready[c] = r /\ \A d \in DOMAIN y.ready : ch \notin ToSet(y.ready[d])
    <3>1. y.ready[c] = r /\ DOMAIN y.ready = DOMAIN s.ready
      BY <1>2, <2>8
    <3>2. \A d \in DOMAIN y.ready : d # c => y.ready[d] = s.ready[d]
      BY <1>2, <2>8
    <3>3. ch \notin ToSet(r)
      BY <1>3, <2>7
    <3>4. QED
      BY <3>1, <3>2, <3>3, <1>5
  <2>11. PICK l : l = OrderedInsert(r, s.rank, ch)
    OBVIOUS
  <2>12. l \in Seq(Threads) /\ ToSet(l) = ToSet(r) \cup {ch} /\ Distinct(l)
    <3>1. /\ OrderedInsert(r, s.rank, ch) \in Seq(Threads)
          /\ ToSet(OrderedInsert(r, s.rank, ch)) = ToSet(r) \cup {ch}
          /\ Distinct(r) /\ ch \notin ToSet(r) => Distinct(OrderedInsert(r, s.rank, ch))
      BY <2>7, OrderedInsertElements, Zenon
    <3>2. QED
      BY <1>3, <2>7, <2>11, <3>1
  <2>13. Rearranged(s, c, h, l, x)
    <3>1. x.intact = TRUE
      BY <2>8, <2>9, <2>10, Zenon DEF Linked
    <3>2. x.chosen = [s.chosen EXCEPT ![c] = h]
      BY <2>8, <2>9, Zenon DEF Linked
    <3>3. y.rank = s.rank
      BY <2>4, Zenon DEF HeadChosen, SameAttributes
    <3>4. x.ready = [y.ready EXCEPT ![c] = l]
      BY <2>9, <2>10, <2>11, <3>3, Zenon DEF Linked
    <3>5. x.ready = [s.ready EXCEPT ![c] = l]
      BY <1>2, <2>8, <3>4
    <3>6. DOMAIN x = Fields /\ SameAttributes(s, x)
      BY <2>4, <2>9, Zenon DEF Linked, HeadChosen, SameAttributes
    <3>7. QED
      BY <3>1, <3>2, <3>5, <3>6, Zenon DEF Rearranged
  <2>14. h \notin ToSet(l) /\ ToSet(l) \cup {h} = ToSet(s.ready[c]) \cup {s.chosen[c]}
    BY <1>1, <1>3, <2>7, <2>12
  <2>15. AfterChoose(s, c, x)
    BY <2>7, <2>12, <2>13, <2>14, Exchanged
  <2>16. QED
    BY <2>3, <2>15, Zenon
<1>8. QED
  BY <1>6, <1>7

(* choose(t), of a thread in the scheduler on the caller's CPU, keeps the  *)
(* lists in order.                                                         *)
LEMMA ChooseThisKeeps ==
  ASSUME NEW s, NEW c \in CPU, NEW t \in Threads, Shape(s), Placed(s), s.chosen[c] # Null,
         s.queue[t] = c, In(s, t)
  PROVE  AfterChoose(s, c, ChooseThis(s, c, t)) /\ ChooseThis(s, c, t).chosen[c] = t
<1>1. PICK ch \in Threads : ch = s.chosen[c]
  BY DEF Shape
<1>2. /\ s.ready[c] \in Seq(Threads) /\ DOMAIN s = Fields
      /\ s.chosen \in [CPU -> Threads \cup {Null}] /\ s.ready \in [CPU -> Seq(Threads)]
  BY DEF Shape
<1>3. /\ Distinct(s.ready[c]) /\ ch \notin ToSet(s.ready[c])
      /\ \A u \in ToSet(s.ready[c]) : s.queue[u] = c
      /\ s.intact = TRUE /\ s.queue[ch] = c
  BY <1>1, NullIsNoThread DEF Placed
<1>4. Rehome(s, c) = s
  BY <1>1, <1>3 DEF Rehome
<1>5. \A d \in DOMAIN s.ready : ch \notin ToSet(s.ready[d])
  BY <1>2, <1>3 DEF Placed
<1>6. CASE ch = t
  <2>1. ChooseThis(s, c, t) = s
    BY <1>1, <1>4, <1>6 DEF ChooseThis
  <2>2. QED
    BY <1>1, <1>6, <2>1, NotExchanged
<1>7. CASE ch # t
  <2>1. PICK y : y = Link(s, c, ch)
    OBVIOUS
  <2>2. PICK z : z = Unlink(y, c, t)
    OBVIOUS
  <2>3. PICK x : x = [z EXCEPT !.chosen[c] = t]
    OBVIOUS
  <2>4. ChooseThis(s, c, t) = x
    BY <1>1, <1>4, <1>7, <2>1, <2>2, <2>3 DEF ChooseThis
  <2>5. Linked(s, c, ch, y)
    BY <1>2, <2>1, LinkFields, Zenon
  <2>6. PICK q : q = OrderedInsert(s.ready[c], s.rank, ch)
    OBVIOUS
  <2>7. q \in Seq(Threads) /\ ToSet(q) = ToSet(s.ready[c]) \cup {ch} /\ Distinct(q)
    <3>1. /\ OrderedInsert(s.ready[c], s.rank, ch) \in Seq(Threads)
          /\ ToSet(OrderedInsert(s.ready[c], s.rank, ch)) = ToSet(s.ready[c]) \cup {ch}
          /\ Distinct(s.ready[c]) /\ ch \notin ToSet(s.ready[c])
                => Distinct(OrderedInsert(s.ready[c], s.rank, ch))
      BY <1>2, OrderedInsertElements, Zenon
    <3>2. QED
      BY <1>3, <2>6, <3>1
  <2>8. y.ready = [s.ready EXCEPT ![c] = q] /\ y.chosen = s.chosen /\ DOMAIN y = Fields
    BY <2>5, <2>6, Zenon DEF Linked
  <2>9. y.ready[c] = q /\ y.intact = TRUE
    <3>1. y.intact = TRUE
      BY <1>3, <1>5, <2>5, Zenon DEF Linked
    <3>2. QED
      BY <3>1, <2>8, <1>2
  <2>10. t \in ToSet(s.ready[c]) /\ t \in ToSet(q)
    BY <1>1, <1>7, <2>7 DEF In
  <2>11. Unlinked(y, c, t, z)
    BY <2>2, <2>8, UnlinkFields, Zenon
  <2>12. PICK l : l = RemoveFirst(q, t)
    OBVIOUS
  <2>13. l \in Seq(Threads) /\ ToSet(l) = ToSet(q) \ {t} /\ Distinct(l)
    BY <2>7, <2>12, RemoveFirstElements
  <2>14. /\ z.ready = [y.ready EXCEPT ![c] = l] /\ z.chosen = s.chosen
         /\ DOMAIN z = Fields /\ z.intact = TRUE
    BY <2>8, <2>9, <2>10, <2>11, <2>12, Zenon DEF Unlinked
  <2>15. /\ DOMAIN x = Fields /\ SameAttributes(z, x) /\ x.ready = z.ready /\ x.intact = z.intact
         /\ x.chosen = [z.chosen EXCEPT ![c] = t]
    BY <2>3, <2>14 DEF Fields, SameAttributes
  <2>16. Rearranged(s, c, t, l, x)
    <3>1. x.ready = [s.ready EXCEPT ![c] = l]
      BY <1>2, <2>8, <2>14, <2>15
    <3>2. SameAttributes(s, x)
      BY <2>5, <2>11, <2>15, Zenon DEF Linked, Unlinked, SameAttributes
    <3>3. QED
      BY <2>14, <2>15, <3>1, <3>2, Zenon DEF Rearranged
  <2>17. t \notin ToSet(l) /\ ToSet(l) \cup {t} = ToSet(s.ready[c]) \cup {s.chosen[c]}
    BY <1>1, <2>7, <2>10, <2>13
  <2>18. AfterChoose(s, c, x)
    BY <2>13, <2>16, <2>17, Exchanged
  <2>19. x.chosen[c] = t
    BY <1>2, <2>16 DEF Rearranged
  <2>20. QED
    BY <2>4, <2>18, <2>19, Zenon
<1>8. QED
  BY <1>6, <1>7
-----------------------------------------------------------------------------
(***************************************************************************)
(* The steps operations of Thread are made of (dispatch, reschedule, wake, *)
(* leave, migrate, set up) keep the threads and the lists consistent.      *)
(***************************************************************************)
(* The states in which a thread is in the scheduler.                       *)
Sched == {"RUNNING", "READY"}

(* An idle thread never blocks, and stays on its CPU; MAIN stays on the    *)
(* bootstrap CPU.                                                          *)
AtHome(s) == /\ \A c \in CPU : /\ s.queue[Idle[c]] = c
                               /\ s.state[Idle[c]] \in Sched
                               /\ s.target[Idle[c]] = NoTarget
             /\ s.queue[Main] = BSP /\ s.target[Main] = NoTarget

(* What holds of the threads and the scheduler's lists at any place inside *)
(* an operation.                                                           *)
Core(s) ==
    /\ Shape(s) /\ Placed(s)
    /\ s.state \in [Threads -> State]
    /\ s.target \in [Threads -> CPU \cup {NoTarget}]
    /\ s.rank \in [Threads -> 0..IdleRank]
    /\ s.ipi \in SUBSET CPU
    /\ \A c \in CPU : s.chosen[c] \in Threads
    /\ \A t \in Threads : In(s, t) <=> s.state[t] \in Sched
    /\ \A t \in Threads : s.target[t] # NoTarget => s.target[t] # s.queue[t]
    /\ AtHome(s)

(* An idle thread is a thread, and none of the application's.              *)
LEMMA IdleFacts ==
  /\ \A c \in CPU : Idle[c] \in Threads /\ Idle[c] \notin App /\ Idle[c] \in Idles
  /\ App \subseteq Threads /\ Main \in App /\ Main \in Threads
  BY ThreadAssumption DEF Threads, Idles

(* A CPU whose idle thread is in the scheduler has a chosen thread.        *)
LEMMA SomeoneChosen ==
  ASSUME NEW s, NEW c \in CPU, Shape(s), Placed(s), In(s, Idle[c]), s.queue[Idle[c]] = c
  PROVE  s.chosen[c] \in Threads
<1>1. Idle[c] \in Threads
  BY IdleFacts
<1>2. CASE s.chosen[c] = Idle[c]
  BY <1>1, <1>2
<1>3. CASE Idle[c] \in ToSet(s.ready[c])
  <2>1. s.ready[c] # <<>>
    BY <1>3 DEF ToSet
  <2>2. QED
    BY <2>1 DEF Placed, Shape
<1>4. QED
  BY <1>2, <1>3 DEF In

(* Another set of interrupts on their way changes nothing else.            *)
LEMMA CoreIpi ==
  ASSUME NEW s, NEW I \in SUBSET CPU, Core(s)
  PROVE  LET x == [s EXCEPT !.ipi = I]
         IN  /\ Core(x) /\ x.state = s.state /\ x.chosen = s.chosen /\ x.queue = s.queue
             /\ x.target = s.target /\ x.ipi = I
<1>1. PICK x : x = [s EXCEPT !.ipi = I]
  OBVIOUS
<1>2. DOMAIN s = Fields
  BY DEF Core, Shape
<1>3. /\ DOMAIN x = Fields /\ x.chosen = s.chosen /\ x.ready = s.ready /\ x.rank = s.rank
      /\ x.queue = s.queue /\ x.intact = s.intact /\ x.state = s.state /\ x.target = s.target
      /\ x.ipi = I
  BY <1>1, <1>2 DEF Fields
<1>4. Shape(x) /\ Placed(x) /\ \A t \in Threads : In(x, t) <=> In(s, t)
  BY <1>3 DEF Core, Shape, Placed, In
<1>5. AtHome(x)
  BY <1>3 DEF Core, AtHome
<1>6. Core(x)
  BY <1>3, <1>4, <1>5 DEF Core
<1>7. QED
  BY <1>1, <1>3, <1>6

(* choose() and choose_another() keep the scheduler consistent.            *)
LEMMA CoreChoose ==
  ASSUME NEW s, NEW c \in CPU, NEW x, Core(s), AfterChoose(s, c, x)
  PROVE  /\ Core(x) /\ SameAttributes(s, x)
         /\ \A d \in CPU : d # c => x.chosen[d] = s.chosen[d]
<1>1. /\ Shape(x) /\ Placed(x) /\ SameAttributes(s, x)
      /\ \A u \in Threads : In(x, u) <=> In(s, u)
      /\ \A d \in CPU : d # c => x.chosen[d] = s.chosen[d]
      /\ x.chosen[c] \in Threads
  BY DEF AfterChoose
<1>2. \A d \in CPU : x.chosen[d] \in Threads
  BY <1>1 DEF Core
<1>3. AtHome(x)
  BY <1>1 DEF Core, AtHome, SameAttributes
<1>4. Core(x)
  BY <1>1, <1>2, <1>3 DEF Core, SameAttributes
<1>5. QED
  BY <1>1, <1>4

(* A thread that is in no list is made ready.                              *)
AfterWake(s, t, x) ==
    /\ Core(x)
    /\ x.state = [s.state EXCEPT ![t] = "READY"]
    /\ x.chosen = s.chosen /\ x.queue = s.queue /\ x.target = s.target /\ x.ipi = s.ipi

(* Waking a blocked thread, as wakeup(), resume() and exit() do, makes a   *)
(* consistent scheduler.                                                   *)
LEMMA CoreWake ==
  ASSUME NEW s, NEW t \in App, Core(s), s.state[t] \notin Sched
  PROVE  AfterWake(s, t, SchedulerInsert([s EXCEPT !.state[t] = "READY"], t))
<1>1. PICK y : y = [s EXCEPT !.state[t] = "READY"]
  OBVIOUS
<1>2. DOMAIN s = Fields /\ t \in Threads /\ s.state \in [Threads -> State]
  BY IdleFacts DEF Core, Shape
<1>3. /\ DOMAIN y = Fields /\ y.chosen = s.chosen /\ y.ready = s.ready /\ y.rank = s.rank
      /\ y.queue = s.queue /\ y.intact = s.intact /\ y.target = s.target /\ y.ipi = s.ipi
      /\ y.state = [s.state EXCEPT ![t] = "READY"]
  BY <1>1, <1>2 DEF Fields
<1>4. Shape(y) /\ Placed(y) /\ \A u \in Threads : In(y, u) <=> In(s, u)
  BY <1>3 DEF Core, Shape, Placed, In
<1>5. ~In(y, t)
  BY <1>2, <1>4 DEF Core
<1>6. PICK x : x = SchedulerInsert(y, t)
  OBVIOUS
<1>7. AfterInsert(y, t, x)
  BY <1>2, <1>4, <1>5, <1>6, InsertKeeps
<1>8. /\ Shape(x) /\ Placed(x) /\ SameAttributes(y, x)
      /\ \A u \in Threads : In(x, u) <=> In(s, u) \/ u = t
      /\ \A d \in CPU : y.chosen[d] # Null => x.chosen[d] = y.chosen[d]
  BY <1>4, <1>7 DEF AfterInsert
<1>9. x.chosen = s.chosen
  <2>1. \A d \in CPU : s.chosen[d] \in Threads /\ s.chosen[d] # Null
    BY NullIsNoThread DEF Core
  <2>2. \A d \in CPU : x.chosen[d] = s.chosen[d]
    BY <2>1, <1>3, <1>8
  <2>3. x.chosen \in [CPU -> Threads \cup {Null}] /\ s.chosen \in [CPU -> Threads \cup {Null}]
    BY <1>8 DEF Core, Shape
  <2>4. QED
    BY <2>2, <2>3
<1>10. /\ x.state = [s.state EXCEPT ![t] = "READY"] /\ x.queue = s.queue
       /\ x.target = s.target /\ x.ipi = s.ipi /\ x.rank = s.rank
  BY <1>3, <1>8 DEF SameAttributes
<1>11. \A u \in Threads : In(x, u) <=> x.state[u] \in Sched
  <2>1. \A u \in Threads : u # t => x.state[u] = s.state[u]
    BY <1>2, <1>10
  <2>2. x.state[t] = "READY"
    BY <1>2, <1>10
  <2>3. QED
    BY <2>1, <2>2, <1>8 DEF Core, Sched
<1>12. AtHome(x)
  <2>1. \A c \in CPU : Idle[c] # t /\ Idle[c] \in Threads
    BY IdleFacts
  <2>2. \A c \in CPU : x.state[Idle[c]] = s.state[Idle[c]]
    BY <2>1, <1>2, <1>10
  <2>3. QED
    BY <2>2, <1>10 DEF Core, AtHome
<1>13. x.state \in [Threads -> State]
  BY <1>2, <1>10 DEF State
<1>14. Core(x)
  BY <1>8, <1>9, <1>10, <1>11, <1>12, <1>13 DEF Core
<1>15. AfterWake(s, t, x)
  BY <1>9, <1>10, <1>14 DEF AfterWake
<1>16. QED
  BY <1>1, <1>6, <1>15, Zenon

(* A thread that is in the scheduler leaves it for the state v.            *)
Left(s, t, v, x) ==
    /\ Shape(x) /\ Placed(x)
    /\ \A u \in Threads : In(x, u) <=> In(s, u) /\ u # t
    /\ x.state = [s.state EXCEPT ![t] = v]
    /\ \A d \in CPU : s.chosen[d] # t => x.chosen[d] = s.chosen[d]
    /\ x.rank = s.rank /\ x.queue = s.queue /\ x.target = s.target /\ x.ipi = s.ipi

AfterLeave(s, t, v, x) == Core(x) /\ Left(s, t, v, x)

(* A scheduler that differs by a thread that has left, and is marked so,   *)
(* is consistent.                                                          *)
LEMMA CoreLeft ==
  ASSUME NEW s, NEW t \in App, NEW v \in State \ Sched, NEW x, Core(s), Left(s, t, v, x)
  PROVE  AfterLeave(s, t, v, x)
<1>1. t \in Threads /\ s.state \in [Threads -> State]
  BY IdleFacts DEF Core
<1>2. x.state = [s.state EXCEPT ![t] = v]
  BY DEF Left
<1>3. \A u \in Threads : u # t => x.state[u] = s.state[u]
  BY <1>1, <1>2
<1>4. x.state[t] = v /\ x.state \in [Threads -> State]
  BY <1>1, <1>2
<1>5. \A u \in Threads : In(x, u) <=> x.state[u] \in Sched
  BY <1>3, <1>4 DEF Core, Left
<1>6. AtHome(x)
  <2>1. \A c \in CPU : Idle[c] # t /\ Idle[c] \in Threads
    BY IdleFacts
  <2>2. QED
    BY <2>1, <1>3 DEF Core, AtHome, Left
<1>7. ASSUME NEW c \in CPU PROVE x.chosen[c] \in Threads
  <2>1. Idle[c] \in Threads
    BY IdleFacts
  <2>2. In(x, Idle[c]) /\ x.queue[Idle[c]] = c
    BY <2>1, <1>5, <1>6 DEF AtHome
  <2>3. QED
    BY <2>2, SomeoneChosen DEF Left
<1>8. Core(x)
  BY <1>4, <1>5, <1>6, <1>7 DEF Core, Left
<1>9. QED
  BY <1>8 DEF AfterLeave

(* Leaving the scheduler and then taking the new state, as sleep() and     *)
(* exit() do, keeps it consistent.                                         *)
LEMMA CoreLeave ==
  ASSUME NEW s, NEW t \in App, NEW v \in State \ Sched, Core(s), s.state[t] \in Sched
  PROVE  AfterLeave(s, t, v, [SchedulerRemove(s, t) EXCEPT !.state[t] = v])
<1>1. t \in Threads /\ Shape(s) /\ Placed(s) /\ In(s, t)
  BY IdleFacts DEF Core
<1>2. PICK y : y = SchedulerRemove(s, t)
  OBVIOUS
<1>3. PICK x : x = [y EXCEPT !.state[t] = v]
  OBVIOUS
<1>4. AfterRemove(s, t, y)
  BY <1>1, <1>2, RemoveKeeps
<1>5. /\ Shape(y) /\ Placed(y) /\ SameAttributes(s, y)
      /\ \A u \in Threads : In(y, u) <=> In(s, u) /\ u # t
      /\ \A d \in CPU : s.chosen[d] # t => y.chosen[d] = s.chosen[d]
  BY <1>4 DEF AfterRemove
<1>6. DOMAIN y = Fields /\ y.state = s.state
  BY <1>5 DEF Shape, SameAttributes
<1>7. /\ DOMAIN x = Fields /\ x.chosen = y.chosen /\ x.ready = y.ready /\ x.rank = y.rank
      /\ x.queue = y.queue /\ x.intact = y.intact /\ x.target = y.target /\ x.ipi = y.ipi
      /\ x.state = [y.state EXCEPT ![t] = v]
  BY <1>3, <1>6 DEF Fields
<1>8. Shape(x) /\ Placed(x) /\ \A u \in Threads : In(x, u) <=> In(y, u)
  BY <1>5, <1>7 DEF Shape, Placed, In
<1>9. Left(s, t, v, x)
  BY <1>5, <1>6, <1>7, <1>8 DEF Left, SameAttributes
<1>10. QED
  BY <1>2, <1>3, <1>9, CoreLeft

(* So does taking the new state and then leaving, as join() and suspend()  *)
(* do.                                                                     *)
LEMMA CoreLeaveBefore ==
  ASSUME NEW s, NEW t \in App, NEW v \in State \ Sched, Core(s), s.state[t] \in Sched
  PROVE  AfterLeave(s, t, v, SchedulerRemove([s EXCEPT !.state[t] = v], t))
<1>1. PICK z : z = [s EXCEPT !.state[t] = v]
  OBVIOUS
<1>2. PICK x : x = SchedulerRemove(z, t)
  OBVIOUS
<1>3. t \in Threads /\ Shape(s) /\ Placed(s) /\ In(s, t) /\ DOMAIN s = Fields
  BY IdleFacts DEF Core, Shape
<1>4. /\ DOMAIN z = Fields /\ z.chosen = s.chosen /\ z.ready = s.ready /\ z.rank = s.rank
      /\ z.queue = s.queue /\ z.intact = s.intact /\ z.target = s.target /\ z.ipi = s.ipi
      /\ z.state = [s.state EXCEPT ![t] = v]
  BY <1>1, <1>3 DEF Fields
<1>5. Shape(z) /\ Placed(z) /\ In(z, t) /\ \A u \in Threads : In(z, u) <=> In(s, u)
  BY <1>3, <1>4 DEF Shape, Placed, In
<1>6. AfterRemove(z, t, x)
  BY <1>2, <1>3, <1>5, RemoveKeeps
<1>7. Left(s, t, v, x)
  BY <1>4, <1>5, <1>6 DEF AfterRemove, Left, SameAttributes
<1>8. QED
  BY <1>1, <1>2, <1>7, CoreLeft

(* A thread that is nowhere gets another queue.                            *)
Requeued(y, t, cpu, z) ==
    /\ DOMAIN z = Fields
    /\ z.chosen = y.chosen /\ z.ready = y.ready /\ z.intact = y.intact
    /\ z.queue = [y.queue EXCEPT ![t] = cpu]

(* A thread that is in no list may be given another CPU.                   *)
LEMMA RequeuedPlaced ==
  ASSUME NEW y, NEW t \in Threads, NEW cpu \in CPU, NEW z,
         Shape(y), Placed(y), ~In(y, t), Requeued(y, t, cpu, z)
  PROVE  /\ Shape(z) /\ Placed(z) /\ ~In(z, t)
         /\ \A u \in Threads : u # t => (In(z, u) <=> In(y, u))
<1>1. Shape(z)
  BY DEF Shape, Requeued
<1>2. \A u \in Threads : u # t => z.queue[u] = y.queue[u]
  BY DEF Shape, Requeued
<1>3. z.queue[t] = cpu
  BY DEF Shape, Requeued
<1>4. \A d \in CPU : y.chosen[d] # t /\ t \notin ToSet(y.ready[d])
  BY NullIsNoThread DEF Placed, In
<1>5. \A d \in CPU : ToSet(y.ready[d]) \subseteq Threads /\ y.chosen[d] \in Threads \cup {Null}
  <2>1. ASSUME NEW d \in CPU PROVE ToSet(y.ready[d]) \subseteq Threads
    <3>1. y.ready[d] \in Seq(Threads)
      BY DEF Shape
    <3>2. QED
      BY <3>1, ElementOfSeq, LenProperties DEF ToSet
  <2>2. QED
    BY <2>1 DEF Shape
<1>6. Placed(z)
  BY <1>2, <1>4, <1>5 DEF Placed, Requeued
<1>7. ~In(z, t)
  BY <1>3, <1>4 DEF In, Requeued
<1>8. \A u \in Threads : u # t => (In(z, u) <=> In(y, u))
  BY <1>2 DEF In, Requeued
<1>9. QED
  BY <1>1, <1>6, <1>7, <1>8

(* A thread that is in the scheduler moves to another CPU's list.          *)
Moved(s, t, cpu, x) ==
    /\ Core(x)
    /\ x.state = s.state /\ x.target = s.target /\ x.ipi = s.ipi
    /\ x.queue = [s.queue EXCEPT ![t] = cpu]
    /\ \A d \in CPU : s.chosen[d] # t => x.chosen[d] = s.chosen[d]

(* Leaving, taking a new criterion and entering again, as priority() and   *)
(* migrate() do, keeps the scheduler consistent.                           *)
LEMMA CoreMove ==
  ASSUME NEW s, NEW t \in App, NEW cpu \in CPU, NEW z,
         Core(s), s.state[t] \in Sched, s.target[t] = NoTarget, t = Main => cpu = s.queue[t],
         Requeued(SchedulerRemove(s, t), t, cpu, z),
         z.state = s.state, z.target = s.target, z.ipi = s.ipi,
         z.rank \in [Threads -> 0..IdleRank]
  PROVE  Moved(s, t, cpu, SchedulerInsert(z, t))
<1>1. t \in Threads /\ Shape(s) /\ Placed(s) /\ In(s, t)
  BY IdleFacts DEF Core
<1>2. PICK y : y = SchedulerRemove(s, t)
  OBVIOUS
<1>3. AfterRemove(s, t, y)
  BY <1>1, <1>2, RemoveKeeps
<1>4. /\ Shape(y) /\ Placed(y) /\ SameAttributes(s, y) /\ ~In(y, t)
      /\ \A u \in Threads : In(y, u) <=> In(s, u) /\ u # t
      /\ \A d \in CPU : s.chosen[d] # t => y.chosen[d] = s.chosen[d]
  BY <1>1, <1>3 DEF AfterRemove
<1>5. Requeued(y, t, cpu, z)
  BY <1>2, Zenon
<1>6. /\ Shape(z) /\ Placed(z) /\ ~In(z, t)
      /\ \A u \in Threads : u # t => (In(z, u) <=> In(y, u))
  BY <1>1, <1>4, <1>5, RequeuedPlaced
<1>7. z.queue = [s.queue EXCEPT ![t] = cpu] /\ z.chosen = y.chosen
  BY <1>4, <1>5 DEF Requeued, SameAttributes
<1>8. PICK x : x = SchedulerInsert(z, t)
  OBVIOUS
<1>9. AfterInsert(z, t, x)
  BY <1>1, <1>6, <1>8, InsertKeeps
<1>10. /\ Shape(x) /\ Placed(x) /\ SameAttributes(z, x)
       /\ \A u \in Threads : In(x, u) <=> In(z, u) \/ u = t
       /\ \A d \in CPU : z.chosen[d] # Null => x.chosen[d] = z.chosen[d]
  BY <1>9 DEF AfterInsert
<1>11. /\ x.state = s.state /\ x.target = s.target /\ x.ipi = s.ipi
       /\ x.queue = [s.queue EXCEPT ![t] = cpu] /\ x.rank \in [Threads -> 0..IdleRank]
  BY <1>7, <1>10 DEF SameAttributes
<1>12. \A u \in Threads : In(x, u) <=> x.state[u] \in Sched
  BY <1>4, <1>6, <1>10, <1>11 DEF Core
<1>13. \A u \in Threads : u # t => x.queue[u] = s.queue[u]
  BY <1>1, <1>11 DEF Shape
<1>14. AtHome(x)
  <2>1. \A c \in CPU : Idle[c] # t /\ Idle[c] \in Threads
    BY IdleFacts
  <2>2. x.queue[Main] = s.queue[Main] /\ Main \in Threads
    BY <1>1, <1>11, <1>13, IdleFacts DEF Shape
  <2>3. QED
    BY <2>1, <2>2, <1>11, <1>13 DEF Core, AtHome
<1>15. ASSUME NEW c \in CPU PROVE x.chosen[c] \in Threads
  <2>1. Idle[c] \in Threads
    BY IdleFacts
  <2>2. In(x, Idle[c]) /\ x.queue[Idle[c]] = c
    BY <2>1, <1>12, <1>14 DEF AtHome
  <2>3. QED
    BY <2>2, <1>10, SomeoneChosen
<1>16. \A d \in CPU : s.chosen[d] # t => x.chosen[d] = s.chosen[d]
  <2>1. \A d \in CPU : s.chosen[d] \in Threads /\ s.chosen[d] # Null
    BY NullIsNoThread DEF Core
  <2>2. QED
    BY <2>1, <1>4, <1>7, <1>10
<1>17. \A u \in Threads : x.target[u] # NoTarget => x.target[u] # x.queue[u]
  BY <1>11, <1>13 DEF Core
<1>18. Core(x)
  BY <1>10, <1>11, <1>12, <1>14, <1>15, <1>17 DEF Core
<1>19. Moved(s, t, cpu, x)
  BY <1>11, <1>16, <1>18 DEF Moved
<1>20. QED
  BY <1>8, <1>19, Zenon

(* A thread in no list of the scheduler may change its queue.              *)
LEMMA CoreRequeue ==
  ASSUME NEW s, NEW t \in App, NEW cpu \in CPU, Core(s), s.state[t] \notin Sched,
         s.target[t] = NoTarget, t = Main => cpu = s.queue[t]
  PROVE  Moved(s, t, cpu, [s EXCEPT !.queue[t] = cpu])
<1>1. PICK x : x = [s EXCEPT !.queue[t] = cpu]
  OBVIOUS
<1>2. t \in Threads /\ Shape(s) /\ Placed(s) /\ ~In(s, t) /\ DOMAIN s = Fields
  BY IdleFacts DEF Core, Shape
<1>3. /\ DOMAIN x = Fields /\ x.chosen = s.chosen /\ x.ready = s.ready /\ x.rank = s.rank
      /\ x.intact = s.intact /\ x.state = s.state /\ x.target = s.target
      /\ x.ipi = s.ipi /\ x.queue = [s.queue EXCEPT ![t] = cpu]
  BY <1>1, <1>2 DEF Fields
<1>4. Requeued(s, t, cpu, x)
  BY <1>3 DEF Requeued
<1>5. /\ Shape(x) /\ Placed(x) /\ ~In(x, t)
      /\ \A u \in Threads : u # t => (In(x, u) <=> In(s, u))
  BY <1>2, <1>4, RequeuedPlaced
<1>6. \A u \in Threads : u # t => x.queue[u] = s.queue[u]
  BY <1>2, <1>3 DEF Shape
<1>7. AtHome(x)
  <2>1. \A c \in CPU : Idle[c] # t /\ Idle[c] \in Threads
    BY IdleFacts
  <2>2. x.queue[Main] = s.queue[Main] /\ Main \in Threads
    BY <1>2, <1>3, <1>6, IdleFacts DEF Shape
  <2>3. QED
    BY <2>1, <2>2, <1>3, <1>6 DEF Core, AtHome
<1>8. \A u \in Threads : In(x, u) <=> x.state[u] \in Sched
  BY <1>2, <1>3, <1>5 DEF Core
<1>9. \A u \in Threads : x.target[u] # NoTarget => x.target[u] # x.queue[u]
  BY <1>3, <1>6 DEF Core
<1>10. Core(x)
  BY <1>3, <1>5, <1>7, <1>8, <1>9 DEF Core
<1>11. Moved(s, t, cpu, x)
  BY <1>3, <1>10 DEF Moved
<1>12. QED
  BY <1>1, <1>11, Zenon

-----------------------------------------------------------------------------
(* What holds of the threads and the scheduler whenever the lock is free:  *)
(* the running threads are the chosen ones.                                *)
KInv(s) ==
    /\ Core(s)
    /\ \A t \in Threads : s.state[t] = "RUNNING" => s.chosen[s.queue[t]] = t
    /\ \A c \in CPU : s.chosen[c] \in App => s.state[s.chosen[c]] = "RUNNING"

(* What holds just before dispatch(prev, chosen) on CPU c.                 *)
Mid(s, c, prev) ==
    /\ Core(s) /\ prev \in Threads
    /\ \A t \in Threads : s.state[t] = "RUNNING" =>
                           t = prev \/ (s.queue[t] # c /\ s.chosen[s.queue[t]] = t)
    /\ \A d \in CPU : d # c => /\ s.chosen[d] \in App => s.state[s.chosen[d]] = "RUNNING"
                               /\ s.chosen[d] # prev
    /\ s.chosen[c] = prev /\ prev \in App => s.state[prev] = "RUNNING"

(* No thread enters or leaves the scheduler, and only those in it change.  *)
Kept(s, x) ==
    \A t \in Threads : /\ x.state[t] \in Sched <=> s.state[t] \in Sched
                       /\ s.state[t] \notin Sched => x.state[t] = s.state[t]

AfterDispatch(s, x) == KInv(x) /\ Kept(s, x) /\ x.chosen = s.chosen

(* dispatch() makes the chosen thread running, and the one before it ready.*)
LEMMA DispatchedKeeps ==
  ASSUME NEW s, NEW c \in CPU, NEW prev, Mid(s, c, prev)
  PROVE  AfterDispatch(s, Dispatched(s, prev, s.chosen[c]))
<1>1. PICK next : next = s.chosen[c]
  OBVIOUS
<1>2. /\ next \in Threads /\ prev \in Threads /\ next # Null /\ s.queue[next] = c
      /\ Core(s) /\ DOMAIN s = Fields /\ s.state \in [Threads -> State]
      /\ s.queue \in [Threads -> CPU]
  <2>1. Core(s) /\ prev \in Threads
    BY DEF Mid
  <2>2. /\ next \in Threads /\ next # Null /\ s.queue[next] = c /\ DOMAIN s = Fields
        /\ s.state \in [Threads -> State] /\ s.queue \in [Threads -> CPU]
    BY <2>1, <1>1, NullIsNoThread DEF Core, Shape, Placed
  <2>3. QED
    BY <2>1, <2>2
<1>3. CASE prev = next
  <2>1. Dispatched(s, prev, s.chosen[c]) = s
    BY <1>1, <1>2, <1>3 DEF Dispatched
  <2>2. KInv(s)
    BY <1>1, <1>2, <1>3 DEF Mid, KInv
  <2>3. AfterDispatch(s, s)
    BY <2>2 DEF AfterDispatch, Kept
  <2>4. QED
    BY <2>1, <2>3, Zenon
<1>4. CASE prev # next
  <2>1. PICK x : x = [s EXCEPT !.state[prev] = IF @ = "RUNNING" THEN "READY" ELSE @,
                               !.state[next] = "RUNNING"]
    OBVIOUS
  <2>2. Dispatched(s, prev, s.chosen[c]) = x
    BY <1>1, <1>2, <1>4, <2>1 DEF Dispatched
  <2>3. PICK v : v = IF s.state[prev] = "RUNNING" THEN "READY" ELSE s.state[prev]
    OBVIOUS
  <2>4. /\ DOMAIN x = Fields /\ x.chosen = s.chosen /\ x.ready = s.ready /\ x.rank = s.rank
        /\ x.intact = s.intact /\ x.queue = s.queue /\ x.target = s.target /\ x.ipi = s.ipi
        /\ x.state = [s.state EXCEPT ![prev] = v, ![next] = "RUNNING"]
    BY <2>1, <2>3, <1>2 DEF Fields
  <2>5. v \in State /\ v # "RUNNING" /\ (v \in Sched <=> s.state[prev] \in Sched)
        /\ (s.state[prev] \notin Sched => v = s.state[prev])
    BY <2>3, <1>2 DEF State, Sched
  <2>6. /\ x.state[next] = "RUNNING" /\ x.state[prev] = v /\ x.state \in [Threads -> State]
        /\ \A t \in Threads : t # prev /\ t # next => x.state[t] = s.state[t]
    BY <2>4, <2>5, <1>2, <1>4 DEF State
  <2>7. s.state[next] \in Sched
    BY <1>1, <1>2 DEF Core, In
  <2>8. Kept(s, x)
    BY <2>5, <2>6, <2>7 DEF Kept, Sched
  <2>9. Shape(x) /\ Placed(x) /\ \A t \in Threads : In(x, t) <=> In(s, t)
    BY <1>2, <2>4 DEF Core, Shape, Placed, In
  <2>10. \A t \in Threads : In(x, t) <=> x.state[t] \in Sched
    BY <1>2, <2>8, <2>9 DEF Core, Kept
  <2>11. AtHome(x)
    BY <1>2, <2>4, <2>8, IdleFacts DEF Core, AtHome, Kept
  <2>12. Core(x)
    BY <1>2, <2>4, <2>6, <2>9, <2>10, <2>11 DEF Core
  <2>13. \A t \in Threads : x.state[t] = "RUNNING" => x.chosen[x.queue[t]] = t
    BY <1>1, <1>2, <2>4, <2>5, <2>6 DEF Mid
  <2>14. \A d \in CPU : x.chosen[d] \in App => x.state[x.chosen[d]] = "RUNNING"
    <3>1. ASSUME NEW d \in CPU, d # c, x.chosen[d] \in App PROVE x.state[x.chosen[d]] = "RUNNING"
      <4>1. /\ x.chosen[d] # prev /\ x.chosen[d] \in Threads
            /\ s.state[x.chosen[d]] = "RUNNING"
        BY <3>1, <2>4 DEF Mid, Core
      <4>2. QED
        BY <4>1, <2>6
    <3>2. QED
      BY <3>1, <2>4, <2>6, <1>1
  <2>15. AfterDispatch(s, x)
    BY <2>4, <2>8, <2>12, <2>13, <2>14 DEF AfterDispatch, KInv
  <2>16. QED
    BY <2>2, <2>15, Zenon
<1>5. QED
  BY <1>3, <1>4

(* The thread that runs on c may leave for the CPU it has been given.      *)
AfterMigration(s, c, x) ==
    /\ Core(x) /\ Kept(s, x)
    /\ \A d \in CPU : d # c => x.chosen[d] = s.chosen[d]
    /\ \A t \in Threads : t # s.chosen[c] => x.state[t] = s.state[t] /\ x.queue[t] = s.queue[t]
    /\ \/ x = s
       \/ x.queue[s.chosen[c]] # c /\ x.state[s.chosen[c]] = "READY"

(* The part of reschedule() that moves the running thread to its target    *)
(* keeps the lists in order, the thread READY there.                       *)
LEMMA MigratedKeeps ==
  ASSUME NEW s, NEW c \in CPU, KInv(s)
  PROVE  AfterMigration(s, c, Migrated(s, s.chosen[c]))
<1>1. PICK t : t = s.chosen[c]
  OBVIOUS
<1>2. PICK cpu : cpu = s.target[t]
  OBVIOUS
<1>3. /\ Core(s) /\ t \in Threads /\ s.queue[t] = c /\ s.state[t] \in Sched
      /\ DOMAIN s = Fields /\ s.state \in [Threads -> State]
      /\ s.target \in [Threads -> CPU \cup {NoTarget}] /\ cpu \in CPU \cup {NoTarget}
      /\ s.queue \in [Threads -> CPU] /\ s.ipi \in SUBSET CPU
  BY <1>1, <1>2, NullIsNoThread DEF KInv, Core, Shape, Placed, In
<1>4. CASE cpu = NoTarget
  <2>1. Migrated(s, s.chosen[c]) = s
    BY <1>1, <1>2, <1>4 DEF Migrated
  <2>2. AfterMigration(s, c, s)
    BY <1>3 DEF AfterMigration, Kept
  <2>3. QED
    BY <2>1, <2>2, Zenon
<1>5. CASE cpu # NoTarget
  <2>1. cpu \in CPU /\ cpu # c
    BY <1>2, <1>3, <1>5 DEF Core
  <2>2. t \in App /\ t # Main
    <3>1. t \notin Idles
      BY <1>2, <1>3, <1>5 DEF Core, AtHome, Idles
    <3>2. QED
      BY <3>1, <1>2, <1>3, <1>5 DEF Threads, Core, AtHome
  <2>3. s.state[t] = "RUNNING"
    BY <1>1, <2>2 DEF KInv
  <2>4. PICK y : y = [s EXCEPT !.target[t] = NoTarget, !.state[t] = "READY"]
    OBVIOUS
  <2>5. /\ DOMAIN y = Fields /\ y.chosen = s.chosen /\ y.ready = s.ready /\ y.rank = s.rank
        /\ y.intact = s.intact /\ y.queue = s.queue /\ y.ipi = s.ipi
        /\ y.state = [s.state EXCEPT ![t] = "READY"]
        /\ y.target = [s.target EXCEPT ![t] = NoTarget]
    BY <2>4, <1>3 DEF Fields
  <2>6. /\ y.state[t] = "READY" /\ y.state \in [Threads -> State]
        /\ \A u \in Threads : u # t => y.state[u] = s.state[u]
    BY <2>5, <1>3 DEF State
  <2>7. /\ y.target[t] = NoTarget /\ y.target \in [Threads -> CPU \cup {NoTarget}]
        /\ \A u \in Threads : u # t => y.target[u] = s.target[u]
    BY <2>5, <1>3
  <2>8. Shape(y) /\ Placed(y) /\ \A u \in Threads : In(y, u) <=> In(s, u)
    BY <1>3, <2>5 DEF Core, Shape, Placed, In
  <2>9. \A u \in Threads : In(y, u) <=> y.state[u] \in Sched
    BY <1>3, <2>6, <2>8 DEF Core, Sched
  <2>10. AtHome(y)
    <3>1. \A d \in CPU : Idle[d] # t /\ Idle[d] \in Threads
      BY <2>2, IdleFacts
    <3>2. y.queue[Main] = BSP /\ y.target[Main] = NoTarget
      BY <1>3, <2>2, <2>5, <2>7, IdleFacts DEF Core, AtHome
    <3>3. QED
      BY <3>1, <3>2, <1>3, <2>5, <2>6, <2>7 DEF Core, AtHome
  <2>11. Core(y)
    BY <1>3, <2>5, <2>6, <2>7, <2>8, <2>9, <2>10 DEF Core
  <2>12. PICK o : o = SchedulerRemove(y, t)
    OBVIOUS
  <2>13. Shape(o) /\ SameAttributes(y, o)
    <3>1. AfterRemove(y, t, o)
      BY <1>3, <2>6, <2>8, <2>9, <2>12, RemoveKeeps DEF Sched
    <3>2. QED
      BY <3>1 DEF AfterRemove
  <2>14. PICK z : z = [o EXCEPT !.queue[t] = cpu]
    OBVIOUS
  <2>15. DOMAIN o = Fields
    BY <2>13 DEF Shape
  <2>16. /\ Requeued(o, t, cpu, z) /\ z.state = o.state /\ z.target = o.target /\ z.ipi = o.ipi
         /\ z.rank = o.rank
    BY <2>14, <2>15 DEF Fields, Requeued
  <2>17. /\ Requeued(SchedulerRemove(y, t), t, cpu, z)
         /\ z.state = y.state /\ z.target = y.target /\ z.ipi = y.ipi
         /\ z.rank \in [Threads -> 0..IdleRank]
    BY <2>11, <2>12, <2>13, <2>16 DEF SameAttributes, Core
  <2>18. PICK w : w = SchedulerInsert(z, t)
    OBVIOUS
  <2>19. Moved(y, t, cpu, SchedulerInsert(z, t))
    <3>1. y.state[t] \in Sched
      BY <2>6 DEF Sched
    <3>2. QED
      BY <3>1, <2>1, <2>2, <2>7, <2>11, <2>17, CoreMove
  <2>20. Moved(y, t, cpu, w)
    BY <2>18, <2>19, Zenon
  <2>21. Core(w) /\ w.ipi \in SUBSET CPU
    BY <2>20 DEF Moved, Core
  <2>22. PICK I \in SUBSET CPU : I = w.ipi \cup {cpu}
    BY <2>1, <2>21
  <2>23. PICK x : x = [w EXCEPT !.ipi = I]
    OBVIOUS
  <2>24. Migrated(s, s.chosen[c]) = x
    BY <1>1, <1>2, <1>5, <2>4, <2>12, <2>14, <2>18, <2>22, <2>23 DEF Migrated
  <2>25. Core(x) /\ x.state = w.state /\ x.chosen = w.chosen /\ x.queue = w.queue
    BY <2>21, <2>23, CoreIpi
  <2>26. /\ x.state = y.state /\ x.queue = [s.queue EXCEPT ![t] = cpu]
         /\ \A d \in CPU : s.chosen[d] # t => x.chosen[d] = s.chosen[d]
    BY <2>5, <2>20, <2>25 DEF Moved
  <2>27. \A d \in CPU : d # c => s.chosen[d] # t
    BY <1>3, NullIsNoThread DEF Core, Placed
  <2>28. x.queue[t] = cpu /\ \A u \in Threads : u # t => x.queue[u] = s.queue[u]
    BY <2>26, <1>3
  <2>29. Kept(s, x)
    BY <1>3, <2>6, <2>26 DEF Kept, Sched
  <2>30. AfterMigration(s, c, x)
    BY <1>1, <2>1, <2>6, <2>25, <2>26, <2>27, <2>28, <2>29 DEF AfterMigration
  <2>31. QED
    BY <2>24, <2>30, Zenon
<1>6. QED
  BY <1>4, <1>5

(* Before dispatch() on c the previous thread is the one c runs or the one *)
(* reschedule() has just sent away.                                        *)
LEMMA MidMigration ==
  ASSUME NEW s, NEW c \in CPU, NEW x, KInv(s), AfterMigration(s, c, x)
  PROVE  /\ Mid(x, c, s.chosen[c])
         /\ s.chosen[c] \in App => \/ x.state[s.chosen[c]] = "RUNNING"
                                   \/ x.queue[s.chosen[c]] # c
<1>1. PICK prev \in Threads : prev = s.chosen[c]
  BY DEF KInv, Core
<1>2. /\ Core(s) /\ Core(x)
      /\ \A d \in CPU : d # c => x.chosen[d] = s.chosen[d]
      /\ \A t \in Threads : t # prev => x.state[t] = s.state[t] /\ x.queue[t] = s.queue[t]
      /\ x = s \/ (x.queue[prev] # c /\ x.state[prev] = "READY")
  BY <1>1 DEF KInv, AfterMigration
<1>3. \A d \in CPU : d # c => s.chosen[d] # prev /\ s.chosen[d] \in Threads
  BY <1>1, <1>2, NullIsNoThread DEF Core, Placed
<1>4. \A d \in CPU : d # c => /\ x.chosen[d] \in App => x.state[x.chosen[d]] = "RUNNING"
                              /\ x.chosen[d] # prev
  BY <1>2, <1>3 DEF KInv
<1>5. ASSUME NEW t \in Threads, x.state[t] = "RUNNING", t # prev
      PROVE  x.queue[t] # c /\ x.chosen[x.queue[t]] = t
  <2>1. s.state[t] = "RUNNING" /\ x.queue[t] = s.queue[t] /\ s.queue[t] \in CPU
    BY <1>2, <1>5 DEF Core, Shape
  <2>2. s.chosen[s.queue[t]] = t
    BY <2>1 DEF KInv
  <2>3. QED
    BY <1>1, <1>2, <1>5, <2>1, <2>2
<1>6. prev \in App => x.state[prev] = "RUNNING" \/ x.queue[prev] # c
  BY <1>1, <1>2 DEF KInv
<1>7. x.chosen[c] = prev /\ prev \in App => x.state[prev] = "RUNNING"
  BY <1>2, <1>6, NullIsNoThread DEF Core, Placed
<1>8. Mid(x, c, prev)
  BY <1>2, <1>4, <1>5, <1>7 DEF Mid
<1>9. QED
  BY <1>1, <1>6, <1>8

(* Choosing on c keeps what holds before dispatch().                       *)
LEMMA MidChoose ==
  ASSUME NEW s, NEW c \in CPU, NEW prev, NEW x, Mid(s, c, prev), AfterChoose(s, c, x),
         prev \in App => s.state[prev] = "RUNNING" \/ s.queue[prev] # c \/ ~In(s, prev)
  PROVE  Mid(x, c, prev) /\ Kept(s, x) /\ \A d \in CPU : d # c => x.chosen[d] = s.chosen[d]
<1>1. /\ Core(x) /\ x.state = s.state /\ x.queue = s.queue
      /\ \A d \in CPU : d # c => x.chosen[d] = s.chosen[d]
  BY CoreChoose DEF Mid, SameAttributes
<1>2. prev \in Threads /\ Core(s)
  BY DEF Mid
<1>3. \A u \in Threads : In(x, u) <=> In(s, u)
  BY DEF AfterChoose
<1>4. x.chosen[c] = prev => x.queue[prev] = c /\ In(x, prev)
  BY <1>1, <1>2, NullIsNoThread DEF Core, Placed, In
<1>5. x.chosen[c] = prev /\ prev \in App => x.state[prev] = "RUNNING"
  BY <1>1, <1>2, <1>3, <1>4
<1>6. ASSUME NEW t \in Threads, x.state[t] = "RUNNING", t # prev
      PROVE  x.queue[t] # c /\ x.chosen[x.queue[t]] = t
  BY <1>1, <1>2, <1>6 DEF Mid, Core, Shape
<1>7. Mid(x, c, prev)
  BY <1>1, <1>2, <1>5, <1>6 DEF Mid
<1>8. QED
  BY <1>1, <1>7 DEF Kept

AfterReschedule(s, c, x) ==
    /\ Mid(x, c, s.chosen[c]) /\ Kept(s, x)
    /\ \A d \in CPU : d # c => x.chosen[d] = s.chosen[d]

(* reschedule() leaves what dispatch() needs.                              *)
LEMMA RescheduledKeeps ==
  ASSUME NEW s, NEW c \in CPU, KInv(s)
  PROVE  AfterReschedule(s, c, Rescheduled(s, c))
<1>1. PICK prev : prev = s.chosen[c]
  OBVIOUS
<1>2. PICK m : m = Migrated(s, prev)
  OBVIOUS
<1>3. PICK x : x = Choose(m, c)
  OBVIOUS
<1>4. AfterMigration(s, c, m)
  BY <1>1, <1>2, MigratedKeeps
<1>5. /\ Mid(m, c, prev)
      /\ prev \in App => m.state[prev] = "RUNNING" \/ m.queue[prev] # c
  BY <1>1, <1>4, MidMigration
<1>6. Core(m) /\ m.chosen[c] # Null /\ Shape(m) /\ Placed(m)
  BY <1>5, NullIsNoThread DEF Mid, Core
<1>7. AfterChoose(m, c, x)
  BY <1>3, <1>6, ChooseKeeps
<1>8. Mid(x, c, prev) /\ Kept(m, x) /\ \A d \in CPU : d # c => x.chosen[d] = m.chosen[d]
  BY <1>5, <1>7, MidChoose
<1>9. Kept(s, x)
  BY <1>4, <1>8 DEF AfterMigration, Kept
<1>10. AfterReschedule(s, c, x)
  BY <1>1, <1>4, <1>8, <1>9 DEF AfterReschedule, AfterMigration
<1>11. Rescheduled(s, c) = x
  BY <1>1, <1>2, <1>3, <1>6 DEF Rescheduled
<1>12. QED
  BY <1>10, <1>11, Zenon

(* When the thread that runs on c has left the scheduler, what dispatch()  *)
(* needs holds.                                                            *)
LEMMA MidLeave ==
  ASSUME NEW s, NEW c \in CPU, NEW prev \in App, NEW v \in State \ Sched, NEW x,
         KInv(s), prev = s.chosen[c], AfterLeave(s, prev, v, x)
  PROVE  Mid(x, c, prev) /\ ~In(x, prev) /\ \A d \in CPU : d # c => x.chosen[d] = s.chosen[d]
<1>1. /\ Core(s) /\ Core(x) /\ prev \in Threads
      /\ \A u \in Threads : In(x, u) <=> In(s, u) /\ u # prev
      /\ x.state = [s.state EXCEPT ![prev] = v]
      /\ \A d \in CPU : s.chosen[d] # prev => x.chosen[d] = s.chosen[d]
      /\ x.queue = s.queue
  BY IdleFacts DEF KInv, AfterLeave, Left
<1>2. \A d \in CPU : d # c => s.chosen[d] # prev /\ s.chosen[d] \in Threads
  BY <1>1, NullIsNoThread DEF Core, Placed
<1>3. x.state[prev] = v /\ \A u \in Threads : u # prev => x.state[u] = s.state[u]
  BY <1>1 DEF Core
<1>4. \A d \in CPU : d # c => /\ x.chosen[d] \in App => x.state[x.chosen[d]] = "RUNNING"
                              /\ x.chosen[d] # prev
  BY <1>1, <1>2, <1>3 DEF KInv
<1>5. ASSUME NEW t \in Threads, x.state[t] = "RUNNING", t # prev
      PROVE  x.queue[t] # c /\ x.chosen[x.queue[t]] = t
  <2>1. s.state[t] = "RUNNING" /\ s.queue[t] \in CPU
    BY <1>1, <1>3, <1>5 DEF Core, Shape
  <2>2. s.chosen[s.queue[t]] = t
    BY <2>1 DEF KInv
  <2>3. QED
    BY <1>1, <1>5, <2>1, <2>2
<1>6. ~In(x, prev)
  BY <1>1
<1>7. x.chosen[c] # prev
  BY <1>1, <1>6, NullIsNoThread DEF Core, Placed, In
<1>8. Mid(x, c, prev)
  BY <1>1, <1>4, <1>5, <1>7 DEF Mid
<1>9. QED
  BY <1>1, <1>2, <1>6, <1>8

(* It holds still when another thread is then made ready, as exit() does   *)
(* with the joiner.                                                        *)
LEMMA MidWake ==
  ASSUME NEW s, NEW c \in CPU, NEW prev, NEW t \in App, NEW x, Mid(s, c, prev),
         t # prev, s.state[t] \notin Sched, AfterWake(s, t, x)
  PROVE  Mid(x, c, prev)
<1>1. /\ Core(s) /\ Core(x) /\ t \in Threads /\ prev \in Threads
      /\ x.state = [s.state EXCEPT ![t] = "READY"]
      /\ x.chosen = s.chosen /\ x.queue = s.queue
  BY IdleFacts DEF Mid, AfterWake
<1>2. x.state[t] = "READY" /\ \A u \in Threads : u # t => x.state[u] = s.state[u]
  BY <1>1 DEF Core
<1>3. \A d \in CPU : s.chosen[d] # t /\ s.chosen[d] \in Threads
  BY <1>1, NullIsNoThread DEF Core, Placed, In
<1>4. \A u \in Threads : x.state[u] = "RUNNING" => u # t
  BY <1>2
<1>5. QED
  BY <1>1, <1>2, <1>3, <1>4 DEF Mid

(* A thread made ready, or taken out of its list, changes no chosen one.   *)
LEMMA WakeKeeps ==
  ASSUME NEW s, NEW t \in App, NEW x, KInv(s), s.state[t] \notin Sched, AfterWake(s, t, x)
  PROVE  KInv(x)
<1>1. /\ Core(s) /\ Core(x) /\ t \in Threads
      /\ x.state = [s.state EXCEPT ![t] = "READY"]
      /\ x.chosen = s.chosen /\ x.queue = s.queue
  BY IdleFacts DEF KInv, AfterWake
<1>2. x.state[t] = "READY" /\ \A u \in Threads : u # t => x.state[u] = s.state[u]
  BY <1>1 DEF Core
<1>3. \A d \in CPU : s.chosen[d] # t /\ s.chosen[d] \in Threads
  BY <1>1, NullIsNoThread DEF Core, Placed, In
<1>4. QED
  BY <1>1, <1>2, <1>3 DEF KInv

(* A READY thread may leave: no CPU runs another thread for it.            *)
LEMMA LeaveKeeps ==
  ASSUME NEW s, NEW t \in App, NEW v \in State \ Sched, NEW x, KInv(s),
         s.state[t] = "READY", AfterLeave(s, t, v, x)
  PROVE  KInv(x) /\ x.chosen = s.chosen
<1>1. /\ Core(s) /\ Core(x) /\ t \in Threads
      /\ x.state = [s.state EXCEPT ![t] = v]
      /\ \A d \in CPU : s.chosen[d] # t => x.chosen[d] = s.chosen[d]
      /\ x.queue = s.queue
  BY IdleFacts DEF KInv, AfterLeave, Left
<1>2. x.state[t] = v /\ \A u \in Threads : u # t => x.state[u] = s.state[u]
  BY <1>1 DEF Core
<1>3. \A d \in CPU : s.chosen[d] # t /\ s.chosen[d] \in Threads
  BY <1>1 DEF KInv, Core
<1>4. x.chosen = s.chosen
  <2>1. x.chosen \in [CPU -> Threads \cup {Null}] /\ s.chosen \in [CPU -> Threads \cup {Null}]
    BY <1>1 DEF Core, Shape
  <2>2. QED
    BY <1>1, <1>3, <2>1
<1>5. KInv(x)
  BY <1>1, <1>2, <1>3, <1>4 DEF KInv, Sched
<1>6. QED
  BY <1>4, <1>5

AfterIpi(s, x) == /\ KInv(x) /\ x.state = s.state /\ x.chosen = s.chosen
                  /\ x.queue = s.queue /\ x.target = s.target

(* Sending or taking an interrupt keeps the invariant of the kernel.       *)
LEMMA IpiKeeps ==
  ASSUME NEW s, NEW I \in SUBSET CPU, KInv(s)
  PROVE  AfterIpi(s, [s EXCEPT !.ipi = I])
<1>1. PICK x : x = [s EXCEPT !.ipi = I]
  OBVIOUS
<1>2. /\ Core(x) /\ x.state = s.state /\ x.chosen = s.chosen /\ x.queue = s.queue
      /\ x.target = s.target
  BY <1>1, CoreIpi DEF KInv
<1>3. KInv(x)
  BY <1>2 DEF KInv
<1>4. AfterIpi(s, x)
  BY <1>2, <1>3 DEF AfterIpi
<1>5. QED
  BY <1>1, <1>4, Zenon

AfterPut(s, t, x) ==
    /\ KInv(x) /\ x.chosen = s.chosen /\ x.state = s.state
    /\ \A u \in Threads : u # t => x.queue[u] = s.queue[u] /\ x.target[u] = s.target[u]

(* Moving a thread that does not run changes no chosen one.                *)
LEMMA MovedKeeps ==
  ASSUME NEW s, NEW t \in App, NEW cpu \in CPU, NEW x, KInv(s),
         s.state[t] # "RUNNING", Moved(s, t, cpu, x)
  PROVE  AfterPut(s, t, x)
<1>1. /\ Core(s) /\ Core(x) /\ t \in Threads
      /\ x.state = s.state /\ x.queue = [s.queue EXCEPT ![t] = cpu] /\ x.target = s.target
      /\ \A d \in CPU : s.chosen[d] # t => x.chosen[d] = s.chosen[d]
  BY IdleFacts DEF KInv, Moved
<1>2. \A u \in Threads : u # t => x.queue[u] = s.queue[u]
  BY <1>1 DEF Core, Shape
<1>3. \A d \in CPU : s.chosen[d] # t /\ s.chosen[d] \in Threads
  BY <1>1 DEF KInv, Core
<1>4. x.chosen = s.chosen
  <2>1. x.chosen \in [CPU -> Threads \cup {Null}] /\ s.chosen \in [CPU -> Threads \cup {Null}]
    BY <1>1 DEF Core, Shape
  <2>2. QED
    BY <1>1, <1>3, <2>1
<1>5. KInv(x)
  BY <1>1, <1>2, <1>3, <1>4 DEF KInv
<1>6. QED
  BY <1>1, <1>2, <1>4, <1>5 DEF AfterPut

(* A ready thread may be removed and inserted with a new rank and queue,   *)
(* as priority() does.                                                     *)
LEMMA PutElsewhere ==
  ASSUME NEW s, NEW t \in App, NEW cpu \in CPU, NEW z,
         KInv(s), s.state[t] = "READY", s.target[t] = NoTarget, t = Main => cpu = s.queue[t],
         NEW o, o = SchedulerRemove(s, t), Requeued(o, t, cpu, z),
         z.state = o.state, z.target = o.target, z.ipi = o.ipi,
         z.rank = o.rank \/ \E r \in 0..IdleRank : z.rank = [o.rank EXCEPT ![t] = r]
  PROVE  AfterPut(s, t, SchedulerInsert(z, t))
<1>1. t \in Threads /\ Core(s) /\ Shape(s) /\ Placed(s) /\ In(s, t)
  BY IdleFacts DEF KInv, Core, Sched
<1>2. SameAttributes(s, o)
  <2>1. AfterRemove(s, t, o)
    BY <1>1, RemoveKeeps
  <2>2. QED
    BY <2>1 DEF AfterRemove
<1>3. s.rank \in [Threads -> 0..IdleRank]
  BY <1>1 DEF Core
<1>4. /\ z.rank \in [Threads -> 0..IdleRank] /\ z.state = s.state /\ z.target = s.target
      /\ z.ipi = s.ipi
  BY <1>2, <1>3 DEF SameAttributes
<1>5. Requeued(SchedulerRemove(s, t), t, cpu, z) /\ s.state[t] \in Sched
  BY DEF Sched
<1>6. PICK x : x = SchedulerInsert(z, t)
  OBVIOUS
<1>7. Moved(s, t, cpu, SchedulerInsert(z, t))
  BY <1>1, <1>4, <1>5, CoreMove
<1>8. Moved(s, t, cpu, x)
  BY <1>6, <1>7, Zenon
<1>9. AfterPut(s, t, x)
  BY <1>8, MovedKeeps
<1>10. QED
  BY <1>6, <1>9, Zenon

(* prepare_migration() keeps the invariant of the kernel: of a running     *)
(* thread only the order is kept, any other is moved at once.              *)
LEMMA PreparedKeeps ==
  ASSUME NEW s, NEW t \in App \ {Main}, NEW cpu \in CPU, KInv(s), s.queue[t] # cpu,
         s.target[t] = NoTarget
  PROVE  AfterPut(s, t, Prepared(s, t, cpu))
<1>1. /\ t \in Threads /\ Core(s) /\ DOMAIN s = Fields /\ s.queue[t] \in CPU
      /\ s.ipi \in SUBSET CPU /\ s.target \in [Threads -> CPU \cup {NoTarget}]
  <2>1. t \in Threads /\ Core(s)
    BY IdleFacts DEF KInv
  <2>2. QED
    BY <2>1 DEF Core, Shape
<1>2. CASE s.state[t] = "RUNNING"
  <2>1. PICK I \in SUBSET CPU : I = s.ipi \cup {s.queue[t]}
    BY <1>1
  <2>2. PICK x : x = [s EXCEPT !.target[t] = cpu, !.ipi = I]
    OBVIOUS
  <2>3. Prepared(s, t, cpu) = x
    BY <1>2, <2>1, <2>2 DEF Prepared
  <2>4. /\ DOMAIN x = Fields /\ x.chosen = s.chosen /\ x.ready = s.ready /\ x.rank = s.rank
        /\ x.intact = s.intact /\ x.queue = s.queue /\ x.state = s.state /\ x.ipi = I
        /\ x.target = [s.target EXCEPT ![t] = cpu]
    BY <2>2, <1>1 DEF Fields
  <2>5. /\ x.target \in [Threads -> CPU \cup {NoTarget}] /\ x.target[t] = cpu
        /\ \A u \in Threads : u # t => x.target[u] = s.target[u]
    BY <2>4, <1>1
  <2>6. Shape(x) /\ Placed(x) /\ \A u \in Threads : In(x, u) <=> In(s, u)
    BY <1>1, <2>4 DEF Core, Shape, Placed, In
  <2>7. AtHome(x)
    <3>1. \A d \in CPU : Idle[d] # t /\ Idle[d] \in Threads
      BY IdleFacts
    <3>2. x.queue[Main] = BSP /\ x.target[Main] = NoTarget
      BY <1>1, <2>4, <2>5, IdleFacts DEF Core, AtHome
    <3>3. QED
      BY <3>1, <3>2, <1>1, <2>4, <2>5 DEF Core, AtHome
  <2>8. \A u \in Threads : x.target[u] # NoTarget => x.target[u] # x.queue[u]
    BY <1>1, <2>4, <2>5 DEF Core
  <2>9. Core(x)
    BY <1>1, <2>4, <2>5, <2>6, <2>7, <2>8 DEF Core
  <2>10. KInv(x)
    BY <2>4, <2>9 DEF KInv
  <2>11. AfterPut(s, t, x)
    BY <2>4, <2>5, <2>10 DEF AfterPut
  <2>12. QED
    BY <2>3, <2>11, Zenon
<1>3. CASE s.state[t] = "READY"
  <2>1. PICK o : o = SchedulerRemove(s, t)
    OBVIOUS
  <2>2. PICK z : z = [o EXCEPT !.queue[t] = cpu]
    OBVIOUS
  <2>3. DOMAIN o = Fields
    <3>1. In(s, t) /\ Shape(s) /\ Placed(s)
      BY <1>1, <1>3 DEF Core, Sched
    <3>2. AfterRemove(s, t, o)
      BY <3>1, <1>1, <2>1, RemoveKeeps
    <3>3. QED
      BY <3>2 DEF AfterRemove, Shape
  <2>4. /\ Requeued(o, t, cpu, z) /\ z.state = o.state /\ z.target = o.target /\ z.ipi = o.ipi
        /\ z.rank = o.rank
    BY <2>2, <2>3 DEF Fields, Requeued
  <2>5. PICK w : w = SchedulerInsert(z, t)
    OBVIOUS
  <2>6. AfterPut(s, t, SchedulerInsert(z, t))
    BY <1>3, <2>1, <2>4, PutElsewhere
  <2>7. AfterPut(s, t, w)
    BY <2>5, <2>6, Zenon
  <2>8. KInv(w) /\ w.ipi \in SUBSET CPU
    BY <2>7 DEF AfterPut, KInv, Core
  <2>9. PICK I \in SUBSET CPU : I = w.ipi \cup {s.queue[t], cpu}
    BY <1>1, <2>8
  <2>10. PICK x : x = [w EXCEPT !.ipi = I]
    OBVIOUS
  <2>11. Prepared(s, t, cpu) = x
    BY <1>3, <2>1, <2>2, <2>5, <2>9, <2>10 DEF Prepared
  <2>12. AfterIpi(w, x)
    BY <2>8, <2>10, IpiKeeps
  <2>13. AfterPut(s, t, x)
    BY <2>7, <2>12 DEF AfterPut, AfterIpi
  <2>14. QED
    BY <2>11, <2>13, Zenon
<1>4. CASE s.state[t] \in {"WAITING", "SUSPENDED"}
  <2>1. PICK x : x = [s EXCEPT !.queue[t] = cpu]
    OBVIOUS
  <2>2. Prepared(s, t, cpu) = x
    BY <1>4, <2>1 DEF Prepared
  <2>3. s.state[t] \notin Sched /\ s.state[t] # "RUNNING"
    BY <1>4 DEF Sched
  <2>4. Moved(s, t, cpu, x)
    BY <1>1, <2>1, <2>3, CoreRequeue
  <2>5. AfterPut(s, t, x)
    BY <2>3, <2>4, MovedKeeps
  <2>6. QED
    BY <2>2, <2>5, Zenon
<1>5. CASE s.state[t] \notin {"RUNNING", "READY", "WAITING", "SUSPENDED"}
  <2>1. Prepared(s, t, cpu) = s
    BY <1>5 DEF Prepared
  <2>2. AfterPut(s, t, s)
    BY DEF AfterPut
  <2>3. QED
    BY <2>1, <2>2, Zenon
<1>6. QED
  BY <1>2, <1>3, <1>4, <1>5

(* A thread that is in no list goes from one such state to another.        *)
AfterRest(s, t, v, x) ==
    /\ KInv(x) /\ x.chosen = s.chosen /\ x.queue = s.queue
    /\ x.state = [s.state EXCEPT ![t] = v]

(* A blocked thread may change from one blocked state to another.          *)
LEMMA RestKeeps ==
  ASSUME NEW s, NEW t \in App, NEW v \in State \ Sched, KInv(s), s.state[t] \notin Sched
  PROVE  AfterRest(s, t, v, [s EXCEPT !.state[t] = v])
<1>1. PICK x : x = [s EXCEPT !.state[t] = v]
  OBVIOUS
<1>2. t \in Threads /\ Core(s)
  BY IdleFacts DEF KInv
<1>3. DOMAIN s = Fields /\ s.state \in [Threads -> State]
  BY <1>2 DEF Core, Shape
<1>4. /\ DOMAIN x = Fields /\ x.chosen = s.chosen /\ x.ready = s.ready /\ x.rank = s.rank
      /\ x.intact = s.intact /\ x.queue = s.queue /\ x.target = s.target /\ x.ipi = s.ipi
      /\ x.state = [s.state EXCEPT ![t] = v]
  BY <1>1, <1>3 DEF Fields
<1>5. /\ x.state[t] = v /\ x.state \in [Threads -> State]
      /\ \A u \in Threads : u # t => x.state[u] = s.state[u]
  BY <1>2, <1>3, <1>4
<1>6. Shape(x) /\ Placed(x) /\ \A u \in Threads : In(x, u) <=> In(s, u)
  BY <1>2, <1>4 DEF Core, Shape, Placed, In
<1>7. \A u \in Threads : In(x, u) <=> x.state[u] \in Sched
  BY <1>2, <1>5, <1>6 DEF Core
<1>8. AtHome(x)
  <2>1. \A d \in CPU : Idle[d] # t /\ Idle[d] \in Threads
    BY IdleFacts
  <2>2. QED
    BY <2>1, <1>2, <1>4, <1>5 DEF Core, AtHome
<1>9. Core(x)
  BY <1>2, <1>4, <1>5, <1>6, <1>7, <1>8 DEF Core
<1>10. \A d \in CPU : s.chosen[d] # t /\ s.chosen[d] \in Threads
  BY <1>2, NullIsNoThread DEF Core, Placed, In
<1>11. KInv(x)
  BY <1>4, <1>5, <1>9, <1>10 DEF KInv, Sched
<1>12. AfterRest(s, t, v, x)
  BY <1>4, <1>11 DEF AfterRest
<1>13. QED
  BY <1>1, <1>12, Zenon

AfterInOut(s, x) == KInv(x) /\ SameAttributes(s, x) /\ x.chosen = s.chosen

(* A thread in no list may be inserted and removed again, as the           *)
(* constructor and the destructor do.                                      *)
LEMMA InOutKeeps ==
  ASSUME NEW s, NEW t \in App, KInv(s), s.state[t] \notin Sched
  PROVE  AfterInOut(s, SchedulerRemove(SchedulerInsert(s, t), t))
<1>1. PICK y : y = SchedulerInsert(s, t)
  OBVIOUS
<1>2. PICK x : x = SchedulerRemove(y, t)
  OBVIOUS
<1>3. t \in Threads /\ Core(s)
  BY IdleFacts DEF KInv
<1>4. Shape(s) /\ Placed(s) /\ ~In(s, t) /\ s.chosen \in [CPU -> Threads \cup {Null}]
  BY <1>3 DEF Core, Shape
<1>5. AfterInsert(s, t, y)
  BY <1>1, <1>3, <1>4, InsertKeeps
<1>6. /\ Shape(y) /\ Placed(y) /\ SameAttributes(s, y) /\ In(y, t)
      /\ \A u \in Threads : In(y, u) <=> In(s, u) \/ u = t
      /\ \A d \in CPU : s.chosen[d] # Null => y.chosen[d] = s.chosen[d]
  BY <1>3, <1>5 DEF AfterInsert
<1>7. AfterRemove(y, t, x)
  BY <1>2, <1>3, <1>6, RemoveKeeps
<1>8. /\ Shape(x) /\ Placed(x) /\ SameAttributes(y, x)
      /\ \A u \in Threads : In(x, u) <=> In(y, u) /\ u # t
      /\ \A d \in CPU : y.chosen[d] # t => x.chosen[d] = y.chosen[d]
  BY <1>7 DEF AfterRemove
<1>9. \A d \in CPU : s.chosen[d] # t /\ s.chosen[d] \in Threads /\ s.chosen[d] # Null
  BY <1>3, <1>4, NullIsNoThread DEF Core, Placed, In
<1>10. x.chosen = s.chosen
  <2>1. \A d \in CPU : x.chosen[d] = s.chosen[d]
    BY <1>6, <1>8, <1>9
  <2>2. x.chosen \in [CPU -> Threads \cup {Null}]
    BY <1>8 DEF Shape
  <2>3. QED
    BY <1>4, <2>1, <2>2
<1>11. SameAttributes(s, x)
  BY <1>6, <1>8 DEF SameAttributes
<1>12. \A u \in Threads : In(x, u) <=> In(s, u)
  BY <1>4, <1>6, <1>8
<1>13. AtHome(x)
  BY <1>3, <1>11 DEF Core, AtHome, SameAttributes
<1>14. Core(x)
  BY <1>3, <1>8, <1>10, <1>11, <1>12, <1>13 DEF Core, SameAttributes
<1>15. KInv(x)
  BY <1>10, <1>11, <1>14 DEF KInv, SameAttributes
<1>16. AfterInOut(s, x)
  BY <1>10, <1>11, <1>15 DEF AfterInOut
<1>17. QED
  BY <1>1, <1>2, <1>16, Zenon

(* The attributes the constructor gives a thread that does not yet exist.  *)
Fresh(s, t, v, cpu) ==
    [s EXCEPT !.state[t] = v, !.queue[t] = cpu, !.target[t] = NoTarget]

AfterFresh(s, t, v, x) ==
    /\ KInv(x) /\ x.chosen = s.chosen /\ x.state = [s.state EXCEPT ![t] = v]

(* The constructor may set up a thread that is in no list.                 *)
LEMMA FreshKeeps ==
  ASSUME NEW s, NEW t \in App \ {Main}, NEW v \in State \ Sched, NEW cpu \in CPU, KInv(s),
         s.state[t] \notin Sched
  PROVE  AfterFresh(s, t, v, Fresh(s, t, v, cpu))
<1>1. PICK x : x = Fresh(s, t, v, cpu)
  OBVIOUS
<1>2. t \in Threads /\ Core(s)
  BY IdleFacts DEF KInv
<1>3. /\ Shape(s) /\ Placed(s) /\ ~In(s, t) /\ DOMAIN s = Fields
      /\ s.state \in [Threads -> State] /\ s.queue \in [Threads -> CPU]
      /\ s.target \in [Threads -> CPU \cup {NoTarget}]
  BY <1>2 DEF Core, Shape
<1>4. /\ DOMAIN x = Fields /\ x.chosen = s.chosen /\ x.ready = s.ready /\ x.rank = s.rank
      /\ x.intact = s.intact /\ x.ipi = s.ipi /\ x.queue = [s.queue EXCEPT ![t] = cpu]
      /\ x.target = [s.target EXCEPT ![t] = NoTarget]
      /\ x.state = [s.state EXCEPT ![t] = v]
  BY <1>1, <1>3 DEF Fields, Fresh
<1>5. Requeued(s, t, cpu, x)
  BY <1>4 DEF Requeued
<1>6. /\ Shape(x) /\ Placed(x) /\ ~In(x, t)
      /\ \A u \in Threads : u # t => (In(x, u) <=> In(s, u))
  BY <1>2, <1>3, <1>5, RequeuedPlaced
<1>7. /\ x.state[t] = v /\ x.state \in [Threads -> State]
      /\ \A u \in Threads : u # t => x.state[u] = s.state[u]
  BY <1>2, <1>3, <1>4
<1>8. /\ x.target[t] = NoTarget /\ x.target \in [Threads -> CPU \cup {NoTarget}]
      /\ \A u \in Threads : u # t => x.target[u] = s.target[u]
  BY <1>2, <1>3, <1>4
<1>9. \A u \in Threads : u # t => x.queue[u] = s.queue[u]
  BY <1>2, <1>3, <1>4
<1>10. AtHome(x)
  <2>1. \A d \in CPU : Idle[d] # t /\ Idle[d] \in Threads
    BY IdleFacts
  <2>2. x.queue[Main] = BSP /\ x.target[Main] = NoTarget
    BY <1>2, <1>8, <1>9, IdleFacts DEF Core, AtHome
  <2>3. QED
    BY <2>1, <2>2, <1>2, <1>7, <1>8, <1>9 DEF Core, AtHome
<1>11. \A u \in Threads : In(x, u) <=> x.state[u] \in Sched
  BY <1>2, <1>6, <1>7 DEF Core
<1>12. \A u \in Threads : x.target[u] # NoTarget => x.target[u] # x.queue[u]
  BY <1>2, <1>8, <1>9 DEF Core
<1>13. Core(x)
  BY <1>2, <1>4, <1>6, <1>7, <1>8, <1>10, <1>11, <1>12 DEF Core
<1>14. \A d \in CPU : s.chosen[d] # t /\ s.chosen[d] \in Threads
  BY <1>2, <1>3, NullIsNoThread DEF Core, Placed, In
<1>15. KInv(x)
  <2>1. \A u \in Threads : x.state[u] = "RUNNING" => u # t /\ x.queue[u] = s.queue[u]
                                                     /\ s.state[u] = "RUNNING"
    BY <1>7, <1>9 DEF Sched
  <2>2. \A d \in CPU : x.chosen[d] \in App => x.state[x.chosen[d]] = "RUNNING"
    BY <1>4, <1>7, <1>14 DEF KInv
  <2>3. QED
    BY <1>4, <1>13, <2>1, <2>2 DEF KInv
<1>16. AfterFresh(s, t, v, x)
  BY <1>4, <1>15 DEF AfterFresh
<1>17. QED
  BY <1>1, <1>16, Zenon

(* The constructor may insert the thread it has set up.                    *)
LEMMA FreshReady ==
  ASSUME NEW s, NEW t \in App \ {Main}, NEW cpu \in CPU, KInv(s), s.state[t] \notin Sched
  PROVE  AfterFresh(s, t, "READY", SchedulerInsert(Fresh(s, t, "READY", cpu), t))
<1>1. PICK y : y = Fresh(s, t, "SUSPENDED", cpu)
  OBVIOUS
<1>2. PICK x : x = SchedulerInsert([y EXCEPT !.state[t] = "READY"], t)
  OBVIOUS
<1>3. "SUSPENDED" \in State \ Sched
  BY DEF State, Sched
<1>4. AfterFresh(s, t, "SUSPENDED", y)
  BY <1>1, <1>3, FreshKeeps
<1>5. t \in Threads /\ DOMAIN s = Fields /\ s.state \in [Threads -> State]
  BY IdleFacts DEF KInv, Core, Shape
<1>6. KInv(y) /\ y.chosen = s.chosen /\ y.state = [s.state EXCEPT ![t] = "SUSPENDED"]
  BY <1>4 DEF AfterFresh
<1>7. y.state[t] \notin Sched /\ Core(y)
  <2>1. y.state[t] = "SUSPENDED"
    BY <1>5, <1>6
  <2>2. QED
    BY <2>1, <1>6 DEF Sched, KInv
<1>8. AfterWake(y, t, x)
  BY <1>2, <1>7, CoreWake
<1>9. KInv(x)
  BY <1>6, <1>7, <1>8, WakeKeeps
<1>10. x.chosen = s.chosen /\ x.state = [y.state EXCEPT ![t] = "READY"]
  BY <1>6, <1>8 DEF AfterWake
<1>11. x.state = [s.state EXCEPT ![t] = "READY"]
  BY <1>5, <1>6, <1>10
<1>12. Fresh(s, t, "READY", cpu) = [y EXCEPT !.state[t] = "READY"]
  BY <1>1, <1>5 DEF Fresh, Fields
<1>13. AfterFresh(s, t, "READY", x)
  BY <1>9, <1>10, <1>11 DEF AfterFresh
<1>14. QED
  BY <1>2, <1>12, <1>13, Zenon

(* priority() may give a running thread another rank on its own CPU.       *)
LEMMA RankKeeps ==
  ASSUME NEW s, NEW t \in App, NEW r \in 0..IdleRank, KInv(s)
  PROVE  AfterIpi(s, [s EXCEPT !.rank[t] = r, !.queue[t] = s.queue[t]])
<1>1. PICK x : x = [s EXCEPT !.rank[t] = r, !.queue[t] = s.queue[t]]
  OBVIOUS
<1>2. t \in Threads /\ Core(s)
  BY IdleFacts DEF KInv
<1>3. /\ DOMAIN s = Fields /\ s.queue \in [Threads -> CPU] /\ s.rank \in [Threads -> 0..IdleRank]
  BY <1>2 DEF Core, Shape
<1>4. /\ DOMAIN x = Fields /\ x.chosen = s.chosen /\ x.ready = s.ready
      /\ x.intact = s.intact /\ x.ipi = s.ipi /\ x.target = s.target /\ x.state = s.state
      /\ x.queue = [s.queue EXCEPT ![t] = s.queue[t]] /\ x.rank = [s.rank EXCEPT ![t] = r]
  BY <1>1, <1>3 DEF Fields
<1>5. /\ DOMAIN x = Fields /\ x.chosen = s.chosen /\ x.ready = s.ready /\ x.intact = s.intact
      /\ x.queue = s.queue /\ x.rank \in [Threads -> 0..IdleRank]
  BY <1>2, <1>3, <1>4
<1>6. Shape(x) /\ Placed(x) /\ \A u \in Threads : In(x, u) <=> In(s, u)
  BY <1>2, <1>5 DEF Core, Shape, Placed, In
<1>7. AtHome(x)
  BY <1>2, <1>4, <1>5 DEF Core, AtHome
<1>8. Core(x)
  BY <1>2, <1>4, <1>5, <1>6, <1>7 DEF Core
<1>9. KInv(x)
  BY <1>4, <1>5, <1>8 DEF KInv
<1>10. AfterIpi(s, x)
  BY <1>4, <1>5, <1>9 DEF AfterIpi
<1>11. QED
  BY <1>1, <1>10, Zenon
-----------------------------------------------------------------------------
(* x has the ranks of s.                                                   *)
SameRank(s, x) == DOMAIN x = Fields /\ x.rank = s.rank

(* The lists' own operations change no rank.                               *)
LEMMA ListRanks ==
  ASSUME NEW s, DOMAIN s = Fields, NEW c, NEW t
  PROVE  /\ SameRank(s, Link(s, c, t)) /\ SameRank(s, Unlink(s, c, t))
         /\ SameRank(s, ChooseHead(s, c))
<1>1. SameRank(s, Link(s, c, t))
  BY DEF SameRank, Link, Fields
<1>2. SameRank(s, Unlink(s, c, t))
  BY DEF SameRank, Unlink, Fields
<1>3. SameRank(s, ChooseHead(s, c))
  BY DEF SameRank, ChooseHead, Fields
<1>4. QED
  BY <1>1, <1>2, <1>3

(* Neither do the scheduler's.                                             *)
LEMMA SchedulerRanks ==
  ASSUME NEW s, DOMAIN s = Fields, NEW c, NEW t
  PROVE  /\ SameRank(s, SchedulerInsert(s, t)) /\ SameRank(s, SchedulerRemove(s, t))
         /\ SameRank(s, Choose(s, c)) /\ SameRank(s, ChooseAnother(s, c))
         /\ SameRank(s, ChooseThis(s, c, t))
<1>1. ASSUME NEW u PROVE SameRank(s, SchedulerInsert(s, u))
  <2>1. SameRank(s, Link(s, s.queue[u], u))
    BY ListRanks
  <2>2. SameRank(s, [s EXCEPT !.chosen[s.queue[u]] = u])
    BY DEF SameRank, Fields
  <2>3. QED
    BY <2>1, <2>2 DEF SchedulerInsert
<1>2. SameRank(s, SchedulerRemove(s, t))
  BY ListRanks DEF SchedulerRemove
<1>3. PICK r : r = Rehome(s, c)
  OBVIOUS
<1>4. SameRank(s, r)
  <2>1. PICK i : i = SchedulerInsert(s, s.chosen[c])
    OBVIOUS
  <2>2. SameRank(s, i)
    BY <1>1, <2>1
  <2>3. SameRank(i, ChooseHead(i, c))
    BY <2>2, ListRanks DEF SameRank
  <2>4. r = s \/ r = ChooseHead(i, c)
    BY <1>3, <2>1 DEF Rehome
  <2>5. QED
    BY <2>2, <2>3, <2>4 DEF SameRank
<1>5. SameRank(s, Choose(s, c))
  <2>1. PICK l : l = Link(r, c, r.chosen[c])
    OBVIOUS
  <2>2. SameRank(r, l)
    BY <1>4, <2>1, ListRanks DEF SameRank
  <2>3. SameRank(l, ChooseHead(l, c))
    BY <2>2, ListRanks DEF SameRank
  <2>4. Choose(s, c) = r \/ Choose(s, c) = ChooseHead(l, c)
    BY <1>3, <2>1 DEF Choose
  <2>5. QED
    BY <1>4, <2>2, <2>3, <2>4 DEF SameRank
<1>6. SameRank(s, ChooseAnother(s, c))
  <2>1. PICK h : h = ChooseHead(r, c)
    OBVIOUS
  <2>2. SameRank(r, h)
    BY <1>4, <2>1, ListRanks DEF SameRank
  <2>3. SameRank(h, Link(h, c, r.chosen[c]))
    BY <2>2, ListRanks DEF SameRank
  <2>4. ChooseAnother(s, c) = r \/ ChooseAnother(s, c) = Link(h, c, r.chosen[c])
    BY <1>3, <2>1 DEF ChooseAnother
  <2>5. QED
    BY <1>4, <2>2, <2>3, <2>4 DEF SameRank
<1>7. SameRank(s, ChooseThis(s, c, t))
  <2>1. PICK q : q = r.queue[t]
    OBVIOUS
  <2>2. PICK l : l = Link(r, q, r.chosen[q])
    OBVIOUS
  <2>3. PICK o : o = Unlink(l, q, t)
    OBVIOUS
  <2>4. SameRank(r, l) /\ SameRank(l, o)
    BY <1>4, <2>2, <2>3, ListRanks DEF SameRank
  <2>5. SameRank(o, [o EXCEPT !.chosen[q] = t])
    BY <2>4 DEF SameRank, Fields
  <2>6. ChooseThis(s, c, t) = r \/ ChooseThis(s, c, t) = [o EXCEPT !.chosen[q] = t]
    BY <1>3, <2>1, <2>2, <2>3 DEF ChooseThis
  <2>7. QED
    BY <1>4, <2>4, <2>5, <2>6 DEF SameRank
<1>8. QED
  BY <1>1, <1>2, <1>5, <1>6, <1>7

(* Nor a migration or a dispatch.                                          *)
LEMMA DispatchRanks ==
  ASSUME NEW s, DOMAIN s = Fields, NEW c, NEW prev, NEW next
  PROVE  /\ SameRank(s, Dispatched(s, prev, next)) /\ SameRank(s, Migrated(s, prev))
         /\ SameRank(s, Rescheduled(s, c))
<1>1. SameRank(s, Dispatched(s, prev, next))
  BY DEF SameRank, Dispatched, Fields
<1>2. ASSUME NEW p PROVE SameRank(s, Migrated(s, p))
  <2>1. PICK m : m = [s EXCEPT !.target[p] = NoTarget, !.state[p] = "READY"]
    OBVIOUS
  <2>2. PICK o : o = SchedulerRemove(m, p)
    OBVIOUS
  <2>3. PICK n : n = [o EXCEPT !.queue[p] = s.target[p]]
    OBVIOUS
  <2>4. PICK i : i = SchedulerInsert(n, p)
    OBVIOUS
  <2>5. SameRank(s, m)
    BY <2>1 DEF SameRank, Fields
  <2>6. SameRank(m, o)
    BY <2>2, <2>5, SchedulerRanks DEF SameRank
  <2>7. SameRank(o, n)
    BY <2>3, <2>6 DEF SameRank, Fields
  <2>8. SameRank(n, i)
    BY <2>4, <2>7, SchedulerRanks DEF SameRank
  <2>9. SameRank(i, [i EXCEPT !.ipi = @ \cup {s.target[p]}])
    BY <2>8 DEF SameRank, Fields
  <2>10. Migrated(s, p) = s \/ Migrated(s, p) = [i EXCEPT !.ipi = @ \cup {s.target[p]}]
    BY <2>1, <2>2, <2>3, <2>4 DEF Migrated
  <2>11. QED
    BY <2>5, <2>6, <2>7, <2>8, <2>9, <2>10 DEF SameRank
<1>3. SameRank(s, Rescheduled(s, c))
  <2>1. PICK m : m = Migrated(s, s.chosen[c])
    OBVIOUS
  <2>2. SameRank(s, m)
    BY <1>2, <2>1
  <2>3. SameRank(m, Choose(m, c))
    BY <2>2, SchedulerRanks DEF SameRank
  <2>4. Rescheduled(s, c) = m \/ Rescheduled(s, c) = Choose(m, c)
    BY <2>1 DEF Rescheduled
  <2>5. QED
    BY <2>2, <2>3, <2>4 DEF SameRank
<1>4. QED
  BY <1>1, <1>2, <1>3

(* Nor a rescheduling here or elsewhere.                                   *)
LEMMA RescheduleRanks ==
  ASSUME NEW s, DOMAIN s = Fields, NEW c, NEW cpu
  PROVE  /\ \A prev : Dispatch(s, c, prev) => SameRank(s, k')
         /\ Reschedule(s, c) => SameRank(s, k')
         /\ RescheduleCPU(s, c, cpu) => SameRank(s, k')
<1>1. \A prev : Dispatch(s, c, prev) => SameRank(s, k')
  BY DispatchRanks DEF Dispatch
<1>2. ASSUME Reschedule(s, c) PROVE SameRank(s, k')
  <2>1. PICK r : r = Rescheduled(s, c)
    OBVIOUS
  <2>2. SameRank(s, r)
    BY <2>1, DispatchRanks
  <2>3. k' = Dispatched(r, s.chosen[c], r.chosen[c])
    BY <1>2, <2>1 DEF Reschedule, Dispatch
  <2>4. SameRank(r, k')
    BY <2>2, <2>3, DispatchRanks DEF SameRank
  <2>5. QED
    BY <2>2, <2>4 DEF SameRank
<1>3. ASSUME RescheduleCPU(s, c, cpu) PROVE SameRank(s, k')
  <2>1. SameRank(s, [s EXCEPT !.ipi = @ \cup {cpu}])
    BY DEF SameRank, Fields
  <2>2. QED
    BY <1>2, <1>3, <2>1 DEF RescheduleCPU
<1>4. QED
  BY <1>1, <1>2, <1>3

(* Nor the last loop of wakeup_all().                                      *)
LEMMA NotifyRanks ==
  ASSUME NEW s, DOMAIN s = Fields, NEW c, NEW t, NEW cpus, NotifyFrom(s, c, t, cpus)
  PROVE  SameRank(s, k')
<1>1. PICK b : b = [s EXCEPT !.ipi = @ \cup {i \in cpus : i < c}]
  OBVIOUS
<1>2. PICK n : n = Rescheduled(b, c)
  OBVIOUS
<1>3. SameRank(s, b)
  BY <1>1 DEF SameRank, Fields
<1>4. SameRank(b, n)
  BY <1>2, <1>3, DispatchRanks DEF SameRank
<1>5. PICK above : above = {i \in cpus : i > c}
  OBVIOUS
<1>6. SameRank(n, [n EXCEPT !.ipi = @ \cup above])
  BY <1>4 DEF SameRank, Fields
<1>7. SameRank(s, [s EXCEPT !.ipi = @ \cup cpus])
  BY DEF SameRank, Fields
<1>8. Dispatch(n, c, s.chosen[c]) => SameRank(n, k')
  BY <1>4, RescheduleRanks DEF SameRank
<1>9. \/ k' = [s EXCEPT !.ipi = @ \cup cpus]
      \/ k' = [n EXCEPT !.ipi = @ \cup above]
      \/ Dispatch(n, c, s.chosen[c])
  BY <1>1, <1>2, <1>5 DEF NotifyFrom
<1>10. QED
  BY <1>3, <1>4, <1>6, <1>7, <1>8, <1>9 DEF SameRank

(* Nor the balancer's orders.                                              *)
LEMMA BalancerRanks ==
  ASSUME DOMAIN k = Fields, NEW c, NEW s \in Balanced(c)
  PROVE  SameRank(k, s)
<1>1. ASSUME NEW x, DOMAIN x = Fields, NEW t, NEW cpu PROVE SameRank(x, Prepared(x, t, cpu))
  <2>1. PICK o : o = SchedulerRemove(x, t)
    OBVIOUS
  <2>2. PICK n : n = [o EXCEPT !.queue[t] = cpu]
    OBVIOUS
  <2>3. PICK i : i = SchedulerInsert(n, t)
    OBVIOUS
  <2>4. SameRank(x, o)
    BY <1>1, <2>1, SchedulerRanks
  <2>5. SameRank(o, n)
    BY <2>2, <2>4 DEF SameRank, Fields
  <2>6. SameRank(n, i)
    BY <2>3, <2>5, SchedulerRanks DEF SameRank
  <2>7. SameRank(i, [i EXCEPT !.ipi = @ \cup {x.queue[t], cpu}])
    BY <2>6 DEF SameRank, Fields
  <2>8. SameRank(x, [x EXCEPT !.target[t] = cpu, !.ipi = @ \cup {x.queue[t]}])
    BY <1>1 DEF SameRank, Fields
  <2>9. SameRank(x, [x EXCEPT !.queue[t] = cpu])
    BY <1>1 DEF SameRank, Fields
  <2>10. \/ Prepared(x, t, cpu) = [x EXCEPT !.target[t] = cpu, !.ipi = @ \cup {x.queue[t]}]
         \/ Prepared(x, t, cpu) = [i EXCEPT !.ipi = @ \cup {x.queue[t], cpu}]
         \/ Prepared(x, t, cpu) = [x EXCEPT !.queue[t] = cpu]
         \/ Prepared(x, t, cpu) = x
    BY <2>1, <2>2, <2>3 DEF Prepared
  <2>11. QED
    BY <1>1, <2>4, <2>5, <2>6, <2>7, <2>8, <2>9, <2>10 DEF SameRank
<1>2. ASSUME NEW x, DOMAIN x = Fields PROVE SameRank(x, Executed(x, c))
  BY <1>2 DEF SameRank, Executed, Fields
<1>3. ASSUME NEW t, NEW cpu PROVE SameRank(k, Executed(Prepared(k, t, cpu), c))
  <2>1. PICK p : p = Prepared(k, t, cpu)
    OBVIOUS
  <2>2. SameRank(k, p) /\ SameRank(p, Executed(p, c))
    BY <1>1, <1>2, <2>1 DEF SameRank
  <2>3. QED
    BY <2>1, <2>2 DEF SameRank
<1>4. ASSUME NEW t, NEW cpu, NEW u, NEW other
      PROVE  SameRank(k, Executed(Prepared(Prepared(k, t, cpu), u, other), c))
  <2>1. PICK p : p = Prepared(k, t, cpu)
    OBVIOUS
  <2>2. PICK r : r = Prepared(p, u, other)
    OBVIOUS
  <2>3. SameRank(k, p) /\ SameRank(p, r) /\ SameRank(r, Executed(r, c))
    BY <1>1, <1>2, <2>1, <2>2 DEF SameRank
  <2>4. QED
    BY <2>1, <2>2, <2>3 DEF SameRank
<1>5. \/ s = k
      \/ \E m : s = Executed(Prepared(k, m[1], m[2]), c)
      \/ \E m : s = Executed(Prepared(Prepared(k, m[1], k.queue[m[2]]), m[2], k.queue[m[1]]), c)
  BY DEF Balanced
<1>6. QED
  BY <1>3, <1>4, <1>5 DEF SameRank

-----------------------------------------------------------------------------
(* What remove() leaves of a list is in order.                             *)
LEMMA RemoveFirstSorted ==
  ASSUME NEW T, NEW q \in Seq(T), NEW t, NEW rank
  PROVE  /\ RemoveFirst(q, t) \in Seq(T)
         /\ ToSet(RemoveFirst(q, t)) \subseteq ToSet(q)
         /\ Sorted(q, rank) => Sorted(RemoveFirst(q, t), rank)
<1>1. Len(q) \in Nat /\ DOMAIN q = 1..Len(q)
  BY LenProperties
<1>2. CASE ~ \E i \in 1..Len(q) : q[i] = t
  BY <1>2, Zenon DEF RemoveFirst
<1>3. CASE \E i \in 1..Len(q) : q[i] = t
  <2> DEFINE I == {i \in 1..Len(q) : q[i] = t}
  <2>1. I \in SUBSET Nat /\ I # {}
    BY <1>1, <1>3
  <2>2. Min(I) \in I
    <3> HIDE DEF I
    <3>1. QED
      BY <2>1, MinPosition, Zenon
  <2>3. RemoveFirst(q, t) = RemoveAt(q, Min(I))
    BY <1>3, <2>1, Zenon DEF RemoveFirst, SelectInSeq
  <2>4. Min(I) \in 1..Len(q)
    BY <2>2
  <2> HIDE DEF I
  <2>5. PICK p \in 1..Len(q) : p = Min(I)
    BY <2>4
  <2>6. PICK l, m, x : l = SubSeq(q, 1, p - 1) /\ m = SubSeq(q, p + 1, Len(q)) /\ x = l \o m
    OBVIOUS
  <2>7. 1 \in 1..Len(q) + 1 /\ p - 1 \in 0..Len(q) /\ p + 1 \in 1..Len(q) + 1 /\ Len(q) \in 0..Len(q)
    BY <1>1
  <2>8. l \in Seq(T) /\ \A i \in DOMAIN l : i \in 1..p - 1 /\ l[i] = q[i]
    BY <2>6, <2>7, Cut
  <2>9. m \in Seq(T) /\ \A i \in DOMAIN m : p + i \in p + 1..Len(q) /\ m[i] = q[p + i]
    BY <2>6, <2>7, Cut
  <2>10. Len(l) \in Nat /\ DOMAIN l = 1..Len(l) /\ Len(m) \in Nat /\ DOMAIN m = 1..Len(m)
    BY <2>8, <2>9, LenProperties
  <2>11. /\ x \in Seq(T) /\ DOMAIN x = 1..Len(l) + Len(m)
         /\ \A i \in 1..Len(l) + Len(m) : x[i] = IF i <= Len(l) THEN l[i] ELSE m[i - Len(l)]
    <3>1. /\ x \in Seq(T) /\ Len(x) = Len(l) + Len(m)
          /\ \A i \in 1..Len(l) : x[i] = l[i]
          /\ \A i \in 1..Len(m) : x[Len(l) + i] = m[i]
      <4>1. l \in Seq(T) /\ m \in Seq(T) /\ x = l \o m
        BY <2>6, <2>8, <2>9
      <4>2. QED
        BY <4>1
    <3>2. ASSUME NEW i \in 1..Len(l) + Len(m), ~(i <= Len(l)) PROVE x[i] = m[i - Len(l)]
      <4>1. i - Len(l) \in 1..Len(m) /\ i = Len(l) + (i - Len(l))
        BY <2>10, <3>2
      <4>2. QED
        BY <3>1, <4>1
    <3>3. \A i \in 1..Len(l) + Len(m) : i <= Len(l) => x[i] = l[i]
      BY <2>10, <3>1
    <3>4. DOMAIN x = 1..Len(l) + Len(m)
      BY <3>1, LenProperties
    <3>5. QED
      BY <3>1, <3>2, <3>3, <3>4
  <2>12. \A i \in DOMAIN x : IF i <= Len(l) THEN i \in 1..p - 1 /\ x[i] = q[i]
                             ELSE /\ i - Len(l) \in DOMAIN m /\ p + (i - Len(l)) \in p + 1..Len(q)
                                  /\ x[i] = q[p + (i - Len(l))]
    <3>1. ASSUME NEW i \in DOMAIN x, i <= Len(l) PROVE i \in 1..p - 1 /\ x[i] = q[i]
      BY <2>8, <2>10, <2>11, <3>1
    <3>2. ASSUME NEW i \in DOMAIN x, ~(i <= Len(l))
          PROVE  /\ i - Len(l) \in DOMAIN m /\ p + (i - Len(l)) \in p + 1..Len(q)
                 /\ x[i] = q[p + (i - Len(l))]
      <4>1. i - Len(l) \in DOMAIN m /\ x[i] = m[i - Len(l)]
        BY <2>10, <2>11, <3>2
      <4>2. QED
        BY <2>9, <4>1
    <3>3. QED
      BY <3>1, <3>2
  <2>13. \A i \in DOMAIN x : \E j \in DOMAIN q : x[i] = q[j]
    BY <1>1, <2>5, <2>12
  <2>14. ASSUME Sorted(q, rank), NEW i \in DOMAIN x, NEW j \in DOMAIN x, i < j
         PROVE  rank[x[i]] <= rank[x[j]]
    <3>1. PICK a \in DOMAIN q, b \in DOMAIN q : x[i] = q[a] /\ x[j] = q[b] /\ a < b
      <4>1. /\ i \in Int /\ j \in Int /\ i >= 1 /\ i < j /\ p \in Int
            /\ Len(l) \in Nat /\ DOMAIN q = 1..Len(q) /\ p \in 1..Len(q) /\ Len(q) \in Nat
        BY <1>1, <2>5, <2>10, <2>11, <2>14, LenProperties
      <4>2. CASE j <= Len(l)
        <5>1. i <= Len(l)
          BY <4>1, <4>2
        <5>2. /\ i \in 1..p - 1 /\ x[i] = q[i]
              /\ j \in 1..p - 1 /\ x[j] = q[j]
          BY <2>12, <4>2, <5>1
        <5>3. i \in DOMAIN q /\ j \in DOMAIN q
          BY <4>1, <5>2
        <5>4. QED
          BY <4>1, <5>2, <5>3
      <4>3. CASE ~(j <= Len(l)) /\ i <= Len(l)
        <5>1. PICK b : b = p + (j - Len(l))
          OBVIOUS
        <5>2. /\ i \in 1..p - 1 /\ x[i] = q[i]
              /\ b \in p + 1..Len(q) /\ x[j] = q[b]
          BY <2>12, <4>3, <5>1
        <5>3. i \in DOMAIN q /\ b \in DOMAIN q /\ i < b
          BY <4>1, <5>2
        <5>4. QED
          BY <5>2, <5>3
      <4>4. CASE ~(j <= Len(l)) /\ ~(i <= Len(l))
        <5>1. PICK a : a = p + (i - Len(l))
          OBVIOUS
        <5>2. PICK b : b = p + (j - Len(l))
          OBVIOUS
        <5>3. /\ a \in p + 1..Len(q) /\ x[i] = q[a]
              /\ b \in p + 1..Len(q) /\ x[j] = q[b]
          BY <2>12, <4>4, <5>1, <5>2
        <5>4. a \in DOMAIN q /\ b \in DOMAIN q /\ a < b
          BY <4>1, <5>1, <5>2, <5>3
        <5>5. QED
          BY <5>3, <5>4
      <4>5. QED
        BY <4>1, <4>2, <4>3, <4>4
    <3>2. QED
      BY <2>14, <3>1 DEF Sorted
  <2>15. RemoveFirst(q, t) = x
    BY <2>3, <2>5, <2>6 DEF RemoveAt
  <2>16. Sorted(q, rank) => Sorted(x, rank)
    BY <2>14 DEF Sorted
  <2>17. ToSet(x) \subseteq ToSet(q)
    BY <2>13 DEF ToSet
  <2>18. QED
    BY <2>11, <2>15, <2>16, <2>17
<1>4. QED
  BY <1>2, <1>3
-----------------------------------------------------------------------------
(* The lists are in order, no thread is less urgent than an idle one, and  *)
(* on the CPUs outside N no ready thread is more urgent than the chosen    *)
(* one.                                                                    *)
Fit(s, N) ==
    /\ Shape(s) /\ s.rank \in [Threads -> 0..IdleRank] /\ \A d \in CPU : s.rank[Idle[d]] = IdleRank
    /\ \A d \in CPU : Sorted(s.ready[d], s.rank)
    /\ \A d \in CPU : d \notin N => \A t \in ToSet(s.ready[d]) : s.rank[s.chosen[d]] <= s.rank[t]

(* A change of one list and of the thread chosen there                     *)
Relisted(s, c, h, l, x) ==
    /\ DOMAIN x = Fields /\ SameAttributes(s, x) /\ Sorted(l, s.rank)
    /\ x.chosen = [s.chosen EXCEPT ![c] = h] /\ x.ready = [s.ready EXCEPT ![c] = l]

(* After such a change only that CPU may have to be notified, and not even *)
(* that one if the chosen thread is the most urgent.                       *)
LEMMA FitChange ==
  ASSUME NEW s, NEW x, NEW N, NEW c \in CPU, NEW h \in Threads \cup {Null}, NEW l \in Seq(Threads),
         Fit(s, N), Relisted(s, c, h, l, x)
  PROVE  /\ Fit(x, N \cup {c})
         /\ (\A t \in ToSet(l) : s.rank[h] <= s.rank[t]) => Fit(x, N \ {c})
         /\ (c \notin N => \A t \in ToSet(l) : s.rank[h] <= s.rank[t]) => Fit(x, N)
<1>1. Shape(x) /\ x.rank = s.rank
  BY DEF Fit, Shape, SameAttributes, Relisted
<1>2. x.ready[c] = l /\ x.chosen[c] = h
  BY DEF Fit, Shape, Relisted
<1>3. \A d \in CPU : d # c => x.ready[d] = s.ready[d] /\ x.chosen[d] = s.chosen[d]
  BY DEF Fit, Shape, Relisted
<1>4. \A d \in CPU : Sorted(x.ready[d], x.rank)
  BY <1>1, <1>2, <1>3 DEF Fit, Relisted
<1>5. ASSUME NEW M, \A d \in N : d # c => d \in M, c \in M \/ \A t \in ToSet(l) : s.rank[h] <= s.rank[t]
      PROVE  Fit(x, M)
  <2>1. ASSUME NEW d \in CPU, d \notin M, NEW t \in ToSet(x.ready[d]) PROVE x.rank[x.chosen[d]] <= x.rank[t]
    <3>1. CASE d = c
      BY <1>1, <1>2, <1>5, <2>1, <3>1
    <3>2. CASE d # c
      BY <1>1, <1>3, <1>5, <2>1, <3>2 DEF Fit
    <3>3. QED
      BY <3>1, <3>2
  <2>2. QED
    BY <1>1, <1>4, <2>1 DEF Fit
<1>6. Fit(x, N \cup {c})
  BY <1>5
<1>7. (\A t \in ToSet(l) : s.rank[h] <= s.rank[t]) => Fit(x, N \ {c})
  BY <1>5
<1>8. (c \notin N => \A t \in ToSet(l) : s.rank[h] <= s.rank[t]) => Fit(x, N)
  BY <1>5
<1>9. QED
  BY <1>6, <1>7, <1>8

(* A change of other attributes                                            *)
LEMMA FitSame ==
  ASSUME NEW s, NEW x, NEW N, NEW M, Fit(s, N), DOMAIN x = Fields, x.queue \in [Threads -> CPU],
         x.chosen = s.chosen, x.ready = s.ready, x.rank = s.rank, N \subseteq M
  PROVE  Fit(x, M)
BY DEF Fit, Shape

(* Base::insert() may put a more urgent thread in the list.                *)
LEMMA FitLink ==
  ASSUME NEW s, NEW N, NEW c \in CPU, NEW t \in Threads, Fit(s, N)
  PROVE  Fit(Link(s, c, t), N \cup {c}) /\ SameAttributes(s, Link(s, c, t))
<1>1. PICK x : x = Link(s, c, t)
  OBVIOUS
<1>2. Linked(s, c, t, x)
  BY <1>1, LinkFields DEF Fit, Shape
<1>3. /\ s.ready \in [CPU -> Seq(Threads)] /\ s.chosen \in [CPU -> Threads \cup {Null}]
      /\ s.rank \in [Threads -> Int] /\ Sorted(s.ready[c], s.rank)
  BY ThreadAssumption DEF Fit, Shape
<1>4. PICK l : l = OrderedInsert(s.ready[c], s.rank, t)
  OBVIOUS
<1>5. l \in Seq(Threads) /\ Sorted(l, s.rank)
  BY <1>3, <1>4, OrderedInsertElements, OrderedInsertSorted
<1>6. /\ DOMAIN x = Fields /\ SameAttributes(s, x) /\ x.chosen = s.chosen
      /\ x.ready = [s.ready EXCEPT ![c] = l]
  BY <1>2, <1>4 DEF Linked
<1>7. x.chosen = [s.chosen EXCEPT ![c] = s.chosen[c]] /\ s.chosen[c] \in Threads \cup {Null}
  BY <1>3, <1>6
<1>8. Fit(x, N \cup {c})
  <2>1. Relisted(s, c, s.chosen[c], l, x)
    BY <1>5, <1>6, <1>7 DEF Relisted
  <2>2. QED
    BY <1>5, <1>7, <2>1, FitChange, Zenon
<1>9. QED
  BY <1>1, <1>4, <1>6, <1>8

(* remove_head() leaves the first thread chosen.                           *)
LEMMA FitHead ==
  ASSUME NEW s, NEW N, NEW c \in CPU, Fit(s, N)
  PROVE  Fit(ChooseHead(s, c), N \ {c}) /\ SameAttributes(s, ChooseHead(s, c))
<1>1. PICK x : x = ChooseHead(s, c)
  OBVIOUS
<1>2. /\ DOMAIN s = Fields /\ s.ready \in [CPU -> Seq(Threads)] /\ s.chosen \in [CPU -> Threads \cup {Null}]
      /\ s.rank \in [Threads -> Int] /\ Sorted(s.ready[c], s.rank)
  BY ThreadAssumption DEF Fit, Shape
<1>3. CASE s.ready[c] = <<>>
  <2>1. x = [s EXCEPT !.chosen[c] = Null]
    BY <1>1, <1>3 DEF ChooseHead
  <2>2. DOMAIN x = Fields /\ SameAttributes(s, x) /\ x.ready = s.ready
    BY <1>2, <2>1 DEF Fields, SameAttributes
  <2>3. x.chosen = [s.chosen EXCEPT ![c] = Null]
    BY <1>2, <2>1 DEF Fields
  <2>4. x.ready = [s.ready EXCEPT ![c] = <<>>] /\ <<>> \in Seq(Threads)
    BY <1>2, <1>3, <2>2
  <2>5. Sorted(<<>>, s.rank) /\ ToSet(<<>>) = {}
    BY DEF Sorted, ToSet
  <2>6. Fit(x, N \ {c})
    <3>1. Relisted(s, c, Null, <<>>, x) /\ \A t \in ToSet(<<>>) : s.rank[Null] <= s.rank[t]
      BY <2>2, <2>3, <2>4, <2>5 DEF Relisted
    <3>2. Null \in Threads \cup {Null}
      OBVIOUS
    <3>3. QED
      BY <2>4, <3>1, <3>2, FitChange, Zenon
  <2>7. QED
    BY <1>1, <2>2, <2>6
<1>4. CASE s.ready[c] # <<>>
  <2>1. HeadChosen(s, c, x)
    BY <1>1, <1>2, <1>4, ChooseHeadFields
  <2>2. PICK l : l = s.ready[c]
    OBVIOUS
  <2>3. l \in Seq(Threads) /\ l # <<>> /\ Sorted(l, s.rank)
    BY <1>2, <1>4, <2>2
  <2>4. Head(l) \in Threads /\ Tail(l) \in Seq(Threads) /\ ToSet(Tail(l)) \subseteq ToSet(l)
    <3>1. Head(l) \in Threads /\ Tail(l) \in Seq(Threads)
      BY <2>3, HeadTailElements
    <3>2. Len(l) \in Nat /\ Len(Tail(l)) = Len(l) - 1 /\ \A i \in 1..Len(l) - 1 : Tail(l)[i] = l[i + 1]
      BY <2>3, HeadTailProperties, LenProperties, EmptySeq
    <3>3. DOMAIN Tail(l) = 1..Len(l) - 1 /\ DOMAIN l = 1..Len(l)
      BY <2>3, <3>1, <3>2, LenProperties
    <3>4. \A i \in DOMAIN Tail(l) : \E j \in DOMAIN l : Tail(l)[i] = l[j]
      BY <3>2, <3>3
    <3>5. QED
      BY <3>1, <3>4 DEF ToSet
  <2>5. Sorted(Tail(l), s.rank) /\ \A t \in ToSet(l) : s.rank[Head(l)] <= s.rank[t]
    BY <1>2, <2>3, TailSorted
  <2>6. /\ DOMAIN x = Fields /\ SameAttributes(s, x) /\ x.chosen = [s.chosen EXCEPT ![c] = Head(l)]
        /\ x.ready = [s.ready EXCEPT ![c] = Tail(l)]
    BY <2>1, <2>2 DEF HeadChosen
  <2>7. Fit(x, N \ {c})
    <3>1. Relisted(s, c, Head(l), Tail(l), x) /\ Head(l) \in Threads \cup {Null}
      BY <2>4, <2>5, <2>6 DEF Relisted
    <3>2. \A t \in ToSet(Tail(l)) : s.rank[Head(l)] <= s.rank[t]
      BY <2>4, <2>5
    <3>3. QED
      BY <2>4, <3>1, <3>2, FitChange, Zenon
  <2>8. QED
    BY <1>1, <2>6, <2>7
<1>5. QED
  BY <1>3, <1>4

(* Scheduler::insert() and resume(): the CPU of the thread may have to be  *)
(* notified.                                                               *)
LEMMA FitInsert ==
  ASSUME NEW s, NEW N, NEW t \in Threads, Fit(s, N)
  PROVE  /\ Fit(SchedulerInsert(s, t), N \cup {s.queue[t]})
         /\ SameAttributes(s, SchedulerInsert(s, t))
<1>1. PICK c \in CPU : c = s.queue[t]
  BY DEF Fit, Shape
<1>2. CASE s.chosen[c] # Null
  <2>1. SchedulerInsert(s, t) = Link(s, c, t)
    BY <1>1, <1>2 DEF SchedulerInsert
  <2>2. PICK x : x = Link(s, c, t)
    OBVIOUS
  <2>3. Fit(x, N \cup {c}) /\ SameAttributes(s, x)
    BY <2>2, FitLink, Zenon
  <2>4. QED
    BY <1>1, <2>1, <2>2, <2>3
<1>3. CASE s.chosen[c] = Null
  <2>1. PICK x : x = SchedulerInsert(s, t)
    OBVIOUS
  <2>2. x = [s EXCEPT !.chosen[c] = t] /\ DOMAIN s = Fields
    BY <1>1, <1>3, <2>1 DEF SchedulerInsert, Fit, Shape
  <2>3. DOMAIN x = Fields /\ SameAttributes(s, x) /\ x.ready = s.ready
    BY <2>2 DEF Fields, SameAttributes
  <2>4. x.chosen = [s.chosen EXCEPT ![c] = t]
    BY <2>2 DEF Fields
  <2>5. /\ x.ready = [s.ready EXCEPT ![c] = s.ready[c]] /\ s.ready[c] \in Seq(Threads)
        /\ Sorted(s.ready[c], s.rank)
    BY <2>3 DEF Fit, Shape
  <2>6. Fit(x, N \cup {c})
    <3>1. Relisted(s, c, t, s.ready[c], x) /\ t \in Threads \cup {Null}
      BY <2>3, <2>4, <2>5 DEF Relisted
    <3>2. QED
      BY <2>5, <3>1, FitChange, Zenon
  <2>7. QED
    BY <1>1, <2>1, <2>3, <2>6
<1>4. QED
  BY <1>2, <1>3

(* Scheduler::remove() and suspend(): nobody has to be notified.           *)
LEMMA FitRemove ==
  ASSUME NEW s, NEW N, NEW t \in Threads, Fit(s, N)
  PROVE  Fit(SchedulerRemove(s, t), N) /\ SameAttributes(s, SchedulerRemove(s, t))
<1>1. PICK c \in CPU : c = s.queue[t]
  BY DEF Fit, Shape
<1>2. CASE s.chosen[c] = t
  <2>1. SchedulerRemove(s, t) = ChooseHead(s, c)
    BY <1>1, <1>2 DEF SchedulerRemove
  <2>2. PICK x : x = ChooseHead(s, c)
    OBVIOUS
  <2>3. Fit(x, N \ {c}) /\ SameAttributes(s, x)
    BY <2>2, FitHead
  <2>4. Fit(x, N)
    BY <2>3 DEF Fit
  <2>5. QED
    BY <2>1, <2>2, <2>3, <2>4
<1>3. CASE s.chosen[c] # t
  <2>1. PICK x : x = SchedulerRemove(s, t)
    OBVIOUS
  <2>2. x = Unlink(s, c, t)
    BY <1>1, <1>3, <2>1 DEF SchedulerRemove
  <2>3. Unlinked(s, c, t, x)
    BY <2>2, UnlinkFields DEF Fit, Shape
  <2>4. PICK l : l = RemoveFirst(s.ready[c], t)
    OBVIOUS
  <2>5. s.ready[c] \in Seq(Threads) /\ Sorted(s.ready[c], s.rank)
    BY DEF Fit, Shape
  <2>6. l \in Seq(Threads) /\ Sorted(l, s.rank) /\ ToSet(l) \subseteq ToSet(s.ready[c])
    BY <2>4, <2>5, RemoveFirstSorted
  <2>7. /\ DOMAIN x = Fields /\ SameAttributes(s, x) /\ x.chosen = s.chosen
        /\ x.ready = [s.ready EXCEPT ![c] = l]
    BY <2>3, <2>4 DEF Unlinked
  <2>8. x.chosen = [s.chosen EXCEPT ![c] = s.chosen[c]] /\ s.chosen[c] \in Threads \cup {Null}
    BY <2>7 DEF Fit, Shape
  <2>9. c \notin N => \A u \in ToSet(l) : s.rank[s.chosen[c]] <= s.rank[u]
    BY <2>6 DEF Fit
  <2>10. Fit(x, N)
    <3>1. Relisted(s, c, s.chosen[c], l, x)
      BY <2>6, <2>7, <2>8 DEF Relisted
    <3>2. QED
      BY <2>6, <2>8, <2>9, <3>1, FitChange, Zenon
  <2>11. QED
    BY <2>1, <2>7, <2>10
<1>4. QED
  BY <1>2, <1>3

(* Scheduler::choose() leaves the most urgent thread chosen.               *)
LEMMA FitChoose ==
  ASSUME NEW s, NEW N, NEW c \in CPU, Fit(s, N), s.chosen[c] \in Threads, s.queue[s.chosen[c]] = c
  PROVE  Fit(Choose(s, c), N \ {c}) /\ SameAttributes(s, Choose(s, c))
<1>1. Rehome(s, c) = s
  BY DEF Rehome
<1>2. CASE s.ready[c] = <<>>
  <2>1. Choose(s, c) = s
    BY <1>1, <1>2 DEF Choose
  <2>2. ToSet(s.ready[c]) = {}
    BY <1>2 DEF ToSet
  <2>3. Fit(s, N \ {c})
    BY <2>2 DEF Fit
  <2>4. QED
    BY <2>1, <2>3 DEF SameAttributes
<1>3. CASE s.ready[c] # <<>>
  <2>1. PICK y : y = Link(s, c, s.chosen[c])
    OBVIOUS
  <2>2. Fit(y, N \cup {c}) /\ SameAttributes(s, y)
    BY <2>1, FitLink
  <2>3. PICK x : x = ChooseHead(y, c)
    OBVIOUS
  <2>4. Fit(x, (N \cup {c}) \ {c}) /\ SameAttributes(y, x)
    BY <2>2, <2>3, FitHead
  <2>5. Fit(x, N \ {c})
    BY <2>4 DEF Fit
  <2>6. SameAttributes(s, x)
    BY <2>2, <2>4 DEF SameAttributes
  <2>7. Choose(s, c) = x
    BY <1>1, <1>3, <2>1, <2>3 DEF Choose
  <2>8. QED
    BY <2>5, <2>6, <2>7
<1>4. QED
  BY <1>2, <1>3

(* Scheduler::choose_another(), as idle() uses it, does so too.            *)
LEMMA FitIdle ==
  ASSUME NEW s, NEW N, NEW c \in CPU, Fit(s, N), s.chosen[c] = Idle[c], s.queue[Idle[c]] = c
  PROVE  Fit(ChooseAnother(s, c), N \ {c}) /\ SameAttributes(s, ChooseAnother(s, c))
<1>1. Rehome(s, c) = s /\ Idle[c] \in Threads
  BY IdleFacts DEF Rehome
<1>2. /\ s.rank \in [Threads -> 0..IdleRank] /\ s.rank[Idle[c]] = IdleRank /\ IdleRank \in Nat
      /\ s.rank \in [Threads -> Int] /\ s.ready[c] \in Seq(Threads) /\ Sorted(s.ready[c], s.rank)
      /\ s.chosen \in [CPU -> Threads \cup {Null}]
  BY ThreadAssumption DEF Fit, Shape
<1>3. CASE s.ready[c] = <<>> \/ s.rank[Head(s.ready[c])] = IdleRank
  <2>1. ChooseAnother(s, c) = s
    BY <1>1, <1>3 DEF ChooseAnother
  <2>2. ASSUME NEW t \in ToSet(s.ready[c]) PROVE s.rank[s.chosen[c]] <= s.rank[t]
    <3>1. s.ready[c] # <<>>
      BY <2>2 DEF ToSet
    <3>2. s.rank[Head(s.ready[c])] <= s.rank[t]
      BY <1>2, <3>1, TailSorted
    <3>3. QED
      BY <1>2, <1>3, <3>1, <3>2
  <2>3. Fit(s, N \ {c})
    BY <2>2 DEF Fit
  <2>4. QED
    BY <2>1, <2>3 DEF SameAttributes
<1>4. CASE ~(s.ready[c] = <<>> \/ s.rank[Head(s.ready[c])] = IdleRank)
  <2>1. PICK y : y = ChooseHead(s, c)
    OBVIOUS
  <2>2. Fit(y, N \ {c}) /\ SameAttributes(s, y)
    BY <2>1, FitHead
  <2>3. PICK x : x = Link(y, c, Idle[c])
    OBVIOUS
  <2>4. /\ Fit(x, (N \ {c}) \cup {c}) /\ SameAttributes(y, x) /\ x.chosen = y.chosen
        /\ x.ready = [y.ready EXCEPT ![c] = OrderedInsert(y.ready[c], y.rank, Idle[c])]
    <3>1. Linked(y, c, Idle[c], x)
      BY <2>2, <2>3, LinkFields DEF Fit, Shape
    <3>2. Fit(x, (N \ {c}) \cup {c})
      BY <1>1, <2>2, <2>3, FitLink, Zenon
    <3>3. QED
      BY <3>1, <3>2 DEF Linked
  <2>5. y.ready \in [CPU -> Seq(Threads)]
    BY <2>2 DEF Fit, Shape
  <2>6. ToSet(x.ready[c]) = ToSet(y.ready[c]) \cup {Idle[c]}
    BY <1>1, <2>4, <2>5, OrderedInsertElements
  <2>7. x.chosen[c] \in Threads
    <3>1. HeadChosen(s, c, y)
      BY <1>4, <2>1, ChooseHeadFields DEF Fit, Shape
    <3>2. Head(s.ready[c]) \in Threads
      BY <1>2, <1>4, HeadTailElements
    <3>3. QED
      BY <1>2, <2>4, <3>1, <3>2 DEF HeadChosen
  <2>8. x.rank = s.rank /\ y.rank = s.rank
    BY <2>2, <2>4 DEF SameAttributes
  <2>9. x.rank[x.chosen[c]] <= x.rank[Idle[c]]
    BY <1>2, <2>7, <2>8
  <2>10. \A t \in ToSet(y.ready[c]) : x.rank[x.chosen[c]] <= x.rank[t]
    BY <2>2, <2>4, <2>8 DEF Fit
  <2>11. Fit(x, N \ {c})
    BY <2>4, <2>6, <2>9, <2>10 DEF Fit
  <2>12. ChooseAnother(s, c) = x
    BY <1>1, <1>4, <2>1, <2>3 DEF ChooseAnother
  <2>13. QED
    BY <2>2, <2>4, <2>11, <2>12 DEF SameAttributes
<1>5. QED
  BY <1>3, <1>4
=============================================================================
