------------------------ MODULE PriorityListsProofs ------------------------
(***************************************************************************)
(* Nobody sleeps while a reference waits, and an inversion of the          *)
(* priorities happens once per worker and reference: for all numbers of    *)
(* references and workers, with crashes and requeues.                      *)
(***************************************************************************)
EXTENDS PriorityLists, SequenceTheorems, FiniteSetTheorems,
        WellFoundedInduction, TLAPS

-----------------------------------------------------------------------------
(* Sequences.                                                              *)

LEMMA HasMin ==
  ASSUME NEW I, I \subseteq Nat, I # {}
  PROVE  Min(I) \in I /\ \A y \in I : Min(I) <= y
<1>1. PICK R : IsWellFoundedOn(R, Nat) /\ \A m, n \in Nat : m < n => <<m, n>> \in R
  <2>1. \A m, n \in Nat : m < n => <<m, n>> \in OpToRel(<, Nat)
    BY DEF OpToRel
  <2> QED BY <2>1, NatLessThanWellFounded
<1>2. PICK x \in I : \A y \in I : <<y, x>> \notin R
  <2>1. IsWellFoundedOn(R, Nat)
    BY <1>1
  <2> QED BY <2>1, WFMin
<1>3. \A y \in I : ~(y < x)
  BY <1>1, <1>2
<1>4. \A y \in I : x <= y
  BY <1>3
<1> QED
  BY <1>4 DEF Min

LEMMA ToSetSeq ==
  ASSUME NEW S, NEW s \in Seq(S), NEW x
  PROVE  x \in ToSet(s) <=> \E i \in 1..Len(s) : s[i] = x
BY LenProperties DEF ToSet

LEMMA ToSetRange ==
  ASSUME NEW S, NEW s \in Seq(S)
  PROVE  ToSet(s) \subseteq S
BY ToSetSeq, ElementOfSeq

LEMMA SingletonSeq ==
  ASSUME NEW S, NEW x \in S
  PROVE  <<x>> \in Seq(S) /\ ToSet(<<x>>) = {x}
<1>1. <<x>> \in Seq(S) /\ Len(<<x>>) = 1 /\ <<x>>[1] = x
  OBVIOUS
<1>2. \A y : y \in ToSet(<<x>>) <=> \E i \in 1..1 : <<x>>[i] = y
  BY <1>1, ToSetSeq
<1> QED BY <1>1, <1>2

LEMMA ReverseSeq ==
  ASSUME NEW S, NEW s \in Seq(S)
  PROVE  Reverse(s) \in Seq(S) /\ ToSet(Reverse(s)) = ToSet(s)
<1>1. PICK n \in Nat : n = Len(s)
  BY LenProperties
<1>2. \A i \in 1..n : n - i + 1 \in 1..n
  OBVIOUS
<1>3. PICK r : r = Reverse(s)
  OBVIOUS
<1>4. r = [i \in 1..n |-> s[n - i + 1]]
  BY <1>1, <1>3 DEF Reverse
<1>5. r \in [1..n -> S]
  BY <1>1, <1>2, <1>4, ElementOfSeq
<1>6. r \in Seq(S) /\ Len(r) = n
  BY <1>5
<1>7. ASSUME NEW x \in ToSet(r)
      PROVE  x \in ToSet(s)
  <2>1. PICK i \in 1..n : r[i] = x
    BY <1>6, ToSetSeq
  <2> QED BY <1>1, <1>2, <1>4, <2>1, ToSetSeq
<1>8. ASSUME NEW x \in ToSet(s)
      PROVE  x \in ToSet(r)
  <2>1. PICK i \in 1..n : s[i] = x
    BY <1>1, ToSetSeq
  <2>2. n - (n - i + 1) + 1 = i
    OBVIOUS
  <2>3. r[n - i + 1] = x
    BY <1>2, <1>4, <2>1, <2>2
  <2> QED BY <1>2, <1>6, <2>3, ToSetSeq
<1> QED BY <1>3, <1>6, <1>7, <1>8

LEMMA ConcatSet ==
  ASSUME NEW S, NEW s \in Seq(S), NEW t \in Seq(S)
  PROVE  s \o t \in Seq(S) /\ ToSet(s \o t) = ToSet(s) \cup ToSet(t)
<1>1. PICK p \in Nat, q \in Nat : p = Len(s) /\ q = Len(t)
  BY LenProperties
<1>2. PICK c : c = s \o t
  OBVIOUS
<1>3. /\ c \in Seq(S) /\ Len(c) = p + q
      /\ \A i \in 1..(p + q) : c[i] = IF i <= p THEN s[i] ELSE t[i - p]
  BY <1>1, <1>2, ConcatProperties
<1>4. ASSUME NEW x \in ToSet(c)
      PROVE  x \in ToSet(s) \cup ToSet(t)
  <2>1. PICK i \in 1..(p + q) : c[i] = x
    BY <1>3, ToSetSeq
  <2>2. CASE i <= p
    <3>1. i \in 1..p /\ s[i] = x
      BY <1>3, <2>1, <2>2
    <3> QED BY <1>1, <3>1, ToSetSeq
  <2>3. CASE ~(i <= p)
    <3>1. i - p \in 1..q /\ t[i - p] = x
      BY <1>3, <2>1, <2>3
    <3> QED BY <1>1, <3>1, ToSetSeq
  <2> QED BY <2>2, <2>3
<1>5. ASSUME NEW x \in ToSet(s)
      PROVE  x \in ToSet(c)
  <2>1. PICK i \in 1..p : s[i] = x
    BY <1>1, ToSetSeq
  <2>2. i \in 1..(p + q) /\ i <= p
    OBVIOUS
  <2>3. c[i] = x
    BY <1>3, <2>1, <2>2
  <2> QED BY <1>3, <2>2, <2>3, ToSetSeq
<1>6. ASSUME NEW x \in ToSet(t)
      PROVE  x \in ToSet(c)
  <2>1. PICK i \in 1..q : t[i] = x
    BY <1>1, ToSetSeq
  <2>2. PICK k \in 1..(p + q) : k = p + i /\ ~(k <= p) /\ k - p = i
    OBVIOUS
  <2>3. c[k] = x
    BY <1>3, <2>1, <2>2
  <2> QED BY <1>3, <2>3, ToSetSeq
<1> QED BY <1>2, <1>3, <1>4, <1>5, <1>6

\* A sequence in which every member of a finite set comes once.
LEMMA SetToSeqsSet ==
  ASSUME NEW S, NEW D \in SUBSET S, IsFiniteSet(D), NEW s \in SetToSeqs(D)
  PROVE  s \in Seq(S) /\ ToSet(s) = D
<1>1. PICK n \in Nat : n = Cardinality(D)
  BY FS_CardinalityType
<1>2. s \in [1..n -> D] /\ \A i, j \in 1..n : i # j => s[i] # s[j]
  BY <1>1 DEF SetToSeqs
<1>3. s \in Seq(D) /\ s \in Seq(S) /\ Len(s) = n
  BY <1>2
<1>4. ToSet(s) \subseteq D
  BY <1>3, ToSetRange
<1>5. s \in Injection(1..n, D)
  BY <1>2 DEF Injection, IsInjective
<1>6. IsFiniteSet(1..n) /\ Cardinality(1..n) = n
  <2>1. Cardinality(1..n) = IF 1 > n THEN 0 ELSE n - 1 + 1
    BY FS_Interval
  <2> QED BY <2>1, FS_Interval
<1>7. s \in Surjection(1..n, D)
  BY <1>1, <1>5, <1>6, FS_Injection
<1>8. D \subseteq ToSet(s)
  BY <1>3, <1>7, ToSetSeq DEF Surjection
<1> QED BY <1>3, <1>4, <1>8

\* What RemoveAt takes out, and what it leaves.
LEMMA RemoveAtSeq ==
  ASSUME NEW S, NEW s \in Seq(S), NEW k \in 1..Len(s)
  PROVE  /\ RemoveAt(s, k) \in Seq(S)
         /\ ToSet(RemoveAt(s, k)) \subseteq ToSet(s)
         /\ \A i \in 1..Len(s) : i # k => s[i] \in ToSet(RemoveAt(s, k))
<1>1. PICK n \in Nat : n = Len(s) /\ k \in 1..n
  BY LenProperties
<1>2. \A i \in 1..n : s[i] \in S
  BY <1>1, ElementOfSeq
<1>3. PICK a : a = SubSeq(s, 1, k - 1)
  OBVIOUS
<1>4. a \in Seq(S) /\ Len(a) = k - 1 /\ \A i \in 1..(k - 1) : a[i] = s[i]
  <2>1. \A i \in 1..(k - 1) : s[i] \in S
    BY <1>1, <1>2
  <2>2. /\ a \in Seq(S)
        /\ Len(a) = IF 1 <= k - 1 THEN k - 1 - 1 + 1 ELSE 0
        /\ \A i \in 1..(k - 1 - 1 + 1) : a[i] = s[1 + i - 1]
    BY <1>1, <1>3, <2>1, SubSeqProperties
  <2> QED BY <1>1, <2>2
<1>5. PICK b : b = SubSeq(s, k + 1, n)
  OBVIOUS
<1>6. b \in Seq(S) /\ Len(b) = n - k /\ \A i \in 1..(n - k) : b[i] = s[k + i]
  <2>1. \A i \in (k + 1)..n : s[i] \in S
    BY <1>1, <1>2
  <2>2. PICK m \in Int : m = k + 1
    BY <1>1
  <2>3. /\ b \in Seq(S)
        /\ Len(b) = IF m <= n THEN n - m + 1 ELSE 0
        /\ \A i \in 1..(n - m + 1) : b[i] = s[m + i - 1]
    BY <1>5, <2>1, <2>2, SubSeqProperties
  <2>4. n - m + 1 = n - k /\ (m > n => n - k = 0)
    BY <1>1, <2>2
  <2>5. ASSUME NEW i \in 1..(n - k)
        PROVE  b[i] = s[k + i]
    <3>1. m + i - 1 = k + i
      BY <2>2
    <3> QED BY <2>3, <2>4, <3>1
  <2>6. Len(b) = n - k
    BY <1>1, <2>2, <2>3, <2>4
  <2> QED BY <2>3, <2>5, <2>6
<1>7. PICK c : c = a \o b
  OBVIOUS
<1>8. /\ c \in Seq(S)
      /\ Len(c) = n - 1
      /\ \A i \in 1..(k - 1) : c[i] = s[i]
      /\ \A i \in k..(n - 1) : c[i] = s[i + 1]
  <2>0. PICK p \in Nat, q \in Nat : p = k - 1 /\ q = n - k /\ p + q = n - 1
    <3>1. k \in Int /\ 1 <= k /\ k <= n
      BY <1>1
    <3>2. k - 1 \in Nat /\ n - k \in Nat /\ k - 1 + (n - k) = n - 1
      BY <3>1
    <3> QED BY <3>2
  <2>1. /\ c \in Seq(S) /\ Len(c) = p + q
        /\ \A i \in 1..(p + q) : c[i] = IF i <= p THEN a[i] ELSE b[i - p]
    <3>1. Len(a) = p /\ Len(b) = q
      BY <1>4, <1>6, <2>0
    <3>2. /\ a \o b \in Seq(S) /\ Len(a \o b) = Len(a) + Len(b)
          /\ \A i \in 1..(Len(a) + Len(b)) :
               (a \o b)[i] = IF i <= Len(a) THEN a[i] ELSE b[i - Len(a)]
      BY <1>4, <1>6, ConcatProperties
    <3> QED BY <1>7, <3>1, <3>2
  <2>2. ASSUME NEW i \in 1..(k - 1)
        PROVE  c[i] = s[i]
    <3>1. i \in 1..(p + q) /\ i <= p
      BY <2>0
    <3> QED BY <1>4, <2>1, <3>1
  <2>3. ASSUME NEW i \in k..(n - 1)
        PROVE  c[i] = s[i + 1]
    <3>1. PICK l \in 1..q : l = i - p /\ k + l = i + 1 /\ ~(i <= p) /\ i \in 1..(p + q)
      BY <1>1, <2>0
    <3>2. c[i] = b[l]
      BY <2>1, <3>1
    <3>3. b[l] = s[k + l]
      BY <1>6, <2>0, <3>1
    <3> QED BY <3>1, <3>2, <3>3
  <2> QED BY <2>0, <2>1, <2>2, <2>3
<1>9. RemoveAt(s, k) = c
  BY <1>1, <1>3, <1>5, <1>7 DEF RemoveAt
<1>10. ToSet(c) \subseteq ToSet(s)
  <2> SUFFICES ASSUME NEW x \in ToSet(c)
               PROVE  x \in ToSet(s)
    OBVIOUS
  <2>1. PICK i \in 1..(n - 1) : c[i] = x
    BY <1>8, ToSetSeq
  <2>2. \E l \in 1..n : s[l] = x
    <3>1. CASE i <= k - 1
      BY <1>1, <1>8, <2>1, <3>1
    <3>2. CASE i >= k
      BY <1>1, <1>8, <2>1, <3>2
    <3> QED BY <1>1, <3>1, <3>2
  <2> QED BY <1>1, <2>2, ToSetSeq
<1>11. ASSUME NEW i \in 1..Len(s), i # k
       PROVE  s[i] \in ToSet(c)
  <2>1. CASE i < k
    <3>1. i \in 1..Len(c) /\ c[i] = s[i]
      BY <1>1, <1>8, <2>1
    <3> QED BY <1>8, <3>1, ToSetSeq
  <2>2. CASE i > k
    <3>1. i - 1 \in k..(n - 1)
      BY <1>1, <2>2
    <3>2. i - 1 \in 1..Len(c) /\ c[i - 1] = s[i]
      BY <1>1, <1>8, <2>2, <3>1
    <3> QED BY <1>8, <3>2, ToSetSeq
  <2> QED BY <1>1, <1>11, <2>1, <2>2
<1> QED
  BY <1>8, <1>9, <1>10, <1>11

\* What RemoveFirst takes out, and what it leaves.
LEMMA RemoveFirstSeq ==
  ASSUME NEW S, NEW s \in Seq(S), NEW e
  PROVE  /\ RemoveFirst(s, e) \in Seq(S)
         /\ ToSet(RemoveFirst(s, e)) \subseteq ToSet(s)
         /\ ToSet(s) \ {e} \subseteq ToSet(RemoveFirst(s, e))
<1>1. CASE ~ \E i \in 1..Len(s) : s[i] = e
  BY <1>1 DEF RemoveFirst
<1>2. CASE \E i \in 1..Len(s) : s[i] = e
  <2> DEFINE I == {i \in 1..Len(s) : s[i] = e}
  <2>1. I # {} /\ I \subseteq Nat
    BY <1>2
  <2>2. PICK k \in 1..Len(s) : k = Min(I) /\ s[k] = e
    BY <2>1, HasMin
  <2>3. SelectInSeq(s, LAMBDA v : v = e) = k
    BY <2>1, <2>2 DEF SelectInSeq
  <2>4. RemoveFirst(s, e) = RemoveAt(s, k)
    BY <1>2, <2>3 DEF RemoveFirst
  <2>5. ASSUME NEW x \in ToSet(s), x # e
        PROVE  x \in ToSet(RemoveAt(s, k))
    <3>1. PICK i \in 1..Len(s) : s[i] = x
      BY ToSetSeq
    <3>2. i # k
      BY <2>2, <2>5, <3>1
    <3> QED BY <3>1, <3>2, RemoveAtSeq
  <2> QED BY <2>4, <2>5, RemoveAtSeq
<1> QED BY <1>1, <1>2

-----------------------------------------------------------------------------
(* The invariant.                                                          *)

Points == Tiers \cup {"brpop", "blocked", "popped", "working"}

Typed ==
  /\ lists \in [Tiers -> Seq(Refs)]
  /\ blocked \in Seq(Workers)
  /\ at \in [Workers -> Points]
  /\ delayed \subseteq Refs
  /\ IsFiniteSet(delayed)
  /\ moving \in Refs \cup {NoRef}
  /\ passed \subseteq Workers \X Refs

\* A reference is in one place.
Apart ==
  /\ moving \notin delayed
  /\ \A t \in Tiers : Waiting(t) \cap (delayed \cup {moving}) = {}

\* What a worker has passed over is still waiting, and not where the worker
\* has looked since: its scan begins anew at queue:high, and goes on to a list
\* when the ones above are empty.
Noted ==
  \A w \in Workers, r \in Refs : <<w, r>> \in passed =>
    /\ \E t \in Tiers : r \in Waiting(t)
    /\ at[w] \in Tiers => \A t \in Above[at[w]] : r \notin Waiting(t)

ListsInv == Typed /\ NoSleepWhileWaiting /\ Apart /\ Noted

LEMMA ListsInit == Init => ListsInv
<1> SUFFICES ASSUME Init
             PROVE  ListsInv
  OBVIOUS
<1>1. \A t \in Tiers : Waiting(t) = {}
  BY DEF Init, Waiting, ToSet
<1>2. IsFiniteSet({})
  BY FS_EmptySet
<1> QED
  BY <1>1, <1>2 DEF Init, ListsInv, Typed, NoSleepWhileWaiting, Apart, Noted, Points, Tiers

-----------------------------------------------------------------------------
(* Pushing.                                                                *)

\* What is left of a sequence whose right end is cut off.
LEMMA PrefixSeq ==
  ASSUME NEW S, NEW s \in Seq(S), NEW l \in Nat, l <= Len(s)
  PROVE  /\ SubSeq(s, 1, l) \in Seq(S)
         /\ Len(SubSeq(s, 1, l)) = l
         /\ \A i \in 1..l : SubSeq(s, 1, l)[i] = s[i]
         /\ ToSet(SubSeq(s, 1, l)) \subseteq ToSet(s)
         /\ l = 0 => SubSeq(s, 1, l) = <<>>
<1>1. \A i \in 1..l : i \in 1..Len(s) /\ s[i] \in S
  BY LenProperties, ElementOfSeq
<1>2. PICK p : p = SubSeq(s, 1, l)
  OBVIOUS
<1>3. /\ p \in Seq(S)
      /\ Len(p) = l
      /\ \A i \in 1..l : p[i] = s[i]
  <2>1. /\ p \in Seq(S)
        /\ Len(p) = IF 1 <= l THEN l - 1 + 1 ELSE 0
        /\ \A i \in 1..(l - 1 + 1) : p[i] = s[1 + i - 1]
    BY <1>1, <1>2, SubSeqProperties
  <2> QED BY <2>1
<1>4. ToSet(p) \subseteq ToSet(s)
  <2> SUFFICES ASSUME NEW x \in ToSet(p)
               PROVE  x \in ToSet(s)
    OBVIOUS
  <2>1. PICK i \in 1..l : p[i] = x
    BY <1>3, ToSetSeq
  <2> QED BY <1>1, <1>3, <2>1, ToSetSeq
<1>5. l = 0 => p = <<>>
  BY <1>3, EmptySeq
<1> QED BY <1>2, <1>3, <1>4, <1>5

\* What Front takes off, and what it leaves.
LEMMA FrontSeq ==
  ASSUME NEW S, NEW s \in Seq(S), s # <<>>
  PROVE  /\ Last(s) \in S
         /\ Front(s) \in Seq(S)
         /\ ToSet(Front(s)) \subseteq ToSet(s)
         /\ ToSet(s) \ {Last(s)} \subseteq ToSet(Front(s))
<1>1. PICK n \in Nat : n = Len(s) /\ n # 0
  BY EmptySeq, LenProperties
<1>2. PICK l \in Nat : l = n - 1 /\ l <= n
  BY <1>1
<1>3. PICK f \in Seq(S) : /\ f = Front(s) /\ Len(f) = l
                          /\ \A i \in 1..l : f[i] = s[i]
                          /\ ToSet(f) \subseteq ToSet(s)
  BY <1>1, <1>2, PrefixSeq DEF Front
<1>4. ASSUME NEW x \in ToSet(s), x # s[n]
      PROVE  x \in ToSet(f)
  <2>1. PICK i \in 1..n : s[i] = x
    BY <1>1, ToSetSeq
  <2>2. i \in 1..l /\ f[i] = x
    BY <1>2, <1>3, <1>4, <2>1
  <2> QED BY <1>3, <2>2, ToSetSeq
<1> QED BY <1>1, <1>3, <1>4, ElementOfSeq DEF Last

LEMMA SuffixSeq ==
  ASSUME NEW S, NEW s \in Seq(S), NEW n \in Nat, n <= Len(s)
  PROVE  /\ SubSeq(s, n + 1, Len(s)) \in Seq(S)
         /\ n = Len(s) => SubSeq(s, n + 1, Len(s)) = <<>>
         /\ n = 0 => SubSeq(s, n + 1, Len(s)) = s
<1>1. PICK l \in Nat : l = Len(s)
  BY LenProperties
<1>2. PICK m \in Int : m = n + 1
  OBVIOUS
<1>3. \A i \in m..l : s[i] \in S
  BY <1>1, <1>2, ElementOfSeq
<1>4. SubSeq(s, m, l) \in Seq(S)
  BY <1>1, <1>2, <1>3, SubSeqProperties
<1>5. n = l => SubSeq(s, m, l) = <<>>
  BY <1>1, <1>2, SubSeqEmpty
<1>6. n = 0 => SubSeq(s, m, l) = s
  BY <1>1, <1>2, SubSeqFull
<1> QED BY <1>1, <1>2, <1>4, <1>5, <1>6

\* Redis serves as many of the blocked workers as there are references, and
\* those who go on waiting have emptied the list.
LEMMA ArriveEffect ==
  ASSUME Typed, NoSleepWhileWaiting,
         NEW t \in Tiers, NEW list \in Seq(Refs), Arrive(t, list)
  PROVE  /\ lists' \in [Tiers -> Seq(Refs)]
         /\ blocked' \in Seq(Workers)
         /\ at' \in [Workers -> Points]
         /\ NoSleepWhileWaiting'
         /\ \A u \in Tiers \ {t} : lists'[u] = lists[u]
         /\ ToSet(lists'[t]) \subseteq ToSet(list)
         /\ blocked = <<>> => lists'[t] = list
         /\ \A w \in Workers : at'[w] \in {at[w], "popped"}
<1> DEFINE n == IF Len(list) < Len(blocked) THEN Len(list) ELSE Len(blocked)
<1>1. Len(list) \in Nat /\ Len(blocked) \in Nat
  BY LenProperties DEF Typed
<1>2. PICK l \in Nat, b \in Nat, m \in Nat :
        /\ l = Len(list) /\ b = Len(blocked) /\ m = n
        /\ m <= l /\ m <= b /\ l - m \in Nat
        /\ m = l \/ m = b
  BY <1>1
<1>3. /\ lists' = [lists EXCEPT ![t] = SubSeq(list, 1, l - m)]
      /\ blocked' = SubSeq(blocked, m + 1, b)
  BY <1>2 DEF Arrive
<1>4. /\ SubSeq(list, 1, l - m) \in Seq(Refs)
      /\ ToSet(SubSeq(list, 1, l - m)) \subseteq ToSet(list)
      /\ l - m = 0 => SubSeq(list, 1, l - m) = <<>>
      /\ m = 0 => SubSeq(list, 1, l - m) = list
  <2>1. PICK k \in Nat : k = l - m /\ k <= l
    <3>1. l - m \in Nat
      BY <1>2
    <3>2. l - m <= l
      OBVIOUS
    <3> QED BY <3>1, <3>2
  <2>2. m = 0 => k = l
    BY <2>1
  <2> QED BY <1>2, <2>1, <2>2, PrefixSeq, SubSeqFull
<1>5. /\ blocked' \in Seq(Workers)
      /\ m = b => blocked' = <<>>
  BY <1>2, <1>3, SuffixSeq DEF Typed
<1>6. /\ lists' \in [Tiers -> Seq(Refs)]
      /\ lists'[t] = SubSeq(list, 1, l - m)
      /\ \A u \in Tiers \ {t} : lists'[u] = lists[u]
  BY <1>3, <1>4 DEF Typed
<1>7. at' \in [Workers -> Points] /\ \A w \in Workers : at'[w] \in {at[w], "popped"}
  BY DEF Arrive, Typed, Points
<1>8. blocked = <<>> => m = 0
  BY <1>2, EmptySeq
<1>9. NoSleepWhileWaiting'
  <2> SUFFICES ASSUME blocked' # <<>>
               PROVE  \A u \in Tiers : lists'[u] = <<>>
    BY DEF NoSleepWhileWaiting
  <2>1. m = l /\ l - m = 0
    BY <1>2, <1>5
  <2>2. blocked # <<>>
    <3>1. m # b
      BY <1>5
    <3> QED BY <1>2, <1>8, <3>1, EmptySeq
  <2> QED BY <1>4, <1>6, <2>1, <2>2 DEF NoSleepWhileWaiting
<1> QED BY <1>4, <1>5, <1>6, <1>7, <1>8, <1>9

LEMMA WaitingRefs ==
  ASSUME Typed
  PROVE  /\ \A t \in Tiers : Waiting(t) \subseteq Refs
         /\ \A t \in Tiers : lists[t] = <<>> => Waiting(t) = {}
<1>1. \A t \in Tiers : lists[t] \in Seq(Refs)
  BY DEF Typed
<1>2. ASSUME NEW t \in Tiers, NEW x \in Waiting(t)
      PROVE  x \in Refs /\ lists[t] # <<>>
  <2>1. PICK i \in 1..Len(lists[t]) : lists[t][i] = x
    BY <1>1, <1>2, ToSetSeq DEF Waiting
  <2>2. Len(lists[t]) # 0
    BY <1>1, <2>1, LenProperties
  <2> QED BY <1>1, <2>1, <2>2, ElementOfSeq, EmptySeq
<1> QED BY <1>2

\* New references B are added to the list of a tier.
LEMMA PushPreserves ==
  ASSUME ListsInv,
         NEW t \in Tiers, NEW list \in Seq(Refs), NEW B \in SUBSET Refs,
         Arrive(t, list),
         ToSet(list) = Waiting(t) \cup B,
         \A u \in Tiers : B \cap Waiting(u) = {},
         B \cap (delayed' \cup {moving'}) = {},
         delayed' \subseteq delayed, moving' \in {moving, NoRef},
         passed' = passed
  PROVE  ListsInv'
<1> USE DEF ListsInv
<1>1. /\ lists' \in [Tiers -> Seq(Refs)]
      /\ blocked' \in Seq(Workers)
      /\ at' \in [Workers -> Points]
      /\ NoSleepWhileWaiting'
      /\ \A u \in Tiers \ {t} : lists'[u] = lists[u]
      /\ ToSet(lists'[t]) \subseteq ToSet(list)
      /\ blocked = <<>> => lists'[t] = list
      /\ \A w \in Workers : at'[w] \in {at[w], "popped"}
  BY ArriveEffect
<1>2. IsFiniteSet(delayed')
  BY FS_Subset DEF Typed
<1>3. Typed'
  BY <1>1, <1>2 DEF Typed
<1>4. \A u \in Tiers : Waiting(u)' \subseteq Waiting(u) \cup B
  BY <1>1 DEF Waiting
<1>5. \A u \in Tiers : NoRef \notin Waiting(u)'
  BY <1>1, ToSetRange, ListsAssumption DEF Waiting
<1>6. Apart'
  <2>1. moving' \notin delayed'
    BY ListsAssumption DEF Apart, Typed
  <2>2. ASSUME NEW u \in Tiers
        PROVE  Waiting(u)' \cap (delayed' \cup {moving'}) = {}
    BY <1>4, <1>5 DEF Apart
  <2> QED BY <2>1, <2>2 DEF Apart
<1>7. Noted'
  <2> SUFFICES ASSUME NEW w \in Workers, NEW r \in Refs, <<w, r>> \in passed
               PROVE  /\ \E u \in Tiers : r \in Waiting(u)'
                      /\ at'[w] \in Tiers => \A u \in Above[at'[w]] : r \notin Waiting(u)'
    BY DEF Noted
  <2>1. PICK s \in Tiers : r \in Waiting(s)
    BY DEF Noted
  <2>2. blocked = <<>>
    BY <2>1, WaitingRefs DEF NoSleepWhileWaiting
  <2>3. r \in Waiting(s)'
    BY <1>1, <2>1, <2>2 DEF Waiting
  <2>4. ASSUME at'[w] \in Tiers, NEW u \in Above[at'[w]]
        PROVE  r \notin Waiting(u)'
    <3>1. at'[w] = at[w] /\ u \in Tiers
      BY <1>1, <2>4 DEF Tiers, Above
    <3> QED BY <1>4, <2>1, <2>4, <3>1 DEF Noted
  <2> QED BY <2>3, <2>4
<1> QED BY <1>1, <1>3, <1>6, <1>7

-----------------------------------------------------------------------------
(* The steps.                                                              *)

LEMMA FreeRefs ==
  ASSUME NEW r \in Free
  PROVE  /\ r \in Refs /\ r \notin delayed /\ r # moving
         /\ \A t \in Tiers : r \notin Waiting(t)
BY DEF Free

LEMMA EnqueueStep ==
  ASSUME ListsInv, NEW r \in Refs, NEW t \in Tiers, Enqueue(r, t)
  PROVE  ListsInv'
<1>1. r \in Free /\ UNCHANGED <<delayed, moving, passed>>
  BY DEF Enqueue
<1>2. PICK list : list = Reverse(<<r>>) \o lists[t] /\ Arrive(t, list)
  BY DEF Enqueue, Push
<1>3. lists[t] \in Seq(Refs)
  BY DEF ListsInv, Typed
<1>4. Reverse(<<r>>) \in Seq(Refs) /\ ToSet(Reverse(<<r>>)) = {r}
  BY ReverseSeq, SingletonSeq
<1>5. list \in Seq(Refs) /\ ToSet(list) = Waiting(t) \cup {r}
  BY <1>2, <1>3, <1>4, ConcatSet DEF Waiting
<1>6. /\ \A u \in Tiers : {r} \cap Waiting(u) = {}
      /\ {r} \cap (delayed' \cup {moving'}) = {}
      /\ delayed' \subseteq delayed /\ moving' \in {moving, NoRef}
  BY <1>1, FreeRefs
<1> QED
  BY <1>1, <1>2, <1>5, <1>6, PushPreserves

LEMMA PromoteStep ==
  ASSUME ListsInv, Promote
  PROVE  ListsInv'
<1>1. PICK due \in SUBSET delayed :
        /\ \E batch \in SetToSeqs(due) : Push("default", batch)
        /\ delayed' = delayed \ due
  BY DEF Promote
<1>2. UNCHANGED <<moving, passed>>
  BY DEF Promote
<1>3. PICK batch \in SetToSeqs(due) : Push("default", batch)
  BY <1>1
<1>4. due \in SUBSET Refs /\ IsFiniteSet(due)
  BY FS_Subset DEF ListsInv, Typed
<1>5. Reverse(batch) \in Seq(Refs) /\ ToSet(Reverse(batch)) = due
  BY <1>3, <1>4, SetToSeqsSet, ReverseSeq
<1>6. PICK list : list = Reverse(batch) \o lists["default"] /\ Arrive("default", list)
  BY <1>3 DEF Push
<1>7. "default" \in Tiers /\ lists["default"] \in Seq(Refs)
  BY DEF ListsInv, Typed, Tiers
<1>8. list \in Seq(Refs) /\ ToSet(list) = Waiting("default") \cup due
  BY <1>5, <1>6, <1>7, ConcatSet DEF Waiting
<1>9. /\ \A u \in Tiers : due \cap Waiting(u) = {}
      /\ due \cap (delayed' \cup {moving'}) = {}
      /\ delayed' \subseteq delayed /\ moving' \in {moving, NoRef}
  BY <1>1, <1>2 DEF ListsInv, Apart
<1> QED
  BY <1>2, <1>4, <1>6, <1>7, <1>8, <1>9, PushPreserves

LEMMA RequeuePushesStep ==
  ASSUME ListsInv, RequeuePushes
  PROVE  ListsInv'
<1>1. moving \in Refs /\ moving' = NoRef /\ UNCHANGED <<delayed, passed>>
  BY DEF RequeuePushes, ListsInv, Typed
<1>2. "default" \in Tiers /\ lists["default"] \in Seq(Refs)
  BY DEF ListsInv, Typed, Tiers
<1>3. PICK list : list = Append(lists["default"], moving) /\ Arrive("default", list)
  BY DEF RequeuePushes
<1>4. list = lists["default"] \o <<moving>>
  BY <1>1, <1>2, <1>3, AppendIsConcat
<1>5. list \in Seq(Refs) /\ ToSet(list) = Waiting("default") \cup {moving}
  <2>1. PICK last \in Seq(Refs) : last = <<moving>> /\ ToSet(last) = {moving}
    BY <1>1, SingletonSeq
  <2>2. PICK rest \in Seq(Refs) : rest = lists["default"] /\ list = rest \o last
    BY <1>2, <1>4, <2>1
  <2>3. rest \o last \in Seq(Refs) /\ ToSet(rest \o last) = ToSet(rest) \cup ToSet(last)
    BY ConcatSet
  <2> QED BY <2>1, <2>2, <2>3 DEF Waiting
<1>6. /\ \A u \in Tiers : {moving} \cap Waiting(u) = {}
      /\ {moving} \cap (delayed' \cup {moving'}) = {}
  BY <1>1, ListsAssumption DEF ListsInv, Apart
<1> QED
  BY <1>1, <1>2, <1>3, <1>5, <1>6, PushPreserves

\* The lists do not grow, and what leaves them is struck off the notes.
LEMMA TakingPreserves ==
  ASSUME ListsInv, Typed', NEW r \in Refs,
         \A t \in Tiers : Waiting(t)' \subseteq Waiting(t) /\ Waiting(t) \ {r} \subseteq Waiting(t)',
         \A t \in Tiers : lists[t] = <<>> => lists'[t] = <<>>,
         UNCHANGED <<delayed, blocked, moving>>,
         \A w \in Workers, x \in Refs : <<w, x>> \in passed' =>
           /\ x # r /\ \E t \in Tiers : x \in Waiting(t)
           /\ at'[w] \in Tiers => at'[w] = at[w] /\ <<w, x>> \in passed
  PROVE  ListsInv'
<1>1. NoSleepWhileWaiting'
  BY DEF ListsInv, NoSleepWhileWaiting
<1>2. Apart'
  BY DEF ListsInv, Apart
<1>3. Noted'
  <2> SUFFICES ASSUME NEW w \in Workers, NEW x \in Refs, <<w, x>> \in passed'
               PROVE  /\ \E t \in Tiers : x \in Waiting(t)'
                      /\ at'[w] \in Tiers => \A t \in Above[at'[w]] : x \notin Waiting(t)'
    BY DEF Noted
  <2>1. \E t \in Tiers : x \in Waiting(t)'
    OBVIOUS
  <2>2. ASSUME at'[w] \in Tiers, NEW t \in Above[at'[w]]
        PROVE  x \notin Waiting(t)'
    <3>1. t \in Tiers
      BY <2>2 DEF Tiers, Above
    <3>2. x \notin Waiting(t)
      BY <2>2, <3>1 DEF ListsInv, Noted
    <3> QED BY <3>1, <3>2
  <2> QED BY <2>1, <2>2
<1> QED BY <1>1, <1>2, <1>3 DEF ListsInv

LEMMA CancelStep ==
  ASSUME ListsInv, NEW r \in Refs, NEW t \in Tiers, Cancel(r, t)
  PROVE  ListsInv'
<1>1. /\ r \in Waiting(t)
      /\ lists' = [lists EXCEPT ![t] = RemoveFirst(@, r)]
      /\ passed' = passed \ (Workers \X {r})
      /\ UNCHANGED <<delayed, at, blocked, moving>>
  BY DEF Cancel
<1>2. lists \in [Tiers -> Seq(Refs)]
  BY DEF ListsInv, Typed
<1>3. PICK rest \in Seq(Refs) : /\ rest = RemoveFirst(lists[t], r)
                                /\ ToSet(rest) \subseteq ToSet(lists[t])
                                /\ ToSet(lists[t]) \ {r} \subseteq ToSet(rest)
  BY <1>2, RemoveFirstSeq
<1>4. lists' = [lists EXCEPT ![t] = rest]
  BY <1>1, <1>3
<1>5. Typed'
  BY <1>1, <1>2, <1>4 DEF ListsInv, Typed
<1>6. \A u \in Tiers : Waiting(u)' \subseteq Waiting(u) /\ Waiting(u) \ {r} \subseteq Waiting(u)'
  BY <1>2, <1>3, <1>4 DEF Waiting
<1>7. \A u \in Tiers : lists[u] = <<>> => lists'[u] = <<>>
  <2>1. lists[t] # <<>>
    BY <1>1, WaitingRefs DEF ListsInv
  <2> QED BY <1>2, <1>4, <2>1
<1>8. \A w \in Workers, x \in Refs : <<w, x>> \in passed' =>
        x # r /\ <<w, x>> \in passed /\ \E u \in Tiers : x \in Waiting(u)
  BY <1>1 DEF ListsInv, Noted
<1> QED
  BY <1>1, <1>5, <1>6, <1>7, <1>8, TakingPreserves

LEMMA TakeStep ==
  ASSUME ListsInv, NEW w \in Workers, NEW t \in Tiers,
         NEW to \in {"working", "popped"}, TakeFrom(w, t, to)
  PROVE  ListsInv'
<1>1. /\ lists[t] # <<>>
      /\ lists' = [lists EXCEPT ![t] = Front(@)]
      /\ at' = [at EXCEPT ![w] = to]
      /\ passed' = (passed \cup Overtaken(w, t)) \ (Workers \X {Last(lists[t])})
      /\ UNCHANGED <<delayed, blocked, moving>>
  BY DEF TakeFrom
<1>2. lists \in [Tiers -> Seq(Refs)] /\ at \in [Workers -> Points]
  BY DEF ListsInv, Typed
<1>3. PICK r \in Refs : /\ r = Last(lists[t])
                        /\ Front(lists[t]) \in Seq(Refs)
                        /\ ToSet(Front(lists[t])) \subseteq ToSet(lists[t])
                        /\ ToSet(lists[t]) \ {r} \subseteq ToSet(Front(lists[t]))
  BY <1>1, <1>2, FrontSeq
<1>4. \A u \in Tiers : Waiting(u)' \subseteq Waiting(u) /\ Waiting(u) \ {r} \subseteq Waiting(u)'
  BY <1>1, <1>2, <1>3 DEF Waiting
<1>5. Overtaken(w, t) \subseteq Workers \X Refs
      /\ \A e \in Overtaken(w, t) : e[1] = w /\ \E u \in Tiers : e[2] \in Waiting(u)
  <2>1. \A u \in Above[t] : u \in Tiers /\ Waiting(u) \subseteq Refs
    BY WaitingRefs DEF ListsInv, Above, Tiers
  <2> QED BY <2>1 DEF Overtaken
<1>6. Typed'
  BY <1>1, <1>2, <1>3, <1>5 DEF ListsInv, Typed, Points
<1>7. \A u \in Tiers : lists[u] = <<>> => lists'[u] = <<>>
  BY <1>1, <1>2
<1>8. ASSUME NEW v \in Workers, NEW x \in Refs, <<v, x>> \in passed'
      PROVE  /\ x # r /\ \E u \in Tiers : x \in Waiting(u)
             /\ at'[v] \in Tiers => at'[v] = at[v] /\ <<v, x>> \in passed
  <2>1. x # r /\ (<<v, x>> \in passed \/ <<v, x>> \in Overtaken(w, t))
    BY <1>1, <1>3, <1>8
  <2>2. \E u \in Tiers : x \in Waiting(u)
    BY <1>5, <2>1 DEF ListsInv, Noted
  <2>3. at'[v] \in Tiers => v # w
    BY <1>1, <1>2 DEF Tiers
  <2>4. v # w => <<v, x>> \in passed /\ at'[v] = at[v]
    BY <1>1, <1>2, <1>5, <2>1
  <2> QED BY <2>1, <2>2, <2>3, <2>4
<1> QED
  BY <1>1, <1>4, <1>6, <1>7, <1>8, TakingPreserves

\* Nothing is added to a list or to the notes, and only a worker whose scan
\* begins anew, or goes on from an empty list, looks elsewhere.
LEMMA ListsUntouched ==
  ASSUME ListsInv, Typed', NoSleepWhileWaiting', Apart',
         UNCHANGED <<lists, passed>>,
         \A w \in Workers : at'[w] \in Tiers =>
           \/ at'[w] = at[w]
           \/ at'[w] = "high"
           \/ /\ at[w] \in Tiers /\ lists[at[w]] = <<>>
              /\ Above[at'[w]] = Above[at[w]] \cup {at[w]}
  PROVE  ListsInv'
<1>1. \A t \in Tiers : Waiting(t)' = Waiting(t)
  BY DEF Waiting
<1>2. ASSUME NEW w \in Workers, NEW r \in Refs, <<w, r>> \in passed', at'[w] \in Tiers,
             NEW t \in Above[at'[w]]
      PROVE  r \notin Waiting(t)'
  <2>1. t \in Tiers /\ at'[w] # "high"
    BY <1>2 DEF Tiers, Above
  <2>2. CASE at'[w] = at[w]
    BY <1>1, <1>2, <2>1, <2>2 DEF ListsInv, Noted
  <2>3. CASE /\ at[w] \in Tiers /\ lists[at[w]] = <<>>
             /\ Above[at'[w]] = Above[at[w]] \cup {at[w]}
    <3>1. CASE t = at[w]
      BY <1>1, <2>3, <3>1, WaitingRefs DEF ListsInv
    <3>2. CASE t \in Above[at[w]]
      BY <1>1, <1>2, <2>1, <2>3, <3>2 DEF ListsInv, Noted
    <3> QED BY <1>2, <2>3, <3>1, <3>2
  <2> QED BY <1>2, <2>1, <2>2, <2>3
<1>3. \A w \in Workers, r \in Refs : <<w, r>> \in passed' => \E t \in Tiers : r \in Waiting(t)'
  BY <1>1 DEF ListsInv, Noted
<1> QED BY <1>2, <1>3 DEF ListsInv, Noted

LEMMA WorkerStepKeeps ==
  ASSUME ListsInv, NEW w \in Workers, WorkerStep(w) \/ Crash(w)
  PROVE  ListsInv'
<1> USE DEF ListsInv
<1>0. at \in [Workers -> Points] /\ blocked \in Seq(Workers) /\ UNCHANGED lists => \A t \in Tiers : Waiting(t)' = Waiting(t)
  BY DEF Waiting
<1>1. CASE Reserve(w)
  BY <1>1, TakeStep DEF Reserve
<1>2. CASE LookOn(w)
  <2>1. /\ at[w] \in Tiers /\ lists[at[w]] = <<>>
        /\ at' = [at EXCEPT ![w] = NextLook[at[w]]]
        /\ UNCHANGED <<lists, delayed, blocked, moving, passed>>
    BY <1>2 DEF LookOn
  <2>2. NextLook[at[w]] \in Points
    BY <2>1 DEF NextLook, Tiers, Points
  <2>3. Typed'
    BY <2>1, <2>2 DEF Typed
  <2>4. NoSleepWhileWaiting' /\ Apart'
    BY <1>0, <2>1 DEF NoSleepWhileWaiting, Apart, Typed
  <2>5. NextLook[at[w]] \in Tiers => Above[NextLook[at[w]]] = Above[at[w]] \cup {at[w]}
    BY <2>1 DEF NextLook, Tiers, Above
  <2> QED BY <2>1, <2>3, <2>4, <2>5, ListsUntouched DEF Typed
<1>3. CASE PopFirst(w)
  BY <1>3, TakeStep DEF PopFirst
<1>4. CASE Block(w)
  <2>1. /\ \A t \in Tiers : lists[t] = <<>>
        /\ at' = [at EXCEPT ![w] = "blocked"]
        /\ blocked' = Append(blocked, w)
        /\ UNCHANGED <<lists, delayed, moving, passed>>
    BY <1>4 DEF Block
  <2>2. Typed'
    BY <2>1 DEF Typed, Points
  <2>3. NoSleepWhileWaiting' /\ Apart'
    BY <1>0, <2>1 DEF NoSleepWhileWaiting, Apart, Typed
  <2> QED BY <2>1, <2>2, <2>3, ListsUntouched DEF Typed, Tiers
<1>5. ASSUME UNCHANGED <<lists, delayed, moving, passed>>,
             at' = [at EXCEPT ![w] = "high"], blocked' = RemoveFirst(blocked, w)
      PROVE  ListsInv'
  <2>1. Typed'
    BY <1>5, RemoveFirstSeq DEF Typed, Points, Tiers
  <2>2. blocked = <<>> => blocked' = <<>>
    BY <1>5, EmptySeq DEF RemoveFirst
  <2>3. NoSleepWhileWaiting' /\ Apart'
    BY <1>0, <1>5, <2>2 DEF NoSleepWhileWaiting, Apart, Typed
  <2> QED BY <1>5, <2>1, <2>3, ListsUntouched DEF Typed
<1>6. CASE Timeout(w)
  BY <1>5, <1>6 DEF Timeout
<1>7. CASE StoreReserved(w)
  <2>1. /\ at' = [at EXCEPT ![w] = "working"]
        /\ UNCHANGED <<lists, delayed, blocked, moving, passed>>
    BY <1>7 DEF StoreReserved
  <2>2. Typed'
    BY <2>1 DEF Typed, Points
  <2>3. NoSleepWhileWaiting' /\ Apart'
    BY <1>0, <2>1 DEF NoSleepWhileWaiting, Apart, Typed
  <2> QED BY <2>1, <2>2, <2>3, ListsUntouched DEF Typed, Tiers
<1>8. CASE AckJob(w)
  BY <1>5, <1>8 DEF AckJob, LetGo
<1>9. CASE Crash(w)
  BY <1>5, <1>9 DEF Crash, LetGo
<1> QED
  BY <1>1, <1>2, <1>3, <1>4, <1>6, <1>7, <1>8, <1>9 DEF WorkerStep

LEMMA ListsStep == ListsInv /\ [Next]_vars => ListsInv'
<1> SUFFICES ASSUME ListsInv, [Next]_vars
             PROVE  ListsInv'
  OBVIOUS
<1>1. ASSUME NEW w \in Workers, WorkerStep(w) \/ Crash(w)
      PROVE  ListsInv'
  BY <1>1, WorkerStepKeeps
<1>2. ASSUME NEW r \in Refs, Delay(r)
      PROVE  ListsInv'
  <2>1. /\ r \in Free
        /\ delayed' = delayed \cup {r}
        /\ UNCHANGED <<lists, at, blocked, moving, passed>>
    BY <1>2 DEF Delay
  <2>2. Typed'
    <3>1. IsFiniteSet(delayed')
      BY <2>1, FS_AddElement DEF ListsInv, Typed
    <3> QED BY <2>1, <3>1 DEF ListsInv, Typed
  <2>3. NoSleepWhileWaiting' /\ Apart'
    BY <2>1, FreeRefs DEF ListsInv, NoSleepWhileWaiting, Apart, Waiting
  <2> QED BY <2>1, <2>2, <2>3, ListsUntouched
<1>3. ASSUME NEW r \in Refs, RequeueRemoves(r)
      PROVE  ListsInv'
  <2>1. /\ r \in Free
        /\ moving' = r
        /\ UNCHANGED <<lists, delayed, at, blocked, passed>>
    BY <1>3 DEF RequeueRemoves
  <2>2. Typed'
    BY <2>1 DEF ListsInv, Typed
  <2>3. NoSleepWhileWaiting' /\ Apart'
    BY <2>1, FreeRefs DEF ListsInv, NoSleepWhileWaiting, Apart, Waiting
  <2> QED BY <2>1, <2>2, <2>3, ListsUntouched
<1>4. ASSUME NEW r \in Refs, NEW t \in Tiers, Enqueue(r, t) \/ Cancel(r, t)
      PROVE  ListsInv'
  BY <1>4, EnqueueStep, CancelStep
<1>5. CASE Promote \/ RequeuePushes
  BY <1>5, PromoteStep, RequeuePushesStep
<1>6. CASE UNCHANGED vars
  <2>1. Typed' /\ NoSleepWhileWaiting' /\ Apart'
    BY <1>6 DEF vars, ListsInv, Typed, NoSleepWhileWaiting, Apart, Waiting
  <2> QED BY <1>6, <2>1, ListsUntouched DEF vars
<1> QED
  BY <1>1, <1>2, <1>3, <1>4, <1>5, <1>6 DEF Next

-----------------------------------------------------------------------------
\* No worker sleeps in BRPOP while a reference waits: a script that pushes
\* more than there are sleepers wakes all of them, and a worker falls asleep
\* over three empty lists only.
THEOREM NobodyOversleeps == Spec => []NoSleepWhileWaiting
<1>1. ListsInv => NoSleepWhileWaiting
  BY DEF ListsInv
<1> QED BY <1>1, ListsInit, ListsStep, PTL DEF Spec

\* The inversion that the scan allows happens once per worker and reference,
\* for every number of either, with pushes, crashes and requeues at any point.
THEOREM InversionIsBounded == Spec => OvertakenOnce
<1>1. ListsInv /\ [Next]_vars =>
        [\A w \in Workers, t \in Tiers :
           Reserve(w) /\ at[w] = t => passed \cap Overtaken(w, t) = {}]_vars
  <2> SUFFICES ASSUME ListsInv, NEW w \in Workers, at[w] \in Tiers
               PROVE  passed \cap Overtaken(w, at[w]) = {}
    OBVIOUS
  <2>1. ASSUME NEW e \in passed, e \in Overtaken(w, at[w])
        PROVE  FALSE
    <3>1. PICK r \in Refs : e = <<w, r>> /\ \E t \in Above[at[w]] : r \in Waiting(t)
      BY <2>1 DEF Overtaken, ListsInv, Typed
    <3> QED BY <2>1, <3>1 DEF ListsInv, Noted
  <2> QED BY <2>1
<1> QED BY <1>1, ListsInit, ListsStep, PTL DEF Spec, OvertakenOnce
=============================================================================
