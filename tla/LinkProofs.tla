----------------------------- MODULE LinkProofs -----------------------------
(***************************************************************************)
(* What the pointer manipulations of PcbLinks do to lists: facts about     *)
(* constants only, cited by the proofs about every component that keeps    *)
(* its data in linked blocks.                                              *)
(*                                                                         *)
(* Linked relates pointers to the sequence of the blocks they lead         *)
(* through, in a ring or in a list that ends with NULL; a chase of the     *)
(* pointers then meets that sequence.                                      *)
(***************************************************************************)
EXTENDS PcbLinks, Integers, SequencesExt, FiniteSetTheorems, WellFoundedInduction, TLAPS

(* Every set of numbers has a least element: the form induction takes      *)
(* here.                                                                   *)
LEMMA LeastNumber ==
  ASSUME NEW S \in SUBSET Nat, S # {}
  PROVE  \E m \in S : \A n \in S : m <= n
<1> DEFINE R == {ss \in Nat \X Nat : ss[1] < ss[2]}
<1>1. \A m, n \in Nat : n < m => <<n, m>> \in R
  OBVIOUS
<1>2. PICK m \in S : \A n \in S : ~(<<n, m>> \in R)
  <2> HIDE DEF R
  <2>1. IsWellFoundedOn(R, Nat)
    BY NatLessThanWellFounded DEF R, OpToRel
  <2> QED  BY <2>1, WFMin, Zenon
<1> HIDE DEF R
<1>3. \A n \in S : ~(n < m)
  BY <1>1, <1>2
<1> QED  BY <1>3

----------------------------------------------------------------------------
(* Sequences as queues                                                     *)

LEMMA AppendFacts ==
  ASSUME NEW S, NEW q \in Seq(S), NEW e \in S
  PROVE  /\ Append(q, e) \in Seq(S)
         /\ Len(Append(q, e)) = Len(q) + 1
         /\ \A x : Contains(Append(q, e), x) <=> Contains(q, x) \/ x = e
         /\ IsInjective(q) /\ ~Contains(q, e) => IsInjective(Append(q, e))
<1>1. Append(q, e) \in Seq(S) /\ Len(Append(q, e)) = Len(q) + 1
  OBVIOUS
<1>2. \A i \in 1 .. Len(q) + 1 : Append(q, e)[i] = IF i = Len(q) + 1 THEN e ELSE q[i]
  OBVIOUS
<1>3. \A x : Contains(Append(q, e), x) <=> Contains(q, x) \/ x = e
  BY <1>1, <1>2 DEF Contains
<1>4. IsInjective(q) /\ ~Contains(q, e) => IsInjective(Append(q, e))
  BY <1>1, <1>2 DEF Contains, IsInjective
<1> QED  BY <1>1, <1>3, <1>4

LEMMA TailFacts ==
  ASSUME NEW S, NEW q \in Seq(S), q # <<>>
  PROVE  /\ Head(q) \in S /\ Tail(q) \in Seq(S)
         /\ Len(Tail(q)) = Len(q) - 1 /\ Len(q) > 0
         /\ Contains(q, Head(q))
         /\ \A x : Contains(q, x) <=> Contains(Tail(q), x) \/ x = Head(q)
         /\ IsInjective(q) => IsInjective(Tail(q)) /\ ~Contains(Tail(q), Head(q))
<1>1. Head(q) \in S /\ Tail(q) \in Seq(S) /\ Len(Tail(q)) = Len(q) - 1 /\ Len(q) > 0
  OBVIOUS
<1>2. Head(q) = q[1] /\ \A i \in 1 .. Len(q) - 1 : Tail(q)[i] = q[i + 1]
  OBVIOUS
<1>3. \A x : Contains(q, x) <=> Contains(Tail(q), x) \/ x = Head(q)
  <2> SUFFICES ASSUME NEW x PROVE Contains(q, x) <=> Contains(Tail(q), x) \/ x = Head(q)
    OBVIOUS
  <2>1. ASSUME NEW i \in 1 .. Len(q), q[i] = x
        PROVE  Contains(Tail(q), x) \/ x = Head(q)
    <3>1. CASE i = 1  BY <2>1, <3>1, <1>2
    <3>2. CASE i # 1
      <4>1. i - 1 \in 1 .. Len(Tail(q)) /\ Tail(q)[i - 1] = q[i]
        BY <3>2, <1>1, <1>2
      <4> QED  BY <2>1, <4>1 DEF Contains
    <3> QED  BY <3>1, <3>2
  <2>2. Contains(Tail(q), x) => Contains(q, x)
    BY <1>1, <1>2 DEF Contains
  <2>3. x = Head(q) => Contains(q, x)
    BY <1>1, <1>2 DEF Contains
  <2> QED  BY <2>1, <2>2, <2>3 DEF Contains
<1>4. IsInjective(q) => IsInjective(Tail(q)) /\ ~Contains(Tail(q), Head(q))
  BY <1>1, <1>2 DEF IsInjective, Contains
<1> QED  BY <1>1, <1>3, <1>4

LEMMA LengthFacts ==
  ASSUME NEW S, NEW q \in Seq(S)
  PROVE  /\ Len(q) \in Nat
         /\ q = <<>> <=> Len(q) = 0
         /\ Len(q) = 1 => Tail(q) = <<>>
<1>1. \A r \in Seq(S) : Len(r) \in Nat /\ (r = <<>> <=> Len(r) = 0)
  OBVIOUS
<1>2. ASSUME Len(q) = 1 PROVE Tail(q) = <<>>
  <2>1. q # <<>>  BY <1>1, <1>2
  <2> DEFINE r == Tail(q)
  <2>2. Len(r) = Len(q) - 1 /\ r \in Seq(S)
    BY <2>1, TailFacts
  <2>3. Len(r) = 0
    BY <1>2, <2>2
  <2> HIDE DEF r
  <2>4. r = <<>>
    BY <1>1, <2>2, <2>3
  <2> QED  BY <2>4 DEF r
<1> QED  BY <1>1, <1>2

LEMMA FrontFacts ==
  ASSUME NEW S, NEW q \in Seq(S), q # <<>>
  PROVE  /\ SubSeq(q, 1, Len(q) - 1) \in Seq(S)
         /\ Len(SubSeq(q, 1, Len(q) - 1)) = Len(q) - 1
         /\ \A i \in 1 .. Len(q) - 1 : SubSeq(q, 1, Len(q) - 1)[i] = q[i]
         /\ Len(q) > 1 => /\ SubSeq(q, 1, Len(q) - 1) # <<>>
                          /\ SubSeq(q, 1, Len(q) - 1)[1] = q[1]
<1> DEFINE f == SubSeq(q, 1, Len(q) - 1)
<1>1. f \in Seq(S) /\ Len(f) = Len(q) - 1
  OBVIOUS
<1>2. Len(q) > 1 => f[1] = q[1]
  OBVIOUS
<1>3. \A i \in 1 .. Len(q) - 1 : f[i] = q[i]
  OBVIOUS
<1> HIDE DEF f
<1>4. Len(q) > 1 => f # <<>>
  BY <1>1
<1> QED  BY <1>1, <1>2, <1>3, <1>4 DEF f

LEMMA ConcatFacts ==
  ASSUME NEW S, NEW q \in Seq(S), NEW r \in Seq(S)
  PROVE  /\ q \o r \in Seq(S)
         /\ \A x : Contains(q \o r, x) <=> Contains(q, x) \/ Contains(r, x)
         /\ IsInjective(q) /\ IsInjective(r) /\ (\A x : ~(Contains(q, x) /\ Contains(r, x)))
              => IsInjective(q \o r)
<1>1. q \o r \in Seq(S) /\ Len(q \o r) = Len(q) + Len(r)
  OBVIOUS
<1>2. \A i \in 1 .. Len(q) + Len(r) : (q \o r)[i] = IF i <= Len(q) THEN q[i] ELSE r[i - Len(q)]
  OBVIOUS
<1>3. ASSUME NEW x PROVE Contains(q \o r, x) <=> Contains(q, x) \/ Contains(r, x)
  <2>1. ASSUME NEW i \in 1 .. Len(r) PROVE i + Len(q) \in 1 .. Len(q \o r) /\ (q \o r)[i + Len(q)] = r[i]
    BY <1>1, <1>2
  <2>2. ASSUME NEW i \in 1 .. Len(q) PROVE i \in 1 .. Len(q \o r) /\ (q \o r)[i] = q[i]
    BY <1>1, <1>2
  <2>3. ASSUME NEW i \in 1 .. Len(q \o r), i > Len(q)
        PROVE  i - Len(q) \in 1 .. Len(r) /\ (q \o r)[i] = r[i - Len(q)]
    BY <2>3, <1>1, <1>2
  <2> QED  BY <1>1, <2>1, <2>2, <2>3 DEF Contains
<1>4. ASSUME IsInjective(q), IsInjective(r), \A x : ~(Contains(q, x) /\ Contains(r, x)),
             NEW i \in 1 .. Len(q) + Len(r), NEW j \in 1 .. Len(q) + Len(r),
             (q \o r)[i] = (q \o r)[j]
      PROVE  i = j
  <2>1. CASE i <= Len(q) /\ j <= Len(q)
    <3>1. i \in 1 .. Len(q) /\ j \in 1 .. Len(q) /\ q[i] = q[j]  BY <1>2, <1>4, <2>1
    <3> QED  BY <3>1, <1>4 DEF IsInjective
  <2>2. CASE i > Len(q) /\ j > Len(q)
    <3>1. /\ i - Len(q) \in 1 .. Len(r) /\ j - Len(q) \in 1 .. Len(r)
          /\ r[i - Len(q)] = r[j - Len(q)]
      BY <1>2, <1>4, <2>2
    <3>2. i - Len(q) = j - Len(q)  BY <3>1, <1>4 DEF IsInjective
    <3> QED  BY <3>2
  <2>3. CASE i <= Len(q) /\ j > Len(q)
    <3>1. i \in 1 .. Len(q) /\ j - Len(q) \in 1 .. Len(r) /\ q[i] = r[j - Len(q)]
      BY <1>2, <1>4, <2>3
    <3> QED  BY <3>1, <1>4 DEF Contains
  <2>4. CASE i > Len(q) /\ j <= Len(q)
    <3>1. j \in 1 .. Len(q) /\ i - Len(q) \in 1 .. Len(r) /\ q[j] = r[i - Len(q)]
      BY <1>2, <1>4, <2>4
    <3> QED  BY <3>1, <1>4 DEF Contains
  <2> QED  BY <2>1, <2>2, <2>3, <2>4
<1>5. IsInjective(q) /\ IsInjective(r) /\ (\A x : ~(Contains(q, x) /\ Contains(r, x)))
        => IsInjective(q \o r)
  BY <1>1, <1>4 DEF IsInjective
<1> QED  BY <1>1, <1>3, <1>5

LEMMA RemoveAtFacts ==
  ASSUME NEW S, NEW q \in Seq(S), NEW k \in 1 .. Len(q)
  PROVE  /\ RemoveAt(q, k) \in Seq(S)
         /\ Len(RemoveAt(q, k)) = Len(q) - 1
         /\ \A i \in 1 .. Len(q) - 1 : RemoveAt(q, k)[i] = IF i < k THEN q[i] ELSE q[i + 1]
<1> DEFINE t      == RemoveAt(q, k)
           before == SubSeq(q, 1, k - 1)
           after  == SubSeq(q, k + 1, Len(q))
<1>1. before \in Seq(S) /\ Len(before) = k - 1 /\ \A i \in 1 .. k - 1 : before[i] = q[i]
  OBVIOUS
<1>2. /\ after \in Seq(S) /\ Len(after) = Len(q) - k
      /\ \A i \in 1 .. Len(q) - k : after[i] = q[k + i]
  OBVIOUS
<1>3. t = before \o after
  BY DEF RemoveAt
<1> HIDE DEF before, after, t
<1>4. t \in Seq(S) /\ Len(t) = Len(q) - 1
  BY <1>1, <1>2, <1>3
<1>5. ASSUME NEW i \in 1 .. Len(q) - 1 PROVE t[i] = IF i < k THEN q[i] ELSE q[i + 1]
  <2>1. CASE i < k
    BY <1>1, <1>2, <1>3, <1>4, <2>1
  <2>2. CASE i >= k
    <3> DEFINE j == i - (k - 1)
    <3>1. t[i] = after[j] /\ j \in 1 .. Len(q) - k
      BY <1>1, <1>2, <1>3, <1>4, <2>2
    <3>2. k + j = i + 1
      OBVIOUS
    <3> HIDE DEF j
    <3>3. after[j] = q[k + j]
      BY <1>2, <3>1
    <3> QED  BY <2>2, <3>1, <3>2, <3>3
  <2> QED  BY <2>1, <2>2
<1> QED  BY <1>4, <1>5 DEF t

(* Taking out the one place where p stands keeps the other elements.       *)
LEMMA RemoveAtContains ==
  ASSUME NEW S, NEW q \in Seq(S), IsInjective(q), NEW k \in 1 .. Len(q)
  PROVE  /\ IsInjective(RemoveAt(q, k))
         /\ \A x : Contains(RemoveAt(q, k), x) <=> Contains(q, x) /\ x # q[k]
<1> DEFINE t == RemoveAt(q, k)
           at(i) == IF i < k THEN i ELSE i + 1
<1>1. /\ t \in Seq(S) /\ Len(t) = Len(q) - 1
      /\ \A i \in 1 .. Len(q) - 1 : t[i] = IF i < k THEN q[i] ELSE q[i + 1]
  BY RemoveAtFacts
<1> HIDE DEF t
<1>2. ASSUME NEW i \in 1 .. Len(t)
      PROVE  at(i) \in 1 .. Len(q) /\ at(i) # k /\ t[i] = q[at(i)]
  <2>1. i \in 1 .. Len(q) - 1  BY <1>1
  <2>2. CASE i < k  BY <1>1, <2>1, <2>2
  <2>3. CASE ~(i < k)  BY <1>1, <2>1, <2>3
  <2> QED  BY <2>2, <2>3
<1>3. \A i, j \in 1 .. Len(t) : at(i) = at(j) => i = j
  BY <1>1
<1>4. ASSUME NEW j \in 1 .. Len(q), j # k
      PROVE  \E i \in 1 .. Len(t) : at(i) = j
  <2>1. CASE j < k
    <3>1. j \in 1 .. Len(t) /\ at(j) = j  BY <1>1, <2>1
    <3> QED  BY <3>1
  <2>2. CASE j > k
    <3>1. j - 1 \in 1 .. Len(t) /\ at(j - 1) = j  BY <1>1, <2>2
    <3> QED  BY <3>1
  <2> QED  BY <1>4, <2>1, <2>2
<1>5. \A i, j \in 1 .. Len(q) : q[i] = q[j] => i = j
  BY DEF IsInjective
<1> HIDE DEF at
<1>6. IsInjective(t)
  <2>1. DOMAIN t = 1 .. Len(t)  BY <1>1
  <2> QED  BY <1>2, <1>3, <1>5, <2>1 DEF IsInjective
<1>7. ASSUME NEW x PROVE Contains(t, x) <=> Contains(q, x) /\ x # q[k]
  BY <1>2, <1>4, <1>5 DEF Contains
<1> QED  BY <1>6, <1>7 DEF t

(* RemoveFirst of a sequence without duplicates.                           *)
LEMMA RemoveFirstFacts ==
  ASSUME NEW S, NEW q \in Seq(S), NEW p
  PROVE  /\ Contains(q, p) => \E k \in 1 .. Len(q) : q[k] = p /\ RemoveFirst(q, p) = RemoveAt(q, k)
         /\ ~Contains(q, p) => RemoveFirst(q, p) = q
<1>1. ASSUME Contains(q, p)
      PROVE  \E k \in 1 .. Len(q) : q[k] = p /\ RemoveFirst(q, p) = RemoveAt(q, k)
  <2> DEFINE I == {i \in 1 .. Len(q) : q[i] = p}
  <2>1. I # {} /\ I \in SUBSET Nat
    BY <1>1 DEF Contains
  <2>2. \E m \in I : \A n \in I : m <= n
    BY <2>1, LeastNumber
  <2>3. Min(I) \in I
    BY <2>2 DEF Min
  <2>4. RemoveFirst(q, p) = RemoveAt(q, Min(I))
    BY <1>1, <2>1 DEF RemoveFirst, SelectInSeq, Contains
  <2> QED  BY <2>3, <2>4
<1>2. ~Contains(q, p) => RemoveFirst(q, p) = q
  BY DEF RemoveFirst, Contains
<1> QED  BY <1>1, <1>2

(* As many places as elements.                                             *)
LEMMA ElementsFinite ==
  ASSUME NEW S, NEW q \in Seq(S), IsInjective(q)
  PROVE  LET T == {x \in S : Contains(q, x)}
         IN  IsFiniteSet(T) /\ Cardinality(T) = Len(q)
<1> DEFINE T == {x \in S : Contains(q, x)}
<1>1. q \in Bijection(1 .. Len(q), T)
  <2>1. q \in [1 .. Len(q) -> T]
    BY DEF Contains
  <2>2. \A i, j \in 1 .. Len(q) : q[i] = q[j] => i = j
    BY DEF IsInjective
  <2>3. \A x \in T : \E i \in 1 .. Len(q) : q[i] = x
    BY DEF Contains
  <2> QED  BY <2>1, <2>2, <2>3 DEF Bijection, Injection, Surjection, IsInjective
<1>2. IsFiniteSet(1 .. Len(q)) /\ Cardinality(1 .. Len(q)) = Len(q)
  <2>1. Len(q) \in Nat /\ Len(q) \in Int /\ 1 \in Int  OBVIOUS
  <2>2. IsFiniteSet(1 .. Len(q)) /\ Cardinality(1 .. Len(q)) = IF 1 > Len(q) THEN 0 ELSE Len(q) - 1 + 1
    BY <2>1, FS_Interval
  <2> QED  BY <2>1, <2>2
<1>3. ExistsBijection(1 .. Len(q), T)
  BY <1>1 DEF ExistsBijection
<1> HIDE DEF T
<1>4. IsFiniteSet(T) /\ Cardinality(T) = Cardinality(1 .. Len(q))
  BY <1>2, <1>3, FS_Bijection
<1> QED  BY <1>2, <1>4 DEF T

----------------------------------------------------------------------------
(* Linked blocks                                                           *)

(* From x on, next leads through the blocks of s and then to e.            *)
Linked(next, x, s, e) ==
  /\ s \in Seq(DOMAIN next) /\ IsInjective(s)
  /\ x = IF s = <<>> THEN e ELSE s[1]
  /\ \A i \in 1 .. Len(s) : next[s[i]] = IF i = Len(s) THEN e ELSE s[i + 1]

(* A list ends outside the blocks, a ring where it began.                  *)
Closes(next, s, e) == e \notin DOMAIN next \/ (s # <<>> /\ e = s[1])

(* A chase meets the elements of the list and no other block.              *)
LEMMA LinkedReach ==
  ASSUME NEW next, NEW x, NEW s, NEW e, Linked(next, x, s, e), Closes(next, s, e)
  PROVE  Reachable(next, x) = {p \in DOMAIN next : Contains(s, p)}
<1> DEFINE D == DOMAIN next
           T == {p \in D : Contains(s, p)}
           Closed(S) == (x \in D => x \in S) /\ \A y \in S : next[y] \in D => next[y] \in S
<1>1. s \in Seq(D)
  BY DEF Linked
<1>2. Closed(T)
  <2>1. s # <<>> => s[1] \in T
    <3>1. s # <<>> => 1 \in 1 .. Len(s) /\ s[1] \in D
      BY <1>1
    <3> QED  BY <3>1 DEF Contains
  <2>2. e \in D => e \in T
    BY <2>1 DEF Closes
  <2>3. x \in D => x \in T
    BY <2>1, <2>2 DEF Linked
  <2>4. ASSUME NEW y \in T, next[y] \in D PROVE next[y] \in T
    <3>1. PICK i \in 1 .. Len(s) : s[i] = y
      BY DEF Contains
    <3>2. CASE i = Len(s)
      BY <2>2, <2>4, <3>1, <3>2 DEF Linked
    <3>3. CASE i # Len(s)
      <4>1. i + 1 \in 1 .. Len(s)
        BY <1>1, <3>1, <3>3
      <4>2. next[y] = s[i + 1]
        BY <3>1, <3>3 DEF Linked
      <4> QED  BY <2>4, <4>1, <4>2 DEF Contains
    <3> QED  BY <3>2, <3>3
  <2> QED  BY <2>3, <2>4
<1>3. ASSUME NEW S \in SUBSET D, Closed(S), NEW p \in T PROVE p \in S
  <2> DEFINE Missed == {i \in 1 .. Len(s) : s[i] \notin S}
  <2>1. SUFFICES ASSUME p \notin S PROVE FALSE
    OBVIOUS
  <2>2. Missed \in SUBSET Nat /\ Missed # {}
    BY <2>1 DEF Contains
  <2>3. PICK m \in Missed : \A n \in Missed : m <= n
    BY <2>2, LeastNumber
  <2>4. m # 1
    <3>1. s # <<>>  BY <1>1, <2>3
    <3>2. x = s[1] /\ s[1] \in D  BY <1>1, <2>3, <3>1 DEF Linked
    <3> QED  BY <1>3, <2>3, <3>2
  <2>5. m - 1 \in 1 .. Len(s) /\ m - 1 # Len(s) /\ m - 1 + 1 = m /\ ~(m <= m - 1)
    BY <1>1, <2>3, <2>4
  <2>6. s[m - 1] \in S
    BY <2>3, <2>5
  <2>7. next[s[m - 1]] = s[m] /\ s[m] \in D
    BY <1>1, <2>3, <2>5 DEF Linked
  <2> QED  BY <1>3, <2>3, <2>6, <2>7
<1>4. Reachable(next, x) = {p \in D : \A S \in SUBSET D : Closed(S) => p \in S}
  BY DEF Reachable
<1> HIDE DEF Closed, D
<1>5. T \in SUBSET D
  OBVIOUS
<1> QED  BY <1>2, <1>3, <1>4, <1>5 DEF D

(* ... in the order of the list: what the specifications read with Walk.   *)
LEMMA LinkedWalk ==
  ASSUME NEW next, NEW x, NEW s, NEW e, Linked(next, x, s, e), Closes(next, s, e)
  PROVE  Walk(next, x) = s
<1> DEFINE IsWalk(walk) == walk = [i \in 1 .. Len(s) |-> IF i = 1 THEN x ELSE next[walk[i - 1]]]
<1>1. s \in Seq(DOMAIN next) /\ DOMAIN s = 1 .. Len(s)
  BY DEF Linked
<1>2. ASSUME NEW i \in 1 .. Len(s), i # 1
      PROVE  i - 1 \in 1 .. Len(s) /\ next[s[i - 1]] = s[i]
  <2>1. i - 1 \in 1 .. Len(s) /\ i - 1 # Len(s) /\ i - 1 + 1 = i
    BY <1>1, <1>2
  <2> QED  BY <2>1 DEF Linked
<1>3. ASSUME NEW i \in 1 .. Len(s), i = 1 PROVE s[i] = x
  <2>1. s # <<>>  BY <1>1
  <2> QED  BY <1>3, <2>1 DEF Linked
<1>4. IsWalk(s)
  <2>1. s = [i \in 1 .. Len(s) |-> s[i]]
    BY <1>1
  <2>2. \A i \in 1 .. Len(s) : s[i] = IF i = 1 THEN x ELSE next[s[i - 1]]
    BY <1>2, <1>3
  <2> QED  BY <2>1, <2>2
<1>5. ASSUME NEW walk, IsWalk(walk) PROVE walk = s
  <2>1. \A i \in 1 .. Len(s) : walk[i] = IF i = 1 THEN x ELSE next[walk[i - 1]]
    BY <1>5
  <2>2. ASSUME NEW j \in 1 .. Len(s) PROVE walk[j] = s[j]
    <3> DEFINE Wrong == {i \in 1 .. Len(s) : walk[i] # s[i]}
    <3>1. SUFFICES ASSUME walk[j] # s[j] PROVE FALSE
      OBVIOUS
    <3>2. Wrong \in SUBSET Nat /\ Wrong # {}
      <4>1. 1 .. Len(s) \subseteq Nat  BY <1>1
      <4>2. Wrong \subseteq 1 .. Len(s) /\ j \in Wrong  BY <3>1, Zenon
      <4> QED  BY <4>1, <4>2, Zenon
    <3>3. PICK m \in Wrong : \A n \in Wrong : m <= n
      BY <3>2, LeastNumber
    <3>4. m # 1
      BY <1>3, <2>1, <3>3
    <3>5. m - 1 \in 1 .. Len(s) /\ next[s[m - 1]] = s[m] /\ ~(m <= m - 1)
      BY <1>1, <1>2, <3>3, <3>4
    <3>6. walk[m - 1] = s[m - 1]
      BY <3>3, <3>5
    <3> QED  BY <2>1, <3>3, <3>4, <3>5, <3>6
  <2>3. walk = [i \in 1 .. Len(s) |-> walk[i]]
    BY <1>5
  <2>4. s = [i \in 1 .. Len(s) |-> s[i]]
    BY <1>1
  <2> QED  BY <2>2, <2>3, <2>4
<1>6. Cardinality(Reachable(next, x)) = Len(s)
  <2>1. IsInjective(s)
    BY DEF Linked
  <2> DEFINE T == {p \in DOMAIN next : Contains(s, p)}
  <2>2. Cardinality(T) = Len(s)
    BY <1>1, <2>1, ElementsFinite
  <2>3. Reachable(next, x) = T
    BY LinkedReach
  <2> QED  BY <2>2, <2>3, Zenon
<1>7. Walk(next, x) = CHOOSE walk : IsWalk(walk)
  BY <1>6 DEF Walk
<1> HIDE DEF IsWalk
<1>8. IsWalk(CHOOSE walk : IsWalk(walk))
  BY <1>4
<1> QED  BY <1>5, <1>7, <1>8

----------------------------------------------------------------------------
(* NULL-terminated lists of process control blocks                         *)

Chain(next, x, s) ==
  /\ s \in Seq(Pcb) /\ IsInjective(s)
  /\ x = IF s = <<>> THEN NULL ELSE s[1]
  /\ \A i \in 1 .. Len(s) : next[s[i]] = IF i = Len(s) THEN NULL ELSE s[i + 1]

LEMMA ChainReach ==
  ASSUME NEW next \in [Pcb -> PcbOrNull], NEW x, NEW s, Chain(next, x, s)
  PROVE  /\ Reachable(next, x) = {p \in Pcb : Contains(s, p)}
         /\ Walk(next, x) = s
<1>1. DOMAIN next = Pcb /\ Linked(next, x, s, NULL) /\ Closes(next, s, NULL)
  BY NullAssumption DEF Chain, Linked, Closes
<1> QED  BY <1>1, LinkedReach, LinkedWalk

(* The loop to the last sibling stops at the last element.                 *)
LEMMA ChainEnd ==
  ASSUME NEW next \in [Pcb -> PcbOrNull], NEW x, NEW s, Chain(next, x, s), s # <<>>
  PROVE  /\ s[Len(s)] \in Pcb
         /\ \A p \in Pcb : (p \in Reachable(next, x) /\ next[p] = NULL) <=> p = s[Len(s)]
<1>1. s \in Seq(Pcb) /\ Len(s) \in 1 .. Len(s)
  BY DEF Chain
<1>2. s[Len(s)] \in Pcb /\ Contains(s, s[Len(s)]) /\ next[s[Len(s)]] = NULL
  BY <1>1 DEF Chain, Contains
<1>3. ASSUME NEW p \in Pcb, Contains(s, p), next[p] = NULL PROVE p = s[Len(s)]
  <2>1. PICK i \in 1 .. Len(s) : s[i] = p
    BY <1>3 DEF Contains
  <2>2. i = Len(s)
    <3>1. i # Len(s) => next[p] = s[i + 1] /\ i + 1 \in 1 .. Len(s)
      BY <1>1, <2>1 DEF Chain
    <3>2. i # Len(s) => s[i + 1] \in Pcb
      BY <1>1, <3>1
    <3> QED  BY <1>3, <3>1, <3>2, NullAssumption
  <2> QED  BY <2>1, <2>2
<1> QED  BY <1>2, <1>3, ChainReach

----------------------------------------------------------------------------
(* Doubly linked lists of siblings                                         *)

SiblingList(next, prev, x, s) ==
  /\ Chain(next, x, s)
  /\ \A i \in 1 .. Len(s) : prev[s[i]] = IF i = 1 THEN NULL ELSE s[i - 1]

(* Links of other blocks do not matter.                                    *)
LEMMA ListFrame ==
  ASSUME NEW next, NEW prev, NEW x, NEW s, SiblingList(next, prev, x, s), NEW next2, NEW prev2,
         \A p \in Pcb : Contains(s, p) => next2[p] = next[p] /\ prev2[p] = prev[p]
  PROVE  SiblingList(next2, prev2, x, s)
<1>1. s \in Seq(Pcb)
  BY DEF SiblingList, Chain
<1>2. \A i \in 1 .. Len(s) : next2[s[i]] = next[s[i]] /\ prev2[s[i]] = prev[s[i]]
  BY <1>1 DEF Contains
<1> QED  BY <1>1, <1>2 DEF SiblingList, Chain

(* A block is linked behind the last one.                                  *)
LEMMA ListAppend ==
  ASSUME NEW next, NEW prev, NEW x, NEW s, SiblingList(next, prev, x, s), s # <<>>,
         NEW p \in Pcb, ~Contains(s, p), NEW next2, NEW prev2,
         next2[p] = NULL, prev2[p] = s[Len(s)], next2[s[Len(s)]] = p,
         \A q \in Pcb : Contains(s, q) => /\ q # s[Len(s)] => next2[q] = next[q]
                                          /\ prev2[q] = prev[q]
  PROVE  SiblingList(next2, prev2, x, Append(s, p))
<1> DEFINE a == Append(s, p)
           n == Len(s)
<1>1. s \in Seq(Pcb) /\ IsInjective(s) /\ n \in Nat /\ n > 0 /\ x = s[1]
  BY DEF SiblingList, Chain
<1>2. a \in Seq(Pcb) /\ IsInjective(a) /\ Len(a) = n + 1
  BY <1>1, AppendFacts
<1>3. \A i \in 1 .. n + 1 : a[i] = IF i = n + 1 THEN p ELSE s[i]
  BY <1>1
<1>4. a # <<>> /\ x = a[1]
  BY <1>1, <1>2, <1>3
<1> HIDE DEF a
<1>5. ASSUME NEW i \in 1 .. n
      PROVE  /\ i # n => next2[s[i]] = s[i + 1]
             /\ prev2[s[i]] = IF i = 1 THEN NULL ELSE s[i - 1]
  <2>1. Contains(s, s[i]) /\ s[i] \in Pcb
    BY <1>1 DEF Contains
  <2>2. i # n => s[i] # s[n]
    BY <1>1 DEF IsInjective
  <2> QED  BY <2>1, <2>2 DEF SiblingList, Chain
<1>6. ASSUME NEW i \in 1 .. Len(a)
      PROVE  /\ next2[a[i]] = IF i = Len(a) THEN NULL ELSE a[i + 1]
             /\ prev2[a[i]] = IF i = 1 THEN NULL ELSE a[i - 1]
  <2>1. CASE i = n + 1
    <3>1. a[i] = p /\ a[n] = s[n] /\ i - 1 = n /\ i # 1
      BY <1>1, <1>3, <2>1
    <3> QED  BY <1>2, <2>1, <3>1
  <2>2. CASE i = n
    <3>1. a[i] = s[n] /\ a[n + 1] = p /\ i \in 1 .. n
      BY <1>1, <1>3, <2>2
    <3>2. i # 1 => a[i - 1] = s[i - 1]
      BY <1>1, <1>3, <2>2
    <3>3. prev2[s[i]] = IF i = 1 THEN NULL ELSE s[i - 1]
      BY <1>5, <3>1
    <3> QED  BY <1>1, <1>2, <2>2, <3>1, <3>2, <3>3
  <2>3. CASE i < n
    <3>1. a[i] = s[i] /\ a[i + 1] = s[i + 1] /\ i \in 1 .. n /\ i # n
      BY <1>1, <1>2, <1>3, <2>3
    <3>2. i # 1 => a[i - 1] = s[i - 1]
      BY <1>1, <1>2, <1>3, <2>3
    <3>3. /\ next2[s[i]] = s[i + 1]
          /\ prev2[s[i]] = IF i = 1 THEN NULL ELSE s[i - 1]
      BY <1>5, <3>1
    <3> QED  BY <1>1, <1>2, <2>3, <3>1, <3>2, <3>3
  <2> QED  BY <1>1, <1>2, <2>1, <2>2, <2>3
<1>7. SiblingList(next2, prev2, x, a)
  BY <1>2, <1>4, <1>6 DEF SiblingList, Chain
<1> QED  BY <1>7 DEF a

(* The first block leaves; the one after it has nobody before it.          *)
LEMMA ListTail ==
  ASSUME NEW next, NEW prev, NEW x, NEW s, SiblingList(next, prev, x, s), s # <<>>,
         NEW next2, NEW prev2, Len(s) > 1 => prev2[s[2]] = NULL,
         \A q \in Pcb : Contains(s, q) /\ q # x =>
            next2[q] = next[q] /\ (q = next[x] \/ prev2[q] = prev[q])
  PROVE  /\ x = Head(s) /\ x \in Pcb /\ next[x] = IF Len(s) = 1 THEN NULL ELSE s[2]
         /\ SiblingList(next2, prev2, next[x], Tail(s))
<1> DEFINE t == Tail(s)
           n == Len(s)
<1>1. s \in Seq(Pcb) /\ IsInjective(s) /\ n \in Nat /\ n > 0 /\ x = s[1]
  BY DEF SiblingList, Chain
<1>2. t \in Seq(Pcb) /\ IsInjective(t) /\ Len(t) = n - 1
  BY <1>1, TailFacts
<1>3. \A i \in 1 .. n - 1 : t[i] = s[i + 1]
  BY <1>1
<1> HIDE DEF t
<1>4. next[x] = IF n = 1 THEN NULL ELSE s[2]
  <2>1. 1 \in 1 .. n /\ 1 + 1 = 2
    BY <1>1
  <2>2. next[s[1]] = IF 1 = n THEN NULL ELSE s[1 + 1]
    BY <2>1 DEF SiblingList, Chain
  <2> QED  BY <1>1, <2>1, <2>2
<1>5. next[x] = IF t = <<>> THEN NULL ELSE t[1]
  <2>1. t = <<>> <=> n = 1
    BY <1>1, <1>2, LengthFacts
  <2>2. n # 1 => 1 \in 1 .. n - 1 /\ 1 + 1 = 2
    BY <1>1
  <2>3. n # 1 => t[1] = s[2]
    BY <1>3, <2>2
  <2> QED  BY <1>4, <2>1, <2>3
<1>6. ASSUME NEW i \in 1 .. Len(t)
      PROVE  /\ next2[t[i]] = IF i = Len(t) THEN NULL ELSE t[i + 1]
             /\ prev2[t[i]] = IF i = 1 THEN NULL ELSE t[i - 1]
  <2>1. /\ i + 1 \in 1 .. n /\ t[i] = s[i + 1] /\ s[i + 1] \in Pcb /\ n > 1
        /\ i # Len(t) => t[i + 1] = s[i + 1 + 1] /\ i + 1 # n
        /\ i = Len(t) => i + 1 = n
        /\ i # 1 => t[i - 1] = s[i] /\ i + 1 # 1 /\ i + 1 - 1 = i
    BY <1>1, <1>2, <1>3
  <2>2. Contains(s, t[i]) /\ t[i] # x
    <3>1. i + 1 # 1  OBVIOUS
    <3> QED  BY <1>1, <2>1, <3>1 DEF Contains, IsInjective
  <2>3. next[s[i + 1]] = IF i + 1 = n THEN NULL ELSE s[i + 1 + 1]
    BY <2>1 DEF SiblingList, Chain
  <2>4. i # 1 => prev[s[i + 1]] = s[i]
    BY <2>1 DEF SiblingList
  <2>5. i # 1 => t[i] # next[x]
    <3>1. 2 \in 1 .. n /\ i # 1 => i + 1 # 2  BY <2>1
    <3>2. next[x] = s[2]  BY <1>4, <2>1
    <3> QED  BY <1>1, <2>1, <3>1, <3>2 DEF IsInjective
  <2>6. i = 1 => prev2[t[i]] = NULL
    BY <2>1
  <2> QED  BY <2>1, <2>2, <2>3, <2>4, <2>5, <2>6
<1>7. SiblingList(next2, prev2, next[x], t)
  BY <1>2, <1>5, <1>6 DEF SiblingList, Chain
<1>8. x = Head(s) /\ x \in Pcb
  BY <1>1
<1> QED  BY <1>4, <1>7, <1>8 DEF t

(* The block nobody follows is the last one; who precedes it is found by   *)
(* its back pointer.                                                       *)
LEMMA ListLast ==
  ASSUME NEW next, NEW prev, NEW x, NEW s, SiblingList(next, prev, x, s),
         NEW p, Contains(s, p), next[p] = NULL
  PROVE  /\ s \in Seq(Pcb) /\ IsInjective(s) /\ Len(s) \in 1 .. Len(s) /\ p = s[Len(s)] /\ p \in Pcb
         /\ x = p <=> Len(s) = 1
         /\ x = p => prev[p] = NULL
         /\ x # p => /\ Len(s) - 1 \in 1 .. Len(s) /\ prev[p] = s[Len(s) - 1]
                     /\ prev[p] \in Pcb /\ Contains(s, prev[p]) /\ prev[p] # p
<1> DEFINE n == Len(s)
<1>1. s \in Seq(Pcb) /\ IsInjective(s) /\ n \in Nat
  BY DEF SiblingList, Chain
<1>2. PICK i \in 1 .. n : s[i] = p
  BY DEF Contains
<1>3. i = n
  <2>1. i # n => i + 1 \in 1 .. n
    BY <1>1, <1>2
  <2>2. i # n => next[p] = s[i + 1] /\ s[i + 1] \in Pcb
    BY <1>1, <1>2, <2>1 DEF SiblingList, Chain
  <2> QED  BY <2>2, NullAssumption
<1>4. n \in 1 .. n /\ p = s[n] /\ p \in Pcb /\ x = s[1] /\ 1 \in 1 .. n
  <2>1. n \in 1 .. n /\ 1 \in 1 .. n /\ s # <<>>
    BY <1>1, <1>2
  <2> QED  BY <1>1, <1>2, <1>3, <2>1 DEF SiblingList, Chain
<1>5. x = p <=> n = 1
  <2>1. \A i1, i2 \in 1 .. Len(s) : s[i1] = s[i2] => i1 = i2
    BY <1>1 DEF IsInjective
  <2> QED  BY <1>4, <2>1, Zenon
<1>6. prev[p] = IF n = 1 THEN NULL ELSE s[n - 1]
  BY <1>4 DEF SiblingList
<1>7. ASSUME n # 1
      PROVE  n - 1 \in 1 .. n /\ s[n - 1] \in Pcb /\ Contains(s, s[n - 1]) /\ s[n - 1] # p
  <2>1. \A m \in Nat : m \in 1 .. m /\ m # 1 => m - 1 \in 1 .. m /\ m - 1 # m
    OBVIOUS
  <2>2. n - 1 \in 1 .. n /\ n - 1 # n
    BY <1>1, <1>4, <1>7, <2>1, Zenon
  <2>3. \A i1, i2 \in 1 .. Len(s) : s[i1] = s[i2] => i1 = i2
    BY <1>1 DEF IsInjective
  <2> DEFINE m == n - 1
  <2>4. m \in 1 .. n /\ m # n  BY <2>2
  <2> HIDE DEF m
  <2>5. s[m] \in Pcb /\ Contains(s, s[m]) /\ s[m] # p
    BY <1>1, <1>4, <2>3, <2>4 DEF Contains
  <2> QED  BY <2>2, <2>5 DEF m
<1> QED  BY <1>1, <1>4, <1>5, <1>6, <1>7

(* The last block leaves; nobody follows the one before it.                *)
LEMMA ListFront ==
  ASSUME NEW next, NEW prev, NEW x, NEW s, SiblingList(next, prev, x, s),
         NEW p, Contains(s, p), next[p] = NULL, NEW next2, NEW prev2,
         \A q \in Pcb : Contains(s, q) /\ q # p =>
            /\ prev2[q] = prev[q]
            /\ next2[q] = IF q = prev[p] THEN NULL ELSE next[q]
  PROVE  /\ RemoveFirst(s, p) \in Seq(Pcb)
         /\ \A q : Contains(RemoveFirst(s, p), q) <=> Contains(s, q) /\ q # p
         /\ SiblingList(next2, prev2, IF x = p THEN NULL ELSE x, RemoveFirst(s, p))
<1> DEFINE n == Len(s)
           t == RemoveFirst(s, p)
<1>1. /\ s \in Seq(Pcb) /\ IsInjective(s) /\ n \in Nat /\ n \in 1 .. n /\ p = s[n]
      /\ x = p <=> n = 1
      /\ x # p => prev[p] = s[n - 1]
      /\ x = s[1]
  <2>1. s # <<>> => x = s[1]
    BY DEF SiblingList, Chain
  <2> QED  BY <2>1, ListLast
<1>2. t = RemoveAt(s, n)
  <2>1. PICK k \in 1 .. n : s[k] = p /\ t = RemoveAt(s, k)
    BY <1>1, RemoveFirstFacts
  <2>2. k = n
    BY <1>1, <2>1 DEF IsInjective
  <2> QED  BY <2>1, <2>2
<1>3. /\ t \in Seq(Pcb) /\ Len(t) = n - 1
      /\ \A i \in 1 .. n - 1 : t[i] = s[i]
  <2>1. \A i \in 1 .. n - 1 : i < n
    BY <1>1
  <2> QED  BY <1>1, <1>2, <2>1, RemoveAtFacts
<1>4. IsInjective(t) /\ \A q : Contains(t, q) <=> Contains(s, q) /\ q # p
  BY <1>1, <1>2, RemoveAtContains
<1> HIDE DEF t
<1>5. (IF x = p THEN NULL ELSE x) = IF t = <<>> THEN NULL ELSE t[1]
  <2>1. t = <<>> <=> n = 1
    BY <1>1, <1>3, LengthFacts
  <2>2. n # 1 => 1 \in 1 .. n - 1
    BY <1>1
  <2> QED  BY <1>1, <1>3, <2>1, <2>2
<1>6. ASSUME NEW i \in 1 .. Len(t)
      PROVE  /\ next2[t[i]] = IF i = Len(t) THEN NULL ELSE t[i + 1]
             /\ prev2[t[i]] = IF i = 1 THEN NULL ELSE t[i - 1]
  <2>1. /\ i \in 1 .. n /\ i # n /\ i \in 1 .. n - 1 /\ n # 1 /\ n - 1 \in 1 .. n
        /\ i # 1 => i - 1 \in 1 .. n - 1
        /\ i # n - 1 => i + 1 \in 1 .. n - 1
    BY <1>1, <1>3
  <2>2. t[i] = s[i] /\ s[i] \in Pcb /\ Contains(s, s[i]) /\ s[i] # p
    BY <1>1, <1>3, <2>1 DEF Contains, IsInjective
  <2>3. /\ prev2[s[i]] = prev[s[i]]
        /\ next2[s[i]] = IF s[i] = s[n - 1] THEN NULL ELSE next[s[i]]
    BY <1>1, <2>1, <2>2
  <2>4. s[i] = s[n - 1] <=> i = n - 1
    BY <1>1, <2>1 DEF IsInjective
  <2>5. next[s[i]] = s[i + 1] /\ prev[s[i]] = IF i = 1 THEN NULL ELSE s[i - 1]
    BY <2>1 DEF SiblingList, Chain
  <2>6. i # 1 => t[i - 1] = s[i - 1]
    BY <1>3, <2>1
  <2>7. i # n - 1 => t[i + 1] = s[i + 1]
    <3> DEFINE j == i + 1
    <3>1. i # n - 1 => j \in 1 .. n - 1
      BY <2>1
    <3> HIDE DEF j
    <3>2. i # n - 1 => t[j] = s[j]
      BY <1>3, <3>1
    <3> QED  BY <3>2 DEF j
  <2> QED  BY <1>3, <2>2, <2>3, <2>4, <2>5, <2>6, <2>7
<1>7. SiblingList(next2, prev2, IF x = p THEN NULL ELSE x, t)
  BY <1>3, <1>4, <1>5, <1>6 DEF SiblingList, Chain
<1> QED  BY <1>3, <1>4, <1>7 DEF t

----------------------------------------------------------------------------
(* The process tree: the pointers t are the children lists kids            *)

Family(t, kids) ==
  /\ t \in Trees /\ kids \in [Pcb -> Seq(Pcb)]
  /\ \A q \in Pcb : SiblingList(t.nsib, t.psib, t.child[q], kids[q])
  /\ \A p, q \in Pcb : Contains(kids[q], p) <=> t.prnt[p] = q
  /\ \A p \in Pcb : t.prnt[p] = NULL => t.nsib[p] = NULL /\ t.psib[p] = NULL

LEMMA FamilyStart ==
  LET nothing == [p \in Pcb |-> NULL]
  IN  Family([prnt |-> nothing, child |-> nothing, nsib |-> nothing, psib |-> nothing],
             [q \in Pcb |-> <<>>])
<1> DEFINE nothing == [p \in Pcb |-> NULL]
           t == [prnt |-> nothing, child |-> nothing, nsib |-> nothing, psib |-> nothing]
           kids == [q \in Pcb |-> <<>>]
<1>1. t \in Trees /\ kids \in [Pcb -> Seq(Pcb)]
  BY DEF Trees, PcbOrNull
<1>2. /\ IsInjective(<<>>) /\ Len(<<>>) = 0 /\ <<>> \in Seq(Pcb)
      /\ \A x : ~Contains(<<>>, x)
  BY DEF IsInjective, Contains
<1>3. \A q \in Pcb : SiblingList(t.nsib, t.psib, t.child[q], kids[q])
  BY <1>2 DEF SiblingList, Chain
<1>4. \A p, q \in Pcb : Contains(kids[q], p) <=> t.prnt[p] = q
  BY <1>2, NullAssumption
<1> QED  BY <1>1, <1>3, <1>4 DEF Family

LEMMA FamilyFacts ==
  ASSUME NEW t, NEW kids, Family(t, kids), NEW q \in Pcb
  PROVE  /\ t \in Trees /\ kids[q] \in Seq(Pcb) /\ IsInjective(kids[q])
         /\ Chain(t.nsib, t.child[q], kids[q])
         /\ t.child[q] = IF kids[q] = <<>> THEN NULL ELSE Head(kids[q])
         /\ t.child[q] = NULL <=> kids[q] = <<>>
         /\ t.nsib \in [Pcb -> PcbOrNull] /\ t.psib \in [Pcb -> PcbOrNull]
         /\ t.prnt \in [Pcb -> PcbOrNull] /\ t.child \in [Pcb -> PcbOrNull]
<1>1. /\ kids[q] \in Seq(Pcb) /\ Chain(t.nsib, t.child[q], kids[q]) /\ IsInjective(kids[q])
      /\ t \in Trees
  BY DEF Family, SiblingList, Chain
<1>2. /\ t.nsib \in [Pcb -> PcbOrNull] /\ t.psib \in [Pcb -> PcbOrNull]
      /\ t.prnt \in [Pcb -> PcbOrNull] /\ t.child \in [Pcb -> PcbOrNull]
  BY <1>1 DEF Trees
<1>3. kids[q] # <<>> => Head(kids[q]) \in Pcb /\ Head(kids[q]) = kids[q][1]
  BY <1>1
<1> QED  BY <1>1, <1>2, <1>3, NullAssumption DEF Chain

(* The last sibling exists and is the last element of the list.            *)
LEMMA LastSibling ==
  ASSUME NEW t, NEW kids, Family(t, kids), NEW q \in Pcb, kids[q] # <<>>
  PROVE  /\ kids[q][Len(kids[q])] \in Pcb /\ Contains(kids[q], kids[q][Len(kids[q])])
         /\ IsLastSibling(t, t.child[q], kids[q][Len(kids[q])])
         /\ (CHOOSE p \in Pcb : IsLastSibling(t, t.child[q], p)) = kids[q][Len(kids[q])]
<1> DEFINE last == kids[q][Len(kids[q])]
<1>1. /\ last \in Pcb
      /\ \A p \in Pcb : IsLastSibling(t, t.child[q], p) <=> p = last
  BY FamilyFacts, ChainEnd DEF IsLastSibling
<1>2. kids[q] \in Seq(Pcb)
  BY FamilyFacts
<1>3. Contains(kids[q], last)
  BY <1>2 DEF Contains
<1> HIDE DEF last
<1>4. (CHOOSE p \in Pcb : IsLastSibling(t, t.child[q], p)) = last
  BY <1>1
<1> QED  BY <1>1, <1>3, <1>4 DEF last

(* A block in no list and without children is as allocPcb hands it out.    *)
LEMMA AllocChangesNothing ==
  ASSUME NEW t, NEW kids, Family(t, kids), NEW p \in Pcb, t.prnt[p] = NULL, t.child[p] = NULL
  PROVE  allocTree(t, p) = t
<1>1. t \in Trees /\ t.nsib[p] = NULL /\ t.psib[p] = NULL
  BY DEF Family
<1> QED  BY <1>1 DEF allocTree, Trees

(* insertChild appends to the list of the parent.                          *)
LEMMA FamilyInsert ==
  ASSUME NEW t, NEW kids, Family(t, kids), NEW q \in Pcb, NEW p \in Pcb, t.prnt[p] = NULL
  PROVE  LET u == insertChild(t, q, p)
         IN  /\ Family(u, [kids EXCEPT ![q] = Append(@, p)])
             /\ u.prnt = [t.prnt EXCEPT ![p] = q]
             /\ \A r \in Pcb \ {q} : u.child[r] = t.child[r]
<1> DEFINE u == insertChild(t, q, p)
           kids2 == [kids EXCEPT ![q] = Append(@, p)]
           s == kids[q]
           last == s[Len(s)]
<1>1. /\ s \in Seq(Pcb) /\ IsInjective(s)
      /\ t.nsib \in [Pcb -> PcbOrNull] /\ t.psib \in [Pcb -> PcbOrNull]
      /\ t.prnt \in [Pcb -> PcbOrNull] /\ t.child \in [Pcb -> PcbOrNull]
      /\ kids \in [Pcb -> Seq(Pcb)]
      /\ t.child[q] = NULL <=> s = <<>>
      /\ SiblingList(t.nsib, t.psib, t.child[q], s)
  <2>1. kids \in [Pcb -> Seq(Pcb)] /\ SiblingList(t.nsib, t.psib, t.child[q], s)
    BY DEF Family
  <2> QED  BY FamilyFacts, <2>1, Zenon
<1>2. /\ \A r \in Pcb : ~Contains(kids[r], p)
      /\ t.nsib[p] = NULL /\ t.psib[p] = NULL
  BY NullAssumption DEF Family
<1>3. /\ Append(s, p) \in Seq(Pcb)
      /\ \A x : Contains(Append(s, p), x) <=> Contains(s, x) \/ x = p
  BY <1>1, AppendFacts
<1>4. kids2 \in [Pcb -> Seq(Pcb)] /\ kids2[q] = Append(s, p)
      /\ \A r \in Pcb \ {q} : kids2[r] = kids[r]
  BY <1>1, <1>3
<1>5. s # <<>> => /\ last \in Pcb /\ Contains(s, last) /\ last # p
                  /\ (CHOOSE r \in Pcb : IsLastSibling(t, t.child[q], r)) = last
  BY <1>2, LastSibling
<1> HIDE DEF s, last, kids2
<1>6. s = <<>> => /\ u.prnt = [t.prnt EXCEPT ![p] = q]
                  /\ u.child = [t.child EXCEPT ![q] = p]
                  /\ u.nsib = [t.nsib EXCEPT ![p] = NULL]
                  /\ u.psib = [t.psib EXCEPT ![p] = NULL]
                  /\ u = [prnt |-> u.prnt, child |-> u.child, nsib |-> u.nsib, psib |-> u.psib]
  BY <1>1 DEF insertChild, emptyChild
<1>7. s # <<>> => /\ u.prnt = [t.prnt EXCEPT ![p] = q]
                  /\ u.child = t.child
                  /\ u.nsib = [t.nsib EXCEPT ![p] = NULL, ![last] = p]
                  /\ u.psib = [t.psib EXCEPT ![p] = last]
                  /\ u = [prnt |-> u.prnt, child |-> u.child, nsib |-> u.nsib, psib |-> u.psib]
  BY <1>1, <1>5 DEF insertChild, emptyChild
<1> HIDE DEF u
<1>8. /\ u \in Trees /\ u.prnt = [t.prnt EXCEPT ![p] = q]
      /\ \A r \in Pcb \ {q} : u.child[r] = t.child[r]
      /\ \A r \in Pcb : r # p /\ (s = <<>> \/ r # last) => u.nsib[r] = t.nsib[r]
      /\ \A r \in Pcb : r # p => u.psib[r] = t.psib[r]
  <2> DEFINE un == u.nsib  ub == u.psib  uc == u.child  up == u.prnt
  <2>1. CASE s = <<>>
    <3>1. /\ up = [t.prnt EXCEPT ![p] = q] /\ uc = [t.child EXCEPT ![q] = p]
          /\ un = [t.nsib EXCEPT ![p] = NULL] /\ ub = [t.psib EXCEPT ![p] = NULL]
          /\ u = [prnt |-> up, child |-> uc, nsib |-> un, psib |-> ub]
      BY <1>6, <2>1
    <3> HIDE DEF un, ub, uc, up
    <3>2. /\ up \in [Pcb -> PcbOrNull] /\ uc \in [Pcb -> PcbOrNull]
          /\ un \in [Pcb -> PcbOrNull] /\ ub \in [Pcb -> PcbOrNull]
      BY <1>1, <3>1 DEF PcbOrNull
    <3>3. u \in Trees
      BY <3>1, <3>2 DEF Trees
    <3>4. /\ \A r \in Pcb \ {q} : uc[r] = t.child[r]
          /\ \A r \in Pcb : r # p => un[r] = t.nsib[r] /\ ub[r] = t.psib[r]
      BY <1>1, <3>1
    <3> QED  BY <3>1, <3>3, <3>4 DEF un, ub, uc, up
  <2>2. CASE s # <<>>
    <3>1. /\ up = [t.prnt EXCEPT ![p] = q] /\ uc = t.child
          /\ un = [t.nsib EXCEPT ![p] = NULL, ![last] = p] /\ ub = [t.psib EXCEPT ![p] = last]
          /\ u = [prnt |-> up, child |-> uc, nsib |-> un, psib |-> ub]
      BY <1>7, <2>2
    <3> HIDE DEF un, ub, uc, up
    <3>2. /\ up \in [Pcb -> PcbOrNull] /\ uc \in [Pcb -> PcbOrNull]
          /\ un \in [Pcb -> PcbOrNull] /\ ub \in [Pcb -> PcbOrNull]
      BY <1>1, <1>5, <2>2, <3>1 DEF PcbOrNull
    <3>3. u \in Trees
      BY <3>1, <3>2 DEF Trees
    <3>4. /\ \A r \in Pcb \ {q} : uc[r] = t.child[r]
          /\ \A r \in Pcb : r # p /\ r # last => un[r] = t.nsib[r]
          /\ \A r \in Pcb : r # p => ub[r] = t.psib[r]
      BY <1>1, <1>5, <2>2, <3>1
    <3> QED  BY <2>2, <3>1, <3>3, <3>4 DEF un, ub, uc, up
  <2> QED  BY <2>1, <2>2
<1>9. ASSUME NEW r \in Pcb PROVE SiblingList(u.nsib, u.psib, u.child[r], kids2[r])
  <2>1. CASE r # q
    <3>1. kids2[r] = kids[r] /\ u.child[r] = t.child[r]
      BY <1>4, <1>8, <2>1
    <3>2. SiblingList(t.nsib, t.psib, t.child[r], kids[r])
      BY DEF Family
    <3>3. ASSUME NEW x \in Pcb, Contains(kids[r], x)
          PROVE  u.nsib[x] = t.nsib[x] /\ u.psib[x] = t.psib[x]
      <4>1. x # p /\ ~Contains(s, x)
        BY <1>2, <2>1, <3>3 DEF Family, s
      <4> QED  BY <1>5, <1>8, <4>1
    <3> QED  BY <3>1, <3>2, <3>3, ListFrame
  <2>2. CASE r = q /\ s = <<>>
    <3>1. u.child[q] = p /\ u.nsib[p] = NULL /\ u.psib[p] = NULL
      BY <1>1, <1>6, <2>2
    <3>2. kids2[q] = <<p>>
      BY <1>4, <2>2
    <3>3. /\ <<p>> \in Seq(Pcb) /\ IsInjective(<<p>>) /\ Len(<<p>>) = 1 /\ <<p>>[1] = p
          /\ <<p>> # <<>>
      BY DEF IsInjective
    <3> QED  BY <2>2, <3>1, <3>2, <3>3 DEF SiblingList, Chain
  <2>3. CASE r = q /\ s # <<>>
    <3>1. /\ u.child[q] = t.child[q] /\ u.nsib[p] = NULL /\ u.psib[p] = last
          /\ u.nsib[last] = p
      BY <1>1, <1>5, <1>7, <2>3
    <3>2. ~Contains(s, p)
      BY <1>2 DEF s
    <3>3. ASSUME NEW x \in Pcb, Contains(s, x)
          PROVE  (x # last => u.nsib[x] = t.nsib[x]) /\ u.psib[x] = t.psib[x]
      BY <1>8, <3>2, <3>3
    <3>4. SiblingList(u.nsib, u.psib, t.child[q], Append(s, p))
      <4> DEFINE un == u.nsib  ub == u.psib  x == t.child[q]  n == t.nsib  b == t.psib
      <4>1. /\ SiblingList(n, b, x, s) /\ s # <<>>
            /\ un[p] = NULL /\ ub[p] = s[Len(s)] /\ un[s[Len(s)]] = p
            /\ \A y \in Pcb : Contains(s, y) => /\ y # s[Len(s)] => un[y] = n[y]
                                                /\ ub[y] = b[y]
        BY <1>1, <2>3, <3>1, <3>3 DEF last
      <4> HIDE DEF un, ub, x, n, b
      <4>2. SiblingList(un, ub, x, Append(s, p))
        BY <3>2, <4>1, ListAppend
      <4> QED  BY <4>2 DEF un, ub, x
    <3> QED  BY <1>4, <2>3, <3>1, <3>4
  <2> QED  BY <2>1, <2>2, <2>3
<1>10. ASSUME NEW x \in Pcb, NEW r \in Pcb PROVE Contains(kids2[r], x) <=> u.prnt[x] = r
  <2>1. Contains(kids[r], x) <=> t.prnt[x] = r
    BY DEF Family
  <2>2. u.prnt[x] = IF x = p THEN q ELSE t.prnt[x]
    BY <1>1, <1>8
  <2>3. Contains(kids2[r], x) <=> Contains(kids[r], x) \/ (r = q /\ x = p)
    BY <1>3, <1>4 DEF s
  <2> QED  BY <1>2, <2>1, <2>2, <2>3
<1>11. ASSUME NEW x \in Pcb, u.prnt[x] = NULL PROVE u.nsib[x] = NULL /\ u.psib[x] = NULL
  <2>1. x # p /\ t.prnt[x] = NULL
    BY <1>1, <1>8, <1>11, NullAssumption
  <2>2. s # <<>> => x # last
    <3>1. s # <<>> => t.prnt[last] = q
      BY <1>5 DEF Family, s
    <3> QED  BY <2>1, <3>1, NullAssumption
  <2>3. t.nsib[x] = NULL /\ t.psib[x] = NULL
    BY <2>1 DEF Family
  <2> QED  BY <1>8, <2>1, <2>2, <2>3
<1>12. Family(u, kids2)
  BY <1>4, <1>8, <1>9, <1>10, <1>11 DEF Family
<1> QED  BY <1>8, <1>12 DEF u, kids2

(* removeChild takes the first element off the list of the parent.         *)
LEMMA FamilyRemove ==
  ASSUME NEW t, NEW kids, Family(t, kids), NEW q \in Pcb, kids[q] # <<>>
  PROVE  LET u == removeChild(t, q)
         IN  /\ t.child[q] = Head(kids[q]) /\ t.child[q] \in Pcb
             /\ Family(u, [kids EXCEPT ![q] = Tail(@)])
             /\ u.prnt = [t.prnt EXCEPT ![t.child[q]] = NULL]
             /\ \A r \in Pcb \ {q} : u.child[r] = t.child[r]
<1> DEFINE u == removeChild(t, q)
           kids2 == [kids EXCEPT ![q] = Tail(@)]
           s == kids[q]
           c == t.child[q]
           after == t.nsib[c]
<1>1. /\ s \in Seq(Pcb) /\ IsInjective(s)
      /\ t.nsib \in [Pcb -> PcbOrNull] /\ t.psib \in [Pcb -> PcbOrNull]
      /\ t.prnt \in [Pcb -> PcbOrNull] /\ t.child \in [Pcb -> PcbOrNull]
      /\ kids \in [Pcb -> Seq(Pcb)]
      /\ SiblingList(t.nsib, t.psib, c, s)
  <2>1. kids \in [Pcb -> Seq(Pcb)] /\ SiblingList(t.nsib, t.psib, c, s)
    BY DEF Family
  <2> QED  BY FamilyFacts, <2>1, Zenon
<1>2. /\ Tail(s) \in Seq(Pcb) /\ Head(s) \in Pcb /\ Contains(s, Head(s))
      /\ \A x : Contains(s, x) <=> Contains(Tail(s), x) \/ x = Head(s)
      /\ ~Contains(Tail(s), Head(s))
  BY <1>1, TailFacts
<1>3. c = Head(s) /\ c \in Pcb /\ Contains(s, c)
  BY <1>2, FamilyFacts
<1>4. t.psib[c] = NULL /\ (Len(s) > 1 => after = s[2])
  <2>1. Len(s) \in Nat /\ Len(s) > 0 /\ s[1] = c
    BY <1>1, <1>3
  <2>2. 1 \in 1 .. Len(s)
    BY <2>1
  <2>3. t.psib[s[1]] = NULL /\ t.nsib[s[1]] = IF 1 = Len(s) THEN NULL ELSE s[1 + 1]
    BY <1>1, <2>2 DEF SiblingList, Chain
  <2> QED  BY <2>1, <2>3
<1>5. kids2 \in [Pcb -> Seq(Pcb)] /\ kids2[q] = Tail(s)
      /\ \A r \in Pcb \ {q} : kids2[r] = kids[r]
  BY <1>1, <1>2
<1>6. after = NULL \/ (after \in Pcb /\ Contains(s, after))
  <2>1. CASE Len(s) > 1
    <3>1. 2 \in 1 .. Len(s)
      BY <1>1, <2>1
    <3>2. s[2] \in Pcb /\ Contains(s, s[2])
      BY <1>1, <3>1 DEF Contains
    <3> QED  BY <1>4, <2>1, <3>2
  <2>2. CASE ~(Len(s) > 1)
    <3>1. Len(s) = 1 /\ s[1] = c
      <4>1. s # <<>> /\ s[1] = Head(s)
        BY <1>1
      <4> HIDE DEF s, c
      <4>2. Len(s) \in Nat /\ Len(s) # 0
        BY <1>1, <4>1, LengthFacts
      <4>3. Len(s) = 1
        <5>1. \A n \in Nat : n # 0 /\ ~(n > 1) => n = 1
          OBVIOUS
        <5> QED  BY <2>2, <4>2, <5>1, Zenon
      <4>4. s[1] = c
        BY <1>3, <4>1, Zenon
      <4> QED  BY <4>3, <4>4
    <3>2. t.nsib[s[1]] = NULL
      BY <1>1, <3>1 DEF SiblingList, Chain
    <3> QED  BY <3>1, <3>2
  <2> QED  BY <2>1, <2>2
<1>7. /\ u.prnt = [t.prnt EXCEPT ![c] = NULL]
      /\ u.child = [t.child EXCEPT ![q] = after]
      /\ u.nsib = [t.nsib EXCEPT ![c] = NULL]
      /\ u.psib = IF after = NULL THEN [t.psib EXCEPT ![c] = NULL]
                                  ELSE [t.psib EXCEPT ![c] = NULL, ![after] = NULL]
      /\ u = [prnt |-> u.prnt, child |-> u.child, nsib |-> u.nsib, psib |-> u.psib]
  <2> DEFINE w == [t EXCEPT !.child[q] = t.nsib[c]]
  <2>1. t \in Trees
    BY DEF Family
  <2>2. /\ w.prnt = t.prnt /\ w.nsib = t.nsib /\ w.psib = t.psib
        /\ w.child = [t.child EXCEPT ![q] = after]
    BY <2>1 DEF Trees
  <2>3. u = unlinkChild(w, c)
    BY DEF removeChild
  <2> HIDE DEF w, u, after
  <2>4. w.psib[c] = NULL /\ w.nsib[c] = after
    BY <1>4, <2>2 DEF after
  <2> QED  BY <2>2, <2>3, <2>4 DEF unlinkChild
<1> HIDE DEF u, s, c, after, kids2
<1>8. /\ u \in Trees
      /\ \A r \in Pcb \ {q} : u.child[r] = t.child[r]
      /\ u.child[q] = after
      /\ \A r \in Pcb : r # c => u.nsib[r] = t.nsib[r]
      /\ \A r \in Pcb : r # c /\ r # after => u.psib[r] = t.psib[r]
      /\ after # NULL => u.psib[after] = NULL
      /\ u.nsib[c] = NULL /\ u.psib[c] = NULL
  <2> DEFINE un == u.nsib  ub == u.psib  uc == u.child  up == u.prnt
  <2>1. /\ up = [t.prnt EXCEPT ![c] = NULL] /\ uc = [t.child EXCEPT ![q] = after]
        /\ un = [t.nsib EXCEPT ![c] = NULL]
        /\ ub = IF after = NULL THEN [t.psib EXCEPT ![c] = NULL]
                                ELSE [t.psib EXCEPT ![c] = NULL, ![after] = NULL]
        /\ u = [prnt |-> up, child |-> uc, nsib |-> un, psib |-> ub]
    BY <1>7
  <2> HIDE DEF un, ub, uc, up
  <2>2. /\ up \in [Pcb -> PcbOrNull] /\ uc \in [Pcb -> PcbOrNull]
        /\ un \in [Pcb -> PcbOrNull] /\ ub \in [Pcb -> PcbOrNull]
    BY <1>1, <1>6, <2>1 DEF PcbOrNull
  <2>3. u \in Trees
    BY <2>1, <2>2 DEF Trees
  <2>4. /\ \A r \in Pcb \ {q} : uc[r] = t.child[r]
        /\ uc[q] = after
        /\ \A r \in Pcb : r # c => un[r] = t.nsib[r]
        /\ un[c] = NULL
    BY <1>1, <1>3, <2>1
  <2>5. /\ \A r \in Pcb : r # c /\ r # after => ub[r] = t.psib[r]
        /\ after # NULL => ub[after] = NULL
        /\ ub[c] = NULL
    BY <1>1, <1>3, <1>6, <2>1
  <2> QED  BY <2>3, <2>4, <2>5 DEF un, ub, uc, up
<1>9. ASSUME NEW r \in Pcb PROVE SiblingList(u.nsib, u.psib, u.child[r], kids2[r])
  <2>1. CASE r # q
    <3>1. kids2[r] = kids[r] /\ u.child[r] = t.child[r]
      BY <1>5, <1>8, <2>1
    <3>2. SiblingList(t.nsib, t.psib, t.child[r], kids[r])
      BY DEF Family
    <3>3. ASSUME NEW x \in Pcb, Contains(kids[r], x)
          PROVE  u.nsib[x] = t.nsib[x] /\ u.psib[x] = t.psib[x]
      <4>1. ~Contains(s, x)
        BY <2>1, <3>3 DEF Family, s
      <4>2. x # c /\ (after # NULL => x # after)
        BY <1>3, <1>6, <4>1
      <4>3. x # NULL
        BY NullAssumption
      <4> QED  BY <1>8, <4>2, <4>3
    <3> QED  BY <3>1, <3>2, <3>3, ListFrame
  <2>2. CASE r = q
    <3> DEFINE un == u.nsib  ub == u.psib  n == t.nsib  b == t.psib
    <3>1. /\ SiblingList(n, b, c, s) /\ s # <<>> /\ n[c] = after
          /\ Len(s) > 1 => ub[s[2]] = NULL
          /\ \A x \in Pcb : Contains(s, x) /\ x # c => un[x] = n[x] /\ (x = n[c] \/ ub[x] = b[x])
      <4>1. s # <<>>  BY DEF s
      <4>2. n[c] = after  BY DEF after
      <4>3. Len(s) > 1 => s[2] # NULL
        BY <1>1, NullAssumption
      <4> QED  BY <1>1, <1>4, <1>8, <4>1, <4>2, <4>3
    <3> HIDE DEF un, ub, n, b
    <3>2. SiblingList(un, ub, n[c], Tail(s))
      BY <3>1, ListTail
    <3>3. SiblingList(un, ub, after, Tail(s))
      BY <3>1, <3>2
    <3> QED  BY <1>5, <1>8, <2>2, <3>3 DEF un, ub
  <2> QED  BY <2>1, <2>2
<1>10. ASSUME NEW x \in Pcb, NEW r \in Pcb PROVE Contains(kids2[r], x) <=> u.prnt[x] = r
  <2>1. (Contains(kids[r], x) <=> t.prnt[x] = r) /\ (Contains(s, x) <=> t.prnt[x] = q)
    BY DEF Family, s
  <2>2. u.prnt[x] = IF x = c THEN NULL ELSE t.prnt[x]
    BY <1>1, <1>3, <1>7
  <2>3. t.prnt[c] = q
    BY <1>3 DEF Family, s
  <2>4. CASE r = q
    <3>1. Contains(kids2[r], x) <=> Contains(s, x) /\ x # c
      BY <1>2, <1>3, <1>5, <2>4
    <3> QED  BY <2>1, <2>2, <2>4, <3>1, NullAssumption
  <2>5. CASE r # q
    <3>1. Contains(kids2[r], x) <=> Contains(kids[r], x)
      BY <1>5, <2>5
    <3> QED  BY <2>1, <2>2, <2>3, <2>5, <3>1, NullAssumption
  <2> QED  BY <2>4, <2>5
<1>11. ASSUME NEW x \in Pcb, u.prnt[x] = NULL PROVE u.nsib[x] = NULL /\ u.psib[x] = NULL
  <2>1. CASE x = c
    BY <1>8, <2>1
  <2>2. CASE x # c
    <3>1. t.prnt[x] = NULL
      BY <1>1, <1>3, <1>7, <1>11, <2>2
    <3>2. t.nsib[x] = NULL /\ t.psib[x] = NULL
      BY <3>1 DEF Family
    <3>3. x # after
      <4>1. x = after => Contains(s, x)
        BY <1>6, NullAssumption
      <4>2. Contains(s, x) => t.prnt[x] = q
        BY DEF Family, s
      <4> QED  BY <3>1, <4>1, <4>2, NullAssumption
    <3> QED  BY <1>8, <2>2, <3>2, <3>3
  <2> QED  BY <2>1, <2>2
<1>12. Family(u, kids2)
  BY <1>5, <1>8, <1>9, <1>10, <1>11 DEF Family
<1> QED  BY <1>3, <1>7, <1>8, <1>12 DEF u, kids2, s, c

(* outChild of a process in no tree does nothing.                          *)
LEMMA FamilyOutside ==
  ASSUME NEW t, NEW p, t.prnt[p] = NULL
  PROVE  outChild(t, p) = t
BY DEF outChild

(* outChild takes a process without a younger sibling off the end of the   *)
(* list of its parent.                                                     *)
LEMMA FamilyYoungest ==
  ASSUME NEW t, NEW kids, Family(t, kids), NEW p \in Pcb, NEW q, q = t.prnt[p], q # NULL,
         t.nsib[p] = NULL
  PROVE  LET u == outChild(t, p)
         IN  /\ q \in Pcb /\ Contains(kids[q], p)
             /\ Family(u, [kids EXCEPT ![q] = RemoveFirst(@, p)])
             /\ u.prnt = [t.prnt EXCEPT ![p] = NULL]
             /\ \A r \in Pcb \ {q} : u.child[r] = t.child[r]
<1> DEFINE u == outChild(t, p)
           kids2 == [kids EXCEPT ![q] = RemoveFirst(@, p)]
           s == kids[q]
           c == t.child[q]
           before == t.psib[p]
<1>1. /\ t.nsib \in [Pcb -> PcbOrNull] /\ t.psib \in [Pcb -> PcbOrNull]
      /\ t.prnt \in [Pcb -> PcbOrNull] /\ t.child \in [Pcb -> PcbOrNull]
      /\ t \in Trees /\ kids \in [Pcb -> Seq(Pcb)]
  BY DEF Family, Trees
<1>2. q \in Pcb
  BY <1>1 DEF PcbOrNull
<1>3. SiblingList(t.nsib, t.psib, c, s) /\ Contains(s, p) /\ s \in Seq(Pcb)
  BY <1>1, <1>2 DEF Family
<1>4. /\ c = p => before = NULL
      /\ c # p => before \in Pcb /\ Contains(s, before) /\ before # p
  BY <1>3, ListLast
<1>5. /\ u.prnt = [t.prnt EXCEPT ![p] = NULL]
      /\ u.child = IF c = p THEN [t.child EXCEPT ![q] = NULL] ELSE t.child
      /\ u.nsib = IF before = NULL THEN [t.nsib EXCEPT ![p] = NULL]
                                   ELSE [t.nsib EXCEPT ![before] = NULL, ![p] = NULL]
      /\ u.psib = [t.psib EXCEPT ![p] = NULL]
      /\ u = [prnt |-> u.prnt, child |-> u.child, nsib |-> u.nsib, psib |-> u.psib]
  <2> DEFINE w == IF c = p THEN [t EXCEPT !.child[q] = t.psib[p]] ELSE t
  <2>1. u = unlinkChild(w, p)
    BY DEF outChild
  <2>2. /\ w.prnt = t.prnt /\ w.nsib = t.nsib /\ w.psib = t.psib
        /\ w.child = IF c = p THEN [t.child EXCEPT ![q] = before] ELSE t.child
    <3>1. CASE c = p
      BY <1>1, <3>1 DEF Trees
    <3>2. CASE c # p
      BY <3>2
    <3> QED  BY <3>1, <3>2
  <2> HIDE DEF w, u, before
  <2>3. w.psib[p] = before /\ w.nsib[p] = NULL
    BY <2>2 DEF before
  <2> QED  BY <1>4, <2>1, <2>2, <2>3 DEF unlinkChild
<1> HIDE DEF u, s, c, before, kids2
<1>6. /\ u \in Trees
      /\ \A r \in Pcb \ {q} : u.child[r] = t.child[r]
      /\ u.child[q] = IF c = p THEN NULL ELSE c
      /\ \A r \in Pcb : r # p => /\ u.nsib[r] = IF r = before THEN NULL ELSE t.nsib[r]
                                 /\ u.psib[r] = t.psib[r]
      /\ u.nsib[p] = NULL /\ u.psib[p] = NULL
  <2> DEFINE un == u.nsib  ub == u.psib  uc == u.child  up == u.prnt
  <2>1. /\ up = [t.prnt EXCEPT ![p] = NULL]
        /\ uc = IF c = p THEN [t.child EXCEPT ![q] = NULL] ELSE t.child
        /\ un = IF before = NULL THEN [t.nsib EXCEPT ![p] = NULL]
                                 ELSE [t.nsib EXCEPT ![before] = NULL, ![p] = NULL]
        /\ ub = [t.psib EXCEPT ![p] = NULL]
        /\ u = [prnt |-> up, child |-> uc, nsib |-> un, psib |-> ub]
    BY <1>5
  <2> HIDE DEF un, ub, uc, up
  <2>2. /\ up \in [Pcb -> PcbOrNull] /\ uc \in [Pcb -> PcbOrNull]
        /\ un \in [Pcb -> PcbOrNull] /\ ub \in [Pcb -> PcbOrNull]
    BY <1>1, <2>1 DEF PcbOrNull
  <2>3. u \in Trees
    BY <2>1, <2>2 DEF Trees
  <2>4. /\ \A r \in Pcb \ {q} : uc[r] = t.child[r]
        /\ uc[q] = IF c = p THEN NULL ELSE c
    BY <1>1, <1>2, <2>1 DEF c
  <2>5. /\ \A r \in Pcb : r # p => un[r] = IF r = before THEN NULL ELSE t.nsib[r]
        /\ un[p] = NULL
    BY <1>1, <1>4, <2>1, NullAssumption
  <2>6. /\ \A r \in Pcb : r # p => ub[r] = t.psib[r]
        /\ ub[p] = NULL
    BY <1>1, <2>1
  <2> QED  BY <2>3, <2>4, <2>5, <2>6 DEF un, ub, uc, up
<1>7. /\ RemoveFirst(s, p) \in Seq(Pcb)
      /\ \A x : Contains(RemoveFirst(s, p), x) <=> Contains(s, x) /\ x # p
      /\ SiblingList(u.nsib, u.psib, u.child[q], RemoveFirst(s, p))
  <2> DEFINE un == u.nsib  ub == u.psib  n == t.nsib  b == t.psib
  <2>1. /\ SiblingList(n, b, c, s) /\ Contains(s, p) /\ n[p] = NULL
        /\ \A x \in Pcb : Contains(s, x) /\ x # p =>
             /\ ub[x] = b[x]
             /\ un[x] = IF x = b[p] THEN NULL ELSE n[x]
    BY <1>3, <1>6 DEF before
  <2> HIDE DEF un, ub, n, b
  <2>2. /\ RemoveFirst(s, p) \in Seq(Pcb)
        /\ \A x : Contains(RemoveFirst(s, p), x) <=> Contains(s, x) /\ x # p
        /\ SiblingList(un, ub, IF c = p THEN NULL ELSE c, RemoveFirst(s, p))
    BY <2>1, ListFront
  <2> QED  BY <1>6, <2>2 DEF un, ub
<1>8. /\ kids2 \in [Pcb -> Seq(Pcb)] /\ kids2[q] = RemoveFirst(s, p)
      /\ \A r \in Pcb \ {q} : kids2[r] = kids[r]
  BY <1>1, <1>2, <1>7 DEF kids2, s
<1>9. ASSUME NEW r \in Pcb PROVE SiblingList(u.nsib, u.psib, u.child[r], kids2[r])
  <2>1. CASE r # q
    <3>1. kids2[r] = kids[r] /\ u.child[r] = t.child[r]
      BY <1>6, <1>8, <2>1
    <3>2. SiblingList(t.nsib, t.psib, t.child[r], kids[r])
      BY DEF Family
    <3>3. ASSUME NEW x \in Pcb, Contains(kids[r], x)
          PROVE  u.nsib[x] = t.nsib[x] /\ u.psib[x] = t.psib[x]
      <4>1. ~Contains(s, x)
        BY <1>2, <2>1, <3>3 DEF Family, s
      <4>2. x # p /\ x # before
        BY <1>3, <1>4, <4>1, NullAssumption
      <4> QED  BY <1>6, <4>2
    <3> QED  BY <3>1, <3>2, <3>3, ListFrame
  <2>2. CASE r = q
    BY <1>7, <1>8, <2>2
  <2> QED  BY <2>1, <2>2
<1>10. ASSUME NEW x \in Pcb, NEW r \in Pcb PROVE Contains(kids2[r], x) <=> u.prnt[x] = r
  <2>1. (Contains(kids[r], x) <=> t.prnt[x] = r) /\ (Contains(s, x) <=> t.prnt[x] = q)
    BY <1>2 DEF Family, s
  <2>2. u.prnt[x] = IF x = p THEN NULL ELSE t.prnt[x]
    BY <1>1, <1>5
  <2>3. CASE r = q
    <3>1. Contains(kids2[r], x) <=> Contains(s, x) /\ x # p
      BY <1>7, <1>8, <2>3
    <3> QED  BY <2>1, <2>2, <2>3, <3>1, NullAssumption
  <2>4. CASE r # q
    <3>1. Contains(kids2[r], x) <=> Contains(kids[r], x)
      BY <1>8, <2>4
    <3> QED  BY <2>1, <2>2, <2>4, <3>1, NullAssumption
  <2> QED  BY <2>3, <2>4
<1>11. ASSUME NEW x \in Pcb, u.prnt[x] = NULL PROVE u.nsib[x] = NULL /\ u.psib[x] = NULL
  <2>1. CASE x = p
    BY <1>6, <2>1
  <2>2. CASE x # p
    <3>1. t.prnt[x] = NULL
      BY <1>1, <1>5, <1>11, <2>2
    <3>2. t.nsib[x] = NULL /\ t.psib[x] = NULL
      BY <3>1 DEF Family
    <3> QED  BY <1>6, <2>2, <3>2
  <2> QED  BY <2>1, <2>2
<1>12. Family(u, kids2)
  BY <1>6, <1>8, <1>9, <1>10, <1>11 DEF Family
<1> QED  BY <1>2, <1>3, <1>5, <1>6, <1>12 DEF u, kids2, s

(* p_next_sib and p_prev_sib are inverse to each other, and p_child leads  *)
(* to the processes whose p_prnt leads back.                               *)
LEMMA FamilyReads ==
  ASSUME NEW t, NEW kids, Family(t, kids)
  PROVE  /\ kids = [q \in Pcb |-> Walk(t.nsib, t.child[q])]
         /\ \A p, q \in Pcb : p \in Reachable(t.nsib, t.child[q]) <=> t.prnt[p] = q
         /\ \A p, q \in Pcb : t.nsib[p] = q <=> t.psib[q] = p
<1>1. ASSUME NEW q \in Pcb
      PROVE  /\ kids[q] = Walk(t.nsib, t.child[q])
             /\ Reachable(t.nsib, t.child[q]) = {p \in Pcb : Contains(kids[q], p)}
  BY FamilyFacts, ChainReach
<1>2. kids = [q \in Pcb |-> Walk(t.nsib, t.child[q])]
  <2>1. kids = [q \in Pcb |-> kids[q]]
    BY DEF Family
  <2> QED  BY <1>1, <2>1
<1>3. \A p, q \in Pcb : p \in Reachable(t.nsib, t.child[q]) <=> t.prnt[p] = q
  BY <1>1 DEF Family
<1>4. ASSUME NEW p \in Pcb, t.prnt[p] # NULL
      PROVE  \E r \in Pcb : \E i \in 1 .. Len(kids[r]) : kids[r][i] = p
  <2>1. t.prnt[p] \in Pcb
    BY <1>4, FamilyFacts DEF PcbOrNull
  <2> QED  BY <2>1 DEF Family, Contains
<1>5. ASSUME NEW r \in Pcb, NEW i \in 1 .. Len(kids[r])
      PROVE  /\ kids[r] \in Seq(Pcb)
             /\ t.nsib[kids[r][i]] = IF i = Len(kids[r]) THEN NULL ELSE kids[r][i + 1]
             /\ t.psib[kids[r][i]] = IF i = 1 THEN NULL ELSE kids[r][i - 1]
  <2>1. kids[r] \in Seq(Pcb) /\ SiblingList(t.nsib, t.psib, t.child[r], kids[r])
    BY DEF Family
  <2> DEFINE s == kids[r]  n == t.nsib  b == t.psib
  <2> HIDE DEF s, n, b
  <2>2. SiblingList(n, b, t.child[r], s) /\ i \in 1 .. Len(s)
    BY <2>1 DEF s, n, b
  <2>3. /\ n[s[i]] = IF i = Len(s) THEN NULL ELSE s[i + 1]
        /\ b[s[i]] = IF i = 1 THEN NULL ELSE s[i - 1]
    BY <2>2 DEF SiblingList, Chain
  <2> QED  BY <2>1, <2>3 DEF s, n, b
<1>6. ASSUME NEW p \in Pcb, NEW q \in Pcb, t.nsib[p] = q PROVE t.psib[q] = p
  <2>1. t.prnt[p] # NULL
    BY <1>6, NullAssumption DEF Family
  <2>a. PICK r \in Pcb : \E i \in 1 .. Len(kids[r]) : kids[r][i] = p
    BY <1>4, <2>1
  <2>2. PICK i \in 1 .. Len(kids[r]) : kids[r][i] = p
    BY <2>a
  <2> DEFINE s == kids[r]
  <2>3. s \in Seq(Pcb) /\ i \in 1 .. Len(s) /\ s[i] = p
    BY <1>5, <2>2
  <2>4. i # Len(s) /\ q = s[i + 1]
    BY <1>5, <1>6, <2>2, NullAssumption
  <2>5. i + 1 \in 1 .. Len(s) /\ i + 1 # 1 /\ i + 1 - 1 = i
    BY <2>3, <2>4
  <2> QED  BY <1>5, <2>3, <2>4, <2>5
<1>7. ASSUME NEW p \in Pcb, NEW q \in Pcb, t.psib[q] = p PROVE t.nsib[p] = q
  <2>1. t.prnt[q] # NULL
    BY <1>7, NullAssumption DEF Family
  <2>a. PICK r \in Pcb : \E i \in 1 .. Len(kids[r]) : kids[r][i] = q
    BY <1>4, <2>1
  <2>2. PICK i \in 1 .. Len(kids[r]) : kids[r][i] = q
    BY <2>a
  <2> DEFINE s == kids[r]
  <2>3. s \in Seq(Pcb) /\ i \in 1 .. Len(s) /\ s[i] = q
    BY <1>5, <2>2
  <2>4. i # 1 /\ p = s[i - 1]
    BY <1>5, <1>7, <2>2, NullAssumption
  <2>5. i - 1 \in 1 .. Len(s) /\ i - 1 # Len(s) /\ i - 1 + 1 = i
    BY <2>3, <2>4
  <2> QED  BY <1>5, <2>3, <2>4, <2>5
<1> QED  BY <1>2, <1>3, <1>6, <1>7
(* A younger sibling names its elder sibling, and has the same parent.     *)
LEMMA FamilySiblings ==
  ASSUME NEW t, NEW kids, Family(t, kids), NEW p \in Pcb, NEW a \in Pcb, t.nsib[p] = a
  PROVE  /\ t.psib[a] = p /\ a # p
         /\ t.prnt[p] \in Pcb /\ t.prnt[a] = t.prnt[p]
         /\ t.psib[p] = NULL <=> t.child[t.prnt[p]] = p
<1> DEFINE q == t.prnt[p]
           s == kids[q]
<1>1. q \in Pcb /\ t.psib[a] = p
  <2>1. q # NULL
    BY NullAssumption DEF Family
  <2> QED  BY <2>1, FamilyFacts, FamilyReads DEF PcbOrNull
<1>2. SiblingList(t.nsib, t.psib, t.child[q], s) /\ s \in Seq(Pcb) /\ IsInjective(s)
  BY <1>1, FamilyFacts DEF Family
<1>3. PICK i \in 1 .. Len(s) : s[i] = p
  BY <1>1 DEF Family, Contains
<1> DEFINE l == i + 1
<1>4. t.nsib[s[i]] = IF i = Len(s) THEN NULL ELSE s[l]
  BY <1>2 DEF SiblingList, Chain
<1>5. l \in 1 .. Len(s) /\ l # i
  BY <1>2, <1>3, <1>4, NullAssumption
<1> HIDE DEF l, s, q
<1>6. a = s[l] /\ a # p
  <2>1. a = s[l]
    BY <1>3, <1>4, NullAssumption
  <2> QED  BY <1>2, <1>3, <1>5, <2>1 DEF IsInjective
<1>7. Contains(s, a)
  BY <1>5, <1>6 DEF Contains
<1>8. t.psib[p] = NULL <=> t.child[q] = p
  <2>1. Len(s) \in Nat /\ 1 \in 1 .. Len(s) /\ s # <<>>
    BY <1>2, <1>3
  <2>2. t.child[q] = s[1] /\ (i = 1 <=> s[1] = p)
    BY <1>2, <1>3, <2>1 DEF SiblingList, Chain, IsInjective
  <2>3. i # 1 => s[i - 1] \in Pcb
    BY <1>2, <1>3
  <2>4. t.psib[s[i]] = IF i = 1 THEN NULL ELSE s[i - 1]
    BY <1>2 DEF SiblingList
  <2> QED  BY <1>3, <2>2, <2>3, <2>4, NullAssumption
<1> QED  BY <1>1, <1>6, <1>7, <1>8 DEF Family, s, q

----------------------------------------------------------------------------
(* Rings: process queues and the free list                                 *)

HeadOf(s) == IF s = <<>> THEN NULL ELSE s[1]
TailOf(s) == IF s = <<>> THEN NULL ELSE s[Len(s)]

RingList(lk, s) ==
  /\ s \in Seq(Pcb) /\ IsInjective(s)
  /\ \A i \in 1 .. Len(s) : /\ lk.next[s[i]] = IF i = Len(s) THEN s[1] ELSE s[i + 1]
                            /\ lk.prev[s[i]] = IF i = 1 THEN s[Len(s)] ELSE s[i - 1]

LEMMA RingFrame ==
  ASSUME NEW lk, NEW s, RingList(lk, s), NEW lk2,
         \A p \in Pcb : Contains(s, p) => lk2.next[p] = lk.next[p] /\ lk2.prev[p] = lk.prev[p]
  PROVE  RingList(lk2, s)
<1>1. s \in Seq(Pcb)
  BY DEF RingList
<1>2. \A i \in 1 .. Len(s) : s[i] \in Pcb /\ Contains(s, s[i])
  BY <1>1 DEF Contains
<1>3. \A i \in 1 .. Len(s) : lk2.next[s[i]] = lk.next[s[i]] /\ lk2.prev[s[i]] = lk.prev[s[i]]
  BY <1>2
<1> QED  BY <1>1, <1>3 DEF RingList

LEMMA EmptyRing ==
  ASSUME NEW lk
  PROVE  RingList(lk, <<>>)
BY DEF RingList, IsInjective

(* A chase that starts at a block the next one leads back to.              *)
LEMMA ReachBack ==
  ASSUME NEW next, NEW x \in DOMAIN next, next[x] \in DOMAIN next,
         x \in Reachable(next, next[x])
  PROVE  Reachable(next, x) = Reachable(next, next[x])
<1> DEFINE D == DOMAIN next
           Closed(S) == \A y \in S : next[y] \in D => next[y] \in S
           From(y, S) == (y \in D => y \in S) /\ Closed(S)
<1>1. \A y, z : z \in Reachable(next, y) <=> z \in D /\ \A S \in SUBSET D : From(y, S) => z \in S
  BY DEF Reachable
<1>2. ASSUME NEW S \in SUBSET D PROVE From(x, S) <=> From(next[x], S)
  <2>1. From(next[x], S) => x \in S
    BY <1>1
  <2> QED  BY <2>1
<1> HIDE DEF From
<1>3. \A z : z \in Reachable(next, x) <=> z \in Reachable(next, next[x])
  BY <1>1, <1>2
<1> QED  BY <1>3

(* The blocks of a ring, from its head and from its tail.                  *)
LEMMA RingReach ==
  ASSUME NEW lk \in Links, NEW s, RingList(lk, s)
  PROVE  /\ Reachable(lk.next, HeadOf(s)) = {p \in Pcb : Contains(s, p)}
         /\ Reachable(lk.next, TailOf(s)) = {p \in Pcb : Contains(s, p)}
         /\ Walk(lk.next, HeadOf(s)) = s
         /\ s # <<>> => /\ HeadOf(s) \in Pcb /\ TailOf(s) \in Pcb
                        /\ lk.next[TailOf(s)] = HeadOf(s) /\ lk.prev[HeadOf(s)] = TailOf(s)
                        /\ Contains(s, HeadOf(s)) /\ Contains(s, TailOf(s))
<1> DEFINE next == lk.next
<1>1. lk.next \in [Pcb -> PcbOrNull] /\ s \in Seq(Pcb) /\ IsInjective(s) /\ DOMAIN lk.next = Pcb
  BY DEF Links, RingList
<1>2. CASE s = <<>>
  <2>1. Linked(lk.next, NULL, s, NULL) /\ Closes(lk.next, s, NULL)
    BY <1>1, <1>2, NullAssumption DEF Linked, Closes
  <2>2. HeadOf(s) = NULL /\ TailOf(s) = NULL
    BY <1>2 DEF HeadOf, TailOf
  <2> QED  BY <1>1, <1>2, <2>1, <2>2, LinkedReach, LinkedWalk
<1>3. CASE s # <<>>
  <2> DEFINE h == s[1]
             l == s[Len(s)]
  <2>1. /\ 1 \in 1 .. Len(s) /\ Len(s) \in 1 .. Len(s)
        /\ h \in Pcb /\ l \in Pcb
    BY <1>1, <1>3
  <2>2. lk.next[l] = h /\ lk.prev[h] = l /\ Contains(s, h) /\ Contains(s, l)
    BY <2>1 DEF RingList, Contains
  <2>3. Linked(lk.next, h, s, h) /\ Closes(lk.next, s, h)
    BY <1>1, <1>3 DEF RingList, Linked, Closes
  <2>4. Reachable(lk.next, h) = {p \in Pcb : Contains(s, p)} /\ Walk(lk.next, h) = s
    BY <1>1, <2>3, LinkedReach, LinkedWalk
  <2> HIDE DEF h, l
  <2>5. Reachable(lk.next, l) = Reachable(lk.next, h)
    BY <1>1, <2>1, <2>2, <2>4, ReachBack
  <2>6. HeadOf(s) = h /\ TailOf(s) = l
    BY <1>3 DEF HeadOf, TailOf, h, l
  <2> QED  BY <2>1, <2>2, <2>4, <2>5, <2>6
<1> QED  BY <1>2, <1>3

(* A ring reads the same in both directions.                               *)
LEMMA RingBothWays ==
  ASSUME NEW lk, NEW s, RingList(lk, s), NEW p \in Pcb, Contains(s, p)
  PROVE  /\ lk.next[p] \in Pcb /\ lk.prev[lk.next[p]] = p
         /\ lk.prev[p] \in Pcb /\ lk.next[lk.prev[p]] = p
         /\ Contains(s, lk.next[p]) /\ Contains(s, lk.prev[p])
<1> DEFINE n == lk.next
           b == lk.prev
<1>1. s \in Seq(Pcb) /\ Len(s) \in Nat
  BY DEF RingList
<1>2. \A i \in 1 .. Len(s) : s[i] \in Pcb /\ Contains(s, s[i])
  BY <1>1 DEF Contains
<1>3. PICK i \in 1 .. Len(s) : s[i] = p
  BY DEF Contains
<1>4. \A j \in 1 .. Len(s) : /\ n[s[j]] = IF j = Len(s) THEN s[1] ELSE s[j + 1]
                             /\ b[s[j]] = IF j = 1 THEN s[Len(s)] ELSE s[j - 1]
  BY DEF RingList
<1> HIDE DEF n, b
<1>5. n[p] \in Pcb /\ b[n[p]] = p /\ Contains(s, n[p])
  <2>1. CASE i = Len(s)
    <3>1. 1 \in 1 .. Len(s) /\ n[p] = s[1] /\ b[s[1]] = s[Len(s)]
      BY <1>1, <1>3, <1>4, <2>1
    <3> QED  BY <1>2, <1>3, <2>1, <3>1
  <2>2. CASE i # Len(s)
    <3>1. i + 1 \in 1 .. Len(s) /\ i + 1 # 1 /\ i + 1 - 1 = i
      BY <1>1, <1>3, <2>2
    <3>2. n[p] = s[i + 1] /\ b[s[i + 1]] = s[i]
      BY <1>3, <1>4, <2>2, <3>1
    <3> QED  BY <1>2, <1>3, <3>1, <3>2
  <2> QED  BY <2>1, <2>2
<1>6. b[p] \in Pcb /\ n[b[p]] = p /\ Contains(s, b[p])
  <2>1. CASE i = 1
    <3>1. Len(s) \in 1 .. Len(s) /\ b[p] = s[Len(s)] /\ n[s[Len(s)]] = s[1]
      BY <1>1, <1>3, <1>4, <2>1
    <3> QED  BY <1>2, <1>3, <2>1, <3>1
  <2>2. CASE i # 1
    <3>1. i - 1 \in 1 .. Len(s) /\ i - 1 # Len(s) /\ i - 1 + 1 = i
      BY <1>1, <1>3, <2>2
    <3>2. b[p] = s[i - 1] /\ n[s[i - 1]] = s[i]
      BY <1>3, <1>4, <2>2, <3>1
    <3> QED  BY <1>2, <1>3, <3>1, <3>2
  <2> QED  BY <2>1, <2>2
<1> QED  BY <1>5, <1>6 DEF n, b

(* The links u are the links lk with p between the last block of s and the *)
(* first.                                                                  *)
LinksIn(lk, u, s, p) ==
  /\ u.next[p] = IF s = <<>> THEN p ELSE s[1]
  /\ u.prev[p] = IF s = <<>> THEN p ELSE s[Len(s)]
  /\ s # <<>> => u.next[s[Len(s)]] = p /\ u.prev[s[1]] = p
  /\ \A x \in Pcb : Contains(s, x) => /\ x # s[Len(s)] => u.next[x] = lk.next[x]
                                      /\ x # s[1] => u.prev[x] = lk.prev[x]

LEMMA RingAppend ==
  ASSUME NEW lk, NEW s, RingList(lk, s), NEW p \in Pcb, ~Contains(s, p), NEW u,
         LinksIn(lk, u, s, p)
  PROVE  RingList(u, Append(s, p))
<1> DEFINE a == Append(s, p)
           n == Len(s)
           un == u.next
           ub == u.prev
<1>1. s \in Seq(Pcb) /\ IsInjective(s) /\ n \in Nat
  BY DEF RingList
<1>2. a \in Seq(Pcb) /\ IsInjective(a) /\ Len(a) = n + 1
  BY <1>1, AppendFacts
<1>3. \A i \in 1 .. n + 1 : a[i] = IF i = n + 1 THEN p ELSE s[i]
  BY <1>1
<1>4. s = <<>> <=> n = 0
  BY <1>1
<1> HIDE DEF a
<1>5. ASSUME NEW i \in 1 .. n
      PROVE  /\ un[s[i]] = IF i = n THEN p ELSE s[i + 1]
             /\ ub[s[i]] = IF i = 1 THEN p ELSE s[i - 1]
  <2>1. Contains(s, s[i]) /\ s[i] \in Pcb /\ s # <<>>
    BY <1>1 DEF Contains
  <2>2. /\ lk.next[s[i]] = IF i = n THEN s[1] ELSE s[i + 1]
        /\ lk.prev[s[i]] = IF i = 1 THEN s[n] ELSE s[i - 1]
    BY DEF RingList
  <2>3. (i # n => s[i] # s[n]) /\ (i # 1 => s[i] # s[1])
    <3>1. 1 \in 1 .. n /\ n \in 1 .. n
      BY <1>1
    <3> QED  BY <1>1, <3>1 DEF IsInjective
  <2> QED  BY <2>1, <2>2, <2>3 DEF LinksIn
<1>6. un[p] = (IF n = 0 THEN p ELSE s[1]) /\ ub[p] = (IF n = 0 THEN p ELSE s[n])
  BY <1>4 DEF LinksIn
<1> HIDE DEF n, un, ub
<1>7. ASSUME NEW i \in 1 .. Len(a)
      PROVE  /\ un[a[i]] = IF i = Len(a) THEN a[1] ELSE a[i + 1]
             /\ ub[a[i]] = IF i = 1 THEN a[Len(a)] ELSE a[i - 1]
  <2>0. i \in 1 .. n + 1 /\ 1 \in 1 .. n + 1 /\ n + 1 \in 1 .. n + 1
    BY <1>1, <1>2
  <2>1. CASE i = n + 1
    <3>1. a[i] = p /\ a[n + 1] = p /\ i = Len(a)
      BY <1>2, <1>3, <2>0, <2>1
    <3>2. CASE n = 0
      BY <1>2, <1>6, <2>1, <3>1, <3>2
    <3>3. CASE n # 0
      <4>1. 1 \in 1 .. n /\ i # 1 /\ i - 1 = n /\ n \in 1 .. n + 1 /\ 1 # n + 1 /\ n # n + 1
        BY <1>1, <2>1, <3>3
      <4>2. a[1] = s[1] /\ a[n] = s[n]
        BY <1>3, <2>0, <4>1
      <4> QED  BY <1>6, <3>1, <3>3, <4>1, <4>2
    <3> QED  BY <3>2, <3>3
  <2>2. CASE i # n + 1
    <3>1. /\ i \in 1 .. n /\ i # Len(a) /\ i + 1 \in 1 .. n + 1
          /\ i + 1 = n + 1 <=> i = n
          /\ i # 1 => i - 1 \in 1 .. n + 1 /\ i - 1 # n + 1
      BY <1>1, <1>2, <2>0, <2>2
    <3>2. /\ a[i] = s[i] /\ a[Len(a)] = p
          /\ a[i + 1] = IF i = n THEN p ELSE s[i + 1]
          /\ i # 1 => a[i - 1] = s[i - 1]
      BY <1>2, <1>3, <2>0, <2>2, <3>1
    <3> QED  BY <1>5, <3>1, <3>2
  <2> QED  BY <2>1, <2>2
<1>8. RingList(u, a)
  BY <1>2, <1>7 DEF RingList, un, ub
<1> QED  BY <1>8 DEF a

(* insertProcQ and freePcb put the block at the end of the ring, in the    *)
(* same way, and touch no other ring.                                      *)
LEMMA RingInsert ==
  ASSUME NEW lk \in Links, NEW s, RingList(lk, s), NEW p \in Pcb, ~Contains(s, p)
  PROVE  LET u == insertProcQ(lk, TailOf(s), p)
         IN  /\ u \in Links /\ RingList(u, Append(s, p))
             /\ freeLinks(lk, HeadOf(s), p) = u
             /\ \A x \in Pcb : x # p /\ ~Contains(s, x)
                  => u.next[x] = lk.next[x] /\ u.prev[x] = lk.prev[x]
<1> DEFINE u == insertProcQ(lk, TailOf(s), p)
           h == HeadOf(s)
           l == TailOf(s)
           n == lk.next
           b == lk.prev
<1>1. n \in [Pcb -> PcbOrNull] /\ b \in [Pcb -> PcbOrNull] /\ lk = [next |-> n, prev |-> b]
  BY DEF Links
<1>2. s \in Seq(Pcb) /\ Len(s) \in Nat
  BY DEF RingList
<1>3. CASE s = <<>>
  <2>1. h = NULL /\ l = NULL
    BY <1>3 DEF HeadOf, TailOf
  <2>2. u = [next |-> [n EXCEPT ![p] = p], prev |-> [b EXCEPT ![p] = p]]
    BY <2>1 DEF insertProcQ
  <2>3. freeLinks(lk, h, p) = u
    BY <2>1, <2>2 DEF freeLinks
  <2> DEFINE un == [n EXCEPT ![p] = p]
             ub == [b EXCEPT ![p] = p]
  <2>4. /\ un \in [Pcb -> PcbOrNull] /\ ub \in [Pcb -> PcbOrNull]
        /\ un[p] = p /\ ub[p] = p
        /\ \A x \in Pcb : x # p => un[x] = n[x] /\ ub[x] = b[x]
    BY <1>1 DEF PcbOrNull
  <2>5. u.next = un /\ u.prev = ub /\ u = [next |-> un, prev |-> ub]
    BY <2>2
  <2> HIDE DEF un, ub, u, n, b
  <2>6. u \in Links
    BY <2>4, <2>5 DEF Links
  <2>7. \A x \in Pcb : ~Contains(s, x)
    BY <1>3 DEF Contains
  <2>8. RingList(u, Append(s, p))
    BY <1>3, <2>4, <2>5, <2>7, RingAppend DEF LinksIn
  <2> QED  BY <2>3, <2>4, <2>5, <2>6, <2>8 DEF u, h, n, b
<1>4. CASE s # <<>>
  <2>1. /\ h \in Pcb /\ l \in Pcb /\ n[l] = h /\ b[h] = l /\ Contains(s, h) /\ Contains(s, l)
        /\ h # NULL /\ l # NULL /\ h # p /\ l # p
        /\ h = s[1] /\ l = s[Len(s)]
    BY <1>4, RingReach, NullAssumption DEF HeadOf, TailOf
  <2> DEFINE un == [n EXCEPT ![p] = h, ![l] = p]
             ub == [b EXCEPT ![p] = l, ![h] = p]
  <2>2. u = [next |-> un, prev |-> ub]
    BY <2>1 DEF insertProcQ
  <2>3. freeLinks(lk, h, p) = u
    BY <2>1, <2>2 DEF freeLinks
  <2>4. /\ un \in [Pcb -> PcbOrNull] /\ ub \in [Pcb -> PcbOrNull]
        /\ un[p] = h /\ ub[p] = l /\ un[l] = p /\ ub[h] = p
        /\ \A x \in Pcb : x # p => (x # l => un[x] = n[x]) /\ (x # h => ub[x] = b[x])
    BY <1>1, <2>1 DEF PcbOrNull
  <2>5. u.next = un /\ u.prev = ub
    BY <2>2
  <2> HIDE DEF un, ub, u, n, b
  <2>6. u \in Links
    BY <2>2, <2>4 DEF Links
  <2>7. RingList(u, Append(s, p))
    <3>1. /\ u.next[p] = IF s = <<>> THEN p ELSE s[1]
          /\ u.prev[p] = IF s = <<>> THEN p ELSE s[Len(s)]
          /\ s # <<>> => u.next[s[Len(s)]] = p /\ u.prev[s[1]] = p
      BY <1>4, <2>1, <2>4, <2>5
    <3>2. \A x \in Pcb : Contains(s, x) => /\ x # s[Len(s)] => u.next[x] = lk.next[x]
                                           /\ x # s[1] => u.prev[x] = lk.prev[x]
      BY <2>1, <2>4, <2>5 DEF n, b
    <3> HIDE DEF h, l
    <3>3. LinksIn(lk, u, s, p)
      BY <3>1, <3>2 DEF LinksIn
    <3> QED  BY <3>3, RingAppend
  <2>8. \A x \in Pcb : x # p /\ ~Contains(s, x)
          => u.next[x] = lk.next[x] /\ u.prev[x] = lk.prev[x]
    <3>1. \A x \in Pcb : ~Contains(s, x) => x # h /\ x # l
      BY <2>1
    <3> QED  BY <2>4, <2>5, <3>1 DEF n, b
  <2> QED  BY <2>3, <2>6, <2>7, <2>8 DEF u, h
<1> QED  BY <1>3, <1>4

(* unlinkPCB takes the block at place k out of its ring: the blocks that   *)
(* follow close up, and no other ring changes.                             *)
LEMMA RingUnlink ==
  ASSUME NEW lk \in Links, NEW s, RingList(lk, s), NEW k \in 1 .. Len(s)
  PROVE  LET u == unlinkPCB(lk, s[k])
         IN  /\ u \in Links /\ RingList(u, RemoveAt(s, k))
             /\ \A x \in Pcb : ~Contains(s, x)
                  => u.next[x] = lk.next[x] /\ u.prev[x] = lk.prev[x]
<1> DEFINE p == s[k]
           m == Len(s)
           t == RemoveAt(s, k)
           n == lk.next
           b == lk.prev
           bp == b[p]
           np == n[p]
           un == [n EXCEPT ![bp] = np, ![p] = NULL]
           ub == [b EXCEPT ![np] = bp, ![p] = NULL]
<1>1. n \in [Pcb -> PcbOrNull] /\ b \in [Pcb -> PcbOrNull] /\ lk = [next |-> n, prev |-> b]
  BY DEF Links
<1>2. s \in Seq(Pcb) /\ m \in Nat /\ k \in 1 .. m /\ IsInjective(s)
  BY DEF RingList
<1>3. p \in Pcb /\ Contains(s, p)
  BY <1>2 DEF Contains
<1>4. /\ np \in Pcb /\ bp \in Pcb /\ Contains(s, np) /\ Contains(s, bp)
      /\ n[bp] = p /\ b[np] = p
  BY <1>3, RingBothWays
<1>5. unlinkPCB(lk, p) = [next |-> un, prev |-> ub]
  BY DEF unlinkPCB
<1> HIDE DEF n, b, bp, np, p, t
<1>6. /\ un \in [Pcb -> PcbOrNull] /\ ub \in [Pcb -> PcbOrNull]
      /\ \A x \in Pcb : /\ un[x] = IF x = p THEN NULL ELSE IF x = bp THEN np ELSE n[x]
                        /\ ub[x] = IF x = p THEN NULL ELSE IF x = np THEN bp ELSE b[x]
  BY <1>1, <1>3, <1>4 DEF PcbOrNull
<1>7. \A x \in Pcb : ~Contains(s, x) => un[x] = n[x] /\ ub[x] = b[x]
  BY <1>3, <1>4, <1>6
<1> HIDE DEF un, ub
<1>8. \A i \in 1 .. m : /\ s[i] \in Pcb
                        /\ n[s[i]] = IF i = m THEN s[1] ELSE s[i + 1]
                        /\ b[s[i]] = IF i = 1 THEN s[m] ELSE s[i - 1]
                        /\ s[i] = p <=> i = k
  BY <1>2 DEF RingList, IsInjective, n, b, p
<1>9. t \in Seq(Pcb) /\ IsInjective(t) /\ Len(t) = m - 1
  BY <1>2, RemoveAtFacts, RemoveAtContains DEF t
<1>10. \A i \in 1 .. m - 1 : t[i] = IF i < k THEN s[i] ELSE s[i + 1]
  BY <1>2, RemoveAtFacts DEF t
<1> HIDE DEF m
<1> DEFINE at(i) == IF i < k THEN i ELSE i + 1
           after(i) == IF i = m - 1 THEN at(1) ELSE at(i + 1)
           before(i) == IF i = 1 THEN at(m - 1) ELSE at(i - 1)
           succ(j) == IF j = m THEN 1 ELSE j + 1
           pred(j) == IF j = 1 THEN m ELSE j - 1
<1>11. \A j \in 1 .. m : /\ succ(j) \in 1 .. m /\ pred(j) \in 1 .. m
                         /\ n[s[j]] = s[succ(j)] /\ b[s[j]] = s[pred(j)]
                         /\ s[j] = s[k] <=> j = k
                         /\ s[j] = p <=> j = k
  BY <1>2, <1>8 DEF IsInjective, p
<1>12. ASSUME NEW i \in 1 .. m - 1
       PROVE  /\ at(i) \in 1 .. m /\ at(i) # k
              /\ after(i) = IF succ(at(i)) = k THEN succ(k) ELSE succ(at(i))
              /\ before(i) = IF pred(at(i)) = k THEN pred(k) ELSE pred(at(i))
              /\ t[i] = s[at(i)]
              /\ (IF i = m - 1 THEN t[1] ELSE t[i + 1]) = s[after(i)]
              /\ (IF i = 1 THEN t[m - 1] ELSE t[i - 1]) = s[before(i)]
  <2>1. i \in Int /\ 1 <= i /\ i <= m - 1 /\ m \in Int /\ k \in Int /\ 1 <= k /\ k <= m
    BY <1>2
  <2>2. at(i) \in 1 .. m /\ at(i) # k
    BY <2>1
  <2>3. after(i) = IF succ(at(i)) = k THEN succ(k) ELSE succ(at(i))
    BY <2>1
  <2>4. before(i) = IF pred(at(i)) = k THEN pred(k) ELSE pred(at(i))
    BY <2>1
  <2>5. \A j \in 1 .. m - 1 : t[j] = s[at(j)]
    BY <1>10
  <2>6. (i = m - 1 \/ i + 1 \in 1 .. m - 1) /\ (i = 1 \/ i - 1 \in 1 .. m - 1)
        /\ 1 \in 1 .. m - 1 /\ m - 1 \in 1 .. m - 1
    BY <2>1
  <2> HIDE DEF at
  <2>7. /\ t[i] = s[at(i)]
        /\ (IF i = m - 1 THEN t[1] ELSE t[i + 1]) = s[after(i)]
        /\ (IF i = 1 THEN t[m - 1] ELSE t[i - 1]) = s[before(i)]
    BY <2>5, <2>6
  <2> QED  BY <2>2, <2>3, <2>4, <2>7
<1> HIDE DEF at, after, before, succ, pred
<1>13. ASSUME NEW i \in 1 .. m - 1
       PROVE  /\ un[t[i]] = IF i = m - 1 THEN t[1] ELSE t[i + 1]
              /\ ub[t[i]] = IF i = 1 THEN t[m - 1] ELSE t[i - 1]
  <2> DEFINE j == at(i)
  <2>1. j \in 1 .. m /\ j # k /\ t[i] = s[j]
    BY <1>12
  <2>2. s[j] \in Pcb /\ s[j] # p
    BY <1>8, <2>1
  <2> HIDE DEF j
  <2>3. s[k] = p
    BY DEF p
  <2>4. bp = s[pred(k)] /\ np = s[succ(k)] /\ pred(k) \in 1 .. m /\ succ(k) \in 1 .. m
    BY <1>2, <1>11, <2>3 DEF bp, np
  <2>5. un[s[j]] = IF succ(j) = k THEN s[succ(k)] ELSE s[succ(j)]
    <3>1. succ(j) = k => s[j] = bp
      <4>1. succ(j) = k => n[s[j]] = p
        BY <1>11, <2>1, <2>3
      <4>2. b[n[s[j]]] = s[j]
        BY <1>2, <2>1, <2>2, RingBothWays DEF Contains, n, b, m
      <4> QED  BY <4>1, <4>2 DEF bp
    <3>2. s[j] = bp => succ(j) = k
      BY <1>4, <1>11, <2>1
    <3> QED  BY <1>6, <1>11, <2>1, <2>2, <2>4, <3>1, <3>2
  <2>6. ub[s[j]] = IF pred(j) = k THEN s[pred(k)] ELSE s[pred(j)]
    <3>1. pred(j) = k => s[j] = np
      <4>1. pred(j) = k => b[s[j]] = p
        BY <1>11, <2>1, <2>3
      <4>2. n[b[s[j]]] = s[j]
        BY <1>2, <2>1, <2>2, RingBothWays DEF Contains, n, b, m
      <4> QED  BY <4>1, <4>2 DEF np
    <3>2. s[j] = np => pred(j) = k
      BY <1>4, <1>11, <2>1
    <3> QED  BY <1>6, <1>11, <2>1, <2>2, <2>4, <3>1, <3>2
  <2>7. /\ (IF i = m - 1 THEN t[1] ELSE t[i + 1]) = s[after(i)]
        /\ (IF i = 1 THEN t[m - 1] ELSE t[i - 1]) = s[before(i)]
        /\ after(i) = IF succ(j) = k THEN succ(k) ELSE succ(j)
        /\ before(i) = IF pred(j) = k THEN pred(k) ELSE pred(j)
    BY <1>12 DEF j
  <2> QED  BY <2>1, <2>5, <2>6, <2>7
<1> DEFINE u == unlinkPCB(lk, p)
<1>14. u.next = un /\ u.prev = ub /\ u = [next |-> un, prev |-> ub]
  BY <1>5
<1> HIDE DEF u
<1>15. u \in Links
  BY <1>6, <1>14 DEF Links
<1>16. RingList(u, t)
  BY <1>9, <1>13, <1>14 DEF RingList
<1> QED  BY <1>7, <1>14, <1>15, <1>16 DEF u, p, t, n, b
=============================================================================
