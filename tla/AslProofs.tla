----------------------------- MODULE AslProofs ------------------------------
(***************************************************************************)
(* The active semaphore list, for every number of descriptors, set of      *)
(* processes and set of addresses: the list is sorted as far as the upper  *)
(* sentinel, every descriptor is in use or free, a process waits where its *)
(* p_semAdd says, and the calls do what BlockedQueues promises.            *)
(*                                                                         *)
(* The inductive invariant is that some sequence of descriptors fits the   *)
(* active list and another the free stack.  The search of the code stops   *)
(* at the right place only because the whole list is sorted and ends with  *)
(* the sentinel.                                                           *)
(***************************************************************************)
EXTENDS Asl, LinkProofs

----------------------------------------------------------------------------
(* Linked lists that change at any place                                   *)

LEMMA InsertAtItems ==
  ASSUME NEW S, NEW s \in Seq(S), NEW k \in 1 .. Len(s) + 1, NEW d \in S
  PROVE  \A i \in 1 .. Len(s) + 1 :
           InsertAt(s, k, d)[i] = IF i < k THEN s[i] ELSE IF i = k THEN d ELSE s[i - 1]
<1> DEFINE t      == InsertAt(s, k, d)
           m      == Len(s)
           before == SubSeq(s, 1, k - 1)
           after  == SubSeq(s, k, Len(s))
<1>1. before \in Seq(S) /\ Len(before) = k - 1 /\ \A i \in 1 .. k - 1 : before[i] = s[i]
  OBVIOUS
<1>2. /\ after \in Seq(S) /\ Len(after) = m - k + 1
      /\ \A i \in 1 .. m - k + 1 : after[i] = s[k + i - 1]
  OBVIOUS
<1>3. t = (before \o <<d>>) \o after
  BY DEF InsertAt
<1>4. m \in Nat /\ k \in Nat /\ k > 0 /\ k <= m + 1
  OBVIOUS
<1> DEFINE front == before \o <<d>>
<1> HIDE DEF before, after, t, m
<1>5. /\ front \in Seq(S) /\ Len(front) = k
      /\ \A i \in 1 .. k : front[i] = IF i = k THEN d ELSE before[i]
  BY <1>1, <1>4
<1> HIDE DEF front
<1>6. t = front \o after
  BY <1>3 DEF front
<1>7. t \in Seq(S) /\ Len(t) = m + 1
  <2>1. front \o after \in Seq(S) /\ Len(front \o after) = Len(front) + Len(after)
    BY <1>2, <1>5
  <2> QED  BY <1>2, <1>4, <1>5, <1>6, <2>1
<1>8. \A i \in 1 .. m + 1 : t[i] = IF i <= k THEN front[i] ELSE after[i - k]
  BY <1>2, <1>4, <1>5, <1>6, <1>7
<1>9. ASSUME NEW i \in 1 .. m + 1
      PROVE  t[i] = IF i < k THEN s[i] ELSE IF i = k THEN d ELSE s[i - 1]
  <2>1. CASE i <= k
    BY <1>1, <1>4, <1>5, <1>8, <2>1
  <2>2. CASE i > k
    <3>1. i - k \in 1 .. m - k + 1 /\ k + (i - k) - 1 = i - 1
      BY <1>4, <2>2
    <3> QED  BY <1>2, <1>8, <2>2, <3>1
  <2> QED  BY <1>4, <2>1, <2>2
<1> QED  BY <1>9 DEF t, m

LEMMA InsertAtFacts ==
  ASSUME NEW S, NEW s \in Seq(S), NEW k \in 1 .. Len(s) + 1, NEW d \in S
  PROVE  /\ InsertAt(s, k, d) \in Seq(S)
         /\ Len(InsertAt(s, k, d)) = Len(s) + 1
         /\ \A i \in 1 .. Len(s) + 1 :
              InsertAt(s, k, d)[i] = IF i < k THEN s[i] ELSE IF i = k THEN d ELSE s[i - 1]
<1> DEFINE m      == Len(s)
           before == SubSeq(s, 1, k - 1)
           after  == SubSeq(s, k, Len(s))
<1>1. before \in Seq(S) /\ Len(before) = k - 1
  OBVIOUS
<1>2. after \in Seq(S) /\ Len(after) = m - k + 1
  OBVIOUS
<1>3. InsertAt(s, k, d) = (before \o <<d>>) \o after
  BY DEF InsertAt
<1>4. m \in Nat /\ k \in Nat
  OBVIOUS
<1> HIDE DEF before, after, m
<1> DEFINE front == before \o <<d>>
<1>5. front \in Seq(S) /\ Len(front) = k
  BY <1>1, <1>4
<1> HIDE DEF front
<1>6. front \o after \in Seq(S) /\ Len(front \o after) = m + 1
  <2>1. front \o after \in Seq(S) /\ Len(front \o after) = Len(front) + Len(after)
    BY <1>2, <1>5
  <2> QED  BY <1>2, <1>4, <1>5, <2>1
<1>7. \A i \in 1 .. Len(s) + 1 :
        InsertAt(s, k, d)[i] = IF i < k THEN s[i] ELSE IF i = k THEN d ELSE s[i - 1]
  BY InsertAtItems
<1> QED  BY <1>3, <1>6, <1>7 DEF m, front

LEMMA InsertAtContains ==
  ASSUME NEW S, NEW s \in Seq(S), IsInjective(s), NEW k \in 1 .. Len(s) + 1, NEW d \in S,
         ~Contains(s, d)
  PROVE  /\ IsInjective(InsertAt(s, k, d))
         /\ \A x : Contains(InsertAt(s, k, d), x) <=> Contains(s, x) \/ x = d
<1> DEFINE t == InsertAt(s, k, d)
           m == Len(s)
           at(i) == IF i < k THEN i ELSE i - 1
<1>1. /\ t \in Seq(S) /\ Len(t) = m + 1 /\ m \in Nat /\ k \in 1 .. m + 1
      /\ \A i \in 1 .. m + 1 : t[i] = IF i = k THEN d ELSE s[at(i)]
  BY InsertAtFacts
<1>2. \A i \in 1 .. m + 1 : i # k => at(i) \in 1 .. m
  BY <1>1
<1>3. \A i, j \in 1 .. m + 1 : i # k /\ j # k /\ at(i) = at(j) => i = j
  BY <1>1
<1>4. ASSUME NEW j \in 1 .. m PROVE \E i \in 1 .. m + 1 : i # k /\ at(i) = j
  <2>1. CASE j < k
    <3>1. j \in 1 .. m + 1 /\ j # k /\ at(j) = j
      BY <1>1, <2>1
    <3> QED  BY <3>1
  <2>2. CASE j >= k
    <3>1. j + 1 \in 1 .. m + 1 /\ j + 1 # k /\ at(j + 1) = j
      BY <1>1, <2>2
    <3> QED  BY <3>1
  <2> QED  BY <1>1, <2>1, <2>2
<1>5. \A i, j \in 1 .. m : s[i] = s[j] => i = j
  BY DEF IsInjective
<1>6. \A i \in 1 .. m : s[i] # d
  BY DEF Contains
<1> HIDE DEF t, m, at
<1>7. IsInjective(t)
  <2>1. DOMAIN t = 1 .. m + 1
    BY <1>1
  <2>2. ASSUME NEW i \in 1 .. m + 1, NEW j \in 1 .. m + 1, t[i] = t[j]
        PROVE  i = j
    <3>1. t[i] = (IF i = k THEN d ELSE s[at(i)]) /\ t[j] = (IF j = k THEN d ELSE s[at(j)])
      BY <1>1
    <3>2. i # k => at(i) \in 1 .. m /\ s[at(i)] # d
      BY <1>2, <1>6
    <3>3. j # k => at(j) \in 1 .. m /\ s[at(j)] # d
      BY <1>2, <1>6
    <3>4. CASE i # k /\ j # k
      <4>1. at(i) = at(j)
        BY <1>5, <2>2, <3>1, <3>2, <3>3, <3>4
      <4> QED  BY <1>3, <3>4, <4>1
    <3> QED  BY <2>2, <3>1, <3>2, <3>3, <3>4
  <2> QED  BY <2>1, <2>2 DEF IsInjective
<1>8. ASSUME NEW x PROVE Contains(t, x) <=> Contains(s, x) \/ x = d
  <2>1. Contains(s, x) <=> \E j \in 1 .. m : s[j] = x
    BY DEF Contains, m
  <2>2. Contains(t, x) <=> \E i \in 1 .. m + 1 : t[i] = x
    BY <1>1 DEF Contains
  <2> QED  BY <1>1, <1>2, <1>4, <2>1, <2>2
<1> QED  BY <1>7, <1>8 DEF t

(* A list from one of its blocks on.                                       *)
LEMMA LinkedSuffix ==
  ASSUME NEW next, NEW x, NEW s, NEW e, Linked(next, x, s, e), Closes(next, s, e),
         e \notin DOMAIN next, NEW j \in 1 .. Len(s)
  PROVE  \A p : p \in Reachable(next, s[j]) <=> \E i \in j .. Len(s) : s[i] = p
<1> DEFINE t == SubSeq(s, j, Len(s))
           m == Len(s)
<1>1. s \in Seq(DOMAIN next) /\ m \in Nat /\ j \in 1 .. m /\ IsInjective(s) /\ DOMAIN s = 1 .. m
  BY DEF Linked
<1>2. /\ t \in Seq(DOMAIN next) /\ Len(t) = m - j + 1
      /\ \A i \in 1 .. m - j + 1 : t[i] = s[i + j - 1]
  BY <1>1
<1>3. \A i \in 1 .. m : next[s[i]] = IF i = m THEN e ELSE s[i + 1]
  BY DEF Linked
<1> HIDE DEF t, m
<1>4. IsInjective(t)
  <2>1. DOMAIN t = 1 .. m - j + 1
    BY <1>1, <1>2
  <2>2. \A i \in 1 .. m - j + 1 : i + j - 1 \in 1 .. m
    BY <1>1
  <2>3. \A i, l \in 1 .. m - j + 1 : i + j - 1 = l + j - 1 => i = l
    BY <1>1
  <2> QED  BY <1>1, <1>2, <2>1, <2>2, <2>3 DEF IsInjective
<1>5. ASSUME NEW i \in 1 .. Len(t) PROVE next[t[i]] = IF i = Len(t) THEN e ELSE t[i + 1]
  <2>1. /\ i \in 1 .. m - j + 1 /\ i + j - 1 \in 1 .. m /\ (i + j - 1 = m <=> i = Len(t))
        /\ i # Len(t) => i + 1 \in 1 .. m - j + 1 /\ i + 1 + j - 1 = i + j - 1 + 1
    BY <1>1, <1>2
  <2> QED  BY <1>2, <1>3, <2>1
<1>6. t # <<>> /\ t[1] = s[j]
  <2>1. Len(t) > 0 /\ 1 \in 1 .. m - j + 1 /\ 1 + j - 1 = j
    BY <1>1, <1>2
  <2> QED  BY <1>2, <2>1
<1>7. Linked(next, s[j], t, e) /\ Closes(next, t, e)
  BY <1>2, <1>4, <1>5, <1>6 DEF Linked, Closes
<1>8. Reachable(next, s[j]) = {p \in DOMAIN next : Contains(t, p)}
  BY <1>7, LinkedReach
<1>9. ASSUME NEW p PROVE Contains(t, p) <=> \E i \in j .. m : s[i] = p
  <2>1. Contains(t, p) <=> \E i \in 1 .. m - j + 1 : t[i] = p
    BY <1>2 DEF Contains
  <2>2. ASSUME NEW i \in j .. m PROVE i - j + 1 \in 1 .. m - j + 1 /\ t[i - j + 1] = s[i]
    <3>1. i - j + 1 \in 1 .. m - j + 1 /\ i - j + 1 + j - 1 = i
      BY <1>1
    <3> QED  BY <1>2, <3>1
  <2>3. \A i \in 1 .. m - j + 1 : i + j - 1 \in j .. m
    BY <1>1
  <2> QED  BY <1>2, <2>1, <2>2, <2>3
<1>10. \A p : Contains(t, p) => p \in DOMAIN next
  BY <1>2 DEF Contains
<1> QED  BY <1>8, <1>9, <1>10 DEF m

LEMMA LinkedFrame ==
  ASSUME NEW next, NEW x, NEW s, NEW e, Linked(next, x, s, e), NEW next2,
         DOMAIN next2 = DOMAIN next, \A p : Contains(s, p) => next2[p] = next[p]
  PROVE  Linked(next2, x, s, e)
<1>1. \A i \in 1 .. Len(s) : next2[s[i]] = next[s[i]]
  BY DEF Contains
<1> QED  BY <1>1 DEF Linked

(* A block goes in front of a list, ...                                    *)
LEMMA LinkedPush ==
  ASSUME NEW next, NEW x, NEW s, NEW e, Linked(next, x, s, e), NEW d \in DOMAIN next,
         ~Contains(s, d), NEW next2, DOMAIN next2 = DOMAIN next, next2[d] = x,
         \A p : Contains(s, p) => next2[p] = next[p]
  PROVE  /\ Linked(next2, d, <<d>> \o s, e)
         /\ \A p : Contains(<<d>> \o s, p) <=> Contains(s, p) \/ p = d
<1> DEFINE t == <<d>> \o s
           m == Len(s)
           D == DOMAIN next
<1>1. s \in Seq(D) /\ m \in Nat /\ IsInjective(s)
  BY DEF Linked
<1>2. /\ t \in Seq(D) /\ Len(t) = m + 1
      /\ \A i \in 1 .. m + 1 : t[i] = IF i = 1 THEN d ELSE s[i - 1]
  BY <1>1
<1>3. IsInjective(t) /\ \A p : Contains(t, p) <=> Contains(s, p) \/ p = d
  <2>1. <<d>> \in Seq(D) /\ IsInjective(<<d>>) /\ \A p : Contains(<<d>>, p) <=> p = d
    BY DEF IsInjective, Contains
  <2> HIDE DEF D
  <2> QED  BY <1>1, <2>1, ConcatFacts
<1>4. \A i \in 1 .. m : next2[s[i]] = IF i = m THEN e ELSE s[i + 1]
  BY DEF Linked, Contains
<1>5. x = IF m = 0 THEN e ELSE s[1]
  BY <1>1 DEF Linked
<1> HIDE DEF t, m, D
<1>6. ASSUME NEW i \in 1 .. Len(t) PROVE next2[t[i]] = IF i = Len(t) THEN e ELSE t[i + 1]
  <2>1. i \in 1 .. m + 1 /\ (i # m + 1 => i + 1 \in 1 .. m + 1 /\ i + 1 # 1 /\ i + 1 - 1 = i)
    BY <1>1, <1>2
  <2>2. CASE i = 1
    BY <1>1, <1>2, <1>5, <2>1, <2>2
  <2>3. CASE i # 1
    <3>1. i - 1 \in 1 .. m /\ (i - 1 = m <=> i = m + 1) /\ i - 1 + 1 = i
      BY <1>1, <2>1, <2>3
    <3> QED  BY <1>2, <1>4, <2>1, <2>3, <3>1
  <2> QED  BY <2>2, <2>3
<1>7. t # <<>> /\ t[1] = d
  BY <1>1, <1>2
<1>8. Linked(next2, d, t, e)
  BY <1>2, <1>3, <1>6, <1>7 DEF Linked, D
<1> QED  BY <1>3, <1>8 DEF t

(* ... the first one leaves it, ...                                        *)
LEMMA LinkedPop ==
  ASSUME NEW next, NEW x, NEW s, NEW e, Linked(next, x, s, e), s # <<>>
  PROVE  /\ x = Head(s) /\ x \in DOMAIN next
         /\ Linked(next, next[x], Tail(s), e)
<1> DEFINE t == Tail(s)
           m == Len(s)
           D == DOMAIN next
<1>1. s \in Seq(D) /\ m \in Nat /\ m > 0 /\ IsInjective(s) /\ x = s[1] /\ x = Head(s)
  BY DEF Linked
<1>2. /\ t \in Seq(D) /\ Len(t) = m - 1 /\ IsInjective(t)
  <2> HIDE DEF D
  <2> QED  BY <1>1, TailFacts
<1>3. \A i \in 1 .. m - 1 : t[i] = s[i + 1]
  BY <1>1
<1>4. \A i \in 1 .. m : next[s[i]] = IF i = m THEN e ELSE s[i + 1]
  BY DEF Linked
<1> HIDE DEF t, m
<1>5. next[x] = IF t = <<>> THEN e ELSE t[1]
  <2>1. t = <<>> <=> m = 1
    BY <1>1, <1>2
  <2>2. 1 \in 1 .. m /\ (m # 1 => 1 \in 1 .. m - 1)
    BY <1>1
  <2> QED  BY <1>1, <1>3, <1>4, <2>1, <2>2
<1>6. ASSUME NEW i \in 1 .. Len(t) PROVE next[t[i]] = IF i = Len(t) THEN e ELSE t[i + 1]
  <2>1. /\ i \in 1 .. m - 1 /\ i + 1 \in 1 .. m /\ (i + 1 = m <=> i = Len(t))
        /\ i # Len(t) => i + 1 \in 1 .. m - 1
    BY <1>1, <1>2
  <2> QED  BY <1>2, <1>3, <1>4, <2>1
<1>7. Linked(next, next[x], t, e)
  BY <1>2, <1>5, <1>6 DEF Linked
<1>8. x \in D
  <2>1. 1 \in 1 .. Len(s)
    BY <1>1 DEF m
  <2> QED  BY <1>1, <2>1
<1> QED  BY <1>1, <1>7, <1>8 DEF t

(* ... a block goes in behind another, ...                                 *)
LEMMA LinkedInsert ==
  ASSUME NEW next, NEW x, NEW s, NEW e, Linked(next, x, s, e), NEW k \in 1 .. Len(s),
         NEW d \in DOMAIN next, ~Contains(s, d), NEW next2, DOMAIN next2 = DOMAIN next,
         next2[s[k]] = d, next2[d] = next[s[k]],
         \A p : Contains(s, p) /\ p # s[k] => next2[p] = next[p]
  PROVE  Linked(next2, x, InsertAt(s, k + 1, d), e)
<1> DEFINE t == InsertAt(s, k + 1, d)
           m == Len(s)
           D == DOMAIN next
<1>1. s \in Seq(D) /\ m \in Nat /\ k \in 1 .. m /\ k + 1 \in 1 .. m + 1 /\ IsInjective(s)
  BY DEF Linked
<1>2. /\ t \in Seq(D) /\ Len(t) = m + 1 /\ IsInjective(t)
      /\ \A i \in 1 .. m + 1 : t[i] = IF i < k + 1 THEN s[i] ELSE IF i = k + 1 THEN d ELSE s[i - 1]
  <2> DEFINE l == k + 1
  <2>1. d \in D /\ l \in 1 .. Len(s) + 1
    BY <1>1
  <2> HIDE DEF D, l
  <2>2. /\ InsertAt(s, l, d) \in Seq(D) /\ Len(InsertAt(s, l, d)) = Len(s) + 1
        /\ \A i \in 1 .. Len(s) + 1 :
             InsertAt(s, l, d)[i] = IF i < l THEN s[i] ELSE IF i = l THEN d ELSE s[i - 1]
    <3>1. s \in Seq(D) /\ d \in D /\ l \in 1 .. Len(s) + 1
      BY <1>1, <2>1
    <3> HIDE DEF t, m
    <3>2. InsertAt(s, l, d) \in Seq(D)
      BY <3>1, InsertAtFacts
    <3>3. Len(InsertAt(s, l, d)) = Len(s) + 1
      BY <3>1, InsertAtFacts
    <3>4. \A i \in 1 .. Len(s) + 1 :
             InsertAt(s, l, d)[i] = IF i < l THEN s[i] ELSE IF i = l THEN d ELSE s[i - 1]
      BY <3>1, InsertAtFacts
    <3> QED  BY <3>2, <3>3, <3>4
  <2>3. IsInjective(InsertAt(s, l, d))
    BY <1>1, <2>1, InsertAtContains
  <2> QED  BY <2>2, <2>3 DEF l
<1>3. /\ next[s[k]] = IF k = m THEN e ELSE s[k + 1]
      /\ \A i \in 1 .. m : i # k => next2[s[i]] = IF i = m THEN e ELSE s[i + 1]
  <2>1. \A i \in 1 .. m : next[s[i]] = IF i = m THEN e ELSE s[i + 1]
    BY DEF Linked
  <2>2. \A i \in 1 .. m : Contains(s, s[i])
    BY DEF Contains
  <2>3. \A i \in 1 .. m : s[i] = s[k] => i = k
    BY <1>1 DEF IsInjective
  <2> QED  BY <1>1, <2>1, <2>2, <2>3
<1>4. s # <<>> /\ x = s[1]
  BY <1>1 DEF Linked
<1> HIDE DEF t, m, D
<1>5. ASSUME NEW i \in 1 .. Len(t) PROVE next2[t[i]] = IF i = Len(t) THEN e ELSE t[i + 1]
  <2>1. i \in 1 .. m + 1 /\ i \in Int /\ m \in Int /\ k \in Int /\ 1 <= k /\ k <= m
    BY <1>1, <1>2
  <2>2. CASE i < k
    <3>1. i \in 1 .. m /\ i # k /\ i # m /\ i # m + 1 /\ i + 1 \in 1 .. m + 1 /\ i + 1 < k + 1 /\ i < k + 1
      BY <2>1, <2>2
    <3> QED  BY <1>2, <1>3, <2>1, <3>1
  <2>3. CASE i = k
    <3>1. i < k + 1 /\ i # m + 1 /\ i + 1 = k + 1 /\ i + 1 \in 1 .. m + 1 /\ ~(k + 1 < k + 1)
      BY <2>1, <2>3
    <3> QED  BY <1>2, <2>1, <2>3, <3>1
  <2>4. CASE i = k + 1
    <3>1. /\ ~(i < k + 1) /\ (i = m + 1 <=> k = m)
          /\ k # m => /\ i + 1 \in 1 .. m + 1 /\ ~(i + 1 < k + 1) /\ i + 1 # k + 1
                      /\ i + 1 - 1 = k + 1
      BY <2>1, <2>4
    <3>2. t[i] = d /\ (k # m => t[i + 1] = s[k + 1])
      BY <1>2, <2>1, <2>4, <3>1
    <3>3. next2[t[i]] = IF k = m THEN e ELSE s[k + 1]
      BY <1>3, <3>2
    <3> QED  BY <1>2, <3>1, <3>2, <3>3
  <2>5. CASE i > k + 1
    <3>1. /\ ~(i < k + 1) /\ i # k + 1 /\ i - 1 \in 1 .. m /\ i - 1 # k
          /\ i - 1 = m <=> i = m + 1
          /\ i # m + 1 => /\ i + 1 \in 1 .. m + 1 /\ ~(i + 1 < k + 1) /\ i + 1 # k + 1
                          /\ i + 1 - 1 = i - 1 + 1
      BY <2>1, <2>5
    <3>2. t[i] = s[i - 1] /\ (i # m + 1 => t[i + 1] = s[i - 1 + 1])
      BY <1>2, <2>1, <3>1
    <3>3. next2[s[i - 1]] = IF i - 1 = m THEN e ELSE s[i - 1 + 1]
      BY <1>3, <3>1
    <3> QED  BY <1>2, <3>1, <3>2, <3>3
  <2> QED  BY <2>1, <2>2, <2>3, <2>4, <2>5
<1>6. t # <<>> /\ x = t[1]
  <2>1. 1 \in 1 .. m + 1 /\ 1 < k + 1
    BY <1>1
  <2> QED  BY <1>1, <1>2, <1>4, <2>1
<1>7. Linked(next2, x, t, e)
  BY <1>2, <1>5, <1>6 DEF Linked, D
<1> QED  BY <1>7 DEF t

(* ... and the block behind another leaves.                                *)
LEMMA LinkedRemove ==
  ASSUME NEW next, NEW x, NEW s, NEW e, Linked(next, x, s, e), NEW k \in 1 .. Len(s) - 1,
         NEW next2, DOMAIN next2 = DOMAIN next, next2[s[k]] = next[s[k + 1]],
         \A p : Contains(s, p) /\ p # s[k] /\ p # s[k + 1] => next2[p] = next[p]
  PROVE  Linked(next2, x, RemoveAt(s, k + 1), e)
<1> DEFINE t == RemoveAt(s, k + 1)
           m == Len(s)
           D == DOMAIN next
<1>1. s \in Seq(D) /\ m \in Nat /\ k \in 1 .. m /\ k + 1 \in 1 .. m /\ IsInjective(s)
  BY DEF Linked
<1>2. /\ t \in Seq(D) /\ Len(t) = m - 1 /\ IsInjective(t)
      /\ \A i \in 1 .. m - 1 : t[i] = IF i < k + 1 THEN s[i] ELSE s[i + 1]
  <2> DEFINE l == k + 1
  <2>1. l \in 1 .. Len(s)
    BY <1>1
  <2> HIDE DEF D, l
  <2>2. /\ RemoveAt(s, l) \in Seq(D) /\ Len(RemoveAt(s, l)) = Len(s) - 1
        /\ \A i \in 1 .. Len(s) - 1 : RemoveAt(s, l)[i] = IF i < l THEN s[i] ELSE s[i + 1]
    BY <1>1, <2>1, RemoveAtFacts
  <2>3. IsInjective(RemoveAt(s, l))
    BY <1>1, <2>1, RemoveAtContains
  <2> QED  BY <2>2, <2>3 DEF l
<1>3. /\ next[s[k + 1]] = IF k + 1 = m THEN e ELSE s[k + 1 + 1]
      /\ \A i \in 1 .. m : i # k /\ i # k + 1 => next2[s[i]] = IF i = m THEN e ELSE s[i + 1]
  <2>1. \A i \in 1 .. m : next[s[i]] = IF i = m THEN e ELSE s[i + 1]
    BY DEF Linked
  <2>2. \A i \in 1 .. m : Contains(s, s[i])
    BY DEF Contains
  <2>3. \A i \in 1 .. m : (s[i] = s[k] => i = k) /\ (s[i] = s[k + 1] => i = k + 1)
    BY <1>1 DEF IsInjective
  <2> QED  BY <1>1, <2>1, <2>2, <2>3
<1>4. s # <<>> /\ x = s[1]
  BY <1>1 DEF Linked
<1> HIDE DEF t, m, D
<1>5. ASSUME NEW i \in 1 .. Len(t) PROVE next2[t[i]] = IF i = Len(t) THEN e ELSE t[i + 1]
  <2>1. i \in 1 .. m - 1 /\ i \in Int /\ m \in Int /\ k \in Int /\ 1 <= k /\ k + 1 <= m
    BY <1>1, <1>2
  <2>2. CASE i < k
    <3>1. /\ i \in 1 .. m /\ i # k /\ i # k + 1 /\ i # m /\ i # m - 1 /\ i + 1 \in 1 .. m - 1
          /\ i < k + 1 /\ i + 1 < k + 1
      BY <2>1, <2>2
    <3> QED  BY <1>2, <1>3, <2>1, <3>1
  <2>3. CASE i = k
    <3>1. /\ i < k + 1 /\ (i = m - 1 <=> k + 1 = m)
          /\ i # m - 1 => i + 1 \in 1 .. m - 1 /\ ~(i + 1 < k + 1) /\ i + 1 = k + 1
      BY <2>1, <2>3
    <3> QED  BY <1>2, <1>3, <2>1, <2>3, <3>1
  <2>4. CASE i > k
    <3>1. /\ ~(i < k + 1) /\ i + 1 \in 1 .. m /\ i + 1 # k /\ i + 1 # k + 1
          /\ i + 1 = m <=> i = m - 1
          /\ i # m - 1 => i + 1 \in 1 .. m - 1 /\ ~(i + 1 < k + 1)
      BY <2>1, <2>4
    <3> QED  BY <1>2, <1>3, <2>1, <3>1
  <2> QED  BY <2>1, <2>2, <2>3, <2>4
<1>6. t # <<>> /\ x = t[1]
  <2>1. 1 \in 1 .. m - 1 /\ 1 < k + 1 /\ m - 1 > 0
    BY <1>1
  <2> QED  BY <1>1, <1>2, <1>4, <2>1
<1>7. Linked(next2, x, t, e)
  BY <1>2, <1>5, <1>6 DEF Linked, D
<1> QED  BY <1>7 DEF t

----------------------------------------------------------------------------
(* The inductive invariant                                                 *)

Typed == /\ s_next \in [Semd -> Semd \cup {NULL}]
         /\ s_semAdd \in [Semd -> Address \cup {0, MAXADD}]
         /\ s_procQ \in [Semd -> Seq(Pcb)]
         /\ p_semAdd \in [Pcb -> Address \cup {NULL}]

(* The addresses rise along the list; that of the upper sentinel is left   *)
(* out, as an address in use may be above MAXADD.                          *)
Sorted(act) ==
  \A i, j \in 1 .. Len(act) - 1 : i < j => s_semAdd[act[i]] < s_semAdd[act[j]]

(* act are the descriptors of the active list, free those of the stack.    *)
Lists(act, free) ==
  /\ Linked(s_next, semd_h, act, NULL) /\ Linked(s_next, semdFree_h, free, NULL)
  /\ Len(act) > 1 /\ act[Len(act)] = 1
  /\ Sorted(act)
  /\ \A d \in Semd : Contains(act, d) <=> ~Contains(free, d)

(* wait are the processes waiting at each address: their p_semAdd says so, *)
(* and nobody waits twice.                                                 *)
Blocked(wait) ==
  /\ wait \in [Address -> Seq(Pcb)]
  /\ \A a \in Address : IsInjective(wait[a])
  /\ \A p \in Pcb, a \in Address : p_semAdd[p] = a <=> Contains(wait[a], p)

(* A listed descriptor holds the queue of its address, and an address at   *)
(* which somebody waits has a descriptor.                                  *)
Filled(act, wait) ==
  /\ s_semAdd[0] = 0 /\ s_semAdd[1] = MAXADD /\ s_procQ[0] = <<>> /\ s_procQ[1] = <<>>
  /\ \A d \in Semd \ {0, 1} :
       IF Contains(act, d)
       THEN s_semAdd[d] \in Address /\ s_procQ[d] = wait[s_semAdd[d]] /\ s_procQ[d] # <<>>
       ELSE s_semAdd[d] = 0 /\ s_procQ[d] = <<>>
  /\ \A a \in Address : wait[a] # <<>> => \E d \in Semd : s_semAdd[d] = a

AslFits(act, free, wait) == Typed /\ Lists(act, free) /\ Blocked(wait) /\ Filled(act, wait)

AslInv == \E act, free, wait : AslFits(act, free, wait)

LEMMA Numbers ==
  /\ Descriptors \in Nat /\ Descriptors > 0 /\ MAXADD \in Nat /\ MAXADD # 0
  /\ NULL \notin Semd /\ NULL \notin Address /\ 0 \in Semd /\ 1 \in Semd
  /\ \A a \in Address : a \in Nat /\ a > 0 /\ a # MAXADD
  /\ \A d \in Semd : d \in Nat
<1>1. Descriptors \in Nat /\ Descriptors > 0 /\ MAXADD \in Nat /\ MAXADD # 0 /\ NULL \notin Nat
  BY AslAssumption
<1>2. \A d \in Semd : d \in Nat
  BY <1>1 DEF Semd
<1>3. 0 \in Semd /\ 1 \in Semd
  BY <1>1 DEF Semd
<1>4. \A a \in Address : a \in Nat /\ a > 0 /\ a # MAXADD
  <2>1. \A a \in Address : a \in Nat /\ a # 0 /\ a # MAXADD
    BY AslAssumption
  <2> QED  BY <2>1
<1> QED  BY <1>1, <1>2, <1>3, <1>4

(* The descriptors of the list: a sentinel at each end, and in between the *)
(* descriptors of addresses at which somebody waits.                       *)
LEMMA ActFacts ==
  ASSUME NEW act, NEW free, NEW wait, AslFits(act, free, wait)
  PROVE  /\ act \in Seq(Semd) /\ IsInjective(act) /\ Len(act) \in Nat /\ Len(act) > 1
         /\ act[1] = 0 /\ act[Len(act)] = 1
         /\ \A i \in 1 .. Len(act) : act[i] \in Semd /\ Contains(act, act[i])
         /\ \A i \in 2 .. Len(act) - 1 :
              /\ act[i] # 0 /\ act[i] # 1
              /\ s_semAdd[act[i]] \in Address /\ s_procQ[act[i]] = wait[s_semAdd[act[i]]]
         /\ \A i \in 1 .. Len(act) - 1 : s_next[act[i]] = act[i + 1] /\ s_semAdd[act[i]] \in Nat
         /\ s_next[1] = NULL
<1> DEFINE m == Len(act)
<1>1. DOMAIN s_next = Semd /\ act \in Seq(Semd) /\ IsInjective(act) /\ m \in Nat /\ m > 1
  BY DEF AslFits, Typed, Lists, Linked
<1>2. act[1] = 0 /\ act[m] = 1
  BY <1>1 DEF AslFits, Lists, Linked, semd_h
<1>3. \A i \in 1 .. m : act[i] \in Semd /\ Contains(act, act[i])
  BY <1>1 DEF Contains
<1>4. \A i \in 2 .. m - 1 : act[i] # 0 /\ act[i] # 1
  <2>1. \A i \in 2 .. m - 1 : i \in 1 .. m /\ 1 \in 1 .. m /\ m \in 1 .. m /\ i # 1 /\ i # m
    BY <1>1
  <2>2. DOMAIN act = 1 .. m
    BY <1>1
  <2> QED  BY <1>1, <1>2, <2>1, <2>2 DEF IsInjective
<1>5. \A i \in 2 .. m - 1 : s_semAdd[act[i]] \in Address /\ s_procQ[act[i]] = wait[s_semAdd[act[i]]]
  <2>1. \A i \in 2 .. m - 1 : i \in 1 .. m
    BY <1>1
  <2> QED  BY <1>3, <1>4, <2>1 DEF AslFits, Filled
<1>6. \A i \in 1 .. m : s_next[act[i]] = IF i = m THEN NULL ELSE act[i + 1]
  BY DEF AslFits, Lists, Linked
<1>7. s_next[1] = NULL
  BY <1>1, <1>2, <1>6
<1>8. ASSUME NEW i \in 1 .. m - 1 PROVE s_next[act[i]] = act[i + 1] /\ s_semAdd[act[i]] \in Nat
  <2>1. i \in 1 .. m /\ i # m
    BY <1>1
  <2>2. s_semAdd[act[i]] \in Nat
    <3>1. s_semAdd[act[i]] \in Address \cup {0, MAXADD}
      BY <1>3, <2>1 DEF AslFits, Typed
    <3> QED  BY <3>1, Numbers
  <2> QED  BY <1>6, <2>1, <2>2
<1> QED  BY <1>1, <1>2, <1>3, <1>4, <1>5, <1>7, <1>8

(* The address of a semaphore is in one descriptor at most.                *)
LEMMA OneDescriptor ==
  ASSUME NEW act, NEW free, NEW wait, AslFits(act, free, wait), NEW d \in Semd,
         s_semAdd[d] \in Address
  PROVE  /\ d # 0 /\ d # 1 /\ Contains(act, d)
         /\ \E i \in 2 .. Len(act) - 1 : act[i] = d
         /\ \A e \in Semd : s_semAdd[e] = s_semAdd[d] => e = d
<1> DEFINE m == Len(act)
<1>1. ASSUME NEW e \in Semd, s_semAdd[e] \in Address
      PROVE  /\ e # 0 /\ e # 1 /\ Contains(act, e)
             /\ \E i \in 2 .. m - 1 : act[i] = e
  <2>1. e # 0 /\ e # 1 /\ Contains(act, e)
    BY <1>1, Numbers DEF AslFits, Filled
  <2>2. PICK i \in 1 .. m : act[i] = e
    BY <2>1 DEF Contains
  <2>3. act[1] = 0 /\ act[m] = 1 /\ m \in Nat
    BY ActFacts
  <2>4. i \in 2 .. m - 1
    BY <2>1, <2>2, <2>3
  <2> QED  BY <2>1, <2>2, <2>4
<1>2. ASSUME NEW e \in Semd, s_semAdd[e] = s_semAdd[d] PROVE e = d
  <2>1. PICK i \in 2 .. m - 1 : act[i] = d
    BY <1>1
  <2>2. PICK j \in 2 .. m - 1 : act[j] = e
    BY <1>1, <1>2
  <2>3. i \in 1 .. m - 1 /\ j \in 1 .. m - 1 /\ m \in Nat
    BY ActFacts
  <2>4. s_semAdd[d] \in Nat /\ ~(i < j) /\ ~(j < i)
    BY <1>2, <2>1, <2>2, <2>3, Numbers DEF AslFits, Lists, Sorted
  <2>5. i = j
    BY <2>3, <2>4
  <2> QED  BY <2>1, <2>2, <2>5
<1> QED  BY <1>1, <1>2

(* Where the search stops: behind the last descriptor with an address      *)
(* below a.                                                                *)
StopsBehind(act, a, k) ==
  /\ k \in 1 .. Len(act) - 1
  /\ findSemInActiveList(a) = act[k] /\ s_next[act[k]] = act[k + 1]
  /\ \A i \in 1 .. k : s_semAdd[act[i]] < a
  /\ \A i \in k + 1 .. Len(act) - 1 : s_semAdd[act[i]] >= a

LEMMA SearchStops ==
  ASSUME NEW act, NEW free, NEW wait, AslFits(act, free, wait), NEW a \in Address
  PROVE  \E k : StopsBehind(act, a, k)
<1> DEFINE m == Len(act)
           Stops == {i \in 1 .. m - 1 : StopsAt(act[i], a)}
<1>1. /\ act \in Seq(Semd) /\ IsInjective(act) /\ m \in Nat /\ m > 1
      /\ act[1] = 0 /\ act[m] = 1 /\ s_next[1] = NULL
      /\ \A i \in 1 .. m - 1 : s_next[act[i]] = act[i + 1] /\ s_semAdd[act[i]] \in Nat
      /\ \A i \in 2 .. m - 1 : s_semAdd[act[i]] \in Address
      /\ \A i \in 1 .. m : act[i] \in Semd
  BY ActFacts
<1>2. m - 1 \in Stops
  <2>1. m - 1 \in 1 .. m - 1 /\ m - 1 + 1 = m
    BY <1>1
  <2>2. s_semAdd[s_next[act[m - 1]]] = MAXADD
    BY <1>1, <2>1 DEF AslFits, Filled
  <2> QED  BY <2>1, <2>2 DEF StopsAt
<1>3. Stops \in SUBSET Nat /\ Stops # {}
  BY <1>1, <1>2
<1>4. PICK k \in Stops : \A n \in Stops : k <= n
  BY <1>3, LeastNumber
<1> HIDE DEF m
<1>5. /\ k \in 1 .. m - 1 /\ k + 1 \in 1 .. m /\ StopsAt(act[k], a) /\ s_next[act[k]] = act[k + 1]
      /\ \A i \in 1 .. m - 1 : i < k => ~StopsAt(act[i], a)
  <2>1. k \in 1 .. m - 1 /\ k + 1 \in 1 .. m
    BY <1>1, <1>4
  <2>2. \A i \in 1 .. m - 1 : i < k => ~(k <= i)
    BY <2>1
  <2> QED  BY <1>1, <1>4, <2>1, <2>2
<1>6. ASSUME NEW i \in 1 .. k PROVE s_semAdd[act[i]] < a
  <2>1. CASE i = 1
    BY <1>1, <2>1, Numbers DEF AslFits, Filled
  <2>2. CASE i # 1
    <3>1. i - 1 \in 1 .. m - 1 /\ i - 1 < k /\ i - 1 + 1 = i /\ i \in 1 .. m - 1
      BY <1>1, <1>5, <2>2
    <3>2. ~StopsAt(act[i - 1], a) /\ s_next[act[i - 1]] = act[i] /\ s_semAdd[act[i]] \in Nat
      BY <1>1, <1>5, <3>1
    <3> QED  BY <3>2, Numbers DEF StopsAt
  <2> QED  BY <2>1, <2>2
<1>7. ASSUME NEW i \in k + 1 .. m - 1 PROVE s_semAdd[act[i]] >= a
  <2>1. i \in 1 .. m - 1 /\ k + 1 \in 2 .. m - 1 /\ k + 1 \in 1 .. m - 1 /\ (k + 1 < i \/ i = k + 1)
    BY <1>1, <1>5
  <2>2. s_semAdd[act[k + 1]] \in Nat /\ s_semAdd[act[k + 1]] # MAXADD /\ s_semAdd[act[i]] \in Nat
    BY <1>1, <2>1, Numbers
  <2>3. s_semAdd[act[k + 1]] >= a
    BY <1>5, <2>2 DEF StopsAt
  <2>4. k + 1 < i => s_semAdd[act[k + 1]] < s_semAdd[act[i]]
    BY <2>1 DEF AslFits, Lists, Sorted, m
  <2> QED  BY <2>1, <2>2, <2>3, <2>4, Numbers
<1>8. findSemInActiveList(a) = act[k]
  <2> DEFINE R == Reachable(s_next, semd_h)
             Found(d) == /\ s_next[d] # NULL /\ StopsAt(d, a)
                         /\ \A e \in R \ {d} : d \in Reachable(s_next, e) => ~StopsAt(e, a)
  <2>1. DOMAIN s_next = Semd /\ NULL \notin Semd /\ Linked(s_next, semd_h, act, NULL)
    BY Numbers DEF AslFits, Typed, Lists
  <2>2. Closes(s_next, act, NULL)
    BY <2>1 DEF Closes
  <2>3. R = {d \in Semd : Contains(act, d)}
    BY <2>1, <2>2, LinkedReach
  <2>4. \A j \in 1 .. m : \A d : d \in Reachable(s_next, act[j]) <=> \E i \in j .. m : act[i] = d
    <3> SUFFICES ASSUME NEW j \in 1 .. Len(act)
                 PROVE  \A d : d \in Reachable(s_next, act[j]) <=> \E i \in j .. Len(act) : act[i] = d
      BY DEF m
    <3> HIDE DEF R
    <3>1. NULL \notin DOMAIN s_next
      BY <2>1
    <3> QED  BY <2>1, <2>2, <3>1, LinkedSuffix
  <2>5. \A d : d \in R <=> \E i \in 1 .. m : act[i] = d
    BY <1>1, <2>3 DEF Contains, m
  <2>6. \A i, j \in 1 .. m : act[i] = act[j] => i = j
    <3>1. DOMAIN act = 1 .. m
      BY <1>1 DEF m
    <3> QED  BY <1>1, <3>1 DEF IsInjective
  <2> HIDE DEF R
  <2>7. Found(act[k]) /\ act[k] \in R
    <3>1. k \in 1 .. m /\ s_next[act[k]] \in Semd
      BY <1>1, <1>5
    <3>2. ASSUME NEW e \in R \ {act[k]}, act[k] \in Reachable(s_next, e) PROVE ~StopsAt(e, a)
      <4>1. PICK j \in 1 .. m : act[j] = e
        BY <2>5
      <4>2. PICK i \in j .. m : act[i] = act[k]
        BY <2>4, <3>2, <4>1
      <4>3. i = k
        BY <2>6, <3>1, <4>1, <4>2
      <4>4. j < k /\ j \in 1 .. m - 1
        BY <1>1, <1>5, <3>2, <4>1, <4>2, <4>3
      <4> QED  BY <1>5, <4>1, <4>4
    <3> QED  BY <1>5, <2>1, <2>5, <3>1, <3>2
  <2>8. ASSUME NEW d \in R, Found(d) PROVE d = act[k]
    <3>1. PICK j \in 1 .. m : act[j] = d
      BY <2>5
    <3>2. j \in 1 .. m - 1
      BY <1>1, <2>8, <3>1
    <3>3. ~(k < j)
      <4>1. k < j => d \in Reachable(s_next, act[k]) /\ act[k] # d
        <5>1. k \in 1 .. m /\ (k < j => j \in k .. m /\ j # k)
          BY <1>1, <1>5
        <5> QED  BY <2>4, <2>6, <3>1, <5>1
      <4> QED  BY <1>5, <2>7, <2>8, <4>1
    <3>4. ~(j < k)
      BY <1>5, <2>8, <3>1, <3>2
    <3> QED  BY <1>5, <3>1, <3>2, <3>3, <3>4
  <2>9. findSemInActiveList(a) = CHOOSE d \in R : Found(d)
    BY DEF findSemInActiveList, R
  <2> HIDE DEF Found
  <2>10. (CHOOSE d \in R : Found(d)) = act[k]
    BY <2>7, <2>8
  <2> QED  BY <2>9, <2>10
<1> QED  BY <1>5, <1>6, <1>7, <1>8 DEF StopsBehind, m

(* The descriptor behind that place is the one of the address, if anybody  *)
(* waits there.                                                            *)
LEMMA SearchFinds ==
  ASSUME NEW act, NEW free, NEW wait, AslFits(act, free, wait), NEW a \in Address, NEW k,
         StopsBehind(act, a, k)
  PROVE  /\ act[k] \in Semd /\ act[k + 1] \in Semd /\ act[k] # act[k + 1] /\ act[k] # 1
         /\ wait[a] # <<>> => /\ s_semAdd[act[k + 1]] = a /\ s_procQ[act[k + 1]] = wait[a]
                              /\ k + 1 \in 2 .. Len(act) - 1
         /\ \A d \in Semd : s_semAdd[d] = a => wait[a] # <<>>
<1> DEFINE m == Len(act)
<1>1. /\ m \in Nat /\ m > 1 /\ k \in 1 .. m /\ k + 1 \in 1 .. m /\ k + 1 # k /\ k # m
      /\ \A i \in 1 .. m : act[i] \in Semd
      /\ \A i, j \in 1 .. m : act[i] = act[j] => i = j
      /\ act[m] = 1
  <2>1. /\ m \in Nat /\ m > 1 /\ k \in 1 .. m - 1 /\ act \in Seq(Semd) /\ IsInjective(act)
        /\ act[m] = 1
    BY ActFacts DEF StopsBehind
  <2>2. DOMAIN act = 1 .. m
    BY <2>1
  <2>3. k \in 1 .. m /\ k + 1 \in 1 .. m /\ k + 1 # k /\ k # m
    BY <2>1
  <2>4. \A i \in 1 .. m : act[i] \in Semd
    BY <2>1
  <2>5. \A i, j \in 1 .. m : act[i] = act[j] => i = j
    BY <2>1, <2>2 DEF IsInjective
  <2> HIDE DEF m
  <2> QED  BY <2>1, <2>3, <2>4, <2>5
<1>2. act[k] \in Semd /\ act[k + 1] \in Semd /\ act[k] # act[k + 1] /\ act[k] # 1
  <2>1. m \in 1 .. m
    BY <1>1
  <2> QED  BY <1>1, <2>1
<1>3. ASSUME NEW d \in Semd, s_semAdd[d] = a PROVE wait[a] # <<>>
  <2>1. d # 0 /\ d # 1 /\ Contains(act, d)
    BY <1>3, OneDescriptor
  <2> QED  BY <1>3, <2>1 DEF AslFits, Filled
<1>4. ASSUME wait[a] # <<>>
      PROVE  /\ s_semAdd[act[k + 1]] = a /\ s_procQ[act[k + 1]] = wait[a]
             /\ k + 1 \in 2 .. m - 1
  <2>1. PICK d \in Semd : s_semAdd[d] = a
    BY <1>4 DEF AslFits, Filled
  <2>2. PICK i \in 2 .. m - 1 : act[i] = d
    BY <2>1, OneDescriptor
  <2>3. a \in Nat /\ \A j \in 1 .. m - 1 : s_semAdd[act[j]] \in Nat
    BY ActFacts, Numbers
  <2>4. ~(i \in 1 .. k)
    BY <2>1, <2>2, <2>3 DEF StopsBehind
  <2>5. ~(k + 1 < i)
    <3>1. SUFFICES ASSUME k + 1 < i PROVE FALSE
      OBVIOUS
    <3>2. k + 1 \in 1 .. m - 1 /\ i \in 1 .. m - 1 /\ k + 1 \in k + 1 .. m - 1
      BY <1>1, <3>1
    <3>3. s_semAdd[act[k + 1]] < a /\ s_semAdd[act[k + 1]] >= a
      BY <2>1, <2>2, <3>1, <3>2 DEF AslFits, Lists, Sorted, StopsBehind
    <3> QED  BY <2>3, <3>2, <3>3
  <2>6. i = k + 1
    BY <1>1, <2>2, <2>4, <2>5
  <2>7. s_procQ[act[i]] = wait[s_semAdd[act[i]]]
    <3>1. \A j \in 2 .. Len(act) - 1 : s_procQ[act[j]] = wait[s_semAdd[act[j]]]
      BY ActFacts
    <3> QED  BY <3>1
  <2> QED  BY <2>1, <2>2, <2>6, <2>7
<1> QED  BY <1>2, <1>3, <1>4

----------------------------------------------------------------------------
(* What a call does to those who wait                                      *)

LEMMA BlockedMore ==
  ASSUME NEW wait, Blocked(wait), p_semAdd \in [Pcb -> Address \cup {NULL}], NEW a \in Address,
         NEW p \in Pcb, p_semAdd[p] = NULL, p_semAdd' = [p_semAdd EXCEPT ![p] = a]
  PROVE  Blocked([wait EXCEPT ![a] = Append(@, p)])'
<1> DEFINE q == Append(wait[a], p)
           new == [wait EXCEPT ![a] = q]
<1>1. \A b \in Address : ~Contains(wait[b], p)
  BY Numbers DEF Blocked
<1>2. q \in Seq(Pcb) /\ IsInjective(q) /\ \A x : Contains(q, x) <=> Contains(wait[a], x) \/ x = p
  <2>1. wait[a] \in Seq(Pcb) /\ IsInjective(wait[a])
    BY DEF Blocked
  <2> QED  BY <1>1, <2>1, AppendFacts
<1> HIDE DEF q
<1>3. new \in [Address -> Seq(Pcb)] /\ \A b \in Address : new[b] = IF b = a THEN q ELSE wait[b]
  BY <1>2 DEF Blocked
<1> HIDE DEF new
<1>4. \A x \in Pcb : p_semAdd'[x] = IF x = p THEN a ELSE p_semAdd[x]
  OBVIOUS
<1>5. Blocked(new)'
  <2>1. \A b \in Address : IsInjective(new[b])
    BY <1>2, <1>3 DEF Blocked
  <2>2. ASSUME NEW x \in Pcb, NEW b \in Address
        PROVE  p_semAdd'[x] = b <=> Contains(new[b], x)
    <3>1. p_semAdd[x] = b <=> Contains(wait[b], x)
      BY DEF Blocked
    <3>2. CASE x = p
      BY <1>1, <1>2, <1>3, <1>4, <3>2
    <3>3. CASE x # p
      BY <1>2, <1>3, <1>4, <3>1, <3>3
    <3> QED  BY <3>2, <3>3
  <2> QED  BY <1>3, <2>1, <2>2 DEF Blocked
<1> QED  BY <1>5 DEF new, q

LEMMA BlockedLess ==
  ASSUME NEW wait, Blocked(wait), p_semAdd \in [Pcb -> Address \cup {NULL}], NEW a \in Address,
         NEW p \in Pcb, Contains(wait[a], p), NEW q \in Seq(Pcb), IsInjective(q),
         \A x : Contains(q, x) <=> Contains(wait[a], x) /\ x # p,
         p_semAdd' = [p_semAdd EXCEPT ![p] = NULL]
  PROVE  Blocked([wait EXCEPT ![a] = q])'
<1> DEFINE new == [wait EXCEPT ![a] = q]
<1>1. new \in [Address -> Seq(Pcb)] /\ \A b \in Address : new[b] = IF b = a THEN q ELSE wait[b]
  BY DEF Blocked
<1> HIDE DEF new
<1>2. \A x \in Pcb : p_semAdd'[x] = IF x = p THEN NULL ELSE p_semAdd[x]
  OBVIOUS
<1>3. p_semAdd[p] = a
  BY DEF Blocked
<1>4. Blocked(new)'
  BY <1>1, <1>2, <1>3, Numbers DEF Blocked
<1> QED  BY <1>4 DEF new

----------------------------------------------------------------------------
(* What a call does to the descriptors                                     *)

(* The queue of a listed descriptor changes and does not become empty.     *)
LEMMA QueueChanges ==
  ASSUME NEW act, NEW free, NEW wait, AslFits(act, free, wait), NEW a \in Address,
         NEW d \in Semd, s_semAdd[d] = a, NEW q \in Seq(Pcb), q # <<>>,
         s_procQ' = [s_procQ EXCEPT ![d] = q], UNCHANGED <<s_next, s_semAdd, semdFree_h>>,
         p_semAdd' \in [Pcb -> Address \cup {NULL}], Blocked([wait EXCEPT ![a] = q])'
  PROVE  AslFits(act, free, [wait EXCEPT ![a] = q])'
<1> DEFINE new == [wait EXCEPT ![a] = q]
<1>1. d # 0 /\ d # 1 /\ Contains(act, d) /\ \A e \in Semd : s_semAdd[e] = a => e = d
  BY OneDescriptor
<1>2. \A b \in Address : new[b] = IF b = a THEN q ELSE wait[b]
  BY DEF AslFits, Blocked
<1>3. \A e \in Semd : s_procQ'[e] = IF e = d THEN q ELSE s_procQ[e]
  BY DEF AslFits, Typed
<1>4. Typed'
  BY DEF AslFits, Typed
<1>5. Lists(act, free)'
  BY DEF AslFits, Lists, Sorted
<1> HIDE DEF new
<1>6. Filled(act, new)'
  BY <1>1, <1>2, <1>3, Numbers DEF AslFits, Filled
<1>7. AslFits(act, free, new)'
  BY <1>4, <1>5, <1>6 DEF AslFits, new
<1> QED  BY <1>7 DEF new

(* insertBlocked takes a free descriptor for an address nobody waits at.   *)
LEMMA DescriptorTaken ==
  ASSUME NEW act, NEW free, NEW wait, AslFits(act, free, wait), NEW a \in Address, NEW k,
         StopsBehind(act, a, k), wait[a] = <<>>, NEW d, d = semdFree_h, d # NULL,
         NEW q \in Seq(Pcb), q # <<>>,
         semdFree_h' = s_next[d],
         s_next' = [s_next EXCEPT ![d] = s_next[act[k]], ![act[k]] = d],
         s_semAdd' = [s_semAdd EXCEPT ![d] = a],
         s_procQ' = [s_procQ EXCEPT ![d] = q],
         p_semAdd' \in [Pcb -> Address \cup {NULL}], Blocked([wait EXCEPT ![a] = q])'
  PROVE  AslFits(InsertAt(act, k + 1, d), Tail(free), [wait EXCEPT ![a] = q])'
<1> DEFINE m == Len(act)
           act2 == InsertAt(act, k + 1, d)
           free2 == Tail(free)
           new == [wait EXCEPT ![a] = q]
<1>1. /\ act \in Seq(Semd) /\ IsInjective(act) /\ m \in Nat /\ m > 1
      /\ act[1] = 0 /\ act[m] = 1
      /\ \A i \in 1 .. m : act[i] \in Semd /\ Contains(act, act[i])
      /\ \A i \in 1 .. m - 1 : s_next[act[i]] = act[i + 1] /\ s_semAdd[act[i]] \in Nat
  BY ActFacts
<1>2. k \in 1 .. m - 1 /\ k + 1 \in 1 .. m /\ k + 1 \in 1 .. m + 1 /\ act[k] \in Semd
  BY <1>1 DEF StopsBehind
<1>3. /\ DOMAIN s_next = Semd /\ Linked(s_next, semd_h, act, NULL) /\ Linked(s_next, d, free, NULL)
      /\ \A e \in Semd : Contains(act, e) <=> ~Contains(free, e)
  BY DEF AslFits, Typed, Lists
<1>4. free # <<>> /\ free \in Seq(Semd) /\ IsInjective(free)
  BY <1>3 DEF Linked
<1>5. /\ d = Head(free) /\ d \in Semd /\ Linked(s_next, s_next[d], free2, NULL)
      /\ Contains(free, d) /\ ~Contains(free2, d)
      /\ \A x : Contains(free, x) <=> Contains(free2, x) \/ x = d
  <2>1. d = Head(free) /\ d \in Semd /\ Linked(s_next, s_next[d], free2, NULL)
    BY <1>3, <1>4, LinkedPop
  <2> QED  BY <1>4, <2>1, TailFacts
<1>6. ~Contains(act, d) /\ d # 0 /\ d # 1
  <2>1. ~Contains(act, d)
    BY <1>3, <1>5
  <2>2. 1 \in 1 .. m /\ m \in 1 .. m
    BY <1>1
  <2> QED  BY <1>1, <2>1, <2>2
<1>7. /\ act2 \in Seq(Semd) /\ Len(act2) = m + 1 /\ IsInjective(act2)
      /\ \A i \in 1 .. m + 1 : act2[i] = IF i < k + 1 THEN act[i] ELSE IF i = k + 1 THEN d ELSE act[i - 1]
      /\ \A x : Contains(act2, x) <=> Contains(act, x) \/ x = d
  <2> DEFINE l == k + 1
  <2>1. l \in 1 .. Len(act) + 1 /\ d \in Semd
    BY <1>2, <1>5
  <2> HIDE DEF l, act2, free2, new, m
  <2>2. /\ InsertAt(act, l, d) \in Seq(Semd) /\ Len(InsertAt(act, l, d)) = Len(act) + 1
        /\ \A i \in 1 .. Len(act) + 1 :
             InsertAt(act, l, d)[i] = IF i < l THEN act[i] ELSE IF i = l THEN d ELSE act[i - 1]
    <3>1. act \in Seq(Semd) /\ d \in Semd /\ l \in 1 .. Len(act) + 1
      BY <1>1, <2>1
    <3>2. InsertAt(act, l, d) \in Seq(Semd)
      BY <3>1, InsertAtFacts
    <3>3. Len(InsertAt(act, l, d)) = Len(act) + 1
      BY <3>1, InsertAtFacts
    <3>4. \A i \in 1 .. Len(act) + 1 :
             InsertAt(act, l, d)[i] = IF i < l THEN act[i] ELSE IF i = l THEN d ELSE act[i - 1]
      BY <3>1, InsertAtItems
    <3> QED  BY <3>2, <3>3, <3>4
  <2>3. /\ IsInjective(InsertAt(act, l, d))
        /\ \A x : Contains(InsertAt(act, l, d), x) <=> Contains(act, x) \/ x = d
    BY <1>1, <1>6, <2>1, InsertAtContains
  <2> QED  BY <2>2, <2>3 DEF l, act2, m
<1>8. /\ DOMAIN s_next' = Semd /\ s_next'[act[k]] = d /\ s_next'[d] = s_next[act[k]]
      /\ \A e \in Semd : e # d /\ e # act[k] => s_next'[e] = s_next[e]
      /\ \A e \in Semd : s_semAdd'[e] = IF e = d THEN a ELSE s_semAdd[e]
      /\ \A e \in Semd : s_procQ'[e] = IF e = d THEN q ELSE s_procQ[e]
  <2>1. act[k] # d
    <3>1. k \in 1 .. m
      BY <1>1, <1>2
    <3> QED  BY <1>1, <1>6, <3>1
  <2> QED  BY <1>2, <1>3, <1>5, <2>1 DEF AslFits, Typed
<1>9. Typed'
  BY <1>2, <1>3, <1>5 DEF AslFits, Typed
<1>10. \A b \in Address : new[b] = IF b = a THEN q ELSE wait[b]
  BY DEF AslFits, Blocked
<1>11. \A e \in Semd : s_semAdd[e] # a
  BY SearchFinds
<1> HIDE DEF act2, free2, new, m
<1>12. Linked(s_next', semd_h, act2, NULL)
  <2>1. k \in 1 .. Len(act)
    BY <1>1, <1>2 DEF m
  <2>2. \A x : Contains(act, x) => x \in Semd /\ x # d
    BY <1>1, <1>6 DEF Contains, m
  <2>3. \A x : Contains(act, x) /\ x # act[k] => s_next'[x] = s_next[x]
    BY <1>8, <2>2
  <2> QED  BY <1>3, <1>5, <1>6, <1>8, <2>1, <2>3, LinkedInsert DEF act2
<1>13. Linked(s_next', semdFree_h', free2, NULL)
  <2>1. \A x : Contains(free2, x) => x \in Semd /\ x # d /\ x # act[k]
    <3>1. k \in 1 .. m
      BY <1>1, <1>2
    <3>2. \A x : Contains(free, x) => x \in Semd
      BY <1>4 DEF Contains
    <3> QED  BY <1>1, <1>3, <1>5, <3>1, <3>2
  <2>2. \A x : Contains(free2, x) => s_next'[x] = s_next[x]
    BY <1>8, <2>1
  <2>3. semdFree_h' = s_next[d]
    OBVIOUS
  <2> QED  BY <1>3, <1>5, <1>8, <2>2, <2>3, LinkedFrame
<1>14. Sorted(act2)'
  <2> DEFINE key(i) == s_semAdd[act[i]]
             key2(i) == s_semAdd'[act2[i]]
  <2>1. \A i \in 1 .. m : key2(i) = IF i < k + 1 THEN key(i) ELSE IF i = k + 1 THEN a ELSE key(i - 1)
    <3>1. \A i \in 1 .. m : s_semAdd'[act[i]] = s_semAdd[act[i]] /\ s_semAdd'[d] = a
      BY <1>1, <1>5, <1>6, <1>8
    <3>2. \A i \in 1 .. m : i \in 1 .. m + 1 /\ (~(i < k + 1) /\ i # k + 1 => i - 1 \in 1 .. m)
      BY <1>1, <1>2
    <3> QED  BY <1>7, <3>1, <3>2
  <2>2. \A i, j \in 1 .. m - 1 : i < j => key(i) < key(j)
    BY DEF AslFits, Lists, Sorted, m
  <2>3. /\ \A i \in 1 .. m - 1 : key(i) \in Nat /\ key(i) # a
        /\ \A i \in 1 .. k : key(i) < a
        /\ \A i \in k + 1 .. m - 1 : key(i) >= a
    <3>1. \A i \in 1 .. m - 1 : i \in 1 .. m
      BY <1>1
    <3> QED  BY <1>1, <1>11, <3>1 DEF StopsBehind, m
  <2>4. a \in Nat
    BY Numbers
  <2> HIDE DEF key, key2
  <2>5. ASSUME NEW i \in 1 .. m, NEW j \in 1 .. m, i < j PROVE key2(i) < key2(j)
    <3>1. i \in Int /\ j \in Int /\ k \in Int /\ m \in Int /\ 1 <= k /\ k <= m - 1 /\ 1 <= i /\ j <= m
      BY <1>1, <1>2
    <3>2. CASE i < k + 1 /\ j < k + 1
      BY <2>1, <2>2, <2>5, <3>1, <3>2
    <3>3. CASE i < k + 1 /\ j = k + 1
      <4>1. i \in 1 .. k
        BY <3>1, <3>3
      <4> QED  BY <2>1, <2>3, <3>1, <3>3, <4>1
    <3>4. CASE i < k + 1 /\ j > k + 1
      <4>1. i \in 1 .. m - 1 /\ j - 1 \in 1 .. m - 1 /\ i < j - 1
        BY <3>1, <3>4
      <4>2. key2(i) = key(i) /\ key2(j) = key(j - 1)
        BY <2>1, <3>1, <3>4
      <4> QED  BY <2>2, <4>1, <4>2
    <3>5. CASE i = k + 1
      <4>1. j - 1 \in k + 1 .. m - 1 /\ j - 1 \in 1 .. m - 1
        BY <2>5, <3>1, <3>5
      <4>2. key2(i) = a /\ key2(j) = key(j - 1)
        BY <2>1, <2>5, <3>1, <3>5
      <4> QED  BY <2>3, <2>4, <4>1, <4>2
    <3>6. CASE i > k + 1
      <4>1. i - 1 \in 1 .. m - 1 /\ j - 1 \in 1 .. m - 1 /\ i - 1 < j - 1
        BY <2>5, <3>1, <3>6
      <4>2. key2(i) = key(i - 1) /\ key2(j) = key(j - 1)
        BY <2>1, <2>5, <3>1, <3>6
      <4> QED  BY <2>2, <4>1, <4>2
    <3> QED  BY <3>1, <3>2, <3>3, <3>4, <3>5, <3>6
  <2>6. Len(act2) - 1 = m
    BY <1>1, <1>7
  <2> QED  BY <2>5, <2>6 DEF Sorted, key2
<1>15. Lists(act2, free2)'
  <2>1. Len(act2) > 1 /\ act2[Len(act2)] = 1
    <3>1. m + 1 > 1 /\ m + 1 \in 1 .. m + 1 /\ ~(m + 1 < k + 1) /\ m + 1 # k + 1 /\ m + 1 - 1 = m
      BY <1>1, <1>2
    <3> QED  BY <1>1, <1>7, <3>1
  <2>2. \A e \in Semd : Contains(act2, e) <=> ~Contains(free2, e)
    BY <1>3, <1>5, <1>7
  <2> QED  BY <1>12, <1>13, <1>14, <2>1, <2>2 DEF Lists, semd_h
<1>16. Filled(act2, new)'
  <2>1. \A e \in Semd \ {0, 1} :
          IF Contains(act2, e)
          THEN s_semAdd'[e] \in Address /\ s_procQ'[e] = new[s_semAdd'[e]] /\ s_procQ'[e] # <<>>
          ELSE s_semAdd'[e] = 0 /\ s_procQ'[e] = <<>>
    BY <1>5, <1>6, <1>7, <1>8, <1>10, <1>11 DEF AslFits, Filled
  <2>2. ASSUME NEW b \in Address, new[b] # <<>> PROVE \E e \in Semd : s_semAdd'[e] = b
    <3>1. CASE b = a
      BY <1>5, <1>8, <3>1
    <3>2. CASE b # a
      <4>1. PICK e \in Semd : s_semAdd[e] = b
        BY <1>10, <2>2, <3>2 DEF AslFits, Filled
      <4>2. Contains(act, e)
        BY <4>1, OneDescriptor
      <4> QED  BY <1>6, <1>8, <4>1, <4>2
    <3> QED  BY <3>1, <3>2
  <2>3. s_semAdd'[0] = 0 /\ s_semAdd'[1] = MAXADD /\ s_procQ'[0] = <<>> /\ s_procQ'[1] = <<>>
    BY <1>6, <1>8, Numbers DEF AslFits, Filled
  <2> QED  BY <2>1, <2>2, <2>3 DEF Filled
<1>17. AslFits(act2, free2, new)'
  BY <1>9, <1>15, <1>16 DEF AslFits, new
<1> QED  BY <1>17 DEF act2, free2, new

(* A descriptor whose queue became empty goes on the free stack.           *)
LEMMA DescriptorFreed ==
  ASSUME NEW act, NEW free, NEW wait, AslFits(act, free, wait), NEW a \in Address, NEW k,
         StopsBehind(act, a, k), NEW d, d = act[k + 1], s_semAdd[d] = a,
         s_procQ' = [s_procQ EXCEPT ![d] = <<>>], freeSemdAfter(act[k]),
         p_semAdd' \in [Pcb -> Address \cup {NULL}], Blocked([wait EXCEPT ![a] = <<>>])'
  PROVE  AslFits(RemoveAt(act, k + 1), <<d>> \o free, [wait EXCEPT ![a] = <<>>])'
<1> DEFINE m == Len(act)
           act2 == RemoveAt(act, k + 1)
           free2 == <<d>> \o free
           new == [wait EXCEPT ![a] = <<>>]
<1>1. /\ act \in Seq(Semd) /\ IsInjective(act) /\ m \in Nat /\ m > 1
      /\ act[1] = 0 /\ act[m] = 1
      /\ \A i \in 1 .. m : act[i] \in Semd /\ Contains(act, act[i])
      /\ \A i \in 1 .. m - 1 : s_next[act[i]] = act[i + 1] /\ s_semAdd[act[i]] \in Nat
      /\ \A i \in 1 .. m : act[i] \in Semd
  BY ActFacts
<1>2. /\ k \in 1 .. m - 1 /\ k + 1 \in 1 .. m /\ s_next[act[k]] = d
      /\ act[k] \in Semd /\ d \in Semd /\ act[k] # d
  <2>1. k \in 1 .. m - 1 /\ k + 1 \in 1 .. m /\ s_next[act[k]] = d
    BY <1>1 DEF StopsBehind
  <2> QED  BY <2>1, SearchFinds
<1>3. d # 0 /\ d # 1 /\ Contains(act, d) /\ \A e \in Semd : s_semAdd[e] = a => e = d
  BY <1>2, OneDescriptor
<1>4. k + 1 \in 2 .. m - 1
  BY <1>1, <1>2, <1>3
<1>5. /\ DOMAIN s_next = Semd /\ Linked(s_next, semd_h, act, NULL)
      /\ Linked(s_next, semdFree_h, free, NULL)
      /\ \A e \in Semd : Contains(act, e) <=> ~Contains(free, e)
      /\ semdFree_h \in Semd \cup {NULL}
  <2>1. DOMAIN s_next = Semd /\ Linked(s_next, semdFree_h, free, NULL)
    BY DEF AslFits, Typed, Lists
  <2>2. semdFree_h \in Semd \cup {NULL}
    <3>1. free # <<>> => 1 \in 1 .. Len(free) /\ semdFree_h = free[1] /\ free \in Seq(Semd)
      BY <2>1 DEF Linked
    <3> QED  BY <2>1, <3>1 DEF Linked
  <2> QED  BY <2>1, <2>2 DEF AslFits, Lists
<1>6. ~Contains(free, d)
  BY <1>2, <1>3, <1>5
<1>7. /\ act2 \in Seq(Semd) /\ Len(act2) = m - 1 /\ IsInjective(act2)
      /\ \A i \in 1 .. m - 1 : act2[i] = IF i < k + 1 THEN act[i] ELSE act[i + 1]
      /\ \A x : Contains(act2, x) <=> Contains(act, x) /\ x # d
  <2> DEFINE l == k + 1
  <2>1. l \in 1 .. Len(act) /\ d = act[l]
    BY <1>2
  <2> HIDE DEF l, act2, free2, new, m
  <2>2. /\ RemoveAt(act, l) \in Seq(Semd) /\ Len(RemoveAt(act, l)) = Len(act) - 1
        /\ \A i \in 1 .. Len(act) - 1 : RemoveAt(act, l)[i] = IF i < l THEN act[i] ELSE act[i + 1]
    BY <1>1, <2>1, RemoveAtFacts
  <2>3. /\ IsInjective(RemoveAt(act, l))
        /\ \A x : Contains(RemoveAt(act, l), x) <=> Contains(act, x) /\ x # d
    BY <1>1, <2>1, RemoveAtContains
  <2> QED  BY <2>2, <2>3 DEF l, act2, m
<1>8. /\ DOMAIN s_next' = Semd /\ s_next'[act[k]] = s_next[d] /\ s_next'[d] = semdFree_h
      /\ semdFree_h' = d
      /\ \A e \in Semd : e # d /\ e # act[k] => s_next'[e] = s_next[e]
      /\ \A e \in Semd : s_semAdd'[e] = IF e = d THEN 0 ELSE s_semAdd[e]
      /\ \A e \in Semd : s_procQ'[e] = IF e = d THEN <<>> ELSE s_procQ[e]
  <2>1. /\ s_next' = [s_next EXCEPT ![act[k]] = s_next[d], ![d] = semdFree_h]
        /\ s_semAdd' = [s_semAdd EXCEPT ![d] = 0] /\ semdFree_h' = d
    BY <1>2 DEF freeSemdAfter
  <2> QED  BY <1>2, <1>5, <2>1 DEF AslFits, Typed
<1>9. Typed'
  <2>1. /\ s_next' = [s_next EXCEPT ![act[k]] = s_next[d], ![d] = semdFree_h]
        /\ s_semAdd' = [s_semAdd EXCEPT ![d] = 0]
    BY <1>2 DEF freeSemdAfter
  <2>2. s_next[d] \in Semd \cup {NULL} /\ <<>> \in Seq(Pcb)
    BY <1>2 DEF AslFits, Typed
  <2> QED  BY <1>2, <1>5, <2>1, <2>2 DEF AslFits, Typed
<1>10. \A b \in Address : new[b] = IF b = a THEN <<>> ELSE wait[b]
  BY DEF AslFits, Blocked
<1> HIDE DEF act2, free2, new, m
<1>11. Linked(s_next', semd_h, act2, NULL)
  <2>1. k \in 1 .. Len(act) - 1
    BY <1>2 DEF m
  <2>2. \A x : Contains(act, x) => x \in Semd
    BY <1>1 DEF Contains, m
  <2>3. /\ s_next'[act[k]] = s_next[act[k + 1]]
        /\ \A x : Contains(act, x) /\ x # act[k] /\ x # act[k + 1] => s_next'[x] = s_next[x]
    BY <1>8, <2>2
  <2> QED  BY <1>5, <1>8, <2>1, <2>3, LinkedRemove DEF act2
<1>12. Linked(s_next', semdFree_h', free2, NULL) /\ \A x : Contains(free2, x) <=> Contains(free, x) \/ x = d
  <2>1. \A x : Contains(free, x) => x \in Semd /\ x # d /\ x # act[k]
    <3>1. k \in 1 .. m
      BY <1>1, <1>2
    <3>2. \A x : Contains(free, x) => x \in Semd
      <4>1. free \in Seq(Semd)
        BY <1>5 DEF Linked
      <4> QED  BY <4>1 DEF Contains
    <3> QED  BY <1>1, <1>5, <1>6, <3>1, <3>2
  <2>2. \A x : Contains(free, x) => s_next'[x] = s_next[x]
    BY <1>8, <2>1
  <2>3. Linked(s_next', d, free2, NULL) /\ \A x : Contains(free2, x) <=> Contains(free, x) \/ x = d
    BY <1>2, <1>5, <1>6, <1>8, <2>2, LinkedPush DEF free2
  <2> QED  BY <1>8, <2>3
<1>13. Sorted(act2)'
  <2> SUFFICES ASSUME NEW i \in 1 .. Len(act2) - 1, NEW j \in 1 .. Len(act2) - 1, i < j
               PROVE  s_semAdd'[act2[i]] < s_semAdd'[act2[j]]
    BY DEF Sorted
  <2> DEFINE at(n) == IF n < k + 1 THEN n ELSE n + 1
  <2>1. ASSUME NEW n \in 1 .. Len(act2) - 1
        PROVE  at(n) \in 1 .. m - 1 /\ s_semAdd'[act2[n]] = s_semAdd[act[at(n)]]
    <3>1. n \in 1 .. m - 1 /\ at(n) \in 1 .. m - 1 /\ at(n) # k + 1 /\ at(n) \in 1 .. m
      BY <1>1, <1>2, <1>7
    <3>2. act2[n] = act[at(n)] /\ act[at(n)] \in Semd
      BY <1>1, <1>7, <3>1
    <3>3. act[at(n)] # d
      <4>1. DOMAIN act = 1 .. m
        BY <1>1 DEF m
      <4> HIDE DEF at
      <4> QED  BY <1>1, <1>2, <3>1, <4>1 DEF IsInjective
    <3> HIDE DEF at
    <3> QED  BY <1>8, <3>1, <3>2, <3>3
  <2>2. at(i) < at(j)
    BY <1>1, <1>2, <1>7
  <2> HIDE DEF at
  <2>3. at(i) \in 1 .. Len(act) - 1 /\ at(j) \in 1 .. Len(act) - 1
    BY <2>1 DEF m
  <2>4. s_semAdd[act[at(i)]] < s_semAdd[act[at(j)]]
    BY <2>2, <2>3 DEF AslFits, Lists, Sorted
  <2> QED  BY <2>1, <2>4
<1>14. Lists(act2, free2)'
  <2>1. Len(act2) > 1 /\ act2[Len(act2)] = 1
    <3>1. m - 1 > 1 /\ m - 1 \in 1 .. m - 1 /\ ~(m - 1 < k + 1) /\ m - 1 + 1 = m
      BY <1>1, <1>2, <1>4
    <3> QED  BY <1>1, <1>7, <3>1
  <2>2. \A e \in Semd : Contains(act2, e) <=> ~Contains(free2, e)
    BY <1>5, <1>7, <1>12
  <2> QED  BY <1>11, <1>12, <1>13, <2>1, <2>2 DEF Lists, semd_h
<1>15. Filled(act2, new)'
  <2>1. \A e \in Semd \ {0, 1} :
          IF Contains(act2, e)
          THEN s_semAdd'[e] \in Address /\ s_procQ'[e] = new[s_semAdd'[e]] /\ s_procQ'[e] # <<>>
          ELSE s_semAdd'[e] = 0 /\ s_procQ'[e] = <<>>
    BY <1>3, <1>7, <1>8, <1>10 DEF AslFits, Filled
  <2>2. ASSUME NEW b \in Address, new[b] # <<>> PROVE \E e \in Semd : s_semAdd'[e] = b
    <3>1. b # a /\ wait[b] # <<>>
      BY <1>10, <2>2
    <3>2. PICK e \in Semd : s_semAdd[e] = b
      BY <3>1 DEF AslFits, Filled
    <3>3. e # d
      BY <3>1, <3>2
    <3> QED  BY <1>8, <3>2, <3>3
  <2>3. s_semAdd'[0] = 0 /\ s_semAdd'[1] = MAXADD /\ s_procQ'[0] = <<>> /\ s_procQ'[1] = <<>>
    BY <1>3, <1>8, Numbers DEF AslFits, Filled
  <2> QED  BY <2>1, <2>2, <2>3 DEF Filled
<1>16. AslFits(act2, free2, new)'
  BY <1>9, <1>14, <1>15 DEF AslFits, new
<1> QED  BY <1>16 DEF act2, free2, new

----------------------------------------------------------------------------
(* What each call does                                                     *)

AslHolds(wait) == \E act, free : AslFits(act, free, wait)

(* A process leaves the queue of its address.                              *)
LEMMA ShrinkDoes ==
  ASSUME NEW act, NEW free, NEW wait, AslFits(act, free, wait), NEW a \in Address, NEW k,
         StopsBehind(act, a, k), NEW p \in Pcb, Contains(wait[a], p),
         NEW q \in Seq(Pcb), IsInjective(q), \A x : Contains(q, x) <=> Contains(wait[a], x) /\ x # p,
         p_semAdd' = [p_semAdd EXCEPT ![p] = NULL], Shrink(act[k], q)
  PROVE  AslHolds([wait EXCEPT ![a] = q])'
<1> DEFINE new == [wait EXCEPT ![a] = q]
           d == act[k + 1]
<1>1. /\ wait \in [Address -> Seq(Pcb)] /\ Blocked(wait)
      /\ p_semAdd \in [Pcb -> Address \cup {NULL}]
  BY DEF AslFits, Blocked, Typed
<1>2. wait[a] # <<>>
  BY DEF Contains
<1>3. d \in Semd /\ s_semAdd[d] = a /\ s_next[act[k]] = d
  <2>1. act[k + 1] \in Semd /\ s_semAdd[act[k + 1]] = a
    BY <1>2, SearchFinds
  <2>2. s_next[act[k]] = act[k + 1]
    BY DEF StopsBehind
  <2> QED  BY <2>1, <2>2
<1>4. Blocked(new)'
  BY <1>1, BlockedLess
<1>5. p_semAdd' \in [Pcb -> Address \cup {NULL}]
  BY <1>1
<1>6. s_procQ' = [s_procQ EXCEPT ![d] = q]
  BY <1>3 DEF Shrink
<1>7. CASE q = <<>>
  <2>1. freeSemdAfter(act[k])
    BY <1>7 DEF Shrink
  <2>2. Blocked([wait EXCEPT ![a] = <<>>])'
    BY <1>4, <1>7
  <2>3. s_procQ' = [s_procQ EXCEPT ![d] = <<>>]
    BY <1>6, <1>7
  <2>4. AslFits(RemoveAt(act, k + 1), <<d>> \o free, [wait EXCEPT ![a] = <<>>])'
    BY <1>3, <1>5, <2>1, <2>2, <2>3, DescriptorFreed
  <2> HIDE DEF d
  <2>5. AslHolds([wait EXCEPT ![a] = <<>>])'
    BY <2>4 DEF AslHolds
  <2> QED  BY <1>7, <2>5
<1>8. CASE q # <<>>
  <2>1. UNCHANGED <<s_next, s_semAdd, semdFree_h>>
    BY <1>8 DEF Shrink
  <2>2. AslFits(act, free, new)'
    BY <1>3, <1>4, <1>5, <1>6, <1>8, <2>1, QueueChanges
  <2> HIDE DEF new
  <2>3. AslHolds(new)'
    BY <2>2 DEF AslHolds
  <2> QED  BY <2>3 DEF new
<1> QED  BY <1>7, <1>8

LEMMA InsertDoes ==
  ASSUME NEW wait, AslHolds(wait), NEW a \in Address, NEW p \in Pcb, p_semAdd[p] = NULL,
         insertBlocked(a, p)
  PROVE  \/ /\ wait[a] = <<>> /\ semdFree_h = NULL
            /\ AslHolds(wait)' /\ answer' = <<"insertBlocked", TRUE>>
         \/ /\ ~(wait[a] = <<>> /\ semdFree_h = NULL)
            /\ AslHolds([wait EXCEPT ![a] = Append(@, p)])' /\ answer' = <<"insertBlocked", FALSE>>
<1> DEFINE q == Append(wait[a], p)
           new == [wait EXCEPT ![a] = q]
<1>1. PICK act, free : AslFits(act, free, wait)
  BY DEF AslHolds
<1>2. PICK k : StopsBehind(act, a, k)
  BY <1>1, SearchStops
<1>3. PICK d : d = semdFree_h
  OBVIOUS
<1>4. /\ findSemInActiveList(a) = act[k] /\ s_next[act[k]] = act[k + 1]
      /\ act[k] \in Semd /\ act[k + 1] \in Semd
      /\ s_semAdd[act[k + 1]] = a <=> wait[a] # <<>>
      /\ wait[a] # <<>> => s_procQ[act[k + 1]] = wait[a]
  <2>1. findSemInActiveList(a) = act[k] /\ s_next[act[k]] = act[k + 1]
    BY <1>2 DEF StopsBehind
  <2> QED  BY <1>1, <1>2, <2>1, SearchFinds
<1>5. /\ wait \in [Address -> Seq(Pcb)] /\ Blocked(wait)
      /\ p_semAdd \in [Pcb -> Address \cup {NULL}]
  BY <1>1 DEF AslFits, Blocked, Typed
<1>6. q \in Seq(Pcb) /\ q # <<>>
  BY <1>5
<1>7. CASE wait[a] # <<>>
  <2>1. /\ p_semAdd' = [p_semAdd EXCEPT ![p] = a]
        /\ s_procQ' = [s_procQ EXCEPT ![act[k + 1]] = Append(@, p)]
        /\ answer' = <<"insertBlocked", FALSE>> /\ UNCHANGED <<s_next, s_semAdd, semdFree_h>>
    BY <1>4, <1>7 DEF insertBlocked
  <2>2. s_procQ' = [s_procQ EXCEPT ![act[k + 1]] = q]
    BY <1>4, <1>7, <2>1
  <2>3. Blocked(new)'
    BY <1>5, <2>1, BlockedMore
  <2>4. p_semAdd' \in [Pcb -> Address \cup {NULL}]
    BY <1>5, <2>1
  <2> HIDE DEF q
  <2>5. AslFits(act, free, new)'
    BY <1>1, <1>4, <1>6, <1>7, <2>1, <2>2, <2>3, <2>4, QueueChanges
  <2> HIDE DEF new
  <2>6. AslHolds(new)'
    BY <2>5 DEF AslHolds
  <2> QED  BY <1>7, <2>1, <2>6 DEF new, q
<1>8. CASE wait[a] = <<>> /\ semdFree_h = NULL
  <2>1. UNCHANGED <<s_next, s_semAdd, s_procQ, semdFree_h, p_semAdd>>
    BY <1>4, <1>8 DEF insertBlocked
  <2>2. answer' = <<"insertBlocked", TRUE>>
    BY <1>4, <1>8 DEF insertBlocked
  <2>3. AslFits(act, free, wait)'
    BY <1>1, <2>1 DEF AslFits, Typed, Lists, Sorted, Blocked, Filled
  <2> QED  BY <1>8, <2>2, <2>3 DEF AslHolds
<1>9. CASE wait[a] = <<>> /\ semdFree_h # NULL
  <2>1. /\ semdFree_h' = s_next[d]
        /\ s_next' = [s_next EXCEPT ![d] = s_next[act[k]], ![act[k]] = d]
        /\ s_semAdd' = [s_semAdd EXCEPT ![d] = a] /\ s_procQ' = [s_procQ EXCEPT ![d] = <<p>>]
        /\ p_semAdd' = [p_semAdd EXCEPT ![p] = a] /\ answer' = <<"insertBlocked", FALSE>>
    BY <1>3, <1>4, <1>9 DEF insertBlocked
  <2>2. q = <<p>>
    BY <1>9
  <2>3. Blocked(new)'
    BY <1>5, <2>1, BlockedMore
  <2>4. p_semAdd' \in [Pcb -> Address \cup {NULL}]
    BY <1>5, <2>1
  <2>5. s_procQ' = [s_procQ EXCEPT ![d] = q]
    BY <2>1, <2>2
  <2> HIDE DEF q
  <2>6. AslFits(InsertAt(act, k + 1, d), Tail(free), new)'
    <3>1. wait[a] = <<>> /\ d # NULL
      BY <1>3, <1>9
    <3>2. semdFree_h' = s_next[d] /\ s_next' = [s_next EXCEPT ![d] = s_next[act[k]], ![act[k]] = d]
      BY <2>1
    <3> QED  BY <1>1, <1>2, <1>3, <1>6, <2>1, <2>3, <2>4, <2>5, <3>1, <3>2, DescriptorTaken
  <2> HIDE DEF new
  <2>7. AslHolds(new)'
    BY <2>6 DEF AslHolds
  <2> QED  BY <1>9, <2>1, <2>7 DEF new, q
<1> QED  BY <1>7, <1>8, <1>9

LEMMA RemoveDoes ==
  ASSUME NEW wait, AslHolds(wait), NEW a \in Address, removeBlocked(a)
  PROVE  \/ /\ wait[a] = <<>> /\ AslHolds(wait)' /\ answer' = <<"removeBlocked", NULL>>
         \/ /\ wait[a] # <<>> /\ AslHolds([wait EXCEPT ![a] = Tail(@)])'
            /\ answer' = <<"removeBlocked", Head(wait[a])>>
<1> DEFINE q == Tail(wait[a])
           p == Head(wait[a])
<1>1. PICK act, free : AslFits(act, free, wait)
  BY DEF AslHolds
<1>2. PICK k : StopsBehind(act, a, k)
  BY <1>1, SearchStops
<1>3. /\ findSemInActiveList(a) = act[k] /\ s_next[act[k]] = act[k + 1]
      /\ act[k + 1] \in Semd
      /\ s_semAdd[act[k + 1]] = a <=> wait[a] # <<>>
      /\ wait[a] # <<>> => s_procQ[act[k + 1]] = wait[a]
  <2>1. findSemInActiveList(a) = act[k] /\ s_next[act[k]] = act[k + 1]
    BY <1>2 DEF StopsBehind
  <2> QED  BY <1>1, <1>2, <2>1, SearchFinds
<1>4. CASE wait[a] = <<>>
  <2>1. UNCHANGED <<s_next, s_semAdd, s_procQ, semdFree_h, p_semAdd>>
    BY <1>3, <1>4 DEF removeBlocked
  <2>2. answer' = <<"removeBlocked", NULL>>
    BY <1>3, <1>4 DEF removeBlocked
  <2>3. AslFits(act, free, wait)'
    BY <1>1, <2>1 DEF AslFits, Typed, Lists, Sorted, Blocked, Filled
  <2> QED  BY <1>4, <2>2, <2>3 DEF AslHolds
<1>5. CASE wait[a] # <<>>
  <2>1. /\ Shrink(act[k], q) /\ p_semAdd' = [p_semAdd EXCEPT ![p] = NULL]
        /\ answer' = <<"removeBlocked", p>>
    BY <1>3, <1>5 DEF removeBlocked
  <2>2. wait[a] \in Seq(Pcb) /\ IsInjective(wait[a])
    BY <1>1 DEF AslFits, Blocked
  <2>3. /\ p \in Pcb /\ q \in Seq(Pcb) /\ Contains(wait[a], p) /\ IsInjective(q)
        /\ \A x : Contains(q, x) <=> Contains(wait[a], x) /\ x # p
    BY <1>5, <2>2, TailFacts
  <2> HIDE DEF p, q
  <2>4. AslHolds([wait EXCEPT ![a] = q])'
    BY <1>1, <1>2, <2>1, <2>3, ShrinkDoes
  <2> QED  BY <1>5, <2>1, <2>4 DEF p, q
<1> QED  BY <1>4, <1>5

(* The nucleus calls outBlocked for a blocked process: it waits where its  *)
(* p_semAdd says.                                                          *)
LEMMA OutDoes ==
  ASSUME NEW wait, AslHolds(wait), NEW p \in Pcb, p_semAdd[p] # NULL, outBlocked(p)
  PROVE  \E a \in Address : /\ Contains(wait[a], p)
                            /\ AslHolds([wait EXCEPT ![a] = RemoveFirst(@, p)])'
                            /\ answer' = <<"outBlocked", p>>
<1>1. PICK act, free : AslFits(act, free, wait)
  BY DEF AslHolds
<1>2. PICK a \in Address : p_semAdd[p] = a
  BY <1>1 DEF AslFits, Typed
<1> DEFINE q == RemoveFirst(wait[a], p)
<1>3. Contains(wait[a], p) /\ wait[a] \in Seq(Pcb) /\ IsInjective(wait[a])
  BY <1>1, <1>2 DEF AslFits, Blocked
<1>4. wait[a] # <<>>
  BY <1>3 DEF Contains
<1>5. PICK k : StopsBehind(act, a, k)
  BY <1>1, SearchStops
<1>6. /\ findSemInActiveList(p_semAdd[p]) = act[k] /\ s_next[act[k]] = act[k + 1]
      /\ s_procQ[act[k + 1]] = wait[a]
  <2>1. findSemInActiveList(p_semAdd[p]) = act[k] /\ s_next[act[k]] = act[k + 1]
    BY <1>2, <1>5 DEF StopsBehind
  <2> QED  BY <1>1, <1>4, <1>5, <2>1, SearchFinds
<1>7. /\ Shrink(act[k], q) /\ p_semAdd' = [p_semAdd EXCEPT ![p] = NULL]
      /\ answer' = <<"outBlocked", p>>
  BY <1>3, <1>6 DEF outBlocked
<1>8. /\ q \in Seq(Pcb) /\ IsInjective(q)
      /\ \A x : Contains(q, x) <=> Contains(wait[a], x) /\ x # p
  <2>1. PICK i \in 1 .. Len(wait[a]) : wait[a][i] = p /\ q = RemoveAt(wait[a], i)
    BY <1>3, RemoveFirstFacts
  <2> HIDE DEF q
  <2> QED  BY <1>3, <2>1, RemoveAtFacts, RemoveAtContains
<1> HIDE DEF q
<1>9. AslHolds([wait EXCEPT ![a] = q])'
  BY <1>1, <1>3, <1>5, <1>7, <1>8, ShrinkDoes
<1> QED  BY <1>3, <1>7, <1>9 DEF q

----------------------------------------------------------------------------
(* The invariant is inductive                                              *)

(* initASL lists the sentinels and stacks the other descriptors up.        *)
LEMMA AslStart == Init => AslHolds([a \in Address |-> <<>>])
<1> SUFFICES ASSUME Init PROVE AslHolds([a \in Address |-> <<>>])
  OBVIOUS
<1> DEFINE act == <<0, 1>>
           free == [i \in 1 .. Descriptors |-> Descriptors + 2 - i]
           wait == [a \in Address |-> <<>>]
<1>1. /\ s_next = initASL /\ s_semAdd = [i \in Semd |-> IF i = 1 THEN MAXADD ELSE 0]
      /\ s_procQ = [i \in Semd |-> <<>>] /\ semdFree_h = Descriptors + 1
      /\ p_semAdd = [p \in Pcb |-> NULL]
  BY DEF Init
<1>2. /\ Descriptors \in Nat /\ Descriptors > 0 /\ 0 \in Semd /\ 1 \in Semd
      /\ \A d : d \in Semd <=> d \in 0 .. Descriptors + 1
  BY Numbers DEF Semd
<1>3. /\ DOMAIN s_next = Semd /\ s_next[0] = 1 /\ s_next[1] = NULL
      /\ \A d \in 2 .. Descriptors + 1 : s_next[d] = IF d = 2 THEN NULL ELSE d - 1
  BY <1>1, <1>2 DEF initASL
<1>4. Typed
  <2>1. initASL \in [Semd -> Semd \cup {NULL}]
    <3>1. \A i \in Semd : i # 0 /\ i # 1 => i - 1 \in Semd
      BY <1>2
    <3> QED  BY <1>2, <3>1 DEF initASL
  <2> QED  BY <1>1, <2>1 DEF Typed
<1>5. /\ act \in Seq(Semd) /\ Len(act) = 2 /\ act[1] = 0 /\ act[2] = 1
      /\ \A x : Contains(act, x) <=> x = 0 \/ x = 1
  <2>1. act \in Seq(Semd) /\ Len(act) = 2 /\ act[1] = 0 /\ act[2] = 1
    BY <1>2
  <2> QED  BY <2>1 DEF Contains
<1>6. /\ free \in Seq(Semd) /\ Len(free) = Descriptors
      /\ \A i \in 1 .. Descriptors : free[i] = Descriptors + 2 - i
  <2>1. \A i \in 1 .. Descriptors : Descriptors + 2 - i \in Semd
    BY <1>2
  <2>2. free \in [1 .. Descriptors -> Semd]
    BY <2>1
  <2> QED  BY <1>2, <2>2
<1> HIDE DEF act, free
<1>7. Linked(s_next, semd_h, act, NULL)
  <2>1. DOMAIN act = 1 .. 2
    BY <1>5
  <2>2. IsInjective(act)
    BY <1>5, <2>1 DEF IsInjective
  <2>3. \A i \in 1 .. 2 : s_next[act[i]] = IF i = 2 THEN NULL ELSE act[i + 1]
    BY <1>3, <1>5
  <2>4. act # <<>>
    BY <1>5
  <2> QED  BY <1>3, <1>5, <2>2, <2>3, <2>4 DEF Linked, semd_h
<1>8. Linked(s_next, semdFree_h, free, NULL)
  <2>1. DOMAIN free = 1 .. Descriptors
    BY <1>6
  <2>2. IsInjective(free)
    BY <1>2, <1>6, <2>1 DEF IsInjective
  <2>3. ASSUME NEW i \in 1 .. Descriptors
        PROVE  s_next[free[i]] = IF i = Descriptors THEN NULL ELSE free[i + 1]
    <3> DEFINE d == Descriptors + 2 - i
    <3>1. /\ d \in 2 .. Descriptors + 1 /\ (d = 2 <=> i = Descriptors)
          /\ i # Descriptors => i + 1 \in 1 .. Descriptors /\ Descriptors + 2 - (i + 1) = d - 1
      BY <1>2
    <3>2. free[i] = d
      BY <1>6
    <3>3. i # Descriptors => free[i + 1] = d - 1
      BY <1>6, <3>1
    <3>4. s_next[d] = IF d = 2 THEN NULL ELSE d - 1
      BY <1>3, <3>1
    <3> HIDE DEF d
    <3> QED  BY <3>1, <3>2, <3>3, <3>4
  <2>4. free # <<>> /\ free[1] = Descriptors + 1
    BY <1>2, <1>6
  <2> QED  BY <1>1, <1>3, <1>6, <2>2, <2>3, <2>4 DEF Linked
<1>9. \A d \in Semd : Contains(free, d) <=> d # 0 /\ d # 1
  <2>1. ASSUME NEW d \in Semd, d # 0, d # 1 PROVE Contains(free, d)
    <3>1. Descriptors + 2 - d \in 1 .. Descriptors /\ Descriptors + 2 - (Descriptors + 2 - d) = d
      BY <1>2, <2>1
    <3> QED  BY <1>6, <3>1 DEF Contains
  <2>2. ASSUME NEW d \in Semd, Contains(free, d) PROVE d # 0 /\ d # 1
    <3>1. PICK i \in 1 .. Descriptors : free[i] = d
      BY <1>6, <2>2 DEF Contains
    <3> QED  BY <1>2, <1>6, <3>1
  <2> QED  BY <2>1, <2>2
<1>10. Lists(act, free)
  <2>1. Sorted(act)
    BY <1>5 DEF Sorted
  <2> QED  BY <1>5, <1>7, <1>8, <1>9, <2>1 DEF Lists
<1>11. wait \in [Address -> Seq(Pcb)] /\ \A a \in Address : wait[a] = <<>>
  OBVIOUS
<1>12. IsInjective(<<>>) /\ \A p : ~Contains(<<>>, p)
  BY DEF IsInjective, Contains
<1> HIDE DEF wait
<1>13. Blocked(wait)
  BY <1>1, <1>11, <1>12, Numbers DEF Blocked
<1>14. Filled(act, wait)
  BY <1>1, <1>2, <1>5, <1>11 DEF Filled
<1>15. AslFits(act, free, wait)
  BY <1>4, <1>10, <1>13, <1>14 DEF AslFits
<1> QED  BY <1>15 DEF AslHolds, wait

LEMMA AslStep == AslInv /\ [Next]_vars => AslInv'
<1> SUFFICES ASSUME AslInv, [Next]_vars PROVE AslInv'
  OBVIOUS
<1>1. PICK wait : AslHolds(wait)
  BY DEF AslInv, AslHolds
<1>2. \A w : AslHolds(w)' => AslInv'
  BY DEF AslInv, AslHolds
<1>3. ASSUME NEW p \in Pcb, p_semAdd[p] # NULL, outBlocked(p) PROVE AslInv'
  BY <1>1, <1>2, <1>3, OutDoes
<1>4. ASSUME NEW p \in Pcb, NEW a \in Address, p_semAdd[p] = NULL, insertBlocked(a, p)
      PROVE  AslInv'
  BY <1>1, <1>2, <1>4, InsertDoes
<1>5. ASSUME NEW a \in Address, removeBlocked(a) PROVE AslInv'
  BY <1>1, <1>2, <1>5, RemoveDoes
<1>6. CASE UNCHANGED vars
  <2>1. PICK act, free : AslFits(act, free, wait)
    BY <1>1 DEF AslHolds
  <2>2. UNCHANGED <<s_next, s_semAdd, s_procQ, semdFree_h, p_semAdd>>
    BY <1>6 DEF vars
  <2>3. AslFits(act, free, wait)'
    BY <2>1, <2>2 DEF AslFits, Typed, Lists, Sorted, Blocked, Filled
  <2> QED  BY <2>3 DEF AslInv
<1> QED  BY <1>3, <1>4, <1>5, <1>6 DEF Next

LEMMA AslInductive == Spec => []AslInv
<1>1. Init => AslInv
  BY AslStart DEF AslInv, AslHolds
<1> QED  BY <1>1, AslStep, PTL DEF Spec

----------------------------------------------------------------------------
(* What the code reads                                                     *)

(* A chase from either head meets the descriptors of that list.            *)
LEMMA ListedFacts ==
  ASSUME NEW act, NEW free, NEW wait, AslFits(act, free, wait)
  PROVE  /\ Listed = {d \in Semd : Contains(act, d)}
         /\ Reachable(s_next, semdFree_h) = {d \in Semd : Contains(free, d)}
<1>1. /\ DOMAIN s_next = Semd /\ NULL \notin Semd
      /\ Linked(s_next, semd_h, act, NULL) /\ Linked(s_next, semdFree_h, free, NULL)
  BY Numbers DEF AslFits, Typed, Lists
<1>2. Closes(s_next, act, NULL) /\ Closes(s_next, free, NULL)
  BY <1>1 DEF Closes
<1> QED  BY <1>1, <1>2, LinkedReach DEF Listed

(* The queue found for an address is the queue of those who wait there.    *)
LEMMA QueueRead ==
  ASSUME NEW act, NEW free, NEW wait, AslFits(act, free, wait), NEW a \in Address
  PROVE  QueueAt(a) = wait[a]
<1>1. Listed = {d \in Semd : Contains(act, d)}
  BY ListedFacts
<1>2. CASE wait[a] = <<>>
  <2>1. \A d \in Semd : s_semAdd[d] = a => FALSE
    <3>1. SUFFICES ASSUME NEW d \in Semd, s_semAdd[d] = a PROVE FALSE
      OBVIOUS
    <3>2. d # 0 /\ d # 1 /\ Contains(act, d)
      BY <3>1, OneDescriptor
    <3> QED  BY <1>2, <3>1, <3>2 DEF AslFits, Filled
  <2> QED  BY <1>1, <1>2, <2>1 DEF QueueAt
<1>3. CASE wait[a] # <<>>
  <2>1. PICK d \in Semd : s_semAdd[d] = a
    BY <1>3 DEF AslFits, Filled
  <2>2. d # 0 /\ d # 1 /\ Contains(act, d) /\ \A e \in Semd : s_semAdd[e] = a => e = d
    BY <2>1, OneDescriptor
  <2>3. s_procQ[d] = wait[a]
    BY <2>1, <2>2 DEF AslFits, Filled
  <2>4. (CHOOSE e \in Listed : s_semAdd[e] = a) = d
    BY <1>1, <2>1, <2>2
  <2> QED  BY <1>1, <2>1, <2>2, <2>3, <2>4 DEF QueueAt
<1> QED  BY <1>2, <1>3

WaitRead == \A wait : AslHolds(wait) => [a \in Address |-> QueueAt(a)] = wait

LEMMA WaitsAreRead == WaitRead
<1> SUFFICES ASSUME NEW wait, AslHolds(wait) PROVE [a \in Address |-> QueueAt(a)] = wait
  BY DEF WaitRead
<1>1. PICK act, free : AslFits(act, free, wait)
  BY DEF AslHolds
<1>2. wait \in [Address -> Seq(Pcb)]
  BY <1>1 DEF AslFits, Blocked
<1>3. \A a \in Address : QueueAt(a) = wait[a]
  BY <1>1, QueueRead
<1> QED  BY <1>2, <1>3

LEMMA WaitsStayRead == WaitRead'
BY WaitsAreRead, PTL

(* The free stack is empty exactly when as many addresses as there are     *)
(* descriptors have somebody waiting.                                      *)
LEMMA FullMeans ==
  ASSUME NEW act, NEW free, NEW wait, AslFits(act, free, wait)
  PROVE  semdFree_h = NULL <=> Cardinality({a \in Address : wait[a] # <<>>}) >= Descriptors
<1> DEFINE N == 2 .. Descriptors + 1
           L == {d \in N : Contains(act, d)}
           A == {a \in Address : wait[a] # <<>>}
           f == [d \in L |-> s_semAdd[d]]
<1>1. /\ Descriptors \in Nat /\ Descriptors > 0 /\ NULL \notin Semd
      /\ \A d : d \in Semd <=> d \in N \/ d = 0 \/ d = 1
      /\ \A d \in N : d # 0 /\ d # 1
  BY Numbers DEF Semd
<1>2. IsFiniteSet(N) /\ Cardinality(N) = Descriptors
  <2> DEFINE top == Descriptors + 1
  <2>1. 2 \in Int /\ top \in Int
    BY <1>1
  <2> HIDE DEF top
  <2>2. IsFiniteSet(2 .. top) /\ Cardinality(2 .. top) = IF 2 > top THEN 0 ELSE top - 2 + 1
    BY <2>1, FS_Interval
  <2>3. ~(2 > top) /\ top - 2 + 1 = Descriptors
    BY <1>1 DEF top
  <2>4. N = 2 .. top
    BY DEF top
  <2> HIDE DEF N
  <2> QED  BY <2>2, <2>3, <2>4
<1>3. semdFree_h = NULL <=> free = <<>>
  <2>1. Linked(s_next, semdFree_h, free, NULL) /\ DOMAIN s_next = Semd
    BY DEF AslFits, Lists, Typed
  <2>2. free # <<>> => semdFree_h \in Semd
    BY <2>1, LinkedPop
  <2> QED  BY <1>1, <2>1, <2>2 DEF Linked
<1>4. free = <<>> <=> \A d \in Semd : Contains(act, d)
  <2>1. free \in Seq(Semd) /\ \A d \in Semd : Contains(act, d) <=> ~Contains(free, d)
    BY DEF AslFits, Lists, Linked, Typed
  <2>2. free # <<>> => Head(free) \in Semd /\ Contains(free, Head(free))
    BY <2>1, TailFacts
  <2>3. \A d : ~Contains(<<>>, d)
    BY DEF Contains
  <2> QED  BY <2>1, <2>2, <2>3
<1>5. Contains(act, 0) /\ Contains(act, 1)
  <2>1. Len(act) \in Nat /\ Len(act) > 1 /\ act[1] = 0 /\ act[Len(act)] = 1
    BY ActFacts
  <2>2. 1 \in 1 .. Len(act) /\ Len(act) \in 1 .. Len(act)
    BY <2>1
  <2> QED  BY <2>1, <2>2 DEF Contains
<1> HIDE DEF N
<1>6. free = <<>> <=> L = N
  BY <1>1, <1>4, <1>5
<1>7. \A d \in L : d \in Semd /\ s_semAdd[d] \in Address /\ wait[s_semAdd[d]] # <<>>
  BY <1>1 DEF AslFits, Filled
<1>8. ExistsBijection(L, A)
  <2>1. f \in [L -> A] /\ \A d \in L : f[d] = s_semAdd[d]
    BY <1>7
  <2>2. \A d, e \in L : f[d] = f[e] => d = e
    BY <1>7, <2>1, OneDescriptor
  <2>3. ASSUME NEW a \in A PROVE \E d \in L : f[d] = a
    <3>1. PICK d \in Semd : s_semAdd[d] = a
      BY DEF AslFits, Filled
    <3>2. d # 0 /\ d # 1 /\ Contains(act, d)
      BY <3>1, OneDescriptor
    <3> QED  BY <1>1, <2>1, <3>1, <3>2
  <2> HIDE DEF f, L, A
  <2>4. f \in Bijection(L, A)
    BY <2>1, <2>2, <2>3 DEF Bijection, Injection, Surjection, IsInjective
  <2> QED  BY <2>4 DEF ExistsBijection
<1>9. L \in SUBSET N
  OBVIOUS
<1> HIDE DEF L, A
<1>10. /\ IsFiniteSet(L) /\ Cardinality(L) <= Cardinality(N)
       /\ Cardinality(N) = Cardinality(L) => N = L
  BY <1>2, <1>9, FS_Subset
<1>11. Cardinality(A) = Cardinality(L) /\ Cardinality(L) \in Nat
  BY <1>8, <1>10, FS_Bijection, FS_CardinalityType
<1>12. Cardinality(A) >= Descriptors <=> L = N
  BY <1>1, <1>2, <1>10, <1>11
<1> QED  BY <1>3, <1>6, <1>12 DEF A

----------------------------------------------------------------------------
(* The theorems                                                            *)

(* The fields of the descriptors, the heads and p_semAdd keep their types, *)
(* and so do the answers.                                                  *)
THEOREM AslTypes == Spec => []TypeOK
<1>1. Init => answer \in Answers
  BY DEF Init, Answers
<1>2. AslInv /\ answer \in Answers /\ [Next]_vars => (answer \in Answers)'
  <2> SUFFICES ASSUME AslInv, answer \in Answers, [Next]_vars PROVE answer' \in Answers
    OBVIOUS
  <2>1. PICK wait : AslHolds(wait)
    BY DEF AslInv, AslHolds
  <2>2. wait \in [Address -> Seq(Pcb)]
    BY <2>1 DEF AslHolds, AslFits, Blocked
  <2>3. ASSUME NEW p \in Pcb, p_semAdd[p] # NULL, outBlocked(p) PROVE answer' \in Answers
    <3>1. answer' = <<"outBlocked", p>>
      BY <2>1, <2>3, OutDoes
    <3> QED  BY <3>1 DEF Answers, PcbOrNull
  <2>4. ASSUME NEW p \in Pcb, NEW a \in Address, p_semAdd[p] = NULL, insertBlocked(a, p)
        PROVE  answer' \in Answers
    <3>1. answer' = <<"insertBlocked", TRUE>> \/ answer' = <<"insertBlocked", FALSE>>
      BY <2>1, <2>4, InsertDoes
    <3>2. <<"insertBlocked", TRUE>> \in Answers
      BY DEF Answers
    <3>3. <<"insertBlocked", FALSE>> \in Answers
      BY DEF Answers
    <3> QED  BY <3>1, <3>2, <3>3
  <2>5. ASSUME NEW a \in Address, removeBlocked(a) PROVE answer' \in Answers
    <3>1. CASE wait[a] = <<>>
      <4>1. answer' = <<"removeBlocked", NULL>>
        BY <2>1, <2>5, <3>1, RemoveDoes
      <4> QED  BY <4>1 DEF Answers, PcbOrNull
    <3>2. CASE wait[a] # <<>>
      <4>1. answer' = <<"removeBlocked", Head(wait[a])>>
        BY <2>1, <2>5, <3>2, RemoveDoes
      <4>2. Head(wait[a]) \in Pcb
        BY <2>2, <3>2
      <4> QED  BY <4>1, <4>2 DEF Answers, PcbOrNull
    <3> QED  BY <3>1, <3>2
  <2>6. CASE UNCHANGED vars
    BY <2>6 DEF vars
  <2> QED  BY <2>3, <2>4, <2>5, <2>6 DEF Next
<1>3. AslInv /\ answer \in Answers => TypeOK
  <2> SUFFICES ASSUME AslInv, answer \in Answers PROVE TypeOK
    OBVIOUS
  <2>1. PICK act, free, wait : AslFits(act, free, wait)
    BY DEF AslInv
  <2>2. semdFree_h \in Semd \cup {NULL}
    <3>1. Linked(s_next, semdFree_h, free, NULL) /\ DOMAIN s_next = Semd
      BY <2>1 DEF AslFits, Lists, Typed
    <3>2. free # <<>> => semdFree_h \in Semd
      BY <3>1, LinkedPop
    <3> QED  BY <3>1, <3>2 DEF Linked
  <2> QED  BY <2>1, <2>2 DEF AslFits, Typed, TypeOK
<1> QED  BY <1>1, <1>2, <1>3, AslInductive, PTL DEF Spec

(* The list is in ascending order as far as the upper sentinel, whatever   *)
(* the addresses: the search never misses a descriptor.                    *)
THEOREM AslSorted == Spec => []AscendingToSentinel
<1>1. AslInv => AscendingToSentinel
  <2> SUFFICES ASSUME AslInv, NEW d \in Listed, s_next[d] \in Semd \ {1}
               PROVE  s_semAdd[d] < s_semAdd[s_next[d]]
    BY DEF AscendingToSentinel
  <2>1. PICK act, free, wait : AslFits(act, free, wait)
    BY DEF AslInv
  <2>2. PICK i \in 1 .. Len(act) : act[i] = d
    BY <2>1, ListedFacts DEF Contains
  <2>3. /\ Len(act) \in Nat /\ act[Len(act)] = 1 /\ s_next[1] = NULL
        /\ \A j \in 1 .. Len(act) - 1 : s_next[act[j]] = act[j + 1]
    BY <2>1, ActFacts
  <2>4. i \in 1 .. Len(act) - 1 /\ s_next[d] = act[i + 1]
    <3>1. i # Len(act)
      BY <2>2, <2>3, Numbers
    <3> QED  BY <2>2, <2>3, <3>1
  <2>5. i + 1 \in 1 .. Len(act) - 1 /\ i < i + 1
    <3>1. i + 1 # Len(act)
      BY <2>3, <2>4
    <3> QED  BY <2>3, <2>4, <3>1
  <2> QED  BY <2>1, <2>2, <2>4, <2>5 DEF AslFits, Lists, Sorted
<1> QED  BY <1>1, AslInductive, PTL

(* No descriptor leaks: each is listed with somebody waiting, or free, or  *)
(* a sentinel.                                                             *)
THEOREM DescriptorsCorrect == Spec => []NoDescriptorLost
<1>1. AslInv => NoDescriptorLost
  <2> SUFFICES ASSUME AslInv PROVE NoDescriptorLost
    OBVIOUS
  <2>1. PICK act, free, wait : AslFits(act, free, wait)
    BY DEF AslInv
  <2>2. /\ Listed = {d \in Semd : Contains(act, d)}
        /\ Reachable(s_next, semdFree_h) = {d \in Semd : Contains(free, d)}
    BY <2>1, ListedFacts
  <2>3. \A d \in Semd : Contains(act, d) <=> ~Contains(free, d)
    BY <2>1 DEF AslFits, Lists
  <2>4. 0 \in Semd /\ 1 \in Semd /\ Contains(act, 0) /\ Contains(act, 1)
    <3>1. Len(act) \in Nat /\ Len(act) > 1 /\ act[1] = 0 /\ act[Len(act)] = 1
      BY <2>1, ActFacts
    <3>2. 1 \in 1 .. Len(act) /\ Len(act) \in 1 .. Len(act)
      BY <3>1
    <3> QED  BY <3>1, <3>2, Numbers DEF Contains
  <2>5. \A d \in Semd : s_procQ[d] # <<>> <=> d \in Listed \ {0, 1}
    BY <2>1, <2>2 DEF AslFits, Filled
  <2> QED  BY <2>2, <2>3, <2>4, <2>5 DEF NoDescriptorLost
<1> QED  BY <1>1, AslInductive, PTL

(* A process waits in the queue of the address its p_semAdd says, and      *)
(* outBlocked finds it there.                                              *)
THEOREM BlockedCorrect == Spec => []BlockedWhereItSays
<1>1. AslInv => BlockedWhereItSays
  <2> SUFFICES ASSUME AslInv, NEW p \in Pcb, NEW a \in Address
               PROVE  p_semAdd[p] = a <=> \E d \in Listed : s_semAdd[d] = a /\ Contains(s_procQ[d], p)
    BY DEF BlockedWhereItSays
  <2>1. PICK act, free, wait : AslFits(act, free, wait)
    BY DEF AslInv
  <2>2. Listed = {d \in Semd : Contains(act, d)}
    BY <2>1, ListedFacts
  <2>3. p_semAdd[p] = a <=> Contains(wait[a], p)
    BY <2>1 DEF AslFits, Blocked
  <2>4. ASSUME NEW d \in Semd, s_semAdd[d] = a
        PROVE  d \in Listed /\ s_procQ[d] = wait[a]
    <3>1. d # 0 /\ d # 1 /\ Contains(act, d)
      BY <2>1, <2>4, OneDescriptor
    <3> QED  BY <2>1, <2>2, <2>4, <3>1 DEF AslFits, Filled
  <2>5. Contains(wait[a], p) => \E d \in Semd : s_semAdd[d] = a
    <3>1. ~Contains(<<>>, p)
      BY DEF Contains
    <3> QED  BY <2>1, <3>1 DEF AslFits, Filled
  <2> QED  BY <2>2, <2>3, <2>4, <2>5
<1> QED  BY <1>1, AslInductive, PTL

----------------------------------------------------------------------------
(* The refinement, step by step                                            *)

LEMMA QueuesOperators ==
  /\ \A s, p : Queues!Contains(s, p) <=> Contains(s, p)
  /\ \A s, p : Queues!RemoveFirst(s, p) = RemoveFirst(s, p)
  /\ \A S : Queues!Cardinality(S) = Cardinality(S)
<1>1. \A s, p : Queues!Contains(s, p) <=> Contains(s, p)
  BY DEF Contains, Queues!Contains
<1>2. \A s, p : Queues!RemoveFirst(s, p) = RemoveFirst(s, p)
  BY DEF RemoveFirst, Queues!RemoveFirst, SelectInSeq, Queues!SelectInSeq, RemoveAt,
         Queues!RemoveAt, Min, Queues!Min
<1>3. \A S : Queues!Cardinality(S) = Cardinality(S)
  BY DEF Cardinality, Queues!Cardinality
<1> QED  BY <1>1, <1>2, <1>3

(* A call on a list that fits is that call of BlockedQueues, with the same *)
(* answer.                                                                 *)
LEMMA QueuesStep == AslInv /\ [Next]_vars => [Queues!Next]_(Queues!vars)
<1> SUFFICES ASSUME AslInv, [Next]_vars PROVE [Queues!Next]_(Queues!vars)
  OBVIOUS
<1>1. PICK act, free, wait : AslFits(act, free, wait)
  BY DEF AslInv
<1> DEFINE waiting == [a \in Address |-> QueueAt(a)]
<1>2. AslHolds(wait) /\ waiting = wait
  BY <1>1, WaitsAreRead DEF AslHolds, WaitRead
<1>3. \A w : AslHolds(w)' => waiting' = w
  BY WaitsStayRead DEF WaitRead
<1>4. /\ wait \in [Address -> Seq(Pcb)] /\ p_semAdd \in [Pcb -> Address \cup {NULL}]
      /\ \A p \in Pcb, a \in Address : p_semAdd[p] = a <=> Contains(wait[a], p)
  BY <1>1 DEF AslFits, Typed, Blocked
<1> HIDE DEF waiting
<1>5. ASSUME NEW p \in Pcb, p_semAdd[p] # NULL, outBlocked(p) PROVE Queues!Out(p)
  <2>1. PICK a \in Address : /\ Contains(wait[a], p)
                             /\ AslHolds([wait EXCEPT ![a] = RemoveFirst(@, p)])'
                             /\ answer' = <<"outBlocked", p>>
    BY <1>2, <1>5, OutDoes
  <2> DEFINE new == [wait EXCEPT ![a] = RemoveFirst(@, p)]
  <2>2. waiting' = new
    BY <1>3, <2>1
  <2>3. new = [b \in Address |-> RemoveFirst(wait[b], p)]
    <3>1. p_semAdd[p] = a
      BY <1>4, <2>1
    <3>2. \A b \in Address : b # a => ~Contains(wait[b], p)
      BY <1>4, <3>1
    <3>3. \A b \in Address : b # a => RemoveFirst(wait[b], p) = wait[b]
      BY <1>4, <3>2, RemoveFirstFacts
    <3> QED  BY <1>4, <3>3
  <2> HIDE DEF new
  <2>4. waiting' = [b \in Address |-> Queues!RemoveFirst(waiting[b], p)]
    BY <1>2, <2>2, <2>3, QueuesOperators
  <2>5. \E b \in Address : Queues!Contains(waiting[b], p)
    BY <1>2, <2>1, QueuesOperators
  <2> QED  BY <2>1, <2>4, <2>5 DEF Queues!Out, Queues!IsBlocked, waiting
<1>6. ASSUME NEW p \in Pcb, NEW a \in Address, p_semAdd[p] = NULL, insertBlocked(a, p)
      PROVE  Queues!Insert(a, p)
  <2> DEFINE full == waiting[a] = <<>>
                     /\ Queues!Cardinality({b \in Address : waiting[b] # <<>>}) >= Descriptors
  <2>1. full <=> wait[a] = <<>> /\ semdFree_h = NULL
    BY <1>1, <1>2, FullMeans, QueuesOperators
  <2>2. Queues!Full(a) = full
    BY DEF Queues!Full, Queues!Active, waiting
  <2>3. ~\E b \in Address : Queues!Contains(waiting[b], p)
    BY <1>2, <1>4, <1>6, Numbers, QueuesOperators
  <2> DEFINE new == [wait EXCEPT ![a] = Append(@, p)]
  <2>4. \/ /\ wait[a] = <<>> /\ semdFree_h = NULL
           /\ AslHolds(wait)' /\ answer' = <<"insertBlocked", TRUE>>
        \/ /\ ~(wait[a] = <<>> /\ semdFree_h = NULL)
           /\ AslHolds(new)' /\ answer' = <<"insertBlocked", FALSE>>
    BY <1>2, <1>6, InsertDoes
  <2> HIDE DEF new, full
  <2>5. \/ full /\ waiting' = wait /\ answer' = <<"insertBlocked", TRUE>>
        \/ ~full /\ waiting' = new /\ answer' = <<"insertBlocked", FALSE>>
    BY <1>3, <2>1, <2>4
  <2>6. (full \in BOOLEAN)
    BY DEF full
  <2>7. /\ answer' = <<"insertBlocked", Queues!Full(a)>>
        /\ waiting' = IF Queues!Full(a) THEN waiting ELSE [waiting EXCEPT ![a] = Append(@, p)]
    <3>1. CASE full
      BY <1>2, <2>2, <2>5, <2>6, <3>1
    <3>2. CASE ~full
      BY <1>2, <2>2, <2>5, <2>6, <3>2 DEF new
    <3> QED  BY <3>1, <3>2
  <2> QED  BY <2>3, <2>7 DEF Queues!Insert, Queues!IsBlocked, waiting
<1>7. ASSUME NEW a \in Address, removeBlocked(a) PROVE Queues!RemoveOldest(a)
  <2> DEFINE new == [wait EXCEPT ![a] = Tail(@)]
  <2>1. \/ wait[a] = <<>> /\ AslHolds(wait)' /\ answer' = <<"removeBlocked", NULL>>
        \/ wait[a] # <<>> /\ AslHolds(new)' /\ answer' = <<"removeBlocked", Head(wait[a])>>
    BY <1>2, <1>7, RemoveDoes
  <2> HIDE DEF new
  <2>2. \/ wait[a] = <<>> /\ waiting' = wait /\ answer' = <<"removeBlocked", NULL>>
        \/ wait[a] # <<>> /\ waiting' = new /\ answer' = <<"removeBlocked", Head(wait[a])>>
    BY <1>3, <2>1
  <2> QED  BY <1>2, <2>2 DEF Queues!RemoveOldest, waiting, new
<1>8. CASE UNCHANGED vars
  BY <1>8 DEF vars, Queues!vars, QueueAt, Listed
<1> QED  BY <1>5, <1>6, <1>7, <1>8 DEF Next, Queues!Next

(* asl.c implements BlockedQueues: every semaphore has a FIFO queue, the   *)
(* oldest process is the one removed, and insertBlocked refuses only when  *)
(* every descriptor has somebody waiting.                                  *)
THEOREM BlockedKept == Spec => KeepsBlockedQueues
<1>1. Init => Queues!Init
  <2> SUFFICES ASSUME Init PROVE Queues!Init
    OBVIOUS
  <2>1. [a \in Address |-> QueueAt(a)] = [a \in Address |-> <<>>]
    BY AslStart, WaitsAreRead DEF WaitRead
  <2> QED  BY <2>1 DEF Init, Queues!Init
<1> QED  BY <1>1, QueuesStep, AslInductive, PTL DEF Spec, KeepsBlockedQueues, Queues!Spec
=============================================================================
