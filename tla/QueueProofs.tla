---------------------------- MODULE QueueProofs ----------------------------
(***************************************************************************)
(* Process queues and the free list, for every number of blocks and every  *)
(* number of queues: the pointers of each list make one ring, every block  *)
(* is in one place, and the calls do to the lists what FifoQueues says.    *)
(*                                                                         *)
(* The inductive invariant is that some sequences fit the rings: their     *)
(* order is what tells the oldest block, the tail and the neighbours that  *)
(* a removal has to close up.                                              *)
(***************************************************************************)
EXTENDS ProcQueues, LinkProofs

(* The rings hold the blocks of free and of queue, oldest first.           *)
Fits(free, queue) ==
  /\ links \in Links /\ tail \in [Queue -> PcbOrNull]
  /\ RingList(links, free) /\ pcbFree_h = HeadOf(free)
  /\ \A q \in Queue : RingList(links, queue[q]) /\ tail[q] = TailOf(queue[q])

(* Each block is on one list or in the hands of a caller, and not in two   *)
(* of these places.                                                        *)
Apart(free, queue, out) ==
  /\ free \in Seq(Pcb) /\ queue \in [Queue -> Seq(Pcb)] /\ out \in SUBSET Pcb
  /\ \A p \in Pcb : p \in out \/ Contains(free, p) \/ \E q \in Queue : Contains(queue[q], p)
  /\ \A p \in out : ~Contains(free, p) /\ \A q \in Queue : ~Contains(queue[q], p)
  /\ \A q \in Queue, p \in Pcb : Contains(queue[q], p) => ~Contains(free, p)
  /\ \A q, r \in Queue, p \in Pcb : Contains(queue[q], p) /\ Contains(queue[r], p) => q = r

(* What is not free is counted.                                            *)
Rings(free, queue) == /\ Fits(free, queue)
                      /\ Apart(free, queue, held)
                      /\ processCount = MAXPROC - Len(free)

QueuesAreRings == \E free, queue : Rings(free, queue)

----------------------------------------------------------------------------
(* The ends of a ring                                                      *)

(* What the pointers of a ring say of its ends, and where the next ends    *)
(* are when one block leaves.                                              *)
LEMMA RingEnds ==
  ASSUME NEW lk \in Links, NEW s, RingList(lk, s)
  PROVE  /\ HeadOf(s) \in PcbOrNull /\ TailOf(s) \in PcbOrNull
         /\ HeadOf(s) = NULL <=> s = <<>>
         /\ TailOf(s) = NULL <=> s = <<>>
         /\ headProcQ(lk, TailOf(s)) = HeadOf(s)
         /\ s # <<>> => /\ HeadOf(s) = Head(s)
                        /\ HeadOf(s) = TailOf(s) <=> Len(s) = 1
<1>1. s \in Seq(Pcb) /\ IsInjective(s)
  BY DEF RingList
<1>2. CASE s = <<>>
  BY <1>2 DEF HeadOf, TailOf, headProcQ, PcbOrNull
<1>3. CASE s # <<>>
  <2>1. /\ HeadOf(s) \in Pcb /\ TailOf(s) \in Pcb /\ HeadOf(s) # NULL /\ TailOf(s) # NULL
        /\ headProcQ(lk, TailOf(s)) = HeadOf(s)
    BY <1>3, RingReach, NullAssumption DEF headProcQ
  <2>2. HeadOf(s) = s[1] /\ TailOf(s) = s[Len(s)] /\ Head(s) = s[1]
    BY <1>1, <1>3 DEF HeadOf, TailOf
  <2>3. 1 \in 1 .. Len(s) /\ Len(s) \in 1 .. Len(s)
    BY <1>1, <1>3
  <2>4. s[1] = s[Len(s)] => 1 = Len(s)
    <3>1. DOMAIN s = 1 .. Len(s)
      BY <1>1
    <3> QED  BY <1>1, <2>3, <3>1, Zenon DEF IsInjective
  <2> QED  BY <1>3, <2>1, <2>2, <2>4 DEF PcbOrNull
<1> QED  BY <1>2, <1>3

LEMMA EndsAfter ==
  ASSUME NEW lk \in Links, NEW s, RingList(lk, s), NEW k \in 1 .. Len(s)
  PROVE  /\ TailOf(RemoveAt(s, k)) = IF k # Len(s) THEN TailOf(s)
                                     ELSE IF Len(s) = 1 THEN NULL ELSE lk.prev[TailOf(s)]
         /\ k = 1 => /\ RemoveAt(s, k) = Tail(s)
                     /\ HeadOf(RemoveAt(s, k)) = IF Len(s) = 1 THEN NULL ELSE lk.next[s[1]]
<1> DEFINE m == Len(s)
           t == RemoveAt(s, k)
<1>1. s \in Seq(Pcb) /\ m \in Nat /\ m > 0 /\ k \in 1 .. m
  <2>1. s \in Seq(Pcb)  BY DEF RingList
  <2> QED  BY <2>1
<1>2. /\ t \in Seq(Pcb) /\ Len(t) = m - 1
      /\ \A i \in 1 .. m - 1 : t[i] = IF i < k THEN s[i] ELSE s[i + 1]
  BY <1>1, RemoveAtFacts
<1>3. /\ lk.next[s[1]] = IF 1 = m THEN s[1] ELSE s[1 + 1]
      /\ lk.prev[s[m]] = IF m = 1 THEN s[m] ELSE s[m - 1]
  <2>1. 1 \in 1 .. m /\ m \in 1 .. m
    BY <1>1
  <2> QED  BY <2>1 DEF RingList
<1>4. TailOf(s) = s[m] /\ s # <<>>
  BY <1>1 DEF TailOf
<1>5. ASSUME k = 1 PROVE t = Tail(s)
  <2>1. /\ Tail(s) \in Seq(Pcb) /\ Len(Tail(s)) = m - 1
        /\ \A i \in 1 .. m - 1 : Tail(s)[i] = s[i + 1]
    BY <1>1, <1>4
  <2> HIDE DEF t, m
  <2>2. \A i \in 1 .. m - 1 : t[i] = s[i + 1]
    BY <1>1, <1>2, <1>5
  <2> QED  BY <1>2, <2>1, <2>2
<1> HIDE DEF t, m
<1>6. t = <<>> <=> m = 1
  BY <1>1, <1>2
<1>7. TailOf(t) = IF m = 1 THEN NULL ELSE t[m - 1]
  BY <1>2, <1>6 DEF TailOf
<1>8. HeadOf(t) = IF m = 1 THEN NULL ELSE t[1]
  BY <1>2, <1>6 DEF HeadOf
<1>9. m # 1 => /\ t[m - 1] = IF k = m THEN s[m - 1] ELSE s[m]
               /\ k = 1 => t[1] = s[1 + 1]
  <2>1. m # 1 => /\ m - 1 \in 1 .. m - 1 /\ 1 \in 1 .. m - 1 /\ m - 1 + 1 = m
                 /\ m - 1 < k <=> k = m
    BY <1>1
  <2> QED  BY <1>1, <1>2, <2>1
<1>10. TailOf(t) = IF k # m THEN TailOf(s) ELSE IF m = 1 THEN NULL ELSE lk.prev[TailOf(s)]
  BY <1>1, <1>3, <1>4, <1>7, <1>9
<1>11. k = 1 => HeadOf(t) = IF m = 1 THEN NULL ELSE lk.next[s[1]]
  BY <1>1, <1>3, <1>8, <1>9
<1> QED  BY <1>5, <1>10, <1>11 DEF t, m

----------------------------------------------------------------------------
(* A block changes place                                                   *)

LEMMA ApartFreed ==
  ASSUME NEW free, NEW queue, NEW out, Apart(free, queue, out), NEW p \in out, NEW s \in Seq(Pcb),
         \A x : Contains(s, x) <=> Contains(free, x) \/ x = p
  PROVE  Apart(s, queue, out \ {p})
BY DEF Apart

LEMMA ApartAlloced ==
  ASSUME NEW free, NEW queue, NEW out, Apart(free, queue, out), NEW p \in Pcb, Contains(free, p),
         NEW s \in Seq(Pcb), \A x : Contains(s, x) <=> Contains(free, x) /\ x # p
  PROVE  Apart(s, queue, out \cup {p})
BY DEF Apart

LEMMA ApartInserted ==
  ASSUME NEW free, NEW queue, NEW out, Apart(free, queue, out), NEW p \in out, NEW q \in Queue,
         NEW s \in Seq(Pcb), \A x : Contains(s, x) <=> Contains(queue[q], x) \/ x = p
  PROVE  Apart(free, [queue EXCEPT ![q] = s], out \ {p})
<1> DEFINE new == [queue EXCEPT ![q] = s]
<1>1. /\ new \in [Queue -> Seq(Pcb)]
      /\ \A r \in Queue : new[r] = IF r = q THEN s ELSE queue[r]
  BY DEF Apart
<1>2. \A r \in Queue, x \in Pcb : Contains(new[r], x) <=> Contains(queue[r], x) \/ (r = q /\ x = p)
  BY <1>1
<1> HIDE DEF new
<1>3. Apart(free, new, out \ {p})
  BY <1>1, <1>2 DEF Apart
<1> QED  BY <1>3 DEF new

LEMMA ApartTaken ==
  ASSUME NEW free, NEW queue, NEW out, Apart(free, queue, out), NEW q \in Queue, NEW p \in Pcb,
         Contains(queue[q], p), NEW s \in Seq(Pcb),
         \A x : Contains(s, x) <=> Contains(queue[q], x) /\ x # p
  PROVE  Apart(free, [queue EXCEPT ![q] = s], out \cup {p})
<1> DEFINE new == [queue EXCEPT ![q] = s]
<1>1. /\ new \in [Queue -> Seq(Pcb)]
      /\ \A r \in Queue : new[r] = IF r = q THEN s ELSE queue[r]
  BY DEF Apart
<1>2. \A r \in Queue, x \in Pcb :
        Contains(new[r], x) <=> Contains(queue[r], x) /\ ~(r = q /\ x = p)
  BY <1>1
<1> HIDE DEF new
<1>3. Apart(free, new, out \cup {p})
  BY <1>1, <1>2 DEF Apart
<1> QED  BY <1>3 DEF new

----------------------------------------------------------------------------
(* What each call does to the lists                                        *)

LEMMA AllocDoes ==
  ASSUME NEW free, NEW queue, Rings(free, queue), allocPcb
  PROVE  \/ /\ free = <<>> /\ Rings(free, queue)'
            /\ answer' = <<"allocPcb", NULL>> /\ UNCHANGED <<held, processCount>>
         \/ /\ free # <<>> /\ Rings(Tail(free), queue)'
            /\ answer' = <<"allocPcb", Head(free)>> /\ held' = held \cup {Head(free)}
            /\ processCount' = processCount + 1
<1>1. /\ Fits(free, queue) /\ Apart(free, queue, held) /\ processCount = MAXPROC - Len(free)
      /\ links \in Links /\ RingList(links, free) /\ pcbFree_h = HeadOf(free)
      /\ free \in Seq(Pcb) /\ IsInjective(free)
  BY DEF Rings, Fits, RingList
<1>2. pcbFree_h = NULL <=> free = <<>>
  BY <1>1, RingEnds
<1>3. answer' = <<"allocPcb", pcbFree_h>> /\ UNCHANGED tail
  BY DEF allocPcb
<1>4. CASE free = <<>>
  <2>1. UNCHANGED <<links, pcbFree_h, held, processCount>>
    BY <1>2, <1>4 DEF allocPcb
  <2>2. Rings(free, queue)'
    BY <1>1, <1>3, <2>1 DEF Rings, Fits
  <2> QED  BY <1>2, <1>3, <1>4, <2>1, <2>2
<1>5. CASE free # <<>>
  <2> DEFINE s == Tail(free)
             h == Head(free)
  <2>1. h = HeadOf(free) /\ h = free[1] /\ (h = TailOf(free) <=> Len(free) = 1)
    BY <1>1, <1>5, RingEnds
  <2>2. /\ h \in Pcb /\ s \in Seq(Pcb) /\ Len(s) = Len(free) - 1 /\ Len(free) > 0
        /\ Contains(free, h)
        /\ \A x : Contains(s, x) <=> Contains(free, x) /\ x # h
    BY <1>1, <1>5, TailFacts
  <2>3. 1 \in 1 .. Len(free)
    BY <1>1, <2>2
  <2>4. /\ links' = unlinkPCB(links, h) /\ pcbFree_h' = allocHead(links, h)
        /\ held' = held \cup {h} /\ processCount' = processCount + 1
    BY <1>1, <1>2, <1>5, <2>1 DEF allocPcb
  <2>5. s = RemoveAt(free, 1) /\ HeadOf(s) = IF Len(free) = 1 THEN NULL ELSE links.next[free[1]]
    BY <1>1, <2>3, EndsAfter
  <2>6. /\ links' \in Links /\ RingList(links', s)
        /\ \A x \in Pcb : ~Contains(free, x)
             => links'.next[x] = links.next[x] /\ links'.prev[x] = links.prev[x]
    <3> DEFINE u == unlinkPCB(links, free[1])
    <3>1. /\ u \in Links /\ RingList(u, RemoveAt(free, 1))
          /\ \A x \in Pcb : ~Contains(free, x)
               => u.next[x] = links.next[x] /\ u.prev[x] = links.prev[x]
      BY <1>1, <2>3, RingUnlink
    <3>2. links' = u
      BY <2>1, <2>4
    <3> HIDE DEF u, s
    <3> QED  BY <2>5, <3>1, <3>2
  <2>7. pcbFree_h' = HeadOf(s)
    <3>1. links.next[h] = h <=> Len(free) = 1
      <4>1. links.next[free[1]] = IF 1 = Len(free) THEN free[1] ELSE free[1 + 1]
        BY <2>3 DEF Rings, Fits, RingList
      <4>2. Len(free) # 1 => 1 + 1 \in 1 .. Len(free)
        BY <1>1, <2>2
      <4>3. Len(free) # 1 => free[1 + 1] # free[1]
        <5>1. DOMAIN free = 1 .. Len(free) /\ 1 + 1 # 1
          BY <1>1
        <5> QED  BY <1>1, <2>3, <4>2, <5>1 DEF IsInjective
      <4> QED  BY <2>1, <4>1, <4>3
    <3> QED  BY <2>1, <2>4, <2>5, <3>1 DEF allocHead
  <2> HIDE DEF s, h
  <2>8. Apart(s, queue, held \cup {h})
    BY <1>1, <2>2, ApartAlloced
  <2>9. ASSUME NEW q \in Queue PROVE RingList(links', queue[q]) /\ tail'[q] = TailOf(queue[q])
    <3>1. \A x \in Pcb : Contains(queue[q], x) => ~Contains(free, x)
      BY <1>1 DEF Apart
    <3>2. RingList(links, queue[q]) /\ tail[q] = TailOf(queue[q])
      BY <1>1 DEF Fits
    <3>3. RingList(links', queue[q])
      BY <2>6, <3>1, <3>2, RingFrame
    <3> QED  BY <1>3, <3>2, <3>3
  <2>10. Fits(s, queue)'
    <3>1. tail' \in [Queue -> PcbOrNull]
      BY <1>1, <1>3 DEF Fits
    <3> QED  BY <2>6, <2>7, <2>9, <3>1 DEF Fits
  <2>11. MAXPROC - Len(free) + 1 = MAXPROC - Len(s)
    BY <1>1, <2>2, PcbAssumption
  <2>12. Rings(s, queue)'
    BY <1>1, <2>4, <2>8, <2>10, <2>11 DEF Rings
  <2> QED  BY <1>1, <1>3, <1>5, <2>1, <2>4, <2>12 DEF s, h
<1> QED  BY <1>4, <1>5

LEMMA FreeDoes ==
  ASSUME NEW free, NEW queue, Rings(free, queue), NEW p \in Pcb, freePcb(p)
  PROVE  Rings(Append(free, p), queue)'
<1> DEFINE s == Append(free, p)
           u == freeLinks(links, HeadOf(free), p)
<1>1. /\ Fits(free, queue) /\ Apart(free, queue, held) /\ processCount = MAXPROC - Len(free)
      /\ links \in Links /\ RingList(links, free) /\ pcbFree_h = HeadOf(free)
      /\ free \in Seq(Pcb)
  BY DEF Rings, Fits, RingList
<1>2. /\ p \in held /\ links' = u /\ pcbFree_h' = freeHead(pcbFree_h, p)
      /\ held' = held \ {p} /\ processCount' = processCount - 1 /\ UNCHANGED tail
  BY <1>1 DEF freePcb
<1>3. ~Contains(free, p) /\ \A q \in Queue : ~Contains(queue[q], p)
  BY <1>1, <1>2 DEF Apart
<1>4. /\ u \in Links /\ RingList(u, s)
      /\ \A x \in Pcb : x # p /\ ~Contains(free, x)
           => u.next[x] = links.next[x] /\ u.prev[x] = links.prev[x]
  <2> DEFINE v == insertProcQ(links, TailOf(free), p)
  <2>1. /\ v \in Links /\ RingList(v, s) /\ u = v
        /\ \A x \in Pcb : x # p /\ ~Contains(free, x)
             => v.next[x] = links.next[x] /\ v.prev[x] = links.prev[x]
    BY <1>1, <1>3, RingInsert
  <2> HIDE DEF u, v, s
  <2> QED  BY <2>1
<1>5. /\ s \in Seq(Pcb) /\ Len(s) = Len(free) + 1 /\ s # <<>>
      /\ \A x : Contains(s, x) <=> Contains(free, x) \/ x = p
  BY <1>1, AppendFacts
<1>6. pcbFree_h' = HeadOf(s)
  <2>1. HeadOf(s) = s[1]
    BY <1>5 DEF HeadOf
  <2>2. s[1] = IF free = <<>> THEN p ELSE free[1]
    BY <1>1
  <2>3. pcbFree_h = NULL <=> free = <<>>
    BY <1>1, RingEnds
  <2>4. free # <<>> => pcbFree_h = free[1]
    BY <1>1 DEF HeadOf
  <2> HIDE DEF s
  <2> QED  BY <1>2, <2>1, <2>2, <2>3, <2>4 DEF freeHead
<1> HIDE DEF s, u
<1>7. Apart(s, queue, held \ {p})
  BY <1>1, <1>2, <1>5, ApartFreed
<1>8. ASSUME NEW q \in Queue PROVE RingList(links', queue[q]) /\ tail'[q] = TailOf(queue[q])
  <2>1. \A x \in Pcb : Contains(queue[q], x) => x # p /\ ~Contains(free, x)
    BY <1>1, <1>3 DEF Apart
  <2>2. RingList(links, queue[q]) /\ tail[q] = TailOf(queue[q])
    BY <1>1 DEF Fits
  <2>3. RingList(links', queue[q])
    BY <1>2, <1>4, <2>1, <2>2, RingFrame
  <2> QED  BY <1>2, <2>2, <2>3
<1>9. Fits(s, queue)'
  BY <1>1, <1>2, <1>4, <1>6, <1>8 DEF Fits
<1>10. MAXPROC - Len(free) - 1 = MAXPROC - Len(s)
  BY <1>1, <1>5, PcbAssumption
<1>11. Rings(s, queue)'
  BY <1>1, <1>2, <1>7, <1>9, <1>10 DEF Rings
<1> QED  BY <1>11 DEF s

LEMMA InsertDoes ==
  ASSUME NEW free, NEW queue, Rings(free, queue), NEW q \in Queue, NEW p \in Pcb, Insert(q, p)
  PROVE  Rings(free, [queue EXCEPT ![q] = Append(@, p)])'
<1> DEFINE old == queue[q]
           s == Append(old, p)
           new == [queue EXCEPT ![q] = s]
           u == insertProcQ(links, TailOf(old), p)
<1>1. /\ Fits(free, queue) /\ Apart(free, queue, held) /\ processCount = MAXPROC - Len(free)
      /\ links \in Links /\ RingList(links, old) /\ tail[q] = TailOf(old)
      /\ old \in Seq(Pcb) /\ DOMAIN queue = Queue
  BY DEF Rings, Fits, RingList, Apart
<1>2. /\ p \in held /\ links' = u /\ tail' = [tail EXCEPT ![q] = p]
      /\ held' = held \ {p} /\ UNCHANGED <<pcbFree_h, processCount>>
  BY <1>1 DEF Insert
<1>3. ~Contains(free, p) /\ \A r \in Queue : ~Contains(queue[r], p)
  BY <1>1, <1>2 DEF Apart
<1>4. /\ u \in Links /\ RingList(u, s)
      /\ \A x \in Pcb : x # p /\ ~Contains(old, x)
           => u.next[x] = links.next[x] /\ u.prev[x] = links.prev[x]
  <2> HIDE DEF old
  <2>1. ~Contains(old, p)
    BY <1>3 DEF old
  <2> QED  BY <1>1, <2>1, RingInsert
<1>5. /\ s \in Seq(Pcb) /\ TailOf(s) = p
      /\ \A x : Contains(s, x) <=> Contains(old, x) \/ x = p
  <2> HIDE DEF old
  <2>1. s \in Seq(Pcb) /\ s # <<>> /\ s[Len(s)] = p
    BY <1>1
  <2> QED  BY <1>1, <2>1, AppendFacts DEF TailOf
<1>6. \A r \in Queue : new[r] = IF r = q THEN s ELSE queue[r]
  BY <1>1
<1> HIDE DEF s, u
<1>7. Apart(free, new, held \ {p})
  BY <1>1, <1>2, <1>5, ApartInserted
<1>8. ASSUME NEW r \in Queue PROVE RingList(links', new[r]) /\ tail'[r] = TailOf(new[r])
  <2>1. tail'[r] = IF r = q THEN p ELSE tail[r]
    BY <1>1, <1>2 DEF Fits
  <2>2. CASE r = q
    BY <1>2, <1>4, <1>5, <1>6, <2>1, <2>2
  <2>3. CASE r # q
    <3>1. \A x \in Pcb : Contains(queue[r], x) => x # p /\ ~Contains(old, x)
      BY <1>1, <1>3, <2>3 DEF Apart
    <3>2. RingList(links, queue[r]) /\ tail[r] = TailOf(queue[r])
      BY <1>1 DEF Fits
    <3>3. RingList(links', queue[r])
      BY <1>2, <1>4, <3>1, <3>2, RingFrame
    <3> QED  BY <1>6, <2>1, <2>3, <3>2, <3>3
  <2> QED  BY <2>2, <2>3
<1>9. RingList(links', free)
  <2>1. \A x \in Pcb : Contains(free, x) => x # p /\ ~Contains(old, x)
    BY <1>1, <1>3 DEF Apart
  <2>2. RingList(links, free)
    BY <1>1 DEF Fits
  <2> QED  BY <1>2, <1>4, <2>1, <2>2, RingFrame
<1> HIDE DEF new
<1>10. Fits(free, new)'
  <2>1. tail' \in [Queue -> PcbOrNull]
    BY <1>1, <1>2 DEF Fits, PcbOrNull
  <2> QED  BY <1>1, <1>2, <1>4, <1>8, <1>9, <2>1 DEF Fits
<1>11. Rings(free, new)'
  BY <1>1, <1>2, <1>7, <1>10 DEF Rings
<1> QED  BY <1>11 DEF new, s, old

(* removeProcQ and outProcQ: the block at place k of the queue leaves it.  *)
LEMMA TakenDoes ==
  ASSUME NEW free, NEW queue, Rings(free, queue), NEW q \in Queue, NEW k \in 1 .. Len(queue[q]),
         links' = unlinkPCB(links, queue[q][k]),
         tail' = [tail EXCEPT ![q] = TailOf(RemoveAt(queue[q], k))],
         held' = held \cup {queue[q][k]}, UNCHANGED <<pcbFree_h, processCount>>
  PROVE  Rings(free, [queue EXCEPT ![q] = RemoveAt(@, k)])'
<1> DEFINE old == queue[q]
           p == old[k]
           s == RemoveAt(old, k)
           new == [queue EXCEPT ![q] = s]
           u == unlinkPCB(links, p)
<1>1. /\ Fits(free, queue) /\ Apart(free, queue, held) /\ processCount = MAXPROC - Len(free)
      /\ links \in Links /\ RingList(links, old) /\ tail[q] = TailOf(old)
      /\ old \in Seq(Pcb) /\ IsInjective(old) /\ DOMAIN queue = Queue
  BY DEF Rings, Fits, RingList, Apart
<1>2. k \in 1 .. Len(old) /\ p \in Pcb /\ Contains(old, p)
  <2>1. k \in 1 .. Len(old)
    OBVIOUS
  <2> HIDE DEF old
  <2> QED  BY <1>1, <2>1 DEF Contains
<1>3. /\ u \in Links /\ RingList(u, s)
      /\ \A x \in Pcb : ~Contains(old, x)
           => u.next[x] = links.next[x] /\ u.prev[x] = links.prev[x]
  <2> HIDE DEF old
  <2> QED  BY <1>1, <1>2, RingUnlink
<1>4. s \in Seq(Pcb) /\ \A x : Contains(s, x) <=> Contains(old, x) /\ x # p
  <2> HIDE DEF old
  <2> QED  BY <1>1, <1>2, RemoveAtFacts, RemoveAtContains
<1>5. links' = u /\ tail' = [tail EXCEPT ![q] = TailOf(s)] /\ held' = held \cup {p}
  OBVIOUS
<1>6. \A r \in Queue : new[r] = IF r = q THEN s ELSE queue[r]
  BY <1>1
<1>7. TailOf(s) \in PcbOrNull
  BY <1>3, RingEnds
<1> HIDE DEF s, u, p
<1>8. Apart(free, new, held \cup {p})
  BY <1>1, <1>2, <1>4, ApartTaken
<1>9. ASSUME NEW r \in Queue PROVE RingList(links', new[r]) /\ tail'[r] = TailOf(new[r])
  <2>1. tail'[r] = IF r = q THEN TailOf(s) ELSE tail[r]
    BY <1>1, <1>5 DEF Fits
  <2>2. CASE r = q
    BY <1>3, <1>5, <1>6, <2>1, <2>2
  <2>3. CASE r # q
    <3>1. \A x \in Pcb : Contains(queue[r], x) => ~Contains(old, x)
      BY <1>1, <2>3 DEF Apart
    <3>2. RingList(links, queue[r]) /\ tail[r] = TailOf(queue[r])
      BY <1>1 DEF Fits
    <3>3. RingList(links', queue[r])
      BY <1>3, <1>5, <3>1, <3>2, RingFrame
    <3> QED  BY <1>6, <2>1, <2>3, <3>2, <3>3
  <2> QED  BY <2>2, <2>3
<1>10. RingList(links', free)
  <2>1. \A x \in Pcb : Contains(free, x) => ~Contains(old, x)
    BY <1>1 DEF Apart
  <2>2. RingList(links, free)
    BY <1>1 DEF Fits
  <2> QED  BY <1>3, <1>5, <2>1, <2>2, RingFrame
<1> HIDE DEF new
<1>11. Fits(free, new)'
  <2>1. tail' \in [Queue -> PcbOrNull]
    BY <1>1, <1>5, <1>7 DEF Fits
  <2> QED  BY <1>1, <1>3, <1>5, <1>9, <1>10, <2>1 DEF Fits
<1>12. Rings(free, new)'
  BY <1>1, <1>5, <1>8, <1>11 DEF Rings
<1> QED  BY <1>12 DEF new, s, old

(* ... or they hand out no block.                                          *)
LEMMA NothingTaken ==
  ASSUME NEW free, NEW queue, Rings(free, queue), NEW q \in Queue,
         TakeOut(q, QueueResult(links, tail[q], NULL))
  PROVE  Rings(free, queue)' /\ UNCHANGED <<held, processCount>>
<1>1. UNCHANGED <<links, held, pcbFree_h, processCount>> /\ tail' = [tail EXCEPT ![q] = tail[q]]
  BY DEF TakeOut, QueueResult
<1>2. tail' = tail
  BY <1>1 DEF Rings, Fits
<1> QED  BY <1>1, <1>2 DEF Rings, Fits

LEMMA RemoveDoes ==
  ASSUME NEW free, NEW queue, Rings(free, queue), NEW q \in Queue, RemoveOldest(q)
  PROVE  \/ /\ queue[q] = <<>> /\ Rings(free, queue)'
            /\ answer' = <<"removeProcQ", NULL>> /\ UNCHANGED <<held, processCount>>
         \/ /\ queue[q] # <<>> /\ Rings(free, [queue EXCEPT ![q] = Tail(@)])'
            /\ answer' = <<"removeProcQ", Head(queue[q])>>
            /\ held' = held \cup {Head(queue[q])} /\ UNCHANGED processCount
<1> DEFINE s == queue[q]
           tp == tail[q]
           result == removeProcQ(links, tp)
<1>1. /\ links \in Links /\ RingList(links, s) /\ tp = TailOf(s) /\ s \in Seq(Pcb)
      /\ DOMAIN queue = Queue
  BY DEF Rings, Fits, RingList, Apart
<1>2. TakeOut(q, result) /\ answer' = <<"removeProcQ", result.ret>>
  BY DEF RemoveOldest
<1>3. CASE s = <<>>
  <2>1. tp = NULL
    BY <1>1, <1>3, RingEnds
  <2>2. result = QueueResult(links, tp, NULL) /\ result.ret = NULL
    BY <2>1 DEF removeProcQ, QueueResult
  <2> QED  BY <1>2, <1>3, <2>2, NothingTaken
<1>4. CASE s # <<>>
  <2> DEFINE h == s[1]
  <2>1. /\ tp # NULL /\ headProcQ(links, tp) = h /\ h = Head(s) /\ (h = tp <=> Len(s) = 1)
        /\ h \in Pcb /\ 1 \in 1 .. Len(s)
    <3> HIDE DEF s, tp
    <3>1. 1 \in 1 .. Len(s) /\ h \in Pcb /\ h = HeadOf(s)
      BY <1>1, <1>4 DEF HeadOf
    <3> QED  BY <1>1, <1>4, <3>1, RingEnds
  <2>2. /\ TailOf(RemoveAt(s, 1)) = IF 1 # Len(s) THEN TailOf(s) ELSE NULL
        /\ RemoveAt(s, 1) = Tail(s)
    <3> HIDE DEF s, tp
    <3> QED  BY <1>1, <2>1, EndsAfter
  <2>3. result = QueueResult(unlinkPCB(links, h), IF h = tp THEN NULL ELSE tp, h)
    BY <2>1 DEF removeProcQ
  <2>4. (IF h = tp THEN NULL ELSE tp) = TailOf(RemoveAt(s, 1))
    BY <1>1, <2>1, <2>2
  <2>5. /\ result.links = unlinkPCB(links, h) /\ result.tail = TailOf(RemoveAt(s, 1))
        /\ result.ret = h
    BY <2>3, <2>4 DEF QueueResult
  <2> HIDE DEF result, h
  <2>6. /\ links' = unlinkPCB(links, h) /\ tail' = [tail EXCEPT ![q] = TailOf(RemoveAt(s, 1))]
        /\ held' = held \cup {h} /\ UNCHANGED <<pcbFree_h, processCount>>
    BY <1>2, <2>1, <2>5, NullAssumption DEF TakeOut
  <2>7. Rings(free, [queue EXCEPT ![q] = RemoveAt(@, 1)])'
    BY <2>1, <2>6, TakenDoes DEF h
  <2>8. [queue EXCEPT ![q] = RemoveAt(@, 1)] = [queue EXCEPT ![q] = Tail(@)]
    BY <1>1, <2>2
  <2>9. Rings(free, [queue EXCEPT ![q] = Tail(@)])'
    <3> DEFINE new == [queue EXCEPT ![q] = RemoveAt(@, 1)]
               new2 == [queue EXCEPT ![q] = Tail(@)]
    <3>1. Rings(free, new)' /\ new = new2
      BY <2>7, <2>8
    <3> HIDE DEF new, new2
    <3>2. Rings(free, new2)'
      BY <3>1
    <3> QED  BY <3>2 DEF new2
  <2> QED  BY <1>2, <1>4, <2>1, <2>5, <2>6, <2>9
<1> QED  BY <1>3, <1>4

LEMMA OutDoes ==
  ASSUME NEW free, NEW queue, Rings(free, queue), NEW q \in Queue, NEW p \in Pcb, Out(q, p)
  PROVE  \/ /\ ~Contains(queue[q], p) /\ Rings(free, queue)'
            /\ answer' = <<"outProcQ", p, NULL>> /\ UNCHANGED <<held, processCount>>
         \/ /\ Contains(queue[q], p) /\ Rings(free, [queue EXCEPT ![q] = RemoveFirst(@, p)])'
            /\ answer' = <<"outProcQ", p, p>> /\ held' = held \cup {p} /\ UNCHANGED processCount
<1> DEFINE s == queue[q]
           tp == tail[q]
           result == outProcQ(links, tp, p)
<1>1. /\ links \in Links /\ RingList(links, s) /\ tp = TailOf(s) /\ s \in Seq(Pcb)
      /\ DOMAIN queue = Queue /\ IsInjective(s)
  BY DEF Rings, Fits, RingList, Apart
<1>2. TakeOut(q, result) /\ answer' = <<"outProcQ", p, result.ret>>
  BY DEF Out
<1>3. /\ tp = NULL <=> s = <<>>
      /\ s # <<>> => /\ tp \in Pcb /\ Contains(s, tp)
                     /\ Reachable(links.next, links.next[tp]) = {x \in Pcb : Contains(s, x)}
  <2> HIDE DEF s, tp
  <2> QED  BY <1>1, RingEnds, RingReach
<1>4. ~Contains(<<>>, p)
  BY DEF Contains
<1>5. CASE ~Contains(s, p)
  <2>1. tp = NULL => result = QueueResult(links, tp, NULL)
    BY DEF outProcQ
  <2>2. tp # NULL => result = QueueResult(links, tp, NULL)
    BY <1>3, <1>5 DEF outProcQ
  <2>3. result = QueueResult(links, tp, NULL) /\ result.ret = NULL
    BY <2>1, <2>2 DEF QueueResult
  <2> QED  BY <1>2, <1>5, <2>3, NothingTaken
<1>6. CASE Contains(s, p)
  <2>1. PICK k \in 1 .. Len(s) : s[k] = p /\ RemoveFirst(s, p) = RemoveAt(s, k)
    BY <1>1, <1>6, RemoveFirstFacts
  <2> DEFINE new == TailOf(RemoveAt(s, k))
  <2>2. new = IF k # Len(s) THEN tp ELSE IF Len(s) = 1 THEN NULL ELSE links.prev[tp]
    <3> HIDE DEF s, tp
    <3> QED  BY <1>1, <2>1, EndsAfter
  <2>3. s # <<>> /\ tp # NULL /\ (tp = p <=> k = Len(s))
    <3> HIDE DEF s, tp
    <3>1. s # <<>>
      BY <1>4, <1>6
    <3>2. tp = s[Len(s)] /\ Len(s) \in 1 .. Len(s) /\ DOMAIN s = 1 .. Len(s)
      BY <1>1, <3>1 DEF TailOf
    <3> QED  BY <1>1, <1>3, <2>1, <3>1, <3>2 DEF IsInjective
  <2>4. links.prev[tp] = tp <=> Len(s) = 1
    <3> HIDE DEF s, tp
    <3>1. Len(s) \in 1 .. Len(s) /\ tp = s[Len(s)] /\ DOMAIN s = 1 .. Len(s)
      BY <1>1, <2>3 DEF TailOf
    <3>2. links.prev[tp] = IF Len(s) = 1 THEN s[Len(s)] ELSE s[Len(s) - 1]
      BY <1>1, <3>1 DEF RingList
    <3>3. Len(s) # 1 => Len(s) - 1 \in 1 .. Len(s) /\ Len(s) - 1 # Len(s)
      <4>1. Len(s) \in Nat
        BY <1>1
      <4>2. \A m \in Nat : m \in 1 .. m /\ m # 1 => m - 1 \in 1 .. m /\ m - 1 # m
        OBVIOUS
      <4> QED  BY <3>1, <4>1, <4>2, Zenon
    <3>4. Len(s) # 1 => s[Len(s) - 1] # s[Len(s)]
      BY <1>1, <3>1, <3>3 DEF IsInjective
    <3> QED  BY <3>1, <3>2, <3>4
  <2>5. result = QueueResult(unlinkPCB(links, p), new, p)
    <3>1. CASE tp = p
      <4>1. result = QueueResult(unlinkPCB(links, p), IF links.prev[tp] = tp THEN NULL ELSE links.prev[tp], p)
        BY <2>3, <3>1 DEF outProcQ
      <4>2. new = IF links.prev[tp] = tp THEN NULL ELSE links.prev[tp]
        BY <2>2, <2>3, <2>4, <3>1
      <4> QED  BY <4>1, <4>2
    <3>2. CASE tp # p
      <4>1. p \in Reachable(links.next, links.next[tp])
        BY <1>3, <1>6, <2>3
      <4>2. result = QueueResult(unlinkPCB(links, p), tp, p)
        BY <2>3, <3>2, <4>1 DEF outProcQ
      <4>3. new = tp
        BY <2>2, <2>3, <3>2
      <4> QED  BY <4>2, <4>3
    <3> QED  BY <3>1, <3>2
  <2>6. result.links = unlinkPCB(links, p) /\ result.tail = new /\ result.ret = p
    BY <2>5 DEF QueueResult
  <2> HIDE DEF result
  <2>7. /\ links' = unlinkPCB(links, p) /\ tail' = [tail EXCEPT ![q] = new]
        /\ held' = held \cup {p} /\ UNCHANGED <<pcbFree_h, processCount>>
    BY <1>2, <2>6, NullAssumption DEF TakeOut
  <2>8. Rings(free, [queue EXCEPT ![q] = RemoveAt(@, k)])'
    BY <2>1, <2>7, TakenDoes
  <2>9. Rings(free, [queue EXCEPT ![q] = RemoveFirst(@, p)])'
    <3> DEFINE new1 == [queue EXCEPT ![q] = RemoveAt(@, k)]
               new2 == [queue EXCEPT ![q] = RemoveFirst(@, p)]
    <3>1. Rings(free, new1)' /\ new1 = new2
      BY <1>1, <2>1, <2>8
    <3> HIDE DEF new1, new2
    <3>2. Rings(free, new2)'
      BY <3>1
    <3> QED  BY <3>2 DEF new2
  <2> QED  BY <1>2, <1>6, <2>6, <2>7, <2>9
<1> QED  BY <1>5, <1>6

----------------------------------------------------------------------------
(* The invariant is inductive                                              *)

(* initPcbs strings the blocks together in the order of the table.         *)
LEMMA QueueInit ==
  Init => Rings([i \in 1 .. MAXPROC |-> i - 1], [q \in Queue |-> <<>>])
<1> SUFFICES ASSUME Init PROVE Rings([i \in 1 .. MAXPROC |-> i - 1], [q \in Queue |-> <<>>])
  OBVIOUS
<1> DEFINE free == [i \in 1 .. MAXPROC |-> i - 1]
           queue == [q \in Queue |-> <<>>]
<1>1. /\ links = initPcbs /\ pcbFree_h = 0 /\ tail = [q \in Queue |-> NULL]
      /\ held = {} /\ processCount = 0
  BY DEF Init, mkEmptyProcQ
<1>2. MAXPROC \in Nat /\ MAXPROC > 0 /\ \A p : p \in Pcb <=> p \in 0 .. MAXPROC - 1
  BY PcbAssumption
<1>3. /\ free \in Seq(Pcb) /\ Len(free) = MAXPROC /\ free # <<>>
      /\ \A i \in 1 .. MAXPROC : free[i] = i - 1
  <2>1. free \in [1 .. MAXPROC -> Pcb]
    BY <1>2
  <2> QED  BY <1>2, <2>1
<1>4. /\ links \in Links
      /\ \A p \in Pcb : /\ links.next[p] = IF p = MAXPROC - 1 THEN 0 ELSE p + 1
                        /\ links.prev[p] = IF p = 0 THEN MAXPROC - 1 ELSE p - 1
  <2>1. \A i \in 0 .. MAXPROC - 1 : (i + 1) % MAXPROC = IF i = MAXPROC - 1 THEN 0 ELSE i + 1
    BY <1>2
  <2>2. \A i \in 0 .. MAXPROC - 1 :
          (i + MAXPROC - 1) % MAXPROC = IF i = 0 THEN MAXPROC - 1 ELSE i - 1
    BY <1>2
  <2>3. initPcbs \in Links
    <3>1. \A i \in Pcb : (i + 1) % MAXPROC \in Pcb /\ (i + MAXPROC - 1) % MAXPROC \in Pcb
      BY <1>2, <2>1, <2>2
    <3> QED  BY <3>1 DEF initPcbs, Links, PcbOrNull
  <2> QED  BY <1>1, <1>2, <2>1, <2>2, <2>3 DEF initPcbs
<1> HIDE DEF free
<1>5. IsInjective(free)
  <2>1. DOMAIN free = 1 .. MAXPROC
    BY <1>3
  <2> QED  BY <1>2, <1>3, <2>1 DEF IsInjective
<1>6. ASSUME NEW i \in 1 .. Len(free)
      PROVE  /\ links.next[free[i]] = IF i = Len(free) THEN free[1] ELSE free[i + 1]
             /\ links.prev[free[i]] = IF i = 1 THEN free[Len(free)] ELSE free[i - 1]
  <2>1. /\ i \in 1 .. MAXPROC /\ 1 \in 1 .. MAXPROC /\ MAXPROC \in 1 .. MAXPROC
        /\ i # MAXPROC => i + 1 \in 1 .. MAXPROC
        /\ i # 1 => i - 1 \in 1 .. MAXPROC
        /\ i - 1 \in Pcb
    BY <1>2, <1>3
  <2>2. /\ links.next[i - 1] = IF i - 1 = MAXPROC - 1 THEN 0 ELSE i - 1 + 1
        /\ links.prev[i - 1] = IF i - 1 = 0 THEN MAXPROC - 1 ELSE i - 1 - 1
    BY <1>4, <2>1
  <2>3. /\ free[i] = i - 1 /\ free[1] = 0 /\ free[MAXPROC] = MAXPROC - 1
        /\ i # MAXPROC => free[i + 1] = i
        /\ i # 1 => free[i - 1] = i - 1 - 1
    BY <1>2, <1>3, <2>1
  <2> QED  BY <1>2, <1>3, <2>1, <2>2, <2>3
<1>7. RingList(links, free)
  BY <1>3, <1>5, <1>6 DEF RingList
<1>8. pcbFree_h = HeadOf(free)
  BY <1>1, <1>2, <1>3 DEF HeadOf
<1>9. ASSUME NEW p \in Pcb PROVE Contains(free, p)
  <2>1. p + 1 \in 1 .. MAXPROC /\ free[p + 1] = p
    BY <1>2, <1>3
  <2> QED  BY <1>3, <2>1 DEF Contains
<1>10. queue \in [Queue -> Seq(Pcb)] /\ \A q \in Queue : \A p : ~Contains(queue[q], p)
  BY DEF Contains
<1>11. Fits(free, queue)
  <2>1. \A q \in Queue : queue[q] = <<>> /\ tail[q] = TailOf(<<>>)
    BY <1>1 DEF TailOf
  <2>2. tail \in [Queue -> PcbOrNull]
    BY <1>1 DEF PcbOrNull
  <2> QED  BY <1>4, <1>7, <1>8, <2>1, <2>2, EmptyRing DEF Fits
<1> HIDE DEF queue
<1>12. Apart(free, queue, held)
  BY <1>1, <1>3, <1>9, <1>10 DEF Apart
<1>13. Rings(free, queue)
  BY <1>1, <1>2, <1>3, <1>11, <1>12 DEF Rings
<1> QED  BY <1>13 DEF free, queue

LEMMA QueueStep == QueuesAreRings /\ [Next]_vars => QueuesAreRings'
<1> SUFFICES ASSUME QueuesAreRings, [Next]_vars PROVE QueuesAreRings'
  OBVIOUS
<1>0. PICK free, queue : Rings(free, queue)
  BY DEF QueuesAreRings
<1>1. CASE allocPcb
  BY <1>0, <1>1, AllocDoes DEF QueuesAreRings
<1>2. ASSUME NEW p \in Pcb, freePcb(p) PROVE QueuesAreRings'
  BY <1>0, <1>2, FreeDoes DEF QueuesAreRings
<1>3. ASSUME NEW q \in Queue, RemoveOldest(q) PROVE QueuesAreRings'
  BY <1>0, <1>3, RemoveDoes DEF QueuesAreRings
<1>4. ASSUME NEW q \in Queue, NEW p \in Pcb, Insert(q, p) PROVE QueuesAreRings'
  BY <1>0, <1>4, InsertDoes DEF QueuesAreRings
<1>5. ASSUME NEW q \in Queue, NEW p \in Pcb, Out(q, p) PROVE QueuesAreRings'
  BY <1>0, <1>5, OutDoes DEF QueuesAreRings
<1>6. CASE UNCHANGED vars
  BY <1>0, <1>6 DEF vars, QueuesAreRings, Rings, Fits
<1> QED  BY <1>1, <1>2, <1>3, <1>4, <1>5, <1>6 DEF Next

LEMMA QueueInductive == Spec => []QueuesAreRings
<1>1. Init => QueuesAreRings
  BY QueueInit DEF QueuesAreRings
<1> QED  BY <1>1, QueueStep, PTL DEF Spec

----------------------------------------------------------------------------
(* The theorems                                                            *)

(* How many blocks a list can have.                                        *)
LEMMA ListSize ==
  ASSUME NEW free \in Seq(Pcb), IsInjective(free)
  PROVE  Len(free) \in 0 .. MAXPROC /\ Cardinality({p \in Pcb : Contains(free, p)}) = Len(free)
<1> DEFINE T == {p \in Pcb : Contains(free, p)}
<1>1. IsFiniteSet(Pcb) /\ Cardinality(Pcb) = MAXPROC
  <2>1. 0 \in Int /\ MAXPROC - 1 \in Int /\ MAXPROC \in Nat /\ MAXPROC > 0
    BY PcbAssumption
  <2>2. /\ IsFiniteSet(0 .. MAXPROC - 1)
        /\ Cardinality(0 .. MAXPROC - 1) = IF 0 > MAXPROC - 1 THEN 0 ELSE MAXPROC - 1 - 0 + 1
    BY <2>1, FS_Interval
  <2> QED  BY <2>1, <2>2, PcbAssumption
<1>2. Cardinality(T) = Len(free) /\ T \in SUBSET Pcb
  BY ElementsFinite
<1>3. Len(free) \in Nat
  OBVIOUS
<1> HIDE DEF T
<1>4. Cardinality(T) <= Cardinality(Pcb)
  BY <1>1, <1>2, FS_Subset
<1>5. Len(free) \in 0 .. MAXPROC
  BY <1>1, <1>2, <1>3, <1>4, PcbAssumption
<1> QED  BY <1>2, <1>5 DEF T

(* The link fields and list pointers hold blocks or NULL, and the counter  *)
(* stays between zero and MAXPROC.                                         *)
THEOREM QueueTypes == Spec => []TypeOK
<1>1. Init => answer \in Answers
  BY DEF Init, Answers
<1>2. QueuesAreRings /\ answer \in Answers /\ [Next]_vars => (answer \in Answers)'
  <2> SUFFICES ASSUME QueuesAreRings, answer \in Answers, [Next]_vars PROVE answer' \in Answers
    OBVIOUS
  <2>1. PICK free, queue : Rings(free, queue)
    BY DEF QueuesAreRings
  <2>2. free \in Seq(Pcb) /\ queue \in [Queue -> Seq(Pcb)]
    BY <2>1 DEF Rings, Apart
  <2>3. CASE allocPcb
    <3>1. free # <<>> => Head(free) \in Pcb
      BY <2>2
    <3> QED  BY <2>1, <2>3, <3>1, AllocDoes DEF Answers, PcbOrNull
  <2>4. ASSUME NEW p \in Pcb, freePcb(p) PROVE answer' \in Answers
    BY <2>4 DEF freePcb, Answers
  <2>5. ASSUME NEW q \in Queue, RemoveOldest(q) PROVE answer' \in Answers
    <3>1. queue[q] # <<>> => Head(queue[q]) \in Pcb
      BY <2>2
    <3>2. answer' = <<"removeProcQ", NULL>> \/ answer' = <<"removeProcQ", Head(queue[q])>>
      BY <2>1, <2>5, RemoveDoes
    <3>3. \E r \in PcbOrNull : answer' = <<"removeProcQ", r>>
      <4>1. CASE queue[q] = <<>>
        <5>1. answer' = <<"removeProcQ", NULL>>
          BY <2>1, <2>5, <4>1, RemoveDoes
        <5> QED  BY <5>1 DEF PcbOrNull
      <4>2. CASE queue[q] # <<>>
        BY <3>1, <3>2, <4>2 DEF PcbOrNull
      <4> QED  BY <4>1, <4>2
    <3> QED  BY <3>3 DEF Answers
  <2>6. ASSUME NEW q \in Queue, NEW p \in Pcb, Insert(q, p) PROVE answer' \in Answers
    BY <2>6 DEF Insert, Answers
  <2>7. ASSUME NEW q \in Queue, NEW p \in Pcb, Out(q, p) PROVE answer' \in Answers
    <3>1. answer' = <<"outProcQ", p, NULL>> \/ answer' = <<"outProcQ", p, p>>
      BY <2>1, <2>7, OutDoes
    <3>2. NULL \in PcbOrNull /\ p \in PcbOrNull
      BY DEF PcbOrNull
    <3> QED  BY <3>1, <3>2 DEF Answers
  <2>8. CASE UNCHANGED vars
    BY <2>8 DEF vars
  <2> QED  BY <2>3, <2>4, <2>5, <2>6, <2>7, <2>8 DEF Next
<1>3. QueuesAreRings /\ answer \in Answers => TypeOK
  <2> SUFFICES ASSUME QueuesAreRings, answer \in Answers PROVE TypeOK
    OBVIOUS
  <2>1. PICK free, queue : Rings(free, queue)
    BY DEF QueuesAreRings
  <2>2. links \in Links /\ RingList(links, free) /\ free \in Seq(Pcb) /\ IsInjective(free)
    BY <2>1 DEF Rings, Fits, RingList
  <2>3. pcbFree_h \in PcbOrNull
    BY <2>1, <2>2, RingEnds DEF Rings, Fits
  <2>4. processCount \in 0 .. MAXPROC
    <3>1. Len(free) \in 0 .. MAXPROC /\ processCount = MAXPROC - Len(free)
      BY <2>1, <2>2, ListSize DEF Rings
    <3> QED  BY <3>1, PcbAssumption
  <2> QED  BY <2>1, <2>2, <2>3, <2>4 DEF TypeOK, Rings, Fits, Apart
<1> QED  BY <1>1, <1>2, <1>3, QueueInductive, PTL DEF Spec

(* Every block that no caller holds is on a ring, and its neighbours point *)
(* back to it.                                                             *)
THEOREM RingsCorrect == Spec => []RingsReadBothWays
<1>1. QueuesAreRings => RingsReadBothWays
  <2> SUFFICES ASSUME QueuesAreRings, NEW p \in Pcb \ held
               PROVE  /\ links.next[p] \in Pcb /\ links.prev[links.next[p]] = p
                      /\ links.prev[p] \in Pcb /\ links.next[links.prev[p]] = p
    BY DEF RingsReadBothWays
  <2>1. PICK free, queue : Rings(free, queue)
    BY DEF QueuesAreRings
  <2>2. \E s : RingList(links, s) /\ Contains(s, p)
    BY <2>1 DEF Rings, Fits, Apart
  <2> QED  BY <2>2, RingBothWays
<1> QED  BY <1>1, QueueInductive, PTL

(* A chase from pcbFree_h or from a tail pointer meets the blocks of that  *)
(* list.                                                                   *)
LEMMA RingBlocks ==
  ASSUME NEW free, NEW queue, Rings(free, queue)
  PROVE  /\ Ring(pcbFree_h) = {p \in Pcb : Contains(free, p)}
         /\ \A q \in Queue : Ring(tail[q]) = {p \in Pcb : Contains(queue[q], p)}
BY RingReach DEF Rings, Fits, Ring

(* The free list, the queues and the callers share no block and miss none, *)
(* and processCount is the number of blocks that are not free.             *)
THEOREM PlacesCorrect == Spec => []EveryBlockInOnePlace
<1>1. QueuesAreRings => EveryBlockInOnePlace
  <2> SUFFICES ASSUME QueuesAreRings PROVE EveryBlockInOnePlace
    OBVIOUS
  <2>1. PICK free, queue : Rings(free, queue)
    BY DEF QueuesAreRings
  <2> DEFINE lists == [q \in Queue |-> Ring(tail[q])]
             F == Ring(pcbFree_h)
  <2>2. /\ F = {p \in Pcb : Contains(free, p)}
        /\ \A q \in Queue : lists[q] = {p \in Pcb : Contains(queue[q], p)}
    BY <2>1, RingBlocks
  <2>3. Apart(free, queue, held) /\ processCount = MAXPROC - Len(free)
    BY <2>1 DEF Rings
  <2>4. MAXPROC = Cardinality(F) + processCount
    <3>1. free \in Seq(Pcb) /\ IsInjective(free)
      BY <2>1 DEF Rings, Fits, RingList
    <3>2. Len(free) \in 0 .. MAXPROC /\ Cardinality(F) = Len(free)
      BY <2>2, <3>1, ListSize
    <3> QED  BY <2>3, <3>2, PcbAssumption
  <2> HIDE DEF lists, F
  <2>5. Pcb = F \cup held \cup UNION {lists[q] : q \in Queue}
    BY <2>2, <2>3 DEF Apart
  <2>6. \A q \in Queue : lists[q] \cap (held \cup F) = {}
    BY <2>2, <2>3 DEF Apart
  <2>7. \A q, r \in Queue : q # r => lists[q] \cap lists[r] = {}
    BY <2>2, <2>3 DEF Apart
  <2> QED  BY <2>4, <2>5, <2>6, <2>7 DEF EveryBlockInOnePlace, lists, F
<1> QED  BY <1>1, QueueInductive, PTL

----------------------------------------------------------------------------
(* The refinement, step by step                                            *)

(* What FifoQueues sees of the rings.                                      *)
LEMMA RingsRead ==
  ASSUME NEW lk \in Links, NEW h, NEW tl, NEW free, NEW queue \in [Queue -> Seq(Pcb)],
         RingList(lk, free), h = HeadOf(free),
         \A q \in Queue : RingList(lk, queue[q]) /\ tl[q] = TailOf(queue[q])
  PROVE  /\ Walk(lk.next, h) = free
         /\ [q \in Queue |-> Walk(lk.next, headProcQ(lk, tl[q]))] = queue
<1>1. Walk(lk.next, h) = free
  BY RingReach
<1>2. ASSUME NEW q \in Queue PROVE Walk(lk.next, headProcQ(lk, tl[q])) = queue[q]
  BY RingEnds, RingReach
<1> QED  BY <1>1, <1>2

LEMMA FifoOperators ==
  /\ \A s, p : Fifo!Contains(s, p) <=> Contains(s, p)
  /\ \A s, p : Fifo!RemoveFirst(s, p) = RemoveFirst(s, p)
  /\ \A s : Fifo!IsInjective(s) <=> IsInjective(s)
<1>1. \A s, p : Fifo!Contains(s, p) <=> Contains(s, p)
  BY DEF Contains, Fifo!Contains
<1>2. \A s, p : Fifo!RemoveFirst(s, p) = RemoveFirst(s, p)
  BY DEF RemoveFirst, Fifo!RemoveFirst, SelectInSeq, Fifo!SelectInSeq, RemoveAt, Fifo!RemoveAt,
         Min, Fifo!Min
<1>3. \A s : Fifo!IsInjective(s) <=> IsInjective(s)
  BY DEF IsInjective, Fifo!IsInjective
<1> QED  BY <1>1, <1>2, <1>3

(* A call on rings that hold free and queue is that call of FifoQueues,    *)
(* with the same answer.                                                   *)
LEMMA FifoStep ==
  QueuesAreRings /\ QueuesAreRings' /\ [Next]_vars => [Fifo!Next]_(Fifo!vars)
<1> SUFFICES ASSUME QueuesAreRings, [Next]_vars PROVE [Fifo!Next]_(Fifo!vars)
  OBVIOUS
<1>1. PICK f, k : Rings(f, k)
  BY DEF QueuesAreRings
<1> DEFINE free == Walk(links.next, pcbFree_h)
           queue == [q \in Queue |-> Walk(links.next, headProcQ(links, tail[q]))]
<1>2. free = f /\ queue = k
  BY <1>1, RingsRead DEF Rings, Fits, Apart
<1>3. ASSUME NEW f2, NEW k2, Rings(f2, k2)' PROVE free' = f2 /\ queue' = k2
  BY <1>3, RingsRead DEF Rings, Fits, Apart
<1>4. CASE allocPcb
  <2> HIDE DEF free, queue
  <2>1. \/ /\ f = <<>> /\ free' = f /\ queue' = k
           /\ answer' = <<"allocPcb", NULL>> /\ UNCHANGED <<held, processCount>>
        \/ /\ f # <<>> /\ free' = Tail(f) /\ queue' = k /\ answer' = <<"allocPcb", Head(f)>>
           /\ held' = held \cup {Head(f)} /\ processCount' = processCount + 1
    BY <1>1, <1>3, <1>4, AllocDoes
  <2>2. Fifo!Alloc \/ Fifo!NoneFree
    BY <1>2, <2>1 DEF Fifo!Alloc, Fifo!NoneFree, free, queue
  <2> QED  BY <2>2 DEF Fifo!Next
<1>5. ASSUME NEW p \in Pcb, freePcb(p) PROVE Fifo!Free(p)
  <2> HIDE DEF free, queue
  <2>1. free' = Append(f, p) /\ queue' = k
    BY <1>1, <1>3, <1>5, FreeDoes
  <2>2. /\ p \in held /\ held' = held \ {p} /\ processCount' = processCount - 1
        /\ answer' = <<"freePcb", p>>
    BY <1>5 DEF freePcb
  <2> QED  BY <1>2, <2>1, <2>2 DEF Fifo!Free, free, queue
<1>6. ASSUME NEW q \in Queue, NEW p \in Pcb, Insert(q, p) PROVE Fifo!Insert(q, p)
  <2> DEFINE new == [k EXCEPT ![q] = Append(@, p)]
  <2>1. Rings(f, new)'
    BY <1>1, <1>6, InsertDoes
  <2> HIDE DEF free, queue, new
  <2>2. free' = f /\ queue' = new
    BY <1>3, <2>1
  <2>3. /\ p \in held /\ held' = held \ {p} /\ UNCHANGED processCount
        /\ answer' = <<"insertProcQ", p>>
    BY <1>6 DEF Insert
  <2> QED  BY <1>2, <2>2, <2>3 DEF Fifo!Insert, free, queue, new
<1>7. ASSUME NEW q \in Queue, RemoveOldest(q) PROVE Fifo!RemoveOldest(q)
  <2> DEFINE new == [k EXCEPT ![q] = Tail(@)]
  <2>1. \/ /\ k[q] = <<>> /\ Rings(f, k)'
           /\ answer' = <<"removeProcQ", NULL>> /\ UNCHANGED <<held, processCount>>
        \/ /\ k[q] # <<>> /\ Rings(f, new)'
           /\ answer' = <<"removeProcQ", Head(k[q])>>
           /\ held' = held \cup {Head(k[q])} /\ UNCHANGED processCount
    BY <1>1, <1>7, RemoveDoes
  <2> HIDE DEF free, queue, new
  <2>2. \/ /\ k[q] = <<>> /\ free' = f /\ queue' = k
           /\ answer' = <<"removeProcQ", NULL>> /\ UNCHANGED <<held, processCount>>
        \/ /\ k[q] # <<>> /\ free' = f /\ queue' = new
           /\ answer' = <<"removeProcQ", Head(k[q])>>
           /\ held' = held \cup {Head(k[q])} /\ UNCHANGED processCount
    BY <1>3, <2>1
  <2> QED  BY <1>2, <2>2 DEF Fifo!RemoveOldest, free, queue, new
<1>8. ASSUME NEW q \in Queue, NEW p \in Pcb, Out(q, p) PROVE Fifo!Out(q, p)
  <2> DEFINE new == [k EXCEPT ![q] = RemoveFirst(@, p)]
  <2>1. \/ /\ ~Contains(k[q], p) /\ Rings(f, k)'
           /\ answer' = <<"outProcQ", p, NULL>> /\ UNCHANGED <<held, processCount>>
        \/ /\ Contains(k[q], p) /\ Rings(f, new)'
           /\ answer' = <<"outProcQ", p, p>> /\ held' = held \cup {p} /\ UNCHANGED processCount
    BY <1>1, <1>8, OutDoes
  <2>2. new = [k EXCEPT ![q] = Fifo!RemoveFirst(@, p)] /\ (Contains(k[q], p) <=> Fifo!Contains(k[q], p))
    BY FifoOperators
  <2> HIDE DEF free, queue, new
  <2>3. \/ /\ ~Contains(k[q], p) /\ free' = f /\ queue' = k
           /\ answer' = <<"outProcQ", p, NULL>> /\ UNCHANGED <<held, processCount>>
        \/ /\ Contains(k[q], p) /\ free' = f /\ queue' = new
           /\ answer' = <<"outProcQ", p, p>> /\ held' = held \cup {p} /\ UNCHANGED processCount
    BY <1>3, <2>1
  <2> QED  BY <1>2, <2>2, <2>3 DEF Fifo!Out, free, queue
<1>9. CASE UNCHANGED vars
  BY <1>9 DEF vars, Fifo!vars
<1> QED  BY <1>4, <1>5, <1>6, <1>7, <1>8, <1>9 DEF Next, Fifo!Next

(* pcb.c implements FifoQueues: every list hands out its blocks in the     *)
(* order they came in, and outProcQ takes out the block asked for and      *)
(* leaves the others in their order.                                       *)
THEOREM FifoKept == Spec => KeepsFifoOrder
<1>1. Init => Fifo!Init
  <2> SUFFICES ASSUME Init PROVE Fifo!Init
    OBVIOUS
  <2> DEFINE free == [i \in 1 .. MAXPROC |-> i - 1]
             queue == [q \in Queue |-> <<>>]
  <2>1. /\ Rings(free, queue)
        /\ Walk(links.next, pcbFree_h) = free
        /\ [q \in Queue |-> Walk(links.next, headProcQ(links, tail[q]))] = queue
    <3>1. Rings(free, queue)
      BY QueueInit
    <3>2. PICK f, k : f = free /\ k = queue
      OBVIOUS
    <3> HIDE DEF free, queue
    <3>3. Rings(f, k)
      BY <3>1, <3>2
    <3>4. /\ links \in Links /\ k \in [Queue -> Seq(Pcb)]
          /\ RingList(links, f) /\ pcbFree_h = HeadOf(f)
          /\ \A q \in Queue : RingList(links, k[q]) /\ tail[q] = TailOf(k[q])
      BY <3>3 DEF Rings, Fits, Apart
    <3>5. Walk(links.next, pcbFree_h) = f
      BY <3>4, RingReach
    <3>6. [q \in Queue |-> Walk(links.next, headProcQ(links, tail[q]))] = k
      BY <3>4, RingsRead
    <3> QED  BY <3>1, <3>2, <3>5, <3>6
  <2>2. free \in [1 .. Cardinality(Pcb) -> Pcb]
    <3>1. Cardinality(Pcb) = MAXPROC
      <4>1. 0 \in Int /\ MAXPROC - 1 \in Int /\ MAXPROC \in Nat /\ MAXPROC > 0
        BY PcbAssumption
      <4>2. Cardinality(0 .. MAXPROC - 1) = IF 0 > MAXPROC - 1 THEN 0 ELSE MAXPROC - 1 - 0 + 1
        BY <4>1, FS_Interval
      <4> QED  BY <4>1, <4>2, PcbAssumption
    <3> QED  BY <3>1, PcbAssumption
  <2> HIDE DEF free
  <2>3. IsInjective(free)
    BY <2>1 DEF Rings, Fits, RingList
  <2>4. /\ queue = [q \in Queue |-> <<>>] /\ held = {} /\ processCount = 0 /\ answer = <<>>
    BY DEF Init
  <2> HIDE DEF queue
  <2> QED  BY <2>1, <2>2, <2>3, <2>4, FifoOperators DEF Fifo!Init, Fifo!Cardinality, Cardinality
<1> QED  BY <1>1, FifoStep, QueueInductive, PTL DEF Spec, KeepsFifoOrder, Fifo!Spec
=============================================================================
