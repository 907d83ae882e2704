---------------------------- MODULE NucleusProofs ---------------------------
(***************************************************************************)
(* The safety properties of Nucleus that hold for every finite number of   *)
(* processes, every set of semaphores and devices, and whatever the        *)
(* processes do.                                                           *)
(*                                                                         *)
(* Types are inductive together with two facts about control: a process    *)
(* runs only when there is a current process, and the first active call of *)
(* terminate_Process_rec is for it (so that Last(stack) exists).           *)
(*                                                                         *)
(* Where processes are (WaitsWhereItSays, InOnePlaceAtMost) is inductive   *)
(* given the types; that no process is lost, what the semaphore values     *)
(* count and what processCount counts follow from it.                      *)
(***************************************************************************)
EXTENDS Nucleus, LinkProofs

----------------------------------------------------------------------------
(* The queues of the nucleus                                               *)

(* takeOut removes the process it is asked for and keeps the others.       *)
LEMMA TakeOutFacts ==
  ASSUME NEW S, NEW q \in Seq(S), NEW p
  PROVE  /\ takeOut(q, p) \in Seq(S)
         /\ Contains(q, p) => Len(q) > 0 /\ Len(takeOut(q, p)) = Len(q) - 1
         /\ \A x : Contains(takeOut(q, p), x) => Contains(q, x)
         /\ \A x : Contains(q, x) /\ x # p => Contains(takeOut(q, p), x)
         /\ IsInjective(q) => IsInjective(takeOut(q, p)) /\ ~Contains(takeOut(q, p), p)
<1>1. CASE ~Contains(q, p)
  BY <1>1 DEF takeOut
<1>2. CASE Contains(q, p)
  <2> DEFINE k == CHOOSE i \in DOMAIN q : q[i] = p
             t == RemoveAt(q, k)
  <2>1. k \in 1 .. Len(q) /\ q[k] = p
    BY <1>2 DEF Contains
  <2> HIDE DEF k
  <2> DEFINE before == SubSeq(q, 1, k - 1)
             after  == SubSeq(q, k + 1, Len(q))
  <2>a. /\ before \in Seq(S) /\ Len(before) = k - 1
        /\ \A i \in 1 .. k - 1 : before[i] = q[i]
    BY <2>1
  <2>b. /\ after \in Seq(S) /\ Len(after) = Len(q) - k
        /\ \A i \in 1 .. Len(q) - k : after[i] = q[k + i]
    BY <2>1
  <2>c. t = before \o after
    BY DEF RemoveAt
  <2> HIDE DEF before, after
  <2>2. t \in Seq(S) /\ Len(t) = Len(q) - 1
    BY <2>1, <2>a, <2>b, <2>c
  <2>3. ASSUME NEW i \in 1 .. Len(t) PROVE t[i] = IF i < k THEN q[i] ELSE q[i + 1]
    <3>1. CASE i < k
      BY <2>1, <2>2, <2>a, <2>b, <2>c, <3>1
    <3>2. CASE i >= k
      <4>1. t[i] = after[i - (k - 1)] /\ i - (k - 1) \in 1 .. Len(q) - k
        BY <2>1, <2>2, <2>a, <2>b, <2>c, <3>2
      <4> QED  BY <2>1, <2>b, <3>2, <4>1
    <3> QED  BY <2>1, <3>1, <3>2
  <2>4. takeOut(q, p) = t
    BY <1>2 DEF takeOut, k
  <2> HIDE DEF t
  <2>5. \A x : Contains(t, x) => Contains(q, x)
    BY <2>1, <2>2, <2>3 DEF Contains
  <2>6. ASSUME NEW x, Contains(q, x), x # p PROVE Contains(t, x)
    <3>1. PICK i \in 1 .. Len(q) : q[i] = x
      BY <2>6 DEF Contains
    <3>2. CASE i < k
      <4>1. i \in 1 .. Len(t) /\ t[i] = x  BY <3>1, <3>2, <2>1, <2>2, <2>3
      <4> QED  BY <4>1 DEF Contains
    <3>3. CASE i > k
      <4>1. i - 1 \in 1 .. Len(t) /\ t[i - 1] = x  BY <3>1, <3>3, <2>1, <2>2, <2>3
      <4> QED  BY <4>1 DEF Contains
    <3> QED  BY <2>1, <2>6, <3>1, <3>2, <3>3
  <2>7. ASSUME IsInjective(q) PROVE IsInjective(t) /\ ~Contains(t, p)
    <3> DEFINE at(i) == IF i < k THEN i ELSE i + 1
    <3>1. \A i \in 1 .. Len(t) : at(i) \in 1 .. Len(q) /\ at(i) # k /\ t[i] = q[at(i)]
      BY <2>1, <2>2, <2>3
    <3>2. \A i, j \in 1 .. Len(t) : at(i) = at(j) => i = j
      BY <2>1, <2>2
    <3> HIDE DEF at
    <3>3. \A i, j \in 1 .. Len(q) : q[i] = q[j] => i = j
      BY <2>7 DEF IsInjective
    <3> QED  BY <2>1, <2>2, <3>1, <3>2, <3>3 DEF IsInjective, Contains
  <2>8. Len(q) > 0  BY <2>1
  <2> QED  BY <2>2, <2>4, <2>5, <2>6, <2>7, <2>8
<1> QED  BY <1>1, <1>2

----------------------------------------------------------------------------
(* The operators of pcb.c keep the tree fields pointers to blocks          *)

LEMMA AllocTreeType ==
  ASSUME NEW t \in Trees, NEW p \in Pcb
  PROVE  allocTree(t, p) \in Trees
BY DEF allocTree, Trees, PcbOrNull

LEMMA InsertChildType ==
  ASSUME NEW t \in Trees, NEW q \in Pcb, NEW p \in Pcb,
         emptyChild(t, q) \/ \E last \in Pcb : IsLastSibling(t, t.child[q], last)
  PROVE  insertChild(t, q, p) \in Trees
<1> DEFINE last == CHOOSE r \in Pcb : IsLastSibling(t, t.child[q], r)
<1>1. emptyChild(t, q) \/ last \in Pcb
  OBVIOUS
<1> HIDE DEF last
<1>2. CASE emptyChild(t, q)
  BY <1>2 DEF insertChild, Trees, PcbOrNull
<1>3. CASE ~emptyChild(t, q)
  BY <1>1, <1>3 DEF insertChild, Trees, PcbOrNull, last
<1> QED  BY <1>2, <1>3

LEMMA UnlinkChildType ==
  ASSUME NEW t \in Trees, NEW p \in Pcb
  PROVE  unlinkChild(t, p) \in Trees
BY DEF unlinkChild, Trees, PcbOrNull

LEMMA RemoveChildType ==
  ASSUME NEW t \in Trees, NEW p \in Pcb, ~emptyChild(t, p)
  PROVE  t.child[p] \in Pcb /\ removeChild(t, p) \in Trees
<1> DEFINE u == [t EXCEPT !.child[p] = t.nsib[t.child[p]]]
<1>1. t.child[p] \in Pcb
  BY DEF emptyChild, Trees, PcbOrNull
<1>2. u \in Trees
  BY <1>1 DEF Trees, PcbOrNull
<1> HIDE DEF u
<1> QED  BY <1>1, <1>2, UnlinkChildType DEF removeChild, u

LEMMA OutChildType ==
  ASSUME NEW t \in Trees, NEW p \in Pcb
  PROVE  outChild(t, p) \in Trees
<1> DEFINE u == [t EXCEPT !.child[t.prnt[p]] = t.psib[p]]
<1>1. CASE t.prnt[p] = NULL
  BY <1>1 DEF outChild
<1>2. CASE t.prnt[p] # NULL
  <2>1. u \in Trees
    BY <1>2 DEF Trees, PcbOrNull
  <2> HIDE DEF u
  <2> QED  BY <1>2, <2>1, UnlinkChildType DEF outChild, u
<1> QED  BY <1>1, <1>2

----------------------------------------------------------------------------
(* Types                                                                   *)

(* The outermost call of terminate_Process_rec is for the current process. *)
KillsCurrent == mode = "kill" => stack # <<>> /\ stack[1] = currentProcess

LEMMA SemFacts ==
  /\ clockSemaphore = 48 /\ clockSemaphore \in Sem
  /\ \A u \in Unit : semOf(u) \in DevSem /\ semOf(u) \in Sem /\ semOf(u) \in 0 .. 47
  /\ UserSem \subseteq Sem /\ DevSem \subseteq Sem /\ NULL \notin Sem
  /\ clockSemaphore \notin DevSem /\ clockSemaphore \notin UserSem
  /\ UserSem \cap DevSem = {}
<1>1. clockSemaphore = 48
  BY DEF clockSemaphore, DEVICE_NUM
<1>2. \A u \in Unit : semOf(u) \in 0 .. 47
  BY NucleusAssumption DEF semOf, getSemIndex, DISKINT, TERMINT, DEVPERINT
<1> QED  BY <1>1, <1>2, NucleusAssumption DEF Sem, DevSem

LEMMA SchedulerType ==
  ASSUME TypeOK, NEW ready \in Seq(Pcb), NEW processes, NEW softBlocked,
         scheduler(ready, processes, softBlocked)
  PROVE  /\ readyQueue' \in Seq(Pcb) /\ currentProcess' \in PcbOrNull
         /\ mode' \in {"run", "wait", "halt", "panic"}
         /\ mode' = "run" => currentProcess' \in Pcb
BY TailFacts DEF scheduler, TypeOK, PcbOrNull

LEMMA BlockType ==
  ASSUME TypeOK, currentProcess \in Pcb, NEW s \in Sem, NEW softBlocked \in Int,
         blockCurrentProcessAt(s, softBlocked)
  PROVE  /\ waiting' \in [Sem -> Seq(Pcb)] /\ p_semAdd' \in [Pcb -> Sem \cup {NULL}]
         /\ softBlockedCount' \in Int
         /\ readyQueue' \in Seq(Pcb) /\ currentProcess' \in PcbOrNull
         /\ mode' \in {"run", "wait", "halt", "panic"}
         /\ mode' = "run" => currentProcess' \in Pcb
<1>1. readyQueue \in Seq(Pcb) /\ scheduler(readyQueue, processCount, softBlocked)
  BY DEF TypeOK, blockCurrentProcessAt
<1>2. /\ readyQueue' \in Seq(Pcb) /\ currentProcess' \in PcbOrNull
      /\ mode' \in {"run", "wait", "halt", "panic"}
      /\ mode' = "run" => currentProcess' \in Pcb
  BY <1>1, SchedulerType
<1>3. waiting' \in [Sem -> Seq(Pcb)]
  BY DEF TypeOK, blockCurrentProcessAt
<1>4. p_semAdd' \in [Pcb -> Sem \cup {NULL}] /\ softBlockedCount' \in Int
  BY DEF TypeOK, blockCurrentProcessAt
<1> QED  BY <1>2, <1>3, <1>4

LEMMA ResumeType ==
  ASSUME TypeOK, NEW ready \in Seq(Pcb), NEW softBlocked, Resume(ready, softBlocked),
         mode \in {"run", "wait"}, mode = "run" => currentProcess \in Pcb
  PROVE  /\ readyQueue' \in Seq(Pcb) /\ currentProcess' \in PcbOrNull
         /\ mode' \in {"run", "wait", "halt", "panic"}
         /\ mode' = "run" => currentProcess' \in Pcb
BY SchedulerType DEF Resume, TypeOK

LEMMA WakeType ==
  ASSUME TypeOK, NEW s \in Sem, WakeOldest(s)
  PROVE  /\ waiting' \in [Sem -> Seq(Pcb)] /\ p_semAdd' \in [Pcb -> Sem \cup {NULL}]
         /\ readyQueue' \in Seq(Pcb)
<1>1. CASE waiting[s] = <<>>
  BY <1>1 DEF WakeOldest, TypeOK
<1>2. CASE waiting[s] # <<>>
  <2>1. /\ waiting[s] \in Seq(Pcb) /\ Head(waiting[s]) \in Pcb
        /\ Tail(waiting[s]) \in Seq(Pcb)
    BY <1>2, TailFacts DEF TypeOK
  <2>2. readyQueue' \in Seq(Pcb)
    <3>1. readyQueue' = Append(readyQueue, Head(waiting[s])) /\ readyQueue \in Seq(Pcb)
      BY <1>2 DEF WakeOldest, TypeOK
    <3> QED  BY <2>1, <3>1, AppendFacts
  <2>3. waiting' \in [Sem -> Seq(Pcb)]
    BY <1>2, <2>1 DEF WakeOldest, TypeOK
  <2>4. p_semAdd' \in [Pcb -> Sem \cup {NULL}]
    BY <1>2, <2>1 DEF WakeOldest, TypeOK
  <2> QED  BY <2>2, <2>3, <2>4
<1> QED  BY <1>1, <1>2

LEMMA LeaveQueueType ==
  ASSUME TypeOK, NEW p \in Pcb, leaveQueue(p)
  PROVE  /\ sem' \in [Sem -> Int] /\ waiting' \in [Sem -> Seq(Pcb)]
         /\ p_semAdd' \in [Pcb -> Sem \cup {NULL}]
<1>1. CASE p_semAdd[p] = NULL
  BY <1>1 DEF leaveQueue, TypeOK
<1>2. CASE p_semAdd[p] # NULL
  <2>1. p_semAdd[p] \in Sem /\ waiting[p_semAdd[p]] \in Seq(Pcb)
    BY <1>2 DEF TypeOK
  <2>2. takeOut(waiting[p_semAdd[p]], p) \in Seq(Pcb)
    BY <2>1, TakeOutFacts
  <2>3. sem' \in [Sem -> Int]
    BY <1>2, <2>1 DEF leaveQueue, TypeOK
  <2>4. waiting' \in [Sem -> Seq(Pcb)]
    BY <1>2, <2>1, <2>2 DEF leaveQueue, TypeOK
  <2>5. p_semAdd' \in [Pcb -> Sem \cup {NULL}]
    BY <1>2 DEF leaveQueue, TypeOK
  <2> QED  BY <2>3, <2>4, <2>5
<1> QED  BY <1>1, <1>2

LEMMA ServedUnitType ==
  ASSUME NEW v \in Unit
  PROVE  ServedUnit(v[1], v[2]) \in Unit
<1>1. CASE v[1] = TERMINT
  BY <1>1, NucleusAssumption DEF ServedUnit
<1>2. CASE v[1] # TERMINT
  <2>1. v = <<v[1], v[2], v[3]>> /\ v[3] = 0
    BY <1>2, NucleusAssumption
  <2> QED  BY <1>2, <2>1 DEF ServedUnit
<1> QED  BY <1>1, <1>2

(* While a process runs, there is a current process.                       *)
RunsSomebody == mode = "run" => currentProcess \in Pcb

LEMMA TypeInit == Init => TypeOK /\ KillsCurrent /\ RunsSomebody
<1> SUFFICES ASSUME Init PROVE TypeOK /\ KillsCurrent /\ RunsSomebody
  OBVIOUS
<1>1. sem \in [Sem -> Int]
  BY DEF Init
<1>2. tree \in Trees
  BY DEF Init, Trees, PcbOrNull
<1>3. severed \in BOOLEAN
  BY DEF Init
<1>4. /\ pcbFree \subseteq Pcb /\ currentProcess \in Pcb /\ mode = "run" /\ stack = <<>>
      /\ readyQueue = <<>> /\ processCount = 1 /\ softBlockedCount = 0
      /\ p_semAdd \in [Pcb -> Sem \cup {NULL}] /\ waiting \in [Sem -> Seq(Pcb)]
      /\ device \in [Unit -> {"ready", "busy", "done"}]
      /\ pending \in [Pcb -> Unit \cup {NULL}]
  BY DEF Init
<1> QED  BY <1>1, <1>2, <1>3, <1>4 DEF TypeOK, KillsCurrent, RunsSomebody, PcbOrNull

LEMMA TypeStep ==
  TypeOK /\ KillsCurrent /\ RunsSomebody /\ [Next]_vars
    => TypeOK' /\ KillsCurrent' /\ RunsSomebody'
<1> SUFFICES ASSUME TypeOK, KillsCurrent, RunsSomebody, [Next]_vars
             PROVE  TypeOK' /\ KillsCurrent' /\ RunsSomebody'
  OBVIOUS
<1> USE DEF TypeOK, KillsCurrent, RunsSomebody
<1>1. CASE create_Process
  <2>1. currentProcess \in Pcb  BY <1>1 DEF create_Process, Running
  <2>2. CASE pcbFree = {} /\ UNCHANGED <<pcbFree, tree, readyQueue, processCount>>
    BY <1>1, <2>2 DEF create_Process
  <2>3. ASSUME NEW p \in pcbFree, SiblingsEnd(allocTree(tree, p), currentProcess),
               allocPcb(p), readyQueue' = Append(readyQueue, p),
               tree' = insertChild(allocTree(tree, p), currentProcess, p)
        PROVE  TypeOK' /\ KillsCurrent' /\ RunsSomebody'
    <3>1. allocTree(tree, p) \in Trees  BY <2>3, AllocTreeType
    <3>2. tree' \in Trees
      BY <2>1, <2>3, <3>1, InsertChildType DEF SiblingsEnd
    <3>3. readyQueue' \in Seq(Pcb)  BY <2>3, AppendFacts
    <3> QED  BY <1>1, <2>3, <3>2, <3>3 DEF create_Process, allocPcb
  <2> QED  BY <1>1, <2>2, <2>3 DEF create_Process
<1>2. CASE terminate_Process
  <2>1. currentProcess \in Pcb  BY <1>2 DEF terminate_Process, Running
  <2>2. tree' \in Trees  BY <1>2, <2>1, OutChildType DEF terminate_Process
  <2>3. stack' \in Seq(Pcb) /\ stack' # <<>> /\ stack'[1] = currentProcess
    BY <1>2, <2>1 DEF terminate_Process
  <2> QED  BY <1>2, <2>2, <2>3 DEF terminate_Process
<1>3. ASSUME NEW s \in UserSem, passeren(s)
      PROVE  TypeOK' /\ KillsCurrent' /\ RunsSomebody'
  <2>1. s \in Sem /\ currentProcess \in Pcb  BY <1>3, SemFacts DEF passeren, Running
  <2>2. sem' \in [Sem -> Int]  BY <1>3, <2>1 DEF passeren
  <2>3. CASE blockCurrentProcessAt(s, softBlockedCount)
    BY <1>3, <2>1, <2>2, <2>3, BlockType DEF passeren
  <2>4. CASE ~blockCurrentProcessAt(s, softBlockedCount)
    BY <1>3, <2>2, <2>4 DEF passeren
  <2> QED  BY <2>3, <2>4
<1>4. ASSUME NEW s \in UserSem, verhogen(s)
      PROVE  TypeOK' /\ KillsCurrent' /\ RunsSomebody'
  <2>1. s \in Sem  BY SemFacts
  <2>2. sem' \in [Sem -> Int]  BY <1>4, <2>1 DEF verhogen
  <2>3. /\ waiting' \in [Sem -> Seq(Pcb)] /\ p_semAdd' \in [Pcb -> Sem \cup {NULL}]
        /\ readyQueue' \in Seq(Pcb)
    BY <1>4, <2>1, WakeType DEF verhogen
  <2> QED  BY <1>4, <2>2, <2>3 DEF verhogen
<1>5. CASE wait_For_Clock
  <2>1. clockSemaphore \in Sem /\ currentProcess \in Pcb
    BY <1>5, SemFacts DEF wait_For_Clock, Running
  <2>2. sem' \in [Sem -> Int]  BY <1>5, <2>1 DEF wait_For_Clock
  <2>3. CASE blockCurrentProcessAt(clockSemaphore, softBlockedCount + 1)
    BY <1>5, <2>1, <2>2, <2>3, BlockType DEF wait_For_Clock
  <2>4. CASE ~blockCurrentProcessAt(clockSemaphore, softBlockedCount + 1)
    BY <1>5, <2>2, <2>4 DEF wait_For_Clock
  <2> QED  BY <2>3, <2>4
<1>6. ASSUME NEW u \in Unit, wait_For_IO(u), currentProcess \in Pcb,
             device' \in [Unit -> {"ready", "busy", "done"}],
             pending' \in [Pcb -> Unit \cup {NULL}]
      PROVE  TypeOK' /\ KillsCurrent' /\ RunsSomebody'
  <2>1. semOf(u) \in Sem  BY SemFacts
  <2>2. sem' \in [Sem -> Int]  BY <1>6, <2>1 DEF wait_For_IO
  <2> QED  BY <1>6, <2>1, <2>2, BlockType DEF wait_For_IO
<1>7. ASSUME NEW u \in Unit, CommandAndWait(u)
      PROVE  TypeOK' /\ KillsCurrent' /\ RunsSomebody'
  BY <1>6, <1>7 DEF CommandAndWait, Running
<1>8. ASSUME NEW u \in Unit, Command(u)
      PROVE  TypeOK' /\ KillsCurrent' /\ RunsSomebody'
  BY <1>8 DEF Command, Running, kernelVars
<1>9. ASSUME NEW u \in Unit, WaitForCommanded(u)
      PROVE  TypeOK' /\ KillsCurrent' /\ RunsSomebody'
  BY <1>6, <1>9 DEF WaitForCommanded
<1>10. CASE TerminateChild
  <2>1. stack # <<>> /\ Last(stack) \in Pcb
    BY <1>10 DEF TerminateChild, Last
  <2>2. /\ tree.child[Last(stack)] \in Pcb
        /\ removeChild(tree, Last(stack)) \in Trees
    BY <1>10, <2>1, RemoveChildType DEF TerminateChild
  <2>3. tree' \in Trees
    BY <1>10, <2>2, OutChildType DEF TerminateChild
  <2>4. stack' = Append(stack, tree.child[Last(stack)])
    BY <1>10 DEF TerminateChild
  <2>5. stack' \in Seq(Pcb) /\ stack' # <<>> /\ stack'[1] = stack[1]
    BY <2>1, <2>2, <2>4
  <2> QED  BY <1>10, <2>3, <2>5 DEF TerminateChild
<1>11. CASE TerminateSelf
  <2> DEFINE current == Last(stack)
             ready == readyWithout(current)
  <2>1. stack # <<>> /\ current \in Pcb
    BY <1>11 DEF TerminateSelf, Last
  <2>2. ready \in Seq(Pcb)
    BY TakeOutFacts DEF readyWithout
  <2>3. /\ sem' \in [Sem -> Int] /\ waiting' \in [Sem -> Seq(Pcb)]
        /\ p_semAdd' \in [Pcb -> Sem \cup {NULL}]
    BY <1>11, <2>1, LeaveQueueType DEF TerminateSelf
  <2>4. /\ pcbFree' \subseteq Pcb /\ processCount' \in Int
        /\ pending' \in [Pcb -> Unit \cup {NULL}]
    BY <1>11, <2>1 DEF TerminateSelf, freePcb
  <2>5. /\ stack' \in Seq(Pcb)
        /\ Len(stack) > 1 => stack' # <<>> /\ stack'[1] = stack[1]
    <3>1. stack' = SubSeq(stack, 1, Len(stack) - 1)
      BY <1>11 DEF TerminateSelf, Front
    <3> QED  BY <2>1, <3>1, FrontFacts
  <2>6. /\ mode = "kill" /\ UNCHANGED <<tree, softBlockedCount, device>>
        /\ UNCHANGED severed
    BY <1>11 DEF TerminateSelf
  <2>7. CASE current \in pcbFree
    BY <1>11, <2>2, <2>3, <2>4, <2>5, <2>6, <2>7 DEF TerminateSelf
  <2>8. CASE current \notin pcbFree /\ Len(stack) > 1
    BY <1>11, <2>2, <2>3, <2>4, <2>5, <2>6, <2>8 DEF TerminateSelf
  <2>9. CASE current \notin pcbFree /\ ~(Len(stack) > 1)
    <3>1. scheduler(ready, processCount', softBlockedCount)
      BY <1>11, <2>9 DEF TerminateSelf
    <3>2. /\ readyQueue' \in Seq(Pcb) /\ currentProcess' \in PcbOrNull
          /\ mode' \in {"run", "wait", "halt", "panic"}
          /\ mode' = "run" => currentProcess' \in Pcb
      BY <2>2, <3>1, SchedulerType
    <3> QED  BY <2>3, <2>4, <2>5, <2>6, <3>2
  <2> QED  BY <2>7, <2>8, <2>9
<1>12. CASE handlePLTInterrupt
  <2>1. Append(readyQueue, currentProcess) \in Seq(Pcb)
    BY <1>12, AppendFacts DEF handlePLTInterrupt
  <2> QED  BY <1>12, <2>1, SchedulerType DEF handlePLTInterrupt
<1>13. CASE handleIntervalTimerInterrupt
  <2>1. clockSemaphore \in Sem  BY SemFacts
  <2>2. readyQueue \o waiting[clockSemaphore] \in Seq(Pcb)
    BY <2>1, ConcatFacts
  <2>3. /\ sem' \in [Sem -> Int] /\ waiting' \in [Sem -> Seq(Pcb)]
        /\ p_semAdd' \in [Pcb -> Sem \cup {NULL}] /\ softBlockedCount' \in Int
    BY <1>13, <2>1 DEF handleIntervalTimerInterrupt
  <2> QED  BY <1>13, <2>2, <2>3, ResumeType DEF handleIntervalTimerInterrupt
<1>14. ASSUME NEW v \in Unit, handleDeviceInterrupt(<<v[1], v[2]>>)
       PROVE  TypeOK' /\ KillsCurrent' /\ RunsSomebody'
  <2> DEFINE u == ServedUnit(v[1], v[2])
             s == semOf(u)
  <2>1. s \in Sem  BY ServedUnitType, SemFacts
  <2>2. device' \in [Unit -> {"ready", "busy", "done"}]
    BY <1>14 DEF handleDeviceInterrupt
  <2>3. /\ mode \in {"run", "wait"} /\ releaseSemAndUpdateStatus(s)
        /\ UNCHANGED <<pcbFree, tree, processCount, stack, pending>>
        /\ UNCHANGED severed
    BY <1>14 DEF handleDeviceInterrupt
  <2> HIDE DEF s
  <2>4. CASE sem[s] <= 0 /\ waiting[s] # <<>>
    <3>1. /\ sem' \in [Sem -> Int] /\ waiting' \in [Sem -> Seq(Pcb)]
          /\ p_semAdd' \in [Pcb -> Sem \cup {NULL}] /\ softBlockedCount' \in Int
          /\ Append(readyQueue, Head(waiting[s])) \in Seq(Pcb)
      <4>1. waiting[s] \in Seq(Pcb) /\ Head(waiting[s]) \in Pcb /\ Tail(waiting[s]) \in Seq(Pcb)
        BY <2>1, <2>4, TailFacts
      <4>2. sem' \in [Sem -> Int] /\ softBlockedCount' \in Int
        BY <2>1, <2>3, <2>4 DEF releaseSemAndUpdateStatus
      <4>3. waiting' \in [Sem -> Seq(Pcb)]
        BY <2>1, <2>3, <2>4, <4>1 DEF releaseSemAndUpdateStatus
      <4>4. p_semAdd' \in [Pcb -> Sem \cup {NULL}]
        BY <2>1, <2>3, <2>4, <4>1 DEF releaseSemAndUpdateStatus
      <4> QED  BY <4>1, <4>2, <4>3, <4>4, AppendFacts
    <3>2. Resume(Append(readyQueue, Head(waiting[s])), softBlockedCount')
      BY <2>3, <2>4 DEF releaseSemAndUpdateStatus
    <3>3. /\ readyQueue' \in Seq(Pcb) /\ currentProcess' \in PcbOrNull
          /\ mode' \in {"run", "wait", "halt", "panic"}
          /\ mode' = "run" => currentProcess' \in Pcb
      BY <2>3, <3>1, <3>2, ResumeType
    <3> QED  BY <2>2, <2>3, <3>1, <3>3
  <2>5. CASE ~(sem[s] <= 0 /\ waiting[s] # <<>>)
    <3>1. /\ UNCHANGED <<waiting, p_semAdd, sem>> /\ softBlockedCount' \in Int
          /\ Resume(readyQueue, softBlockedCount')
      BY <2>3, <2>5 DEF releaseSemAndUpdateStatus
    <3>2. /\ readyQueue' \in Seq(Pcb) /\ currentProcess' \in PcbOrNull
          /\ mode' \in {"run", "wait", "halt", "panic"}
          /\ mode' = "run" => currentProcess' \in Pcb
      BY <2>3, <3>1, ResumeType
    <3> QED  BY <2>2, <2>3, <3>1, <3>2
  <2> QED  BY <2>4, <2>5
<1>15. ASSUME NEW u \in Unit, DeviceCompletes(u)
       PROVE  TypeOK' /\ KillsCurrent' /\ RunsSomebody'
  BY <1>15 DEF DeviceCompletes, kernelVars
<1>16. CASE UNCHANGED vars
  BY <1>16 DEF vars
<1> QED
  BY <1>1, <1>2, <1>3, <1>4, <1>5, <1>7, <1>8, <1>9, <1>10, <1>11, <1>12, <1>13, <1>14,
     <1>15, <1>16
  DEF Next, SystemCall, Termination, Interrupt, Stay

(* Type correctness: whatever sequence of system calls, interrupts and     *)
(* device completions, every queue holds blocks of the table, every tree   *)
(* pointer is a block or NULL, and no counter or semaphore is undefined.   *)
THEOREM TypeCorrect == Spec => []TypeOK
<1>1. Init => TypeOK /\ KillsCurrent /\ RunsSomebody
  BY TypeInit
<1>2. TypeOK /\ KillsCurrent /\ RunsSomebody /\ [Next]_vars
        => TypeOK' /\ KillsCurrent' /\ RunsSomebody'
  BY TypeStep
<1> QED  BY <1>1, <1>2, PTL DEF Spec

----------------------------------------------------------------------------
(* Where the processes are, as a predicate of the queues alone, so that it *)
(* can be stated of the ready queue a handler hands to the scheduler.      *)

QueueTypes(ready, semAdd, wait, free) ==
  /\ ready \in Seq(Pcb) /\ semAdd \in [Pcb -> Sem \cup {NULL}]
  /\ wait \in [Sem -> Seq(Pcb)] /\ free \subseteq Pcb

Apart(ready, semAdd, wait, free) ==
  /\ QueueTypes(ready, semAdd, wait, free)
  /\ IsInjective(ready)
  /\ \A s \in Sem : IsInjective(wait[s])
  /\ \A p \in Pcb, s \in Sem : semAdd[p] = s <=> Contains(wait[s], p)
  /\ \A p \in Pcb : (p \in free \/ Contains(ready, p)) => semAdd[p] = NULL
  /\ \A p \in free : ~Contains(ready, p)

(* A process that is in no queue.                                          *)
Loose(ready, semAdd, free, p) ==
  p \in Pcb \ free /\ semAdd[p] = NULL /\ ~Contains(ready, p)

LEMMA ApartReady ==
  ASSUME NEW ready, NEW semAdd, NEW wait, NEW free, Apart(ready, semAdd, wait, free),
         NEW p, Loose(ready, semAdd, free, p)
  PROVE  Apart(Append(ready, p), semAdd, wait, free)
BY AppendFacts DEF Apart, Loose, QueueTypes

LEMMA ApartBlock ==
  ASSUME NEW ready, NEW semAdd, NEW wait, NEW free, Apart(ready, semAdd, wait, free),
         NEW p, Loose(ready, semAdd, free, p), NEW s \in Sem
  PROVE  Apart(ready, [semAdd EXCEPT ![p] = s], [wait EXCEPT ![s] = Append(@, p)], free)
<1> DEFINE semAdd2 == [semAdd EXCEPT ![p] = s]
           wait2   == [wait EXCEPT ![s] = Append(@, p)]
<1>1. p \in Pcb /\ wait[s] \in Seq(Pcb) /\ ~Contains(wait[s], p)
  BY SemFacts DEF Apart, Loose, QueueTypes
<1>2. /\ Append(wait[s], p) \in Seq(Pcb) /\ IsInjective(Append(wait[s], p))
      /\ \A x : Contains(Append(wait[s], p), x) <=> Contains(wait[s], x) \/ x = p
  BY <1>1, AppendFacts DEF Apart
<1>3. /\ semAdd2 \in [Pcb -> Sem \cup {NULL}]
      /\ \A x \in Pcb : semAdd2[x] = IF x = p THEN s ELSE semAdd[x]
  BY DEF Apart, QueueTypes
<1>4. /\ wait2 \in [Sem -> Seq(Pcb)]
      /\ \A r \in Sem : wait2[r] = IF r = s THEN Append(wait[s], p) ELSE wait[r]
  BY <1>2 DEF Apart, QueueTypes
<1> HIDE DEF semAdd2, wait2
<1>5. \A r \in Sem : IsInjective(wait2[r])
  BY <1>2, <1>4 DEF Apart
<1>6. ASSUME NEW x \in Pcb, NEW r \in Sem
      PROVE  semAdd2[x] = r <=> Contains(wait2[r], x)
  <2>1. CASE x = p
    <3>1. \A q \in Sem : ~Contains(wait[q], p)
      BY SemFacts DEF Apart, Loose
    <3> QED  BY <1>2, <1>3, <1>4, <2>1, <3>1
  <2>2. CASE x # p /\ r = s
    BY <1>2, <1>3, <1>4, <2>2 DEF Apart
  <2>3. CASE x # p /\ r # s
    BY <1>3, <1>4, <2>3 DEF Apart
  <2> QED  BY <2>1, <2>2, <2>3
<1>7. \A x \in Pcb : (x \in free \/ Contains(ready, x)) => semAdd2[x] = NULL
  BY <1>3 DEF Apart, Loose
<1>8. Apart(ready, semAdd2, wait2, free)
  BY <1>3, <1>4, <1>5, <1>6, <1>7 DEF Apart, QueueTypes
<1> QED  BY <1>8 DEF semAdd2, wait2

(* Taking p out of the queue of s, as removeBlocked or outBlocked does.    *)
LEMMA ApartUnblock ==
  ASSUME NEW ready, NEW semAdd, NEW wait, NEW free, Apart(ready, semAdd, wait, free),
         NEW s \in Sem, NEW p \in Pcb, semAdd[p] = s, NEW rest \in Seq(Pcb),
         IsInjective(rest), \A x : Contains(rest, x) <=> Contains(wait[s], x) /\ x # p
  PROVE  LET semAdd2 == [semAdd EXCEPT ![p] = NULL]
             wait2   == [wait EXCEPT ![s] = rest]
         IN  Apart(ready, semAdd2, wait2, free) /\ Loose(ready, semAdd2, free, p)
<1> DEFINE semAdd2 == [semAdd EXCEPT ![p] = NULL]
           wait2   == [wait EXCEPT ![s] = rest]
<1>1. p \notin free /\ ~Contains(ready, p)
  BY SemFacts DEF Apart
<1>3. /\ semAdd2 \in [Pcb -> Sem \cup {NULL}]
      /\ \A x \in Pcb : semAdd2[x] = IF x = p THEN NULL ELSE semAdd[x]
  BY DEF Apart, QueueTypes
<1>4. /\ wait2 \in [Sem -> Seq(Pcb)]
      /\ \A r \in Sem : wait2[r] = IF r = s THEN rest ELSE wait[r]
  BY DEF Apart, QueueTypes
<1> HIDE DEF semAdd2, wait2
<1>5. \A r \in Sem : IsInjective(wait2[r])
  BY <1>4 DEF Apart
<1>6. ASSUME NEW x \in Pcb, NEW r \in Sem
      PROVE  semAdd2[x] = r <=> Contains(wait2[r], x)
  BY <1>3, <1>4, SemFacts DEF Apart
<1>7. \A x \in Pcb : (x \in free \/ Contains(ready, x)) => semAdd2[x] = NULL
  BY <1>3 DEF Apart
<1>8. Apart(ready, semAdd2, wait2, free)
  BY <1>3, <1>4, <1>5, <1>6, <1>7 DEF Apart, QueueTypes
<1>9. Loose(ready, semAdd2, free, p)
  BY <1>1, <1>3 DEF Loose
<1> QED  BY <1>8, <1>9 DEF semAdd2, wait2

(* Everybody who waits at s becomes ready.                                 *)
LEMMA ApartRelease ==
  ASSUME NEW ready, NEW semAdd, NEW wait, NEW free, Apart(ready, semAdd, wait, free),
         NEW s \in Sem
  PROVE  Apart(ready \o wait[s],
               [p \in Pcb |-> IF Contains(wait[s], p) THEN NULL ELSE semAdd[p]],
               [wait EXCEPT ![s] = <<>>], free)
<1> DEFINE semAdd2 == [p \in Pcb |-> IF Contains(wait[s], p) THEN NULL ELSE semAdd[p]]
           wait2   == [wait EXCEPT ![s] = <<>>]
           ready2  == ready \o wait[s]
<1>1. wait[s] \in Seq(Pcb) /\ ready \in Seq(Pcb)  BY DEF Apart, QueueTypes
<1>2. \A x \in Pcb : ~(Contains(ready, x) /\ Contains(wait[s], x))
  BY SemFacts DEF Apart
<1>3. \A x : Contains(wait[s], x) => x \in Pcb
  BY <1>1 DEF Contains
<1>4. /\ ready2 \in Seq(Pcb) /\ IsInjective(ready2)
      /\ \A x : Contains(ready2, x) <=> Contains(ready, x) \/ Contains(wait[s], x)
  BY <1>1, <1>2, <1>3, ConcatFacts DEF Apart
<1>5. /\ semAdd2 \in [Pcb -> Sem \cup {NULL}]
      /\ \A x \in Pcb : semAdd2[x] = IF Contains(wait[s], x) THEN NULL ELSE semAdd[x]
  BY DEF Apart, QueueTypes
<1>6. /\ wait2 \in [Sem -> Seq(Pcb)]
      /\ \A r \in Sem : wait2[r] = IF r = s THEN <<>> ELSE wait[r]
  BY DEF Apart, QueueTypes
<1>7. IsInjective(<<>>) /\ \A x : ~Contains(<<>>, x)
  BY DEF IsInjective, Contains
<1> HIDE DEF semAdd2, wait2, ready2
<1>8. \A r \in Sem : IsInjective(wait2[r])
  BY <1>6, <1>7 DEF Apart
<1>9. ASSUME NEW x \in Pcb, NEW r \in Sem
      PROVE  semAdd2[x] = r <=> Contains(wait2[r], x)
  BY <1>5, <1>6, <1>7, SemFacts DEF Apart
<1>10. ASSUME NEW x \in Pcb, x \in free \/ Contains(ready2, x)
       PROVE  semAdd2[x] = NULL
  BY <1>4, <1>5, <1>10 DEF Apart
<1>11. \A x \in free : ~Contains(ready2, x)
  BY <1>4, SemFacts DEF Apart, QueueTypes
<1>12. Apart(ready2, semAdd2, wait2, free)
  BY <1>4, <1>5, <1>6, <1>8, <1>9, <1>10, <1>11 DEF Apart, QueueTypes
<1> QED  BY <1>12 DEF semAdd2, wait2, ready2

(* freePcb of a process in no queue.                                       *)
LEMMA ApartFree ==
  ASSUME NEW ready, NEW semAdd, NEW wait, NEW free, Apart(ready, semAdd, wait, free),
         NEW p \in Pcb, semAdd[p] = NULL
  PROVE  /\ Apart(takeOut(ready, p), semAdd, wait, free \cup {p})
         /\ ~Contains(ready, p) => Apart(ready, semAdd, wait, free \cup {p})
BY TakeOutFacts DEF Apart, QueueTypes

(* allocPcb.                                                               *)
LEMMA ApartAlloc ==
  ASSUME NEW ready, NEW semAdd, NEW wait, NEW free, Apart(ready, semAdd, wait, free),
         NEW p \in free
  PROVE  Apart(ready, semAdd, wait, free \ {p}) /\ Loose(ready, semAdd, free \ {p}, p)
BY DEF Apart, QueueTypes, Loose

----------------------------------------------------------------------------
(* Places: the inductive invariant about the queues                        *)

Placed ==
  /\ Apart(readyQueue, p_semAdd, waiting, pcbFree)
  /\ mode = "run" => Loose(readyQueue, p_semAdd, pcbFree, currentProcess)

LEMMA PlacedMeans == Placed => WaitsWhereItSays /\ InOnePlaceAtMost
BY DEF Placed, Apart, Loose, QueueTypes, WaitsWhereItSays, InOnePlaceAtMost

LEMMA SchedulerPlaced ==
  ASSUME NEW ready, Apart(ready, p_semAdd', waiting', pcbFree'), NEW processes,
         NEW softBlocked, scheduler(ready, processes, softBlocked)
  PROVE  Placed'
<1>1. CASE ready = <<>>
  BY <1>1 DEF scheduler, Placed
<1>2. CASE ready # <<>>
  <2>1. ready \in Seq(Pcb) /\ IsInjective(ready)  BY DEF Apart, QueueTypes
  <2>2. /\ Head(ready) \in Pcb /\ Tail(ready) \in Seq(Pcb) /\ IsInjective(Tail(ready))
        /\ Contains(ready, Head(ready)) /\ ~Contains(Tail(ready), Head(ready))
        /\ \A x : Contains(Tail(ready), x) => Contains(ready, x)
    BY <1>2, <2>1, TailFacts
  <2>3. readyQueue' = Tail(ready) /\ currentProcess' = Head(ready)
    BY <1>2 DEF scheduler
  <2>4. Apart(Tail(ready), p_semAdd', waiting', pcbFree')
    BY <2>2 DEF Apart, QueueTypes
  <2>5. Loose(Tail(ready), p_semAdd', pcbFree', Head(ready))
    BY <2>2 DEF Apart, Loose
  <2> QED  BY <2>3, <2>4, <2>5 DEF Placed
<1> QED  BY <1>1, <1>2

LEMMA ResumePlaced ==
  ASSUME NEW ready, Apart(ready, p_semAdd', waiting', pcbFree'), NEW softBlocked,
         Resume(ready, softBlocked),
         mode = "run" => Loose(ready, p_semAdd', pcbFree', currentProcess)
  PROVE  Placed'
<1>1. CASE currentProcess # NULL  BY <1>1 DEF Resume, Placed
<1>2. CASE currentProcess = NULL  BY <1>2, SchedulerPlaced DEF Resume
<1> QED  BY <1>1, <1>2

LEMMA BlockPlaced ==
  ASSUME Placed, mode = "run", NEW s \in Sem, NEW softBlocked,
         blockCurrentProcessAt(s, softBlocked), pcbFree' = pcbFree
  PROVE  Placed'
<1>1. Apart(readyQueue, [p_semAdd EXCEPT ![currentProcess] = s],
            [waiting EXCEPT ![s] = Append(@, currentProcess)], pcbFree)
  BY ApartBlock DEF Placed
<1>2. Apart(readyQueue, p_semAdd', waiting', pcbFree')
  BY <1>1 DEF blockCurrentProcessAt
<1> QED  BY <1>2, SchedulerPlaced DEF blockCurrentProcessAt

(* A process that was waiting becomes ready while another one runs.        *)
LEMMA WakePlaced ==
  ASSUME Placed, NEW s \in Sem, waiting[s] # <<>>,
         p_semAdd' = [p_semAdd EXCEPT ![Head(waiting[s])] = NULL],
         waiting' = [waiting EXCEPT ![s] = Tail(@)], pcbFree' = pcbFree
  PROVE  LET ready == Append(readyQueue, Head(waiting[s]))
         IN  /\ Apart(ready, p_semAdd', waiting', pcbFree')
             /\ mode = "run" => Loose(ready, p_semAdd', pcbFree', currentProcess)
<1> DEFINE p == Head(waiting[s])
           ready == Append(readyQueue, p)
<1>1. /\ Apart(ready, p_semAdd', waiting', pcbFree')
      /\ p \in Pcb /\ p_semAdd[p] = s
  <2> DEFINE rest == Tail(waiting[s])
  <2>1. Apart(readyQueue, p_semAdd, waiting, pcbFree)  BY DEF Placed
  <2>2. waiting[s] \in Seq(Pcb) /\ IsInjective(waiting[s])  BY <2>1 DEF Apart, QueueTypes
  <2>3. /\ p \in Pcb /\ rest \in Seq(Pcb) /\ Contains(waiting[s], p)
        /\ \A x : Contains(rest, x) <=> Contains(waiting[s], x) /\ x # p
        /\ IsInjective(rest)
    BY <2>2, TailFacts
  <2>4. p_semAdd[p] = s  BY <2>1, <2>3 DEF Apart
  <2>5. p_semAdd' = [p_semAdd EXCEPT ![p] = NULL] /\ waiting' = [waiting EXCEPT ![s] = rest]
    OBVIOUS
  <2> HIDE DEF p, rest
  <2>6. LET semAdd2 == [p_semAdd EXCEPT ![p] = NULL]
            wait2   == [waiting EXCEPT ![s] = rest]
        IN  Apart(readyQueue, semAdd2, wait2, pcbFree) /\ Loose(readyQueue, semAdd2, pcbFree, p)
    BY <2>1, <2>3, <2>4, ApartUnblock
  <2>7. /\ Apart(readyQueue, p_semAdd', waiting', pcbFree')
        /\ Loose(readyQueue, p_semAdd', pcbFree', p)
    BY <2>5, <2>6
  <2> QED  BY <2>3, <2>4, <2>7, ApartReady
<1>2. readyQueue \in Seq(Pcb) /\ p_semAdd \in [Pcb -> Sem \cup {NULL}]
  BY DEF Placed, Apart, QueueTypes
<1>3. ASSUME mode = "run"
      PROVE  Loose(ready, p_semAdd', pcbFree', currentProcess)
  <2>1. Loose(readyQueue, p_semAdd, pcbFree, currentProcess)
    BY <1>3 DEF Placed
  <2>2. currentProcess # p
    BY <1>1, <2>1, SemFacts DEF Loose
  <2>3. p_semAdd'[currentProcess] = NULL
    BY <1>2, <2>1, <2>2 DEF Loose
  <2>4. ~Contains(ready, currentProcess)
    BY <1>1, <1>2, <2>1, <2>2, AppendFacts DEF Loose
  <2> QED  BY <2>1, <2>3, <2>4 DEF Loose
<1> QED  BY <1>1, <1>3

LEMMA PlacedInit == Init => Placed
<1> SUFFICES ASSUME Init PROVE Placed
  OBVIOUS
<1>1. /\ readyQueue = <<>> /\ waiting = [s \in Sem |-> <<>>]
      /\ p_semAdd = [p \in Pcb |-> NULL]
      /\ pcbFree \subseteq Pcb /\ currentProcess \in Pcb \ pcbFree
  BY DEF Init
<1>2. IsInjective(<<>>) /\ \A x : ~Contains(<<>>, x)
  BY DEF IsInjective, Contains
<1> QED  BY <1>1, <1>2, SemFacts DEF Placed, Apart, QueueTypes, Loose

LEMMA PlacedStep ==
  TypeOK /\ KillsCurrent /\ Placed /\ [Next]_vars => Placed'
<1> SUFFICES ASSUME TypeOK, KillsCurrent, Placed, [Next]_vars PROVE Placed'
  OBVIOUS
<1>1. CASE create_Process
  <2>1. Loose(readyQueue, p_semAdd, pcbFree, currentProcess)
    BY <1>1 DEF create_Process, Running, Placed
  <2>2. CASE UNCHANGED <<pcbFree, readyQueue>>
    BY <1>1, <2>2 DEF create_Process, Placed
  <2>3. ASSUME NEW p \in pcbFree, allocPcb(p), readyQueue' = Append(readyQueue, p)
        PROVE  Placed'
    <3>1. /\ Apart(readyQueue, p_semAdd, waiting, pcbFree \ {p})
          /\ Loose(readyQueue, p_semAdd, pcbFree \ {p}, p)
      BY ApartAlloc DEF Placed
    <3>2. Apart(Append(readyQueue, p), p_semAdd, waiting, pcbFree \ {p})
      BY <3>1, ApartReady
    <3>3. \A x : Contains(Append(readyQueue, p), x) <=> Contains(readyQueue, x) \/ x = p
      BY <3>1, AppendFacts DEF Apart, QueueTypes, Loose
    <3>4. Loose(Append(readyQueue, p), p_semAdd, pcbFree \ {p}, currentProcess)
      BY <2>1, <3>3 DEF Loose
    <3> QED  BY <1>1, <2>3, <3>2, <3>4 DEF create_Process, allocPcb, Placed
  <2> QED  BY <1>1, <2>2, <2>3 DEF create_Process
<1>2. CASE terminate_Process
  BY <1>2 DEF terminate_Process, Placed
<1>3. ASSUME NEW s \in UserSem, passeren(s) PROVE Placed'
  <2>1. s \in Sem /\ mode = "run" /\ pcbFree' = pcbFree
    BY <1>3, SemFacts DEF passeren, Running
  <2>2. CASE blockCurrentProcessAt(s, softBlockedCount)
    BY <2>1, <2>2, BlockPlaced
  <2>3. CASE UNCHANGED <<p_semAdd, readyQueue, waiting, currentProcess, mode>>
    BY <2>1, <2>3 DEF Placed
  <2> QED  BY <1>3, <2>2, <2>3 DEF passeren
<1>4. ASSUME NEW s \in UserSem, verhogen(s) PROVE Placed'
  <2>1. s \in Sem /\ WakeOldest(s) /\ UNCHANGED <<pcbFree, currentProcess, mode>>
    BY <1>4, SemFacts DEF verhogen
  <2>2. CASE waiting[s] = <<>>
    BY <2>1, <2>2 DEF WakeOldest, Placed
  <2>3. CASE waiting[s] # <<>>
    <3>1. /\ p_semAdd' = [p_semAdd EXCEPT ![Head(waiting[s])] = NULL]
          /\ waiting' = [waiting EXCEPT ![s] = Tail(@)]
          /\ readyQueue' = Append(readyQueue, Head(waiting[s]))
      BY <2>1, <2>3 DEF WakeOldest
    <3>2. /\ Apart(readyQueue', p_semAdd', waiting', pcbFree')
          /\ mode = "run" => Loose(readyQueue', p_semAdd', pcbFree', currentProcess)
      BY <2>1, <2>3, <3>1, WakePlaced
    <3> QED  BY <2>1, <3>2 DEF Placed
  <2> QED  BY <2>2, <2>3
<1>5. CASE wait_For_Clock
  <2>1. clockSemaphore \in Sem /\ mode = "run" /\ pcbFree' = pcbFree
    BY <1>5, SemFacts DEF wait_For_Clock, Running
  <2>2. CASE blockCurrentProcessAt(clockSemaphore, softBlockedCount + 1)
    BY <2>1, <2>2, BlockPlaced
  <2>3. CASE UNCHANGED <<p_semAdd, readyQueue, waiting, currentProcess, mode>>
    BY <2>1, <2>3 DEF Placed
  <2> QED  BY <1>5, <2>2, <2>3 DEF wait_For_Clock
<1>6. ASSUME NEW u \in Unit, mode = "run", wait_For_IO(u) PROVE Placed'
  BY <1>6, SemFacts, BlockPlaced DEF wait_For_IO
<1>7. ASSUME NEW u \in Unit, CommandAndWait(u) PROVE Placed'
  BY <1>6, <1>7 DEF CommandAndWait, Running
<1>8. ASSUME NEW u \in Unit, Command(u) PROVE Placed'
  BY <1>8 DEF Command, kernelVars, Placed
<1>9. ASSUME NEW u \in Unit, WaitForCommanded(u) PROVE Placed'
  BY <1>6, <1>9 DEF WaitForCommanded
<1>10. CASE TerminateChild
  BY <1>10 DEF TerminateChild, Placed
<1>11. CASE TerminateSelf
  <2> DEFINE p == Last(stack)
             ready == readyWithout(p)
  <2>1. /\ mode = "kill" /\ leaveQueue(p) /\ pcbFree' = pcbFree \cup {p}
        /\ IF p \in pcbFree
           THEN readyQueue' = ready /\ mode' = "corrupt" /\ UNCHANGED currentProcess
           ELSE IF Len(stack) > 1
           THEN readyQueue' = ready /\ UNCHANGED <<mode, currentProcess>>
           ELSE scheduler(ready, processCount', softBlockedCount)
    BY <1>11 DEF TerminateSelf, freePcb
  <2>2. p \in Pcb  BY <2>1 DEF TypeOK, KillsCurrent, Last
  <2> HIDE DEF p
  <2>3. Apart(ready, p_semAdd', waiting', pcbFree')
    <3>1. CASE p_semAdd[p] = NULL
      BY <2>1, <2>2, <3>1, ApartFree DEF leaveQueue, readyWithout, Placed
    <3>2. CASE p_semAdd[p] # NULL
      <4> DEFINE s == p_semAdd[p]
                 rest == takeOut(waiting[s], p)
      <4>1. s \in Sem /\ waiting[s] \in Seq(Pcb) /\ IsInjective(waiting[s])
        BY <2>2, <3>2 DEF TypeOK, Placed, Apart
      <4>2. /\ rest \in Seq(Pcb) /\ IsInjective(rest)
            /\ \A x : Contains(rest, x) <=> Contains(waiting[s], x) /\ x # p
        BY <4>1, TakeOutFacts
      <4>3. /\ p_semAdd' = [p_semAdd EXCEPT ![p] = NULL]
            /\ waiting' = [waiting EXCEPT ![s] = rest]
        BY <2>1, <3>2 DEF leaveQueue
      <4> HIDE DEF rest
      <4>4. LET semAdd2 == [p_semAdd EXCEPT ![p] = NULL]
                wait2   == [waiting EXCEPT ![s] = rest]
            IN  Apart(readyQueue, semAdd2, wait2, pcbFree)
                /\ Loose(readyQueue, semAdd2, pcbFree, p)
        BY <2>2, <4>1, <4>2, ApartUnblock DEF Placed
      <4>5. Apart(readyQueue, p_semAdd', waiting', pcbFree) /\ p_semAdd'[p] = NULL
            /\ ~Contains(readyQueue, p)
        BY <4>3, <4>4 DEF Loose
      <4>6. Apart(readyQueue, p_semAdd', waiting', pcbFree \cup {p})
        BY <2>2, <4>5, ApartFree
      <4> QED  BY <2>1, <3>2, <4>6 DEF readyWithout
    <3> QED  BY <3>1, <3>2
  <2> HIDE DEF ready
  <2>4. CASE scheduler(ready, processCount', softBlockedCount)
    BY <2>3, <2>4, SchedulerPlaced
  <2>5. CASE readyQueue' = ready /\ mode' # "run"
    BY <2>3, <2>5 DEF Placed
  <2> QED  BY <2>1, <2>4, <2>5
<1>12. CASE handlePLTInterrupt
  <2>1. Apart(Append(readyQueue, currentProcess), p_semAdd, waiting, pcbFree)
    BY <1>12, ApartReady DEF handlePLTInterrupt, Placed
  <2> QED  BY <1>12, <2>1, SchedulerPlaced DEF handlePLTInterrupt
<1>13. CASE handleIntervalTimerInterrupt
  <2> DEFINE woken == waiting[clockSemaphore]
  <2>1. clockSemaphore \in Sem  BY SemFacts
  <2>2. Apart(readyQueue \o woken, p_semAdd', waiting', pcbFree')
    BY <1>13, <2>1, ApartRelease DEF handleIntervalTimerInterrupt, Placed
  <2>3. ASSUME mode = "run"
        PROVE  Loose(readyQueue \o woken, p_semAdd', pcbFree', currentProcess)
    <3>1. Loose(readyQueue, p_semAdd, pcbFree, currentProcess)  BY <2>3 DEF Placed
    <3>2. ~Contains(woken, currentProcess)
      BY <2>1, <3>1, SemFacts DEF Placed, Apart, Loose
    <3>3. ~Contains(readyQueue \o woken, currentProcess)
      BY <2>1, <3>1, <3>2, ConcatFacts DEF Loose, TypeOK
    <3> QED  BY <1>13, <3>1, <3>2, <3>3 DEF handleIntervalTimerInterrupt, Loose
  <2>4. Resume(readyQueue \o woken, softBlockedCount')
    BY <1>13 DEF handleIntervalTimerInterrupt
  <2> QED  BY <2>2, <2>3, <2>4, ResumePlaced
<1>14. ASSUME NEW v \in Unit, handleDeviceInterrupt(<<v[1], v[2]>>) PROVE Placed'
  <2> DEFINE s == semOf(ServedUnit(v[1], v[2]))
  <2>1. s \in Sem  BY ServedUnitType, SemFacts
  <2>2. releaseSemAndUpdateStatus(s) /\ pcbFree' = pcbFree
    BY <1>14 DEF handleDeviceInterrupt
  <2> HIDE DEF s
  <2>3. CASE sem[s] <= 0 /\ waiting[s] # <<>>
    <3>1. /\ p_semAdd' = [p_semAdd EXCEPT ![Head(waiting[s])] = NULL]
          /\ waiting' = [waiting EXCEPT ![s] = Tail(@)]
          /\ Resume(Append(readyQueue, Head(waiting[s])), softBlockedCount')
      BY <2>2, <2>3 DEF releaseSemAndUpdateStatus
    <3> DEFINE ready == Append(readyQueue, Head(waiting[s]))
    <3>2. /\ Apart(ready, p_semAdd', waiting', pcbFree')
          /\ mode = "run" => Loose(ready, p_semAdd', pcbFree', currentProcess)
      BY <2>1, <2>2, <2>3, <3>1, WakePlaced
    <3> HIDE DEF ready
    <3>3. Resume(ready, softBlockedCount')  BY <3>1 DEF ready
    <3> QED  BY <3>2, <3>3, ResumePlaced
  <2>4. CASE ~(sem[s] <= 0 /\ waiting[s] # <<>>)
    <3>1. UNCHANGED <<p_semAdd, waiting>> /\ Resume(readyQueue, softBlockedCount')
      BY <2>2, <2>4 DEF releaseSemAndUpdateStatus
    <3> QED  BY <2>2, <3>1, ResumePlaced DEF Placed
  <2> QED  BY <2>3, <2>4
<1>15. ASSUME NEW u \in Unit, DeviceCompletes(u) PROVE Placed'
  BY <1>15 DEF DeviceCompletes, kernelVars, Placed
<1>16. CASE UNCHANGED vars
  BY <1>16 DEF vars, Placed
<1> QED
  BY <1>1, <1>2, <1>3, <1>4, <1>5, <1>7, <1>8, <1>9, <1>10, <1>11, <1>12, <1>13, <1>14,
     <1>15, <1>16
  DEF Next, SystemCall, Termination, Interrupt, Stay

----------------------------------------------------------------------------
(* Values: what the value of a semaphore says about its queue              *)

(* One semaphore gets the value v and the queue q.                         *)
LEMMA ValuesChange ==
  ASSUME TypeOK, ValuesCountWaiters, NEW s \in Sem, NEW q \in Seq(Pcb), NEW v \in Int,
         waiting' = [waiting EXCEPT ![s] = q], sem' = [sem EXCEPT ![s] = v],
         s \in DevSem => Len(q) = DevSemInit - v,
         s \notin DevSem => Len(q) = IF v < 0 THEN -v ELSE 0
  PROVE  ValuesCountWaiters'
<1>1. \A r \in Sem : /\ waiting'[r] = IF r = s THEN q ELSE waiting[r]
                     /\ sem'[r] = IF r = s THEN v ELSE sem[r]
  BY DEF TypeOK
<1>2. ASSUME NEW r \in UserSem \cup {clockSemaphore}
      PROVE  Len(waiting'[r]) = IF sem'[r] < 0 THEN -sem'[r] ELSE 0
  <2>1. r \in Sem /\ r \notin DevSem  BY SemFacts
  <2>2. CASE r = s  BY <1>1, <2>1, <2>2
  <2>3. CASE r # s
    <3>1. waiting'[r] = waiting[r] /\ sem'[r] = sem[r]  BY <1>1, <2>1, <2>3
    <3> QED  BY <3>1 DEF ValuesCountWaiters
  <2> QED  BY <2>2, <2>3
<1>3. ASSUME NEW r \in DevSem
      PROVE  Len(waiting'[r]) = DevSemInit - sem'[r]
  <2>1. r \in Sem  BY SemFacts
  <2>2. CASE r = s  BY <1>1, <2>1, <2>2
  <2>3. CASE r # s
    <3>1. waiting'[r] = waiting[r] /\ sem'[r] = sem[r]  BY <1>1, <2>1, <2>3
    <3> QED  BY <3>1 DEF ValuesCountWaiters
  <2> QED  BY <2>2, <2>3
<1> QED  BY <1>2, <1>3 DEF ValuesCountWaiters

(* What ValuesCountWaiters says of one semaphore.                          *)
LEMMA ValueOf ==
  ASSUME TypeOK, ValuesCountWaiters, NEW s \in Sem
  PROVE  /\ waiting[s] \in Seq(Pcb) /\ sem[s] \in Int /\ DevSemInit \in {0, 1}
         /\ s \in DevSem => Len(waiting[s]) = DevSemInit - sem[s]
         /\ s \notin DevSem => Len(waiting[s]) = IF sem[s] < 0 THEN -sem[s] ELSE 0
BY NucleusAssumption DEF TypeOK, ValuesCountWaiters, Sem

(* P by a process that blocks.                                             *)
LEMMA ValuesBlock ==
  ASSUME TypeOK, ValuesCountWaiters, currentProcess \in Pcb, NEW s \in Sem,
         sem' = [sem EXCEPT ![s] = @ - 1], NEW softBlocked,
         blockCurrentProcessAt(s, softBlocked), s \in DevSem \/ sem[s] - 1 < 0
  PROVE  ValuesCountWaiters'
<1> DEFINE q == Append(waiting[s], currentProcess)
           v == sem[s] - 1
<1>1. waiting' = [waiting EXCEPT ![s] = q] /\ sem' = [sem EXCEPT ![s] = v]
  BY DEF blockCurrentProcessAt
<1>2. q \in Seq(Pcb) /\ Len(q) = Len(waiting[s]) + 1
  BY ValueOf, AppendFacts
<1>3. v \in Int /\ v = sem[s] - 1 /\ (s \in DevSem \/ v < 0)
  BY ValueOf
<1> HIDE DEF q, v
<1>4. s \in DevSem => Len(q) = DevSemInit - v
  <2>1. s \in DevSem => Len(waiting[s]) = DevSemInit - sem[s]  BY ValueOf
  <2>2. sem[s] \in Int /\ DevSemInit \in {0, 1}  BY ValueOf
  <2> QED  BY <1>2, <1>3, <2>1, <2>2
<1>5. s \notin DevSem => Len(q) = IF v < 0 THEN -v ELSE 0
  BY <1>2, <1>3, ValueOf
<1> QED  BY <1>1, <1>2, <1>3, <1>4, <1>5, ValuesChange

(* V when somebody waits: the queue becomes rest, one process shorter.     *)
LEMMA ValuesUnblock ==
  ASSUME TypeOK, ValuesCountWaiters, NEW s \in Sem, NEW rest \in Seq(Pcb),
         Len(waiting[s]) > 0, Len(rest) = Len(waiting[s]) - 1,
         sem' = [sem EXCEPT ![s] = @ + 1], waiting' = [waiting EXCEPT ![s] = rest]
  PROVE  ValuesCountWaiters'
<1> DEFINE v == sem[s] + 1
<1>1. sem' = [sem EXCEPT ![s] = v]  OBVIOUS
<1>2. v \in Int /\ v = sem[s] + 1  BY ValueOf
<1> HIDE DEF v
<1>3. s \in DevSem => Len(rest) = DevSemInit - v  BY <1>2, ValueOf
<1>4. s \notin DevSem => Len(rest) = IF v < 0 THEN -v ELSE 0  BY <1>2, ValueOf
<1> QED  BY <1>1, <1>2, <1>3, <1>4, ValuesChange

LEMMA ValuesInit == Init => ValuesCountWaiters
<1> SUFFICES ASSUME Init PROVE ValuesCountWaiters
  OBVIOUS
<1>1. \A s \in Sem : Len(waiting[s]) = 0 /\ sem[s] \in {0, 1}
  BY DEF Init
<1>2. \A s \in DevSem : sem[s] = DevSemInit
  BY DEF Init
<1> QED  BY <1>1, <1>2, SemFacts, NucleusAssumption DEF ValuesCountWaiters

LEMMA ValuesStep ==
  TypeOK /\ KillsCurrent /\ RunsSomebody /\ Placed /\ ValuesCountWaiters /\ [Next]_vars
    => ValuesCountWaiters'
<1> SUFFICES ASSUME TypeOK, KillsCurrent, RunsSomebody, Placed, ValuesCountWaiters, [Next]_vars
             PROVE  ValuesCountWaiters'
  OBVIOUS
<1>1. CASE UNCHANGED <<waiting, sem>>
  BY <1>1 DEF ValuesCountWaiters
<1>2. ASSUME NEW s \in UserSem, passeren(s) PROVE ValuesCountWaiters'
  <2>1. s \in Sem /\ s \notin DevSem /\ currentProcess \in Pcb
        /\ sem' = [sem EXCEPT ![s] = @ - 1]
    BY <1>2, SemFacts DEF passeren, Running, RunsSomebody
  <2>2. CASE sem[s] - 1 < 0
    BY <1>2, <2>1, <2>2, ValuesBlock DEF passeren
  <2>3. CASE ~(sem[s] - 1 < 0)
    <3> DEFINE v == sem[s] - 1
               q == waiting[s]
    <3>1. waiting' = waiting  BY <1>2, <2>3 DEF passeren
    <3>2. waiting' = [waiting EXCEPT ![s] = q] /\ sem' = [sem EXCEPT ![s] = v]
      BY <2>1, <3>1 DEF TypeOK
    <3>3. q \in Seq(Pcb) /\ v \in Int /\ Len(q) = IF v < 0 THEN -v ELSE 0
      BY <2>1, <2>3, ValueOf
    <3> HIDE DEF v, q
    <3> QED  BY <2>1, <3>2, <3>3, ValuesChange
  <2> QED  BY <2>2, <2>3
<1>3. ASSUME NEW s \in UserSem, verhogen(s) PROVE ValuesCountWaiters'
  <2>1. s \in Sem /\ s \notin DevSem /\ sem' = [sem EXCEPT ![s] = @ + 1] /\ WakeOldest(s)
    BY <1>3, SemFacts DEF verhogen
  <2>2. CASE waiting[s] = <<>>
    <3> DEFINE v == sem[s] + 1
               q == waiting[s]
    <3>1. waiting' = waiting  BY <2>1, <2>2 DEF WakeOldest
    <3>2. waiting' = [waiting EXCEPT ![s] = q] /\ sem' = [sem EXCEPT ![s] = v]
      BY <2>1, <3>1 DEF TypeOK
    <3>3. q \in Seq(Pcb) /\ v \in Int /\ Len(q) = IF v < 0 THEN -v ELSE 0
      BY <2>1, <2>2, ValueOf
    <3> HIDE DEF v, q
    <3> QED  BY <2>1, <3>2, <3>3, ValuesChange
  <2>3. CASE waiting[s] # <<>>
    <3> DEFINE rest == Tail(waiting[s])
    <3>1. rest \in Seq(Pcb) /\ Len(waiting[s]) > 0 /\ Len(rest) = Len(waiting[s]) - 1
      BY <2>1, <2>3, ValueOf, TailFacts
    <3>2. waiting' = [waiting EXCEPT ![s] = rest]
      BY <2>1, <2>3 DEF WakeOldest
    <3> HIDE DEF rest
    <3> QED  BY <2>1, <3>1, <3>2, ValuesUnblock
  <2> QED  BY <2>2, <2>3
<1>4. CASE wait_For_Clock
  <2> DEFINE s == clockSemaphore
  <2>1. s \in Sem /\ s \notin DevSem /\ currentProcess \in Pcb
        /\ sem' = [sem EXCEPT ![s] = @ - 1]
    BY <1>4, SemFacts DEF wait_For_Clock, Running, RunsSomebody
  <2>2. CASE sem[s] - 1 < 0
    <3>1. blockCurrentProcessAt(s, softBlockedCount + 1)
      BY <1>4, <2>2 DEF wait_For_Clock
    <3> HIDE DEF s
    <3> QED  BY <2>1, <2>2, <3>1, ValuesBlock
  <2>3. CASE ~(sem[s] - 1 < 0)
    <3> DEFINE v == sem[s] - 1
               q == waiting[s]
    <3>1. waiting' = waiting  BY <1>4, <2>3 DEF wait_For_Clock
    <3>2. waiting' = [waiting EXCEPT ![s] = q] /\ sem' = [sem EXCEPT ![s] = v]
      BY <2>1, <3>1 DEF TypeOK
    <3>3. q \in Seq(Pcb) /\ v \in Int /\ Len(q) = IF v < 0 THEN -v ELSE 0
      BY <2>1, <2>3, ValueOf
    <3> HIDE DEF v, q, s
    <3> QED  BY <2>1, <3>2, <3>3, ValuesChange
  <2> QED  BY <2>2, <2>3
<1>5. ASSUME NEW u \in Unit, mode = "run", wait_For_IO(u) PROVE ValuesCountWaiters'
  <2>1. semOf(u) \in Sem /\ semOf(u) \in DevSem /\ currentProcess \in Pcb
    BY <1>5, SemFacts DEF RunsSomebody
  <2> QED  BY <1>5, <2>1, ValuesBlock DEF wait_For_IO
<1>6. ASSUME NEW u \in Unit, CommandAndWait(u) \/ WaitForCommanded(u)
      PROVE  ValuesCountWaiters'
  BY <1>5, <1>6 DEF CommandAndWait, WaitForCommanded, Running
<1>7. CASE TerminateSelf
  <2> DEFINE p == Last(stack)
             s == p_semAdd[p]
             rest == takeOut(waiting[s], p)
  <2>1. leaveQueue(p) /\ p \in Pcb
    BY <1>7 DEF TerminateSelf, TypeOK, KillsCurrent, Last
  <2> HIDE DEF p
  <2>2. CASE p_semAdd[p] = NULL
    BY <2>1, <2>2, <1>1 DEF leaveQueue
  <2>3. CASE p_semAdd[p] # NULL
    <3>1. s \in Sem /\ Contains(waiting[s], p)
      BY <2>1, <2>3 DEF TypeOK, Placed, Apart
    <3>2. rest \in Seq(Pcb) /\ Len(waiting[s]) > 0 /\ Len(rest) = Len(waiting[s]) - 1
      BY <3>1, TakeOutFacts, ValueOf
    <3>3. sem' = [sem EXCEPT ![s] = @ + 1] /\ waiting' = [waiting EXCEPT ![s] = rest]
      BY <2>1, <2>3 DEF leaveQueue
    <3> HIDE DEF s, rest
    <3> QED  BY <3>1, <3>2, <3>3, ValuesUnblock
  <2> QED  BY <2>2, <2>3
<1>8. CASE handleIntervalTimerInterrupt
  <2> DEFINE q == <<>>
             v == 0
  <2>1. waiting' = [waiting EXCEPT ![clockSemaphore] = q] /\ sem' = [sem EXCEPT ![clockSemaphore] = v]
    BY <1>8 DEF handleIntervalTimerInterrupt
  <2>2. /\ clockSemaphore \in Sem /\ clockSemaphore \notin DevSem
        /\ q \in Seq(Pcb) /\ v \in Int /\ Len(q) = IF v < 0 THEN -v ELSE 0
    BY SemFacts
  <2> HIDE DEF q, v
  <2> QED  BY <2>1, <2>2, ValuesChange
<1>9. ASSUME NEW v \in Unit, handleDeviceInterrupt(<<v[1], v[2]>>)
      PROVE  ValuesCountWaiters'
  <2> DEFINE s == semOf(ServedUnit(v[1], v[2]))
  <2>1. s \in Sem /\ releaseSemAndUpdateStatus(s)
    BY <1>9, ServedUnitType, SemFacts DEF handleDeviceInterrupt
  <2> HIDE DEF s
  <2>2. CASE sem[s] <= 0 /\ waiting[s] # <<>>
    <3> DEFINE rest == Tail(waiting[s])
    <3>1. rest \in Seq(Pcb) /\ Len(waiting[s]) > 0 /\ Len(rest) = Len(waiting[s]) - 1
      BY <2>1, <2>2, ValueOf, TailFacts
    <3>2. waiting' = [waiting EXCEPT ![s] = rest] /\ sem' = [sem EXCEPT ![s] = @ + 1]
      BY <2>1, <2>2 DEF releaseSemAndUpdateStatus
    <3> HIDE DEF rest
    <3> QED  BY <2>1, <3>1, <3>2, ValuesUnblock
  <2>3. CASE ~(sem[s] <= 0 /\ waiting[s] # <<>>)
    BY <2>1, <2>3, <1>1 DEF releaseSemAndUpdateStatus
  <2> QED  BY <2>2, <2>3
<1>10. CASE create_Process \/ terminate_Process \/ TerminateChild \/ handlePLTInterrupt
  BY <1>1, <1>10 DEF create_Process, terminate_Process, TerminateChild, handlePLTInterrupt
<1>11. ASSUME NEW u \in Unit, Command(u) \/ DeviceCompletes(u) PROVE ValuesCountWaiters'
  BY <1>1, <1>11 DEF Command, DeviceCompletes, kernelVars
<1>12. CASE UNCHANGED vars
  BY <1>1, <1>12 DEF vars
<1> QED
  BY <1>2, <1>3, <1>4, <1>6, <1>7, <1>8, <1>9, <1>10, <1>11, <1>12
  DEF Next, SystemCall, Termination, Interrupt, Stay

----------------------------------------------------------------------------
(* Nobody is lost, and processCount counts                                 *)

Kept(ready, semAdd, free, busy) ==
  \A p \in Pcb \ free : p \in busy \/ Contains(ready, p) \/ semAdd[p] # NULL

Busy == IF mode \in {"run", "kill", "corrupt"} THEN {currentProcess} ELSE {}

LEMMA SchedulerKeeps ==
  ASSUME NEW ready \in Seq(Pcb), Kept(ready, p_semAdd', pcbFree', {}), NEW processes,
         NEW softBlocked, scheduler(ready, processes, softBlocked)
  PROVE  Kept(readyQueue', p_semAdd', pcbFree', Busy') /\ mode' # "kill"
<1>1. CASE ready = <<>>
  BY <1>1 DEF scheduler, Kept
<1>2. CASE ready # <<>>
  <2>1. \A x : Contains(ready, x) => Contains(Tail(ready), x) \/ x = Head(ready)
    BY <1>2, TailFacts
  <2>2. readyQueue' = Tail(ready) /\ currentProcess' = Head(ready) /\ mode' = "run"
    BY <1>2 DEF scheduler
  <2> QED  BY <2>1, <2>2 DEF Kept, Busy
<1> QED  BY <1>1, <1>2

LEMMA ResumeKeeps ==
  ASSUME RunsSomebody, mode \in {"run", "wait"}, NEW ready \in Seq(Pcb),
         Kept(ready, p_semAdd', pcbFree', Busy), NEW softBlocked, Resume(ready, softBlocked)
  PROVE  Kept(readyQueue', p_semAdd', pcbFree', Busy') /\ mode' # "kill"
<1>1. CASE currentProcess # NULL
  BY <1>1 DEF Resume, Busy
<1>2. CASE currentProcess = NULL
  <2>1. Kept(ready, p_semAdd', pcbFree', {})
    BY <1>2, NullAssumption DEF Kept, Busy, RunsSomebody
  <2> QED  BY <1>2, <2>1, SchedulerKeeps DEF Resume
<1> QED  BY <1>1, <1>2

KeptNow == Kept(readyQueue, p_semAdd, pcbFree, Busy)

LEMMA KeptMeans == KeptNow /\ KillsCurrent <=> NoProcessLost
BY DEF KeptNow, Kept, Busy, KillsCurrent, NoProcessLost

LEMMA BlockKeeps ==
  ASSUME TypeOK, RunsSomebody, KeptNow, mode = "run", NEW s \in Sem, NEW softBlocked,
         blockCurrentProcessAt(s, softBlocked), pcbFree' = pcbFree
  PROVE  KeptNow'
<1>1. /\ currentProcess \in Pcb
      /\ \A p \in Pcb : p_semAdd'[p] = IF p = currentProcess THEN s ELSE p_semAdd[p]
  BY DEF TypeOK, RunsSomebody, blockCurrentProcessAt
<1>2. Kept(readyQueue, p_semAdd', pcbFree', {})
  BY <1>1, SemFacts DEF KeptNow, Kept, Busy
<1> QED  BY <1>2, SchedulerKeeps DEF blockCurrentProcessAt, TypeOK, KeptNow

LEMMA WakeKeeps ==
  ASSUME TypeOK, KeptNow, NEW s \in Sem, waiting[s] # <<>>,
         p_semAdd' = [p_semAdd EXCEPT ![Head(waiting[s])] = NULL], pcbFree' = pcbFree
  PROVE  /\ Append(readyQueue, Head(waiting[s])) \in Seq(Pcb)
         /\ Kept(Append(readyQueue, Head(waiting[s])), p_semAdd', pcbFree', Busy)
<1> DEFINE p == Head(waiting[s])
           ready == Append(readyQueue, p)
<1>1. p \in Pcb  BY TailFacts DEF TypeOK
<1>2. \A x \in Pcb : x # p => p_semAdd'[x] = p_semAdd[x]
  BY DEF TypeOK
<1> HIDE DEF p
<1>3. ready \in Seq(Pcb) /\ \A x : Contains(ready, x) <=> Contains(readyQueue, x) \/ x = p
  BY <1>1, AppendFacts DEF TypeOK
<1> HIDE DEF ready
<1>4. Kept(ready, p_semAdd', pcbFree', Busy)
  BY <1>2, <1>3 DEF KeptNow, Kept
<1> QED  BY <1>3, <1>4 DEF ready, p

LEMMA KeptInit == Init => KeptNow
BY DEF Init, KeptNow, Kept, Busy

LEMMA KeptStep ==
  TypeOK /\ KillsCurrent /\ RunsSomebody /\ KeptNow /\ [Next]_vars => KeptNow'
<1> SUFFICES ASSUME TypeOK, KillsCurrent, RunsSomebody, KeptNow, [Next]_vars PROVE KeptNow'
  OBVIOUS
<1>1. CASE create_Process
  <2>1. UNCHANGED <<p_semAdd, mode, currentProcess>>
    BY <1>1 DEF create_Process
  <2>2. CASE UNCHANGED <<pcbFree, readyQueue>>
    BY <2>1, <2>2 DEF KeptNow, Kept, Busy
  <2>3. ASSUME NEW p \in pcbFree, pcbFree' = pcbFree \ {p}, readyQueue' = Append(readyQueue, p)
        PROVE  KeptNow'
    <3>1. \A x : Contains(readyQueue', x) <=> Contains(readyQueue, x) \/ x = p
      BY <2>3, AppendFacts DEF TypeOK
    <3> QED  BY <2>1, <2>3, <3>1 DEF KeptNow, Kept, Busy
  <2> QED  BY <1>1, <2>2, <2>3 DEF create_Process, allocPcb
<1>2. CASE UNCHANGED <<pcbFree, p_semAdd, readyQueue, currentProcess>>
           /\ ((mode \in {"run", "kill"} /\ mode' = "kill") \/ mode' = mode)
  BY <1>2 DEF KeptNow, Kept, Busy
<1>3. ASSUME NEW s \in UserSem, passeren(s) PROVE KeptNow'
  <2>1. s \in Sem /\ mode = "run" /\ pcbFree' = pcbFree
    BY <1>3, SemFacts DEF passeren, Running
  <2>2. CASE blockCurrentProcessAt(s, softBlockedCount)
    BY <2>1, <2>2, BlockKeeps
  <2>3. CASE UNCHANGED <<p_semAdd, readyQueue, currentProcess, mode>>
    BY <2>1, <2>3, <1>2
  <2> QED  BY <1>3, <2>2, <2>3 DEF passeren
<1>4. ASSUME NEW s \in UserSem, verhogen(s) PROVE KeptNow'
  <2>1. s \in Sem /\ WakeOldest(s) /\ UNCHANGED <<pcbFree, currentProcess, mode>>
    BY <1>4, SemFacts DEF verhogen
  <2>2. CASE waiting[s] = <<>>
    BY <2>1, <2>2, <1>2 DEF WakeOldest
  <2>3. CASE waiting[s] # <<>>
    <3>1. /\ p_semAdd' = [p_semAdd EXCEPT ![Head(waiting[s])] = NULL]
          /\ readyQueue' = Append(readyQueue, Head(waiting[s]))
      BY <2>1, <2>3 DEF WakeOldest
    <3>2. Kept(readyQueue', p_semAdd', pcbFree', Busy)
      BY <2>1, <2>3, <3>1, WakeKeeps
    <3> QED  BY <2>1, <3>2 DEF KeptNow, Busy
  <2> QED  BY <2>2, <2>3
<1>5. CASE wait_For_Clock
  <2>1. clockSemaphore \in Sem /\ mode = "run" /\ pcbFree' = pcbFree
    BY <1>5, SemFacts DEF wait_For_Clock, Running
  <2>2. CASE blockCurrentProcessAt(clockSemaphore, softBlockedCount + 1)
    BY <2>1, <2>2, BlockKeeps
  <2>3. CASE UNCHANGED <<p_semAdd, readyQueue, currentProcess, mode>>
    BY <2>1, <2>3, <1>2
  <2> QED  BY <1>5, <2>2, <2>3 DEF wait_For_Clock
<1>6. ASSUME NEW u \in Unit, CommandAndWait(u) \/ WaitForCommanded(u) PROVE KeptNow'
  BY <1>6, SemFacts, BlockKeeps DEF CommandAndWait, WaitForCommanded, wait_For_IO, Running
<1>7. CASE TerminateSelf
  <2> DEFINE p == Last(stack)
             ready == readyWithout(p)
  <2>1. /\ mode = "kill" /\ leaveQueue(p) /\ pcbFree' = pcbFree \cup {p}
        /\ IF p \in pcbFree
           THEN readyQueue' = ready /\ mode' = "corrupt" /\ UNCHANGED currentProcess
           ELSE IF Len(stack) > 1
           THEN readyQueue' = ready /\ UNCHANGED <<mode, currentProcess>>
           ELSE scheduler(ready, processCount', softBlockedCount)
    BY <1>7 DEF TerminateSelf, freePcb
  <2>2. /\ p \in Pcb /\ stack # <<>> /\ stack[1] = currentProcess
        /\ ~(Len(stack) > 1) => p = currentProcess
    BY <2>1 DEF TypeOK, KillsCurrent, Last
  <2> HIDE DEF p
  <2>3. /\ ready \in Seq(Pcb)
        /\ \A x : Contains(readyQueue, x) /\ x # p => Contains(ready, x)
    BY TakeOutFacts DEF readyWithout, TypeOK
  <2>4. \A x \in Pcb : x # p => p_semAdd'[x] = p_semAdd[x]
    BY <2>1 DEF leaveQueue, TypeOK
  <2> HIDE DEF ready
  <2>5. Kept(ready, p_semAdd', pcbFree', {currentProcess})
    BY <2>1, <2>3, <2>4 DEF KeptNow, Kept, Busy
  <2>6. CASE readyQueue' = ready /\ mode' \in {"kill", "corrupt"} /\ UNCHANGED currentProcess
    BY <2>5, <2>6 DEF KeptNow, Busy
  <2>7. CASE ~(Len(stack) > 1) /\ scheduler(ready, processCount', softBlockedCount)
    <3>1. Kept(ready, p_semAdd', pcbFree', {})
      BY <2>1, <2>2, <2>5, <2>7 DEF Kept
    <3> QED  BY <2>3, <2>7, <3>1, SchedulerKeeps DEF KeptNow
  <2> QED  BY <2>1, <2>6, <2>7
<1>8. CASE handlePLTInterrupt
  <2> DEFINE ready == Append(readyQueue, currentProcess)
  <2>1. /\ mode = "run" /\ UNCHANGED <<p_semAdd, pcbFree>>
        /\ scheduler(ready, processCount, softBlockedCount)
    BY <1>8 DEF handlePLTInterrupt
  <2>2. /\ ready \in Seq(Pcb)
        /\ \A x : Contains(ready, x) <=> Contains(readyQueue, x) \/ x = currentProcess
    BY <2>1, AppendFacts DEF TypeOK, RunsSomebody
  <2> HIDE DEF ready
  <2>3. Kept(ready, p_semAdd', pcbFree', {})
    BY <2>1, <2>2 DEF KeptNow, Kept, Busy
  <2> QED  BY <2>1, <2>2, <2>3, SchedulerKeeps DEF KeptNow
<1>9. CASE handleIntervalTimerInterrupt
  <2> DEFINE woken == waiting[clockSemaphore]
             ready == readyQueue \o woken
  <2>1. /\ mode \in {"run", "wait"} /\ pcbFree' = pcbFree
        /\ \A x \in Pcb : p_semAdd'[x] = IF Contains(woken, x) THEN NULL ELSE p_semAdd[x]
        /\ Resume(ready, softBlockedCount')
    BY <1>9 DEF handleIntervalTimerInterrupt
  <2>2. /\ ready \in Seq(Pcb)
        /\ \A x : Contains(ready, x) <=> Contains(readyQueue, x) \/ Contains(woken, x)
    BY SemFacts, ConcatFacts DEF TypeOK
  <2> HIDE DEF ready, woken
  <2>3. Kept(ready, p_semAdd', pcbFree', Busy)
    BY <2>1, <2>2 DEF KeptNow, Kept
  <2> QED  BY <2>1, <2>2, <2>3, ResumeKeeps DEF KeptNow
<1>10. ASSUME NEW v \in Unit, handleDeviceInterrupt(<<v[1], v[2]>>) PROVE KeptNow'
  <2> DEFINE s == semOf(ServedUnit(v[1], v[2]))
  <2>1. /\ s \in Sem /\ mode \in {"run", "wait"} /\ pcbFree' = pcbFree
        /\ releaseSemAndUpdateStatus(s)
    BY <1>10, ServedUnitType, SemFacts DEF handleDeviceInterrupt
  <2> HIDE DEF s
  <2>2. CASE sem[s] <= 0 /\ waiting[s] # <<>>
    <3> DEFINE ready == Append(readyQueue, Head(waiting[s]))
    <3>1. /\ p_semAdd' = [p_semAdd EXCEPT ![Head(waiting[s])] = NULL]
          /\ Resume(ready, softBlockedCount')
      BY <2>1, <2>2 DEF releaseSemAndUpdateStatus
    <3>2. ready \in Seq(Pcb) /\ Kept(ready, p_semAdd', pcbFree', Busy)
      BY <2>1, <2>2, <3>1, WakeKeeps
    <3> HIDE DEF ready
    <3> QED  BY <2>1, <3>1, <3>2, ResumeKeeps DEF KeptNow
  <2>3. CASE ~(sem[s] <= 0 /\ waiting[s] # <<>>)
    <3>1. p_semAdd' = p_semAdd /\ Resume(readyQueue, softBlockedCount')
      BY <2>1, <2>3 DEF releaseSemAndUpdateStatus
    <3>2. Kept(readyQueue, p_semAdd', pcbFree', Busy) /\ readyQueue \in Seq(Pcb)
      BY <2>1, <3>1 DEF KeptNow, TypeOK
    <3> QED  BY <2>1, <3>1, <3>2, ResumeKeeps DEF KeptNow
  <2> QED  BY <2>2, <2>3
<1>11. CASE terminate_Process \/ TerminateChild
  BY <1>2, <1>11 DEF terminate_Process, TerminateChild, Running
<1>12. ASSUME NEW u \in Unit, Command(u) \/ DeviceCompletes(u) PROVE KeptNow'
  BY <1>2, <1>12 DEF Command, DeviceCompletes, kernelVars
<1>13. CASE UNCHANGED vars
  BY <1>2, <1>13 DEF vars
<1> QED
  BY <1>1, <1>3, <1>4, <1>5, <1>6, <1>7, <1>8, <1>9, <1>10, <1>11, <1>12, <1>13
  DEF Next, SystemCall, Termination, Interrupt, Stay

LEMMA CountInit == Init => CountsProcesses
<1> SUFFICES ASSUME Init PROVE processCount = Cardinality(Pcb \ pcbFree)
  BY DEF CountsProcesses
<1>1. PICK first \in Pcb : pcbFree = Pcb \ {first}
  BY DEF Init
<1>2. Pcb \ pcbFree = {first}
  BY <1>1
<1> QED  BY <1>2, FS_Singleton DEF Init

LEMMA CountStep ==
  TypeOK /\ KillsCurrent /\ CountsProcesses /\ [Next]_vars => CountsProcesses'
<1> SUFFICES ASSUME TypeOK, KillsCurrent, CountsProcesses, [Next]_vars PROVE CountsProcesses'
  OBVIOUS
<1>1. CASE UNCHANGED <<pcbFree, processCount>> /\ (mode = "corrupt" => mode' = "corrupt")
  BY <1>1 DEF CountsProcesses
<1>2. IsFiniteSet(Pcb \ pcbFree)
  BY NucleusAssumption, FS_Subset
<1>3. CASE create_Process
  <2>1. ASSUME NEW p \in pcbFree, allocPcb(p) PROVE CountsProcesses'
    <3>1. Pcb \ pcbFree' = (Pcb \ pcbFree) \cup {p} /\ p \notin Pcb \ pcbFree
      BY <2>1 DEF allocPcb, TypeOK
    <3>2. Cardinality(Pcb \ pcbFree') = Cardinality(Pcb \ pcbFree) + 1
      BY <1>2, <3>1, FS_AddElement
    <3> QED  BY <1>3, <2>1, <3>2 DEF create_Process, allocPcb, Running, CountsProcesses
  <2> QED  BY <1>1, <1>3, <2>1 DEF create_Process
<1>4. CASE TerminateSelf
  <2> DEFINE p == Last(stack)
  <2>1. mode = "kill" /\ freePcb(p) /\ (p \in pcbFree => mode' = "corrupt")
    BY <1>4 DEF TerminateSelf
  <2>2. p \in Pcb  BY <2>1 DEF TypeOK, KillsCurrent, Last
  <2> HIDE DEF p
  <2>3. CASE p \in pcbFree
    BY <2>1, <2>3 DEF CountsProcesses
  <2>4. CASE p \notin pcbFree
    <3>1. Pcb \ pcbFree' = (Pcb \ pcbFree) \ {p} /\ p \in Pcb \ pcbFree
      BY <2>1, <2>2, <2>4 DEF freePcb
    <3>2. Cardinality(Pcb \ pcbFree') = Cardinality(Pcb \ pcbFree) - 1
      BY <1>2, <3>1, FS_RemoveElement
    <3> QED  BY <2>1, <3>2 DEF freePcb, CountsProcesses
  <2> QED  BY <2>3, <2>4
<1>5. ASSUME NEW s \in UserSem, passeren(s) \/ verhogen(s) PROVE CountsProcesses'
  BY <1>1, <1>5 DEF passeren, verhogen, Running
<1>6. ASSUME NEW u \in Unit, CommandAndWait(u) \/ WaitForCommanded(u) PROVE CountsProcesses'
  BY <1>1, <1>6 DEF CommandAndWait, WaitForCommanded, wait_For_IO, Running
<1>7. ASSUME NEW u \in Unit, Command(u) \/ DeviceCompletes(u) PROVE CountsProcesses'
  BY <1>1, <1>7 DEF Command, DeviceCompletes, kernelVars
<1>8. CASE wait_For_Clock \/ terminate_Process \/ TerminateChild
  BY <1>1, <1>8 DEF wait_For_Clock, terminate_Process, TerminateChild, Running
<1>9. CASE handlePLTInterrupt \/ handleIntervalTimerInterrupt
  BY <1>1, <1>9 DEF handlePLTInterrupt, handleIntervalTimerInterrupt
<1>10. ASSUME NEW v \in Unit, handleDeviceInterrupt(<<v[1], v[2]>>) PROVE CountsProcesses'
  BY <1>1, <1>10 DEF handleDeviceInterrupt
<1>11. CASE UNCHANGED vars
  BY <1>1, <1>11 DEF vars
<1> QED
  BY <1>3, <1>4, <1>5, <1>6, <1>7, <1>8, <1>9, <1>10, <1>11
  DEF Next, SystemCall, Termination, Interrupt, Stay

----------------------------------------------------------------------------
(* Where the clock semaphore starts at 0, it never rises above 0.          *)

ClockLow == sem[clockSemaphore] <= 0

LEMMA ClockLowInit == DevSemInit = 0 /\ Init => ClockLow
BY SemFacts DEF Init, ClockLow

LEMMA ClockLowStep ==
  TypeOK /\ KillsCurrent /\ Placed /\ ValuesCountWaiters /\ ClockLow /\ [Next]_vars
    => ClockLow'
<1> SUFFICES ASSUME TypeOK, KillsCurrent, Placed, ValuesCountWaiters, ClockLow, [Next]_vars
             PROVE  ClockLow'
  OBVIOUS
<1>1. /\ clockSemaphore \in Sem /\ clockSemaphore \notin UserSem
      /\ clockSemaphore \notin DevSem /\ sem \in [Sem -> Int]
  BY SemFacts DEF TypeOK
<1>2. CASE sem' = sem
  BY <1>2 DEF ClockLow
<1>3. ASSUME NEW s \in UserSem, passeren(s) \/ verhogen(s) PROVE ClockLow'
  BY <1>1, <1>3 DEF passeren, verhogen, ClockLow
<1>4. ASSUME NEW u \in Unit, CommandAndWait(u) \/ WaitForCommanded(u) PROVE ClockLow'
  <2>1. semOf(u) # clockSemaphore  BY <1>1, SemFacts
  <2> QED  BY <1>1, <1>4, <2>1 DEF CommandAndWait, WaitForCommanded, wait_For_IO, ClockLow
<1>5. CASE wait_For_Clock
  BY <1>1, <1>5 DEF wait_For_Clock, ClockLow
<1>6. CASE TerminateSelf
  <2> DEFINE p == Last(stack)
  <2>1. leaveQueue(p) /\ p \in Pcb
    BY <1>6 DEF TerminateSelf, TypeOK, KillsCurrent, Last
  <2> HIDE DEF p
  <2>2. CASE p_semAdd[p] = clockSemaphore
    <3>1. Contains(waiting[clockSemaphore], p) /\ waiting[clockSemaphore] \in Seq(Pcb)
      BY <1>1, <2>1, <2>2 DEF Placed, Apart, TypeOK
    <3>2. Len(waiting[clockSemaphore]) > 0
      BY <3>1, TakeOutFacts
    <3>3. sem[clockSemaphore] < 0
      BY <1>1, <3>2, ValueOf
    <3>4. sem' = [sem EXCEPT ![clockSemaphore] = @ + 1]
      BY <1>1, <2>1, <2>2, SemFacts DEF leaveQueue
    <3> QED  BY <1>1, <3>3, <3>4 DEF ClockLow
  <2>3. CASE p_semAdd[p] # clockSemaphore
    BY <1>1, <2>1, <2>3 DEF leaveQueue, ClockLow
  <2> QED  BY <2>2, <2>3
<1>7. CASE handleIntervalTimerInterrupt
  BY <1>1, <1>7 DEF handleIntervalTimerInterrupt, ClockLow
<1>8. ASSUME NEW v \in Unit, handleDeviceInterrupt(<<v[1], v[2]>>) PROVE ClockLow'
  <2> DEFINE s == semOf(ServedUnit(v[1], v[2]))
  <2>1. s # clockSemaphore /\ releaseSemAndUpdateStatus(s)
    BY <1>1, <1>8, ServedUnitType, SemFacts DEF handleDeviceInterrupt
  <2> HIDE DEF s
  <2> QED  BY <1>1, <2>1 DEF releaseSemAndUpdateStatus, ClockLow
<1>9. CASE create_Process \/ terminate_Process \/ TerminateChild \/ handlePLTInterrupt
  BY <1>2, <1>9 DEF create_Process, terminate_Process, TerminateChild, handlePLTInterrupt
<1>10. ASSUME NEW u \in Unit, Command(u) \/ DeviceCompletes(u) PROVE ClockLow'
  BY <1>2, <1>10 DEF Command, DeviceCompletes, kernelVars
<1>11. CASE UNCHANGED vars
  BY <1>2, <1>11 DEF vars
<1> QED
  BY <1>3, <1>4, <1>5, <1>6, <1>7, <1>8, <1>9, <1>10, <1>11
  DEF Next, SystemCall, Termination, Interrupt, Stay

LEMMA ClockCallStep ==
  TypeOK /\ RunsSomebody /\ ClockLow /\ wait_For_Clock
    => Contains(waiting'[clockSemaphore], currentProcess)
<1> SUFFICES ASSUME TypeOK, RunsSomebody, ClockLow, wait_For_Clock
             PROVE  Contains(waiting'[clockSemaphore], currentProcess)
  OBVIOUS
<1>1. clockSemaphore \in Sem /\ currentProcess \in Pcb /\ waiting \in [Sem -> Seq(Pcb)]
  BY SemFacts DEF TypeOK, RunsSomebody, wait_For_Clock, Running
<1>2. sem[clockSemaphore] - 1 < 0
  BY <1>1 DEF TypeOK, ClockLow
<1>3. waiting' = [waiting EXCEPT ![clockSemaphore] = Append(@, currentProcess)]
  BY <1>2 DEF wait_For_Clock, blockCurrentProcessAt
<1>4. waiting'[clockSemaphore] = Append(waiting[clockSemaphore], currentProcess)
  BY <1>1, <1>3
<1> QED  BY <1>1, <1>4, AppendFacts

----------------------------------------------------------------------------
(* The theorems                                                            *)

(* The inductive invariant: all of it for every value of the constants.    *)
IInv == /\ TypeOK /\ KillsCurrent /\ RunsSomebody
        /\ Placed /\ ValuesCountWaiters /\ KeptNow /\ CountsProcesses

THEOREM Inductive == Spec => []IInv
<1>1. Init => IInv
  BY TypeInit, PlacedInit, ValuesInit, KeptInit, CountInit DEF IInv
<1>2. IInv /\ [Next]_vars => IInv'
  BY TypeStep, PlacedStep, ValuesStep, KeptStep, CountStep DEF IInv
<1> QED  BY <1>1, <1>2, PTL DEF Spec

(* p_semAdd always names the queue a process is in, so termination finds   *)
(* every blocked process where it looks for it.                            *)
THEOREM WaitsCorrect == Spec => []WaitsWhereItSays
<1>1. IInv => WaitsWhereItSays
  BY PlacedMeans DEF IInv
<1> QED  BY <1>1, Inductive, PTL

(* No process is in two queues or twice in one, and no block that is free, *)
(* or that runs, is in any.                                                *)
THEOREM PlacesCorrect == Spec => []InOnePlaceAtMost
<1>1. IInv => InOnePlaceAtMost
  BY PlacedMeans DEF IInv
<1> QED  BY <1>1, Inductive, PTL

(* Every process that exists can still be reached by the nucleus, however  *)
(* calls, interrupts and terminations interleave.                          *)
THEOREM NobodyLost == Spec => []NoProcessLost
<1>1. IInv => NoProcessLost
  BY KeptMeans DEF IInv
<1> QED  BY <1>1, Inductive, PTL

(* The value of every semaphore tells exactly how many processes wait.     *)
THEOREM ValuesCorrect == Spec => []ValuesCountWaiters
<1>1. IInv => ValuesCountWaiters
  BY DEF IInv
<1> QED  BY <1>1, Inductive, PTL

(* processCount is the number of processes until a block is freed twice.   *)
THEOREM CountCorrect == Spec => []CountsProcesses
<1>1. IInv => CountsProcesses
  BY DEF IInv
<1> QED  BY <1>1, Inductive, PTL

(* With the clock semaphore at 0 from the start, as main leaves it, every  *)
(* CLOCKWAIT blocks its caller.                                            *)
THEOREM ClockCallBlocks ==
  ASSUME DevSemInit = 0
  PROVE  Spec => ClockCallWaits
<1>1. Init => ClockLow
  BY ClockLowInit
<1>2. IInv /\ ClockLow /\ [Next]_vars => ClockLow'
  BY ClockLowStep DEF IInv
<1>3. IInv /\ ClockLow /\ [Next]_vars
        => [wait_For_Clock => Contains(waiting'[clockSemaphore], currentProcess)]_vars
  BY ClockCallStep DEF IInv
<1> QED  BY <1>1, <1>2, <1>3, Inductive, PTL DEF Spec, ClockCallWaits
=============================================================================
