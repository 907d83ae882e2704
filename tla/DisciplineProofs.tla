-------------------------- MODULE DisciplineProofs --------------------------
(***************************************************************************)
(* The safety properties of Nucleus that rest on what the processes do.    *)
(* Those about devices assume that they command a device and wait for it   *)
(* without being interrupted, and a terminal in one direction at a time,   *)
(* as every program of the repository does.  Those about the tree assume   *)
(* nothing of the processes, and last until one terminates that has a      *)
(* younger sibling.                                                        *)
(***************************************************************************)
EXTENDS NucleusProofs

----------------------------------------------------------------------------
(* Devices: the register an interrupt comes from is the one it serves      *)

(* At most one of the two registers of a terminal is in use.               *)
OneDirection ==
  \A u \in Unit : u[1] = TERMINT /\ device[u] # "ready"
                    => device[<<TERMINT, u[2], 1 - u[3]>>] = "ready"

(* No process is between a command and its IOWAIT, and one process at a    *)
(* time waits for a register, whose operation is on.                       *)
Commanded ==
  /\ \A p \in Pcb : pending[p] = NULL
  /\ \A u \in Unit : waiting[semOf(u)] # <<>> => Len(waiting[semOf(u)]) = 1 /\ device[u] # "ready"

(* The units with an event still to come.                                  *)
Active == {u \in Unit : device[u] # "ready"}

Covered ==
  /\ softBlockedCount >= Len(waiting[clockSemaphore]) + Cardinality(Active)
  /\ mode = "panic" => softBlockedCount <= 0

DeviceInv == OneDirection /\ Commanded /\ Covered

LEMMA UnitFinite == IsFiniteSet(Unit)
<1> DEFINE L == DISKINT .. TERMINT
           D == 0 .. DEVPERINT - 1
           R == {0, 1}
           LD == L \X D
           all == L \X D \X R
           flat == [x \in LD \X R |-> <<x[1][1], x[1][2], x[2]>>]
<1>1. IsFiniteSet(L) /\ IsFiniteSet(D) /\ IsFiniteSet(R)
  <2>1. DISKINT \in Int /\ TERMINT \in Int /\ DEVPERINT - 1 \in Int
    BY DEF DISKINT, TERMINT, DEVPERINT
  <2>2. R = 0 .. 1 /\ 0 \in Int /\ 1 \in Int  OBVIOUS
  <2>3. IsFiniteSet(L)  BY <2>1, FS_Interval
  <2>4. IsFiniteSet(D)  BY <2>1, <2>2, FS_Interval
  <2>5. IsFiniteSet(R)  BY <2>2, FS_Interval
  <2> QED  BY <2>3, <2>4, <2>5
<1>2. Unit \subseteq all
  BY NucleusAssumption
<1>3. flat \in Surjection(LD \X R, all)
  <2>1. flat \in [LD \X R -> all]
    OBVIOUS
  <2>2. ASSUME NEW u \in all PROVE \E x \in LD \X R : flat[x] = u
    <3>1. /\ <<u[1], u[2]>> \in LD /\ <<<<u[1], u[2]>>, u[3]>> \in LD \X R
          /\ u = <<u[1], u[2], u[3]>>
      OBVIOUS
    <3>2. flat[<<<<u[1], u[2]>>, u[3]>>] = u
      BY <3>1
    <3> QED  BY <3>1, <3>2
  <2> QED  BY <2>1, <2>2 DEF Surjection
<1> HIDE DEF L, D, R
<1>4. IsFiniteSet(LD)
  BY <1>1, FS_Product
<1> HIDE DEF LD, flat
<1>5. IsFiniteSet(LD \X R)
  BY <1>1, <1>4, FS_Product
<1>6. IsFiniteSet(all)
  BY <1>3, <1>5, FS_Surjection
<1> QED  BY <1>2, <1>6, FS_Subset

LEMMA ActiveFinite ==
  ASSUME NEW T \in SUBSET Unit
  PROVE  IsFiniteSet(T) /\ Cardinality(T) \in Nat
<1>1. IsFiniteSet(T)
  BY UnitFinite, FS_Subset
<1> QED  BY <1>1, FS_CardinalityType

LEMMA SemNumbers ==
  ASSUME NEW l1 \in 3 .. 7, NEW d1 \in 0 .. 7, NEW l2 \in 3 .. 7, NEW d2 \in 0 .. 7,
         NEW n1, n1 = (l1 - 3) * 8 + d1, NEW n2, n2 = (l2 - 3) * 8 + d2
  PROVE  /\ n1 = n2 => l1 = l2 /\ d1 = d2
         /\ n1 # 40 + d2
         /\ 40 + d1 = 40 + d2 => d1 = d2
OBVIOUS

(* No two registers share a semaphore.                                     *)
LEMMA SemOfInjective ==
  ASSUME NEW u \in Unit, NEW v \in Unit, semOf(u) = semOf(v)
  PROVE  u = v
<1>1. /\ u = <<u[1], u[2], u[3]>> /\ v = <<v[1], v[2], v[3]>>
      /\ u[1] \in 3 .. 7 /\ v[1] \in 3 .. 7 /\ u[2] \in 0 .. 7 /\ v[2] \in 0 .. 7
      /\ u[3] \in {0, 1} /\ v[3] \in {0, 1}
      /\ u[1] # 7 => u[3] = 0
      /\ v[1] # 7 => v[3] = 0
  BY NucleusAssumption DEF DISKINT, TERMINT, DEVPERINT
<1> DEFINE sends(w) == w[1] = 7 /\ w[3] = 0
           number(w) == (w[1] - 3) * 8 + w[2]
<1>2. /\ semOf(u) = IF sends(u) THEN 40 + u[2] ELSE number(u)
      /\ semOf(v) = IF sends(v) THEN 40 + v[2] ELSE number(v)
  BY <1>1 DEF semOf, getSemIndex, DISKINT, TERMINT, DEVPERINT
<1>3. /\ number(u) = number(v) => u[1] = v[1] /\ u[2] = v[2]
      /\ number(u) # 40 + v[2] /\ number(v) # 40 + u[2]
      /\ 40 + u[2] = 40 + v[2] => u[2] = v[2]
  BY <1>1, SemNumbers
<1> HIDE DEF number
<1>4. u[1] = v[1] /\ u[2] = v[2] /\ u[3] = v[3]
  BY <1>1, <1>2, <1>3
<1> QED  BY <1>1, <1>4

(* The register that is served is the one that interrupts.                 *)
LEMMA ServedIsDone ==
  ASSUME TypeOK, OneDirection, NEW v \in Unit, <<v[1], v[2]>> \in Interrupting
  PROVE  device[ServedUnit(v[1], v[2])] = "done"
<1>1. PICK w \in Unit : device[w] = "done" /\ w[1] = v[1] /\ w[2] = v[2]
  BY DEF Interrupting
<1>2. w = <<w[1], w[2], w[3]>> /\ w[3] \in {0, 1} /\ (w[1] # TERMINT => w[3] = 0)
  BY NucleusAssumption
<1>3. CASE w[1] # TERMINT
  BY <1>1, <1>2, <1>3 DEF ServedUnit
<1>4. CASE w[1] = TERMINT /\ w[3] = 1
  BY <1>1, <1>2, <1>4 DEF ServedUnit, terminalIsRECV
<1>5. CASE w[1] = TERMINT /\ w[3] = 0
  <2>1. device[<<TERMINT, w[2], 1 - w[3]>>] = "ready"
    BY <1>1, <1>5 DEF OneDirection
  <2>2. 1 - w[3] = 1
    BY <1>5
  <2>3. ~terminalIsRECV(w[2])
    BY <2>1, <2>2 DEF terminalIsRECV
  <2> QED  BY <1>1, <1>2, <1>5, <2>3 DEF ServedUnit
<1> QED  BY <1>2, <1>3, <1>4, <1>5

(* A step that neither commands a device nor hears from one.               *)
Quiet ==
  /\ device' = device /\ \A p \in Pcb : pending'[p] = NULL
  /\ \A s \in DevSem : Len(waiting'[s]) <= Len(waiting[s])
  /\ softBlockedCount' - Len(waiting'[clockSemaphore])
       >= softBlockedCount - Len(waiting[clockSemaphore])
  /\ mode' = "panic" => softBlockedCount' <= 0

LEMMA SchedulerPanic ==
  ASSUME NEW ready, NEW processes, NEW softBlocked \in Int,
         scheduler(ready, processes, softBlocked), mode' = "panic"
  PROVE  softBlocked <= 0
BY DEF scheduler

LEMMA ResumePanic ==
  ASSUME NEW ready, NEW softBlocked \in Int, mode \in {"run", "wait"},
         Resume(ready, softBlocked), mode' = "panic"
  PROVE  softBlocked <= 0
BY SchedulerPanic DEF Resume

LEMMA QuietStep ==
  ASSUME MaskedIO, TypeOK, KillsCurrent, RunsSomebody, DeviceInv, [Next]_vars
  PROVE  \/ \E u \in Unit : CommandAndWait(u)
         \/ \E u \in Unit : DeviceCompletes(u)
         \/ \E u \in Unit : handleDeviceInterrupt(<<u[1], u[2]>>)
         \/ Quiet
<1> USE DEF DeviceInv, Commanded, Covered
<1>a. /\ waiting \in [Sem -> Seq(Pcb)] /\ softBlockedCount \in Int
      /\ clockSemaphore \in Sem /\ DevSem \subseteq Sem /\ clockSemaphore \notin DevSem
      /\ \A s \in Sem : Len(waiting[s]) \in Nat
  BY SemFacts DEF TypeOK
<1>1. ASSUME UNCHANGED <<device, pending, waiting, softBlockedCount>>, mode' # "panic"
      PROVE  Quiet
  BY <1>a, <1>1 DEF Quiet
<1>2. ASSUME UNCHANGED <<device, pending, waiting, softBlockedCount, mode>>
      PROVE  Quiet
  BY <1>a, <1>2 DEF Quiet
<1>3. ASSUME NEW s \in UserSem, passeren(s) PROVE Quiet
  <2>1. s \in Sem /\ s \notin DevSem /\ s # clockSemaphore
    BY SemFacts
  <2>2. CASE blockCurrentProcessAt(s, softBlockedCount)
    <3>1. \A r \in Sem : r # s => waiting'[r] = waiting[r]
      BY <1>a, <2>2 DEF blockCurrentProcessAt
    <3>2. softBlockedCount' = softBlockedCount /\ (mode' = "panic" => softBlockedCount <= 0)
      BY <1>a, <2>2, SchedulerPanic DEF blockCurrentProcessAt
    <3> QED  BY <1>3, <1>a, <2>1, <3>1, <3>2 DEF passeren, Quiet
  <2>3. CASE UNCHANGED <<waiting, softBlockedCount, mode>>
    <3>1. UNCHANGED <<device, pending>>
      BY <1>3 DEF passeren
    <3> QED  BY <1>2, <2>3, <3>1
  <2> QED  BY <1>3, <2>2, <2>3 DEF passeren
<1>4. ASSUME NEW s \in UserSem, verhogen(s) PROVE Quiet
  <2>1. s \in Sem /\ s \notin DevSem /\ s # clockSemaphore
    BY SemFacts
  <2>2. \A r \in Sem : r # s => waiting'[r] = waiting[r]
    BY <1>a, <1>4 DEF verhogen, WakeOldest
  <2> QED  BY <1>4, <1>a, <2>1, <2>2 DEF verhogen, Quiet
<1>5. CASE wait_For_Clock
  <2>1. CASE blockCurrentProcessAt(clockSemaphore, softBlockedCount + 1)
    <3>1. \A r \in DevSem : waiting'[r] = waiting[r]
      BY <1>a, <2>1 DEF blockCurrentProcessAt
    <3>2. waiting'[clockSemaphore] = Append(waiting[clockSemaphore], currentProcess)
      BY <1>a, <2>1 DEF blockCurrentProcessAt
    <3>3. Len(waiting'[clockSemaphore]) = Len(waiting[clockSemaphore]) + 1
      <4>1. currentProcess \in Pcb /\ waiting[clockSemaphore] \in Seq(Pcb)
        BY <1>5, <1>a DEF wait_For_Clock, Running, RunsSomebody
      <4> QED  BY <3>2, <4>1, AppendFacts
    <3>4. /\ softBlockedCount' = softBlockedCount + 1
          /\ mode' = "panic" => softBlockedCount + 1 <= 0
      BY <1>a, <2>1, SchedulerPanic DEF blockCurrentProcessAt
    <3> QED  BY <1>5, <1>a, <3>1, <3>3, <3>4 DEF wait_For_Clock, Quiet
  <2>2. CASE UNCHANGED <<waiting, softBlockedCount, mode>>
    BY <1>2, <1>5, <2>2 DEF wait_For_Clock
  <2> QED  BY <1>5, <2>1, <2>2 DEF wait_For_Clock
<1>6. CASE TerminateSelf
  <2> DEFINE p == Last(stack)
  <2>1. /\ mode = "kill" /\ leaveQueue(p) /\ UNCHANGED <<device, softBlockedCount>>
        /\ pending' = [pending EXCEPT ![p] = NULL]
        /\ \/ mode' \in {"corrupt", mode}
           \/ scheduler(readyWithout(p), processCount', softBlockedCount)
    BY <1>6 DEF TerminateSelf
  <2>2. p \in Pcb  BY <2>1 DEF TypeOK, KillsCurrent, Last
  <2> HIDE DEF p
  <2>3. ASSUME NEW s \in Sem PROVE Len(waiting'[s]) <= Len(waiting[s])
    <3>1. CASE waiting'[s] = waiting[s]
      BY <1>a, <3>1
    <3>2. CASE waiting'[s] # waiting[s]
      <4>1. waiting'[s] = takeOut(waiting[s], p)
        BY <1>a, <2>1, <3>2 DEF leaveQueue
      <4>2. Contains(waiting[s], p)
        BY <3>2, <4>1 DEF takeOut
      <4>3. Len(takeOut(waiting[s], p)) = Len(waiting[s]) - 1
        BY <1>a, <4>2, TakeOutFacts
      <4> QED  BY <1>a, <4>1, <4>3
    <3> QED  BY <3>1, <3>2
  <2>4. mode' = "panic" => softBlockedCount <= 0
    BY <2>1, <1>a, SchedulerPanic
  <2>5. \A q \in Pcb : pending'[q] = NULL
    BY <2>1, <2>2 DEF TypeOK
  <2>6. waiting' \in [Sem -> Seq(Pcb)]
    BY <2>1, <2>2, LeaveQueueType
  <2> QED
    <3>1. Len(waiting'[clockSemaphore]) \in Nat
      BY <1>a, <2>6
    <3> QED  BY <1>a, <2>1, <2>3, <2>4, <2>5, <3>1 DEF Quiet
<1>7. CASE handleIntervalTimerInterrupt
  <2> DEFINE n == Len(waiting[clockSemaphore])
  <2>1. /\ UNCHANGED <<device, pending>> /\ softBlockedCount' = softBlockedCount - n
        /\ waiting' = [waiting EXCEPT ![clockSemaphore] = <<>>]
        /\ \E ready : Resume(ready, softBlockedCount')
        /\ mode \in {"run", "wait"}
    BY <1>7 DEF handleIntervalTimerInterrupt
  <2>2. waiting'[clockSemaphore] = <<>> /\ \A r \in DevSem : waiting'[r] = waiting[r]
    BY <1>a, <2>1
  <2>3. softBlockedCount' \in Int /\ n \in Nat
    BY <1>a, <2>1
  <2>4. mode' = "panic" => softBlockedCount' <= 0
    BY <2>1, <2>3, ResumePanic
  <2>5. Len(waiting'[clockSemaphore]) = 0
    BY <2>2
  <2> HIDE DEF n
  <2>6. softBlockedCount' - 0 >= softBlockedCount - n
    BY <1>a, <2>1, <2>3
  <2> QED  BY <1>a, <2>1, <2>2, <2>4, <2>5, <2>6 DEF Quiet, n
<1>8. CASE handlePLTInterrupt
  <2>1. mode' # "panic"
    <3>1. readyQueue \in Seq(Pcb) /\ currentProcess \in Pcb
      BY <1>8 DEF handlePLTInterrupt, TypeOK, RunsSomebody
    <3>2. Append(readyQueue, currentProcess) # <<>>
      BY <3>1
    <3> QED  BY <1>8, <3>2 DEF handlePLTInterrupt, scheduler
  <2> QED  BY <1>1, <1>8, <2>1 DEF handlePLTInterrupt
<1>9. CASE create_Process \/ terminate_Process \/ TerminateChild
  BY <1>1, <1>2, <1>9 DEF create_Process, terminate_Process, TerminateChild, Running
<1>10. ASSUME NEW u \in Unit PROVE ~Command(u) /\ ~WaitForCommanded(u)
  <2>1. ~Command(u)
    BY DEF Command
  <2>2. u # NULL
    BY NucleusAssumption
  <2>3. ~WaitForCommanded(u)
    BY <2>2 DEF WaitForCommanded, RunsSomebody
  <2> QED  BY <2>1, <2>3
<1>11. CASE UNCHANGED vars
  BY <1>2, <1>11 DEF vars
<1> QED
  BY <1>3, <1>4, <1>5, <1>6, <1>7, <1>8, <1>9, <1>10, <1>11
  DEF Next, SystemCall, Termination, Interrupt, Stay

LEMMA DeviceInit == Init => DeviceInv
<1> SUFFICES ASSUME Init PROVE DeviceInv
  OBVIOUS
<1>1. /\ \A u \in Unit : device[u] = "ready"
      /\ \A s \in Sem : waiting[s] = <<>>
      /\ \A p \in Pcb : pending[p] = NULL
      /\ softBlockedCount = 0 /\ mode = "run"
  BY DEF Init
<1>2. OneDirection
  BY <1>1 DEF OneDirection
<1>3. Commanded
  BY <1>1, SemFacts DEF Commanded
<1>4. Covered
  <2>1. Active = {}  BY <1>1 DEF Active
  <2>2. Len(waiting[clockSemaphore]) = 0  BY <1>1, SemFacts
  <2> QED  BY <1>1, <2>1, <2>2, FS_EmptySet DEF Covered
<1> QED  BY <1>2, <1>3, <1>4 DEF DeviceInv

(* A command: the register was ready, nobody waited for it, and in a       *)
(* terminal the other register is ready too.                               *)
LEMMA CommandKeeps ==
  ASSUME OneWay, TypeOK, RunsSomebody, DeviceInv, NEW u \in Unit, CommandAndWait(u)
  PROVE  DeviceInv'
<1>1. /\ device[u] = "ready" /\ waiting[semOf(u)] = <<>>
      /\ u[1] = TERMINT => device[<<TERMINT, u[2], 1 - u[3]>>] = "ready"
      /\ device' = [device EXCEPT ![u] = "busy"] /\ pending' = pending
      /\ softBlockedCount' = softBlockedCount + 1
      /\ waiting' = [waiting EXCEPT ![semOf(u)] = Append(@, currentProcess)]
      /\ scheduler(readyQueue, processCount, softBlockedCount + 1)
      /\ currentProcess \in Pcb
  BY DEF CommandAndWait, Running, MayCommand, wait_For_IO, blockCurrentProcessAt, RunsSomebody
<1>2. /\ waiting \in [Sem -> Seq(Pcb)] /\ device \in [Unit -> {"ready", "busy", "done"}]
      /\ softBlockedCount \in Int /\ semOf(u) \in Sem /\ semOf(u) # clockSemaphore
      /\ clockSemaphore \in Sem
  BY SemFacts DEF TypeOK
<1>3. \A v \in Unit : device'[v] = IF v = u THEN "busy" ELSE device[v]
  BY <1>1, <1>2
<1>4. OneDirection'
  <2> SUFFICES ASSUME NEW v \in Unit, v[1] = TERMINT, device'[v] # "ready"
               PROVE  device'[<<TERMINT, v[2], 1 - v[3]>>] = "ready"
    BY DEF OneDirection
  <2> DEFINE w == <<TERMINT, v[2], 1 - v[3]>>
  <2>1. /\ w \in Unit /\ w # v /\ v = <<TERMINT, v[2], v[3]>>
        /\ <<TERMINT, w[2], 1 - w[3]>> = v
    <3>1. v = <<v[1], v[2], v[3]>> /\ v[3] \in {0, 1}  BY NucleusAssumption
    <3>2. w[2] = v[2] /\ w[3] = 1 - v[3]  OBVIOUS
    <3> QED  BY <3>1, <3>2, NucleusAssumption
  <2>2. CASE v = u
    BY <1>1, <1>3, <2>1, <2>2
  <2>3. CASE v # u
    <3>1. device[v] # "ready" /\ device[w] = "ready"
      BY <1>3, <2>3 DEF DeviceInv, OneDirection
    <3>2. w # u
      <4>1. w = u => device[<<TERMINT, w[2], 1 - w[3]>>] = "ready"
        BY <1>1
      <4> QED  BY <2>1, <3>1, <4>1
    <3> QED  BY <1>3, <2>1, <3>1, <3>2
  <2> QED  BY <2>2, <2>3
<1>5. Commanded'
  <2>1. \A p \in Pcb : pending'[p] = NULL
    BY <1>1 DEF DeviceInv, Commanded
  <2>2. ASSUME NEW v \in Unit, waiting'[semOf(v)] # <<>>
        PROVE  Len(waiting'[semOf(v)]) = 1 /\ device'[v] # "ready"
    <3>1. CASE v = u
      <4>1. waiting'[semOf(u)] = Append(<<>>, currentProcess)  BY <1>1, <1>2
      <4>2. Len(waiting'[semOf(u)]) = 1  BY <4>1
      <4> QED  BY <1>3, <3>1, <4>2
    <3>2. CASE v # u
      <4>1. semOf(v) # semOf(u) /\ semOf(v) \in Sem  BY <3>2, SemOfInjective, SemFacts
      <4>2. waiting'[semOf(v)] = waiting[semOf(v)]  BY <1>1, <1>2, <4>1
      <4> QED  BY <1>3, <2>2, <3>2, <4>2 DEF DeviceInv, Commanded
    <3> QED  BY <3>1, <3>2
  <2> QED  BY <2>1, <2>2 DEF Commanded
<1>6. Covered'
  <2>1. Active' = Active \cup {u} /\ u \notin Active
    BY <1>1, <1>3 DEF Active
  <2>2. IsFiniteSet(Active) /\ Cardinality(Active) \in Nat
    BY ActiveFinite DEF Active
  <2>3. Cardinality(Active') = Cardinality(Active) + 1
    BY <2>1, <2>2, FS_AddElement
  <2>4. waiting'[clockSemaphore] = waiting[clockSemaphore]
        /\ Len(waiting[clockSemaphore]) \in Nat
    BY <1>1, <1>2
  <2>5. mode' = "panic" => softBlockedCount' <= 0
    BY <1>1, <1>2, SchedulerPanic
  <2>6. softBlockedCount >= Len(waiting[clockSemaphore]) + Cardinality(Active)
    BY DEF DeviceInv, Covered
  <2>7. softBlockedCount' >= Len(waiting'[clockSemaphore]) + Cardinality(Active')
    BY <1>1, <1>2, <2>2, <2>3, <2>4, <2>6
  <2> QED  BY <2>5, <2>7 DEF Covered
<1> QED  BY <1>4, <1>5, <1>6 DEF DeviceInv

LEMMA CompletionKeeps ==
  ASSUME TypeOK, DeviceInv, NEW u \in Unit, DeviceCompletes(u)
  PROVE  DeviceInv'
<1>1. /\ device[u] = "busy" /\ device' = [device EXCEPT ![u] = "done"]
      /\ UNCHANGED <<pending, waiting, softBlockedCount, mode>>
  BY DEF DeviceCompletes, kernelVars
<1>2. \A v \in Unit : device'[v] = "ready" <=> device[v] = "ready"
  BY <1>1 DEF TypeOK
<1>3. Active' = Active
  BY <1>2 DEF Active
<1>4. OneDirection'
  <2> SUFFICES ASSUME NEW v \in Unit, v[1] = TERMINT, device'[v] # "ready"
               PROVE  device'[<<TERMINT, v[2], 1 - v[3]>>] = "ready"
    BY DEF OneDirection
  <2>1. <<TERMINT, v[2], 1 - v[3]>> \in Unit
    BY NucleusAssumption
  <2> QED  BY <1>2, <2>1 DEF DeviceInv, OneDirection
<1> QED  BY <1>1, <1>2, <1>3, <1>4 DEF DeviceInv, Commanded, Covered

(* An interrupt: the register served was done, so one event fewer is still *)
(* to come, and whoever waited for it leaves the queue.                    *)
LEMMA DeviceInterruptKeeps ==
  ASSUME TypeOK, ValuesCountWaiters, DeviceInv, NEW v \in Unit,
         handleDeviceInterrupt(<<v[1], v[2]>>)
  PROVE  DeviceInv'
<1> DEFINE u == ServedUnit(v[1], v[2])
<1>1. u \in Unit /\ device[u] = "done"
  BY ServedUnitType, ServedIsDone DEF handleDeviceInterrupt, DeviceInv
<1>2. /\ mode \in {"run", "wait"} /\ releaseSemAndUpdateStatus(semOf(u))
      /\ device' = [device EXCEPT ![u] = IF @ = "done" THEN "ready" ELSE @]
      /\ pending' = pending
  BY DEF handleDeviceInterrupt
<1> HIDE DEF u
<1>3. /\ waiting \in [Sem -> Seq(Pcb)] /\ device \in [Unit -> {"ready", "busy", "done"}]
      /\ softBlockedCount \in Int /\ semOf(u) \in Sem /\ semOf(u) # clockSemaphore
      /\ clockSemaphore \in Sem /\ semOf(u) \in DevSem
  BY <1>1, SemFacts DEF TypeOK
<1>4. \A w \in Unit : device'[w] = IF w = u THEN "ready" ELSE device[w]
  BY <1>1, <1>2, <1>3
<1>5. /\ waiting'[semOf(u)] = <<>>
      /\ \A s \in Sem : s # semOf(u) => waiting'[s] = waiting[s]
  <2>1. CASE waiting[semOf(u)] = <<>>
    BY <1>2, <2>1 DEF releaseSemAndUpdateStatus
  <2>2. CASE waiting[semOf(u)] # <<>>
    <3>1. Len(waiting[semOf(u)]) = 1
      BY <1>1, <2>2 DEF DeviceInv, Commanded
    <3>2. sem[semOf(u)] <= 0
      <4> DEFINE value == sem[semOf(u)]
      <4>1. 1 = DevSemInit - value
        BY <1>3, <3>1, ValueOf
      <4>2. value \in Int /\ DevSemInit \in Int /\ DevSemInit <= 1
        BY <1>3, ValueOf
      <4> HIDE DEF value
      <4>3. value <= 0
        BY <4>1, <4>2
      <4> QED  BY <4>3 DEF value
    <3>3. waiting' = [waiting EXCEPT ![semOf(u)] = Tail(@)]
      BY <1>2, <2>2, <3>2 DEF releaseSemAndUpdateStatus
    <3>4. Tail(waiting[semOf(u)]) = <<>>
      BY <1>3, <3>1, LengthFacts
    <3> QED  BY <1>3, <3>3, <3>4
  <2> QED  BY <2>1, <2>2
<1>6. OneDirection'
  <2> SUFFICES ASSUME NEW w \in Unit, w[1] = TERMINT, device'[w] # "ready"
               PROVE  device'[<<TERMINT, w[2], 1 - w[3]>>] = "ready"
    BY DEF OneDirection
  <2>1. <<TERMINT, w[2], 1 - w[3]>> \in Unit
    BY NucleusAssumption
  <2> QED  BY <1>4, <2>1 DEF DeviceInv, OneDirection
<1>7. Commanded'
  <2>1. ASSUME NEW w \in Unit, waiting'[semOf(w)] # <<>>
        PROVE  Len(waiting'[semOf(w)]) = 1 /\ device'[w] # "ready"
    <3>1. w # u  BY <1>5, <2>1
    <3>2. semOf(w) # semOf(u) /\ semOf(w) \in Sem  BY <1>1, <3>1, SemOfInjective, SemFacts
    <3>3. waiting'[semOf(w)] = waiting[semOf(w)]  BY <1>5, <3>2
    <3> QED  BY <1>4, <2>1, <3>1, <3>3 DEF DeviceInv, Commanded
  <2> QED  BY <1>2, <2>1 DEF DeviceInv, Commanded
<1>8. Covered'
  <2>1. Active' = Active \ {u} /\ u \in Active
    BY <1>1, <1>4 DEF Active
  <2>2. IsFiniteSet(Active) /\ Cardinality(Active) \in Nat
    BY ActiveFinite DEF Active
  <2>3. Cardinality(Active') = Cardinality(Active) - 1
    BY <2>1, <2>2, FS_RemoveElement
  <2>4. waiting'[clockSemaphore] = waiting[clockSemaphore]
        /\ Len(waiting[clockSemaphore]) \in Nat
    BY <1>3, <1>5
  <2>5. /\ softBlockedCount' = softBlockedCount - 1
        /\ \E ready : Resume(ready, softBlockedCount')
    BY <1>2 DEF releaseSemAndUpdateStatus
  <2>6. softBlockedCount' \in Int
    BY <1>3, <2>5
  <2>7. mode' = "panic" => softBlockedCount' <= 0
    BY <1>2, <2>5, <2>6, ResumePanic
  <2>8. softBlockedCount >= Len(waiting[clockSemaphore]) + Cardinality(Active)
    BY DEF DeviceInv, Covered
  <2>9. softBlockedCount' >= Len(waiting'[clockSemaphore]) + Cardinality(Active')
    BY <1>3, <2>2, <2>3, <2>4, <2>5, <2>8
  <2> QED  BY <2>7, <2>9 DEF Covered
<1> QED  BY <1>6, <1>7, <1>8 DEF DeviceInv

LEMMA QuietKeeps ==
  ASSUME TypeOK, TypeOK', DeviceInv, Quiet
  PROVE  DeviceInv'
<1>1. /\ waiting \in [Sem -> Seq(Pcb)] /\ waiting' \in [Sem -> Seq(Pcb)]
      /\ softBlockedCount \in Int /\ softBlockedCount' \in Int
      /\ clockSemaphore \in Sem
      /\ \A u \in Unit : semOf(u) \in Sem /\ semOf(u) \in DevSem
  BY SemFacts DEF TypeOK
<1>2. OneDirection'
  BY DEF DeviceInv, OneDirection, Quiet
<1>3. Commanded'
  <2>1. ASSUME NEW u \in Unit, waiting'[semOf(u)] # <<>>
        PROVE  Len(waiting'[semOf(u)]) = 1 /\ device'[u] # "ready"
    <3>1. Len(waiting'[semOf(u)]) <= Len(waiting[semOf(u)])
      BY <1>1 DEF Quiet
    <3>2. waiting'[semOf(u)] \in Seq(Pcb) /\ waiting[semOf(u)] \in Seq(Pcb)
      BY <1>1
    <3> DEFINE before == waiting[semOf(u)]
               after  == waiting'[semOf(u)]
    <3>3. before \in Seq(Pcb) /\ after \in Seq(Pcb) /\ Len(after) <= Len(before)
      BY <3>1, <3>2
    <3>4. Len(after) # 0 /\ Len(after) \in Nat /\ Len(before) \in Nat
      BY <2>1, <3>3, LengthFacts
    <3>5. Len(before) # 0
      BY <3>3, <3>4
    <3>6. Len(before) = 1 /\ device[u] # "ready"
      BY <3>3, <3>5, LengthFacts DEF DeviceInv, Commanded
    <3>7. Len(after) = 1
      BY <3>3, <3>4, <3>6
    <3> QED  BY <3>6, <3>7 DEF Quiet
  <2> QED  BY <2>1 DEF Commanded, Quiet
<1>4. Covered'
  <2>1. Active' = Active  BY DEF Active, Quiet
  <2>2. Cardinality(Active) \in Nat  BY ActiveFinite DEF Active
  <2>3. Len(waiting[clockSemaphore]) \in Nat /\ Len(waiting'[clockSemaphore]) \in Nat
    BY <1>1
  <2>4. /\ softBlockedCount' - Len(waiting'[clockSemaphore])
             >= softBlockedCount - Len(waiting[clockSemaphore])
        /\ mode' = "panic" => softBlockedCount' <= 0
    BY DEF Quiet
  <2>5. softBlockedCount >= Len(waiting[clockSemaphore]) + Cardinality(Active)
    BY DEF DeviceInv, Covered
  <2>6. softBlockedCount' >= Len(waiting'[clockSemaphore]) + Cardinality(Active)
    BY <1>1, <2>2, <2>3, <2>4, <2>5
  <2> QED  BY <2>1, <2>4, <2>6 DEF Covered
<1> QED  BY <1>2, <1>3, <1>4 DEF DeviceInv

LEMMA DeviceStep ==
  ASSUME MaskedIO, OneWay
  PROVE  IInv /\ DeviceInv /\ [Next]_vars => DeviceInv'
<1> SUFFICES ASSUME IInv, DeviceInv, [Next]_vars PROVE DeviceInv'
  OBVIOUS
<1>1. TypeOK /\ KillsCurrent /\ RunsSomebody /\ ValuesCountWaiters
  BY DEF IInv
<1>2. TypeOK'
  BY <1>1, TypeStep
<1> QED
  BY <1>1, <1>2, QuietStep, CommandKeeps, CompletionKeeps, DeviceInterruptKeeps, QuietKeeps

----------------------------------------------------------------------------
(* Where a process that becomes ready comes from                           *)

(* x can run after the step, at once or when its turn comes.               *)
Released(x) == Contains(readyQueue', x) \/ (mode' = "run" /\ currentProcess' = x)

LEMMA SchedulerTakes ==
  ASSUME NEW ready \in Seq(Pcb), NEW processes, NEW softBlocked,
         scheduler(ready, processes, softBlocked), NEW x, Released(x)
  PROVE  Contains(ready, x)
<1>1. CASE ready = <<>>
  <2>1. readyQueue' = ready /\ mode' # "run"
    BY <1>1 DEF scheduler
  <2> QED  BY <2>1 DEF Released
<1>2. CASE ready # <<>>
  <2>1. readyQueue' = Tail(ready) /\ currentProcess' = Head(ready)
    BY <1>2 DEF scheduler
  <2>2. Contains(ready, Head(ready)) /\ \A y : Contains(Tail(ready), y) => Contains(ready, y)
    BY <1>2, TailFacts
  <2> QED  BY <2>1, <2>2 DEF Released
<1> QED  BY <1>1, <1>2

(* A process that waits for a device waits in one queue, is not ready and  *)
(* does not run.                                                           *)
LEMMA WaitsAlone ==
  ASSUME Placed, NEW u \in Unit, NEW p, Contains(waiting[semOf(u)], p)
  PROVE  /\ p \in Pcb /\ p_semAdd[p] = semOf(u) /\ p \notin pcbFree
         /\ ~Contains(readyQueue, p)
         /\ mode = "run" => p # currentProcess
         /\ \A s \in Sem : Contains(waiting[s], p) => s = semOf(u)
<1>1. semOf(u) \in Sem /\ NULL \notin Sem
  BY SemFacts
<1>2. p \in Pcb
  <2>1. waiting[semOf(u)] \in Seq(Pcb)  BY <1>1 DEF Placed, Apart, QueueTypes
  <2> QED  BY <2>1 DEF Contains
<1>3. p_semAdd[p] = semOf(u) /\ p_semAdd[p] # NULL
  BY <1>1, <1>2 DEF Placed, Apart
<1> QED  BY <1>2, <1>3 DEF Placed, Apart, Loose

LEMMA ReleaseStep ==
  ASSUME TypeOK, KillsCurrent, RunsSomebody, Placed, OneDirection, [Next]_vars,
         NEW u \in Unit, NEW p \in Pcb, Contains(waiting[semOf(u)], p), Released(p)
  PROVE  device[u] = "done"
<1>1. /\ p \notin pcbFree /\ ~Contains(readyQueue, p) /\ (mode = "run" => p # currentProcess)
      /\ \A s \in Sem : Contains(waiting[s], p) => s = semOf(u)
      /\ p_semAdd[p] # NULL
  BY WaitsAlone, SemFacts
<1>2. /\ readyQueue \in Seq(Pcb) /\ waiting \in [Sem -> Seq(Pcb)]
      /\ UserSem \subseteq Sem /\ clockSemaphore \in Sem
      /\ semOf(u) \notin UserSem /\ semOf(u) # clockSemaphore
      /\ semOf(u) \in Sem
  BY SemFacts DEF TypeOK
<1>3. /\ UNCHANGED <<mode, currentProcess>> => Contains(readyQueue', p)
      /\ mode' # "run" => Contains(readyQueue', p)
      /\ ~UNCHANGED <<readyQueue, mode, currentProcess>>
  BY <1>1 DEF Released
<1>4. ASSUME NEW s \in Sem, NEW softBlocked, blockCurrentProcessAt(s, softBlocked)
      PROVE  FALSE
  BY <1>1, <1>2, <1>4, SchedulerTakes DEF blockCurrentProcessAt
<1>5. CASE create_Process
  <2>1. UNCHANGED <<mode, currentProcess>>
    BY <1>5 DEF create_Process
  <2>2. PICK q \in pcbFree : readyQueue' = Append(readyQueue, q)
    BY <1>3, <1>5, <2>1 DEF create_Process
  <2>3. q \in Pcb  BY DEF TypeOK
  <2> QED  BY <1>1, <1>2, <1>3, <2>1, <2>2, <2>3, AppendFacts
<1>6. ASSUME NEW s \in UserSem, passeren(s) PROVE FALSE
  BY <1>2, <1>3, <1>4, <1>6 DEF passeren
<1>7. ASSUME NEW s \in UserSem, verhogen(s) PROVE FALSE
  <2>1. /\ waiting[s] # <<>> /\ readyQueue' = Append(readyQueue, Head(waiting[s]))
        /\ Contains(readyQueue', p)
    BY <1>3, <1>7 DEF verhogen, WakeOldest
  <2>2. Head(waiting[s]) \in Pcb /\ Contains(waiting[s], Head(waiting[s]))
    BY <1>2, <2>1, TailFacts
  <2>3. p = Head(waiting[s])
    BY <1>1, <1>2, <2>1, <2>2, AppendFacts
  <2> QED  BY <1>1, <1>2, <2>2, <2>3
<1>8. CASE wait_For_Clock
  BY <1>2, <1>3, <1>4, <1>8 DEF wait_For_Clock
<1>9. ASSUME NEW v \in Unit, CommandAndWait(v) \/ WaitForCommanded(v) PROVE FALSE
  BY <1>4, <1>9, SemFacts DEF CommandAndWait, WaitForCommanded, wait_For_IO
<1>10. CASE TerminateSelf
  <2> DEFINE ready == readyWithout(Last(stack))
  <2>1. ready \in Seq(Pcb) /\ \A x : Contains(ready, x) => Contains(readyQueue, x)
    BY <1>2, TakeOutFacts DEF readyWithout
  <2>2. \/ readyQueue' = ready /\ mode' \in {"corrupt", "kill"}
        \/ scheduler(ready, processCount', softBlockedCount)
    BY <1>10 DEF TerminateSelf
  <2> HIDE DEF ready
  <2> QED  BY <1>1, <1>3, <2>1, <2>2, SchedulerTakes
<1>11. CASE handlePLTInterrupt
  <2>1. /\ mode = "run" /\ currentProcess \in Pcb
        /\ scheduler(Append(readyQueue, currentProcess), processCount, softBlockedCount)
    BY <1>11 DEF handlePLTInterrupt, RunsSomebody
  <2>2. Append(readyQueue, currentProcess) \in Seq(Pcb)
    BY <1>2, <2>1, AppendFacts
  <2>3. Contains(Append(readyQueue, currentProcess), p)
    BY <2>1, <2>2, SchedulerTakes
  <2> QED  BY <1>1, <1>2, <2>1, <2>3, AppendFacts
<1>12. ASSUME NEW ready \in Seq(Pcb), NEW softBlocked, Resume(ready, softBlocked)
       PROVE  Contains(ready, p)
  BY <1>3, <1>12, SchedulerTakes DEF Resume
<1>13. CASE handleIntervalTimerInterrupt
  <2> DEFINE ready == readyQueue \o waiting[clockSemaphore]
  <2>1. /\ ready \in Seq(Pcb)
        /\ \A x : Contains(ready, x) <=>
                    Contains(readyQueue, x) \/ Contains(waiting[clockSemaphore], x)
    BY <1>2, ConcatFacts
  <2>2. Resume(ready, softBlockedCount')
    BY <1>13 DEF handleIntervalTimerInterrupt
  <2> HIDE DEF ready
  <2> QED  BY <1>1, <1>2, <1>12, <2>1, <2>2
<1>14. ASSUME NEW v \in Unit, handleDeviceInterrupt(<<v[1], v[2]>>) PROVE device[u] = "done"
  <2> DEFINE w == ServedUnit(v[1], v[2])
  <2>1. w \in Unit /\ device[w] = "done" /\ releaseSemAndUpdateStatus(semOf(w))
    BY <1>14, ServedUnitType, ServedIsDone DEF handleDeviceInterrupt
  <2> HIDE DEF w
  <2>2. ~Resume(readyQueue, softBlockedCount')
    BY <1>1, <1>2, <1>12
  <2>3. /\ waiting[semOf(w)] # <<>>
        /\ Resume(Append(readyQueue, Head(waiting[semOf(w)])), softBlockedCount')
    BY <2>1, <2>2 DEF releaseSemAndUpdateStatus
  <2>4. /\ Head(waiting[semOf(w)]) \in Pcb /\ semOf(w) \in Sem
        /\ Contains(waiting[semOf(w)], Head(waiting[semOf(w)]))
    BY <1>2, <2>1, <2>3, TailFacts, SemFacts
  <2> DEFINE first == Head(waiting[semOf(w)])
             ready == Append(readyQueue, first)
  <2>5. ready \in Seq(Pcb) /\ \A x : Contains(ready, x) <=> Contains(readyQueue, x) \/ x = first
    BY <1>2, <2>4, AppendFacts
  <2>6. Resume(ready, softBlockedCount')
    BY <2>3
  <2> HIDE DEF ready
  <2>7. p = first
    BY <1>1, <1>12, <2>5, <2>6
  <2>8. semOf(w) = semOf(u)
    BY <1>1, <2>4, <2>7
  <2>9. w = u
    BY <2>1, <2>8, SemOfInjective
  <2> QED  BY <2>1, <2>9
<1>15. ASSUME UNCHANGED readyQueue, mode' # "run" \/ UNCHANGED <<mode, currentProcess>> PROVE FALSE
  BY <1>1, <1>3, <1>15
<1>16. CASE terminate_Process \/ TerminateChild \/ UNCHANGED vars
  BY <1>15, <1>16 DEF terminate_Process, TerminateChild, vars
<1>17. ASSUME NEW v \in Unit, Command(v) \/ DeviceCompletes(v) PROVE FALSE
  BY <1>3, <1>17 DEF Command, DeviceCompletes, kernelVars
<1> QED
  BY <1>5, <1>6, <1>7, <1>8, <1>9, <1>10, <1>11, <1>13, <1>14, <1>16, <1>17
  DEF Next, SystemCall, Termination, Interrupt, Stay

----------------------------------------------------------------------------
(* The tree: its pointers are children lists, and no free block is in one. *)
(* The processes a termination has begun with are out of the tree, each    *)
(* once, so that each of their blocks is freed once.                       *)

FreeAreAlone == \A p \in pcbFree : tree.prnt[p] = NULL /\ tree.child[p] = NULL

DyingAreOut ==
  mode = "kill" => /\ \A i, j \in 1 .. Len(stack) : stack[i] = stack[j] => i = j
                   /\ \A i \in 1 .. Len(stack) :
                        stack[i] \notin pcbFree /\ tree.prnt[stack[i]] = NULL

TreeInv == /\ \E kids : Family(tree, kids)
           /\ FreeAreAlone /\ DyingAreOut /\ mode # "corrupt"

(* A step in which the tree, the free list and the calls of                *)
(* terminate_Process_rec stay as they are.                                 *)
TreeRests == /\ UNCHANGED <<tree, pcbFree>>
             /\ mode' = "kill" => mode = "kill" /\ stack' = stack
             /\ mode' = "corrupt" => mode = "corrupt"

LEMMA SchedulerModes ==
  ASSUME NEW ready, NEW processes, NEW softBlocked, scheduler(ready, processes, softBlocked)
  PROVE  mode' \in {"run", "wait", "halt", "panic"}
BY DEF scheduler

LEMMA TreeRestsStep ==
  ASSUME TypeOK, [Next]_vars
  PROVE  create_Process \/ terminate_Process \/ TerminateChild \/ TerminateSelf \/ TreeRests
<1>1. ASSUME NEW s \in UserSem, passeren(s) \/ verhogen(s) PROVE TreeRests
  <2>1. UNCHANGED <<tree, pcbFree, stack>>
    BY <1>1 DEF passeren, verhogen
  <2>2. mode' = mode \/ mode' \in {"run", "wait", "halt", "panic"}
    BY <1>1, SchedulerModes DEF passeren, verhogen, blockCurrentProcessAt
  <2> QED  BY <2>1, <2>2 DEF TreeRests
<1>2. CASE wait_For_Clock
  <2>1. UNCHANGED <<tree, pcbFree, stack>>
    BY <1>2 DEF wait_For_Clock
  <2>2. mode' = mode \/ mode' \in {"run", "wait", "halt", "panic"}
    BY <1>2, SchedulerModes DEF wait_For_Clock, blockCurrentProcessAt
  <2> QED  BY <2>1, <2>2 DEF TreeRests
<1>3. ASSUME NEW u \in Unit, CommandAndWait(u) \/ Command(u) \/ WaitForCommanded(u) PROVE TreeRests
  <2>1. CASE Command(u)
    BY <2>1 DEF Command, kernelVars, TreeRests
  <2>2. CASE wait_For_IO(u)
    <3>1. UNCHANGED <<tree, pcbFree, stack>>
      BY <2>2 DEF wait_For_IO
    <3>2. mode' \in {"run", "wait", "halt", "panic"}
      BY <2>2, SchedulerModes DEF wait_For_IO, blockCurrentProcessAt
    <3> QED  BY <3>1, <3>2 DEF TreeRests
  <2> QED  BY <1>3, <2>1, <2>2 DEF CommandAndWait, WaitForCommanded
<1>4. ASSUME NEW ready, NEW softBlocked, mode \in {"run", "wait"}, Resume(ready, softBlocked)
      PROVE  mode' \in {"run", "wait", "halt", "panic"}
  BY <1>4, SchedulerModes DEF Resume
<1>5. CASE Interrupt
  <2>1. UNCHANGED <<tree, pcbFree, stack>>
    BY <1>5 DEF Interrupt, handlePLTInterrupt, handleIntervalTimerInterrupt, handleDeviceInterrupt
  <2>2. CASE handlePLTInterrupt
    BY <2>1, <2>2, SchedulerModes DEF handlePLTInterrupt, TreeRests
  <2>3. CASE handleIntervalTimerInterrupt
    BY <1>4, <2>1, <2>3 DEF handleIntervalTimerInterrupt, TreeRests
  <2>4. ASSUME NEW u \in Unit, handleDeviceInterrupt(<<u[1], u[2]>>) PROVE TreeRests
    BY <1>4, <2>1, <2>4 DEF handleDeviceInterrupt, releaseSemAndUpdateStatus, TreeRests
  <2> QED  BY <1>5, <2>2, <2>3, <2>4 DEF Interrupt
<1>6. ASSUME NEW u \in Unit, DeviceCompletes(u) PROVE TreeRests
  BY <1>6 DEF DeviceCompletes, kernelVars, TreeRests
<1>7. CASE UNCHANGED vars
  BY <1>7 DEF vars, TreeRests
<1> QED
  BY <1>1, <1>2, <1>3, <1>5, <1>6, <1>7 DEF Next, SystemCall, Termination, Stay

LEMMA TreeInit == Init => TreeInv
<1> SUFFICES ASSUME Init PROVE TreeInv
  OBVIOUS
<1>1. \E kids : Family(tree, kids)
  BY FamilyStart DEF Init
<1>2. FreeAreAlone /\ DyingAreOut /\ mode # "corrupt"
  BY DEF Init, FreeAreAlone, DyingAreOut
<1> QED  BY <1>1, <1>2 DEF TreeInv

LEMMA CreateKeepsTree ==
  ASSUME TypeOK, Placed, RunsSomebody, TreeInv, create_Process
  PROVE  TreeInv'
<1>1. /\ mode = "run" /\ mode' = "run" /\ currentProcess \in Pcb /\ currentProcess \notin pcbFree
      /\ pcbFree \subseteq Pcb
  BY PlacedMeans DEF create_Process, Running, InOnePlaceAtMost, TypeOK
<1>2. CASE UNCHANGED <<pcbFree, tree>>
  BY <1>1, <1>2 DEF TreeInv, FreeAreAlone, DyingAreOut
<1>3. ASSUME NEW p \in pcbFree, pcbFree' = pcbFree \ {p},
             tree' = insertChild(allocTree(tree, p), currentProcess, p)
      PROVE  TreeInv'
  <2>1. PICK kids : Family(tree, kids)
    BY DEF TreeInv
  <2>2. p \in Pcb /\ tree.prnt[p] = NULL /\ tree.child[p] = NULL
    BY <1>1 DEF TreeInv, FreeAreAlone
  <2>3. tree' = insertChild(tree, currentProcess, p)
    BY <1>3, <2>1, <2>2, AllocChangesNothing
  <2>4. /\ Family(tree', [kids EXCEPT ![currentProcess] = Append(@, p)])
        /\ tree'.prnt = [tree.prnt EXCEPT ![p] = currentProcess]
        /\ \A r \in Pcb \ {currentProcess} : tree'.child[r] = tree.child[r]
    BY <1>1, <2>1, <2>2, <2>3, FamilyInsert
  <2>5. tree.prnt \in [Pcb -> PcbOrNull]
    BY <2>1, <2>2, FamilyFacts
  <2>6. ASSUME NEW r \in pcbFree' PROVE tree'.prnt[r] = NULL /\ tree'.child[r] = NULL
    <3>1. r \in pcbFree /\ r # p /\ r \in Pcb \ {currentProcess}
      BY <1>1, <1>3
    <3>2. tree.prnt[r] = NULL /\ tree.child[r] = NULL
      BY <3>1 DEF TreeInv, FreeAreAlone
    <3>3. tree'.prnt[r] = tree.prnt[r]
      BY <2>4, <2>5, <3>1
    <3> QED  BY <2>4, <3>1, <3>2, <3>3
  <2> QED  BY <1>1, <2>4, <2>6 DEF TreeInv, FreeAreAlone, DyingAreOut
<1> QED  BY <1>2, <1>3 DEF create_Process, allocPcb

(* What removeChild leaves is again a family without free blocks.          *)
LEMMA RemoveKeepsTree ==
  ASSUME TreeInv, pcbFree \subseteq Pcb, NEW kids, Family(tree, kids), NEW q \in Pcb, kids[q] # <<>>
  PROVE  LET u == removeChild(tree, q)
         IN  /\ \E k : Family(u, k)
             /\ \A p \in pcbFree : u.prnt[p] = NULL /\ u.child[p] = NULL
             /\ u.prnt = [tree.prnt EXCEPT ![tree.child[q]] = NULL]
             /\ tree.child[q] \in Pcb /\ tree.prnt[tree.child[q]] = q /\ tree.child[q] \notin pcbFree
<1> DEFINE u == removeChild(tree, q)
           c == tree.child[q]
<1>1. /\ c = Head(kids[q]) /\ c \in Pcb
      /\ Family(u, [kids EXCEPT ![q] = Tail(@)])
      /\ u.prnt = [tree.prnt EXCEPT ![c] = NULL]
      /\ \A r \in Pcb \ {q} : u.child[r] = tree.child[r]
  BY FamilyRemove
<1>2. tree.prnt \in [Pcb -> PcbOrNull] /\ kids[q] \in Seq(Pcb)
  BY FamilyFacts
<1>3. tree.prnt[c] = q
  BY <1>1, <1>2, TailFacts DEF Family
<1>4. q \notin pcbFree /\ c \notin pcbFree
  BY <1>1, <1>3, NullAssumption DEF TreeInv, FreeAreAlone
<1> HIDE DEF u, c
<1>5. ASSUME NEW p \in pcbFree PROVE u.prnt[p] = NULL /\ u.child[p] = NULL
  <2>1. tree.prnt[p] = NULL /\ tree.child[p] = NULL /\ p \in Pcb \ {q}
    BY <1>4 DEF TreeInv, FreeAreAlone
  <2> QED  BY <1>1, <1>2, <2>1
<1>6. \E k : Family(u, k)
  BY <1>1, Zenon
<1> QED  BY <1>1, <1>3, <1>4, <1>5, <1>6 DEF u, c

LEMMA TerminateKeepsTree ==
  ASSUME TypeOK, Placed, TreeInv, terminate_Process, ~severed'
  PROVE  TreeInv'
<1> DEFINE p == currentProcess
           q == tree.prnt[p]
<1>1. /\ p \in Pcb /\ p \notin pcbFree /\ pcbFree' = pcbFree /\ pcbFree \subseteq Pcb
      /\ tree' = outChild(tree, p) /\ stack' = <<p>> /\ mode' = "kill" /\ tree.nsib[p] = NULL
  BY PlacedMeans DEF terminate_Process, Running, InOnePlaceAtMost, TypeOK
<1>2. PICK kids : Family(tree, kids)
  BY DEF TreeInv
<1>3. /\ \E k : Family(tree', k)
      /\ \A r \in pcbFree : tree'.prnt[r] = NULL /\ tree'.child[r] = NULL
      /\ tree'.prnt[p] = NULL
  <2>1. CASE q = NULL
    <3>1. tree' = tree
      BY <1>1, <2>1, FamilyOutside
    <3> QED  BY <1>2, <2>1, <3>1 DEF TreeInv, FreeAreAlone
  <2>2. CASE q # NULL
    <3>1. /\ q \in Pcb /\ Contains(kids[q], p)
          /\ Family(tree', [kids EXCEPT ![q] = RemoveFirst(@, p)])
          /\ tree'.prnt = [tree.prnt EXCEPT ![p] = NULL]
          /\ \A r \in Pcb \ {q} : tree'.child[r] = tree.child[r]
      BY <1>1, <1>2, <2>2, FamilyYoungest
    <3>2. tree.prnt \in [Pcb -> PcbOrNull]
      BY <1>1, <1>2, FamilyFacts
    <3>3. q \notin pcbFree
      <4>1. kids[q] # <<>>
        BY <3>1 DEF Contains
      <4> QED  BY <1>2, <3>1, <4>1, FamilyFacts DEF TreeInv, FreeAreAlone
    <3> HIDE DEF p, q
    <3>4. ASSUME NEW r \in pcbFree PROVE tree'.prnt[r] = NULL /\ tree'.child[r] = NULL
      <4>1. tree.prnt[r] = NULL /\ tree.child[r] = NULL /\ r \in Pcb \ {q}
        BY <1>1, <3>3 DEF TreeInv, FreeAreAlone
      <4> QED  BY <3>1, <3>2, <4>1
    <3>5. \E k : Family(tree', k)
      BY <3>1, Zenon
    <3> QED  BY <1>1, <3>1, <3>2, <3>4, <3>5
  <2> QED  BY <2>1, <2>2
<1> HIDE DEF p, q
<1>4. Len(<<p>>) = 1 /\ <<p>>[1] = p
  OBVIOUS
<1>5. DyingAreOut'
  <2>1. \A i \in 1 .. Len(stack') : i = 1 /\ stack'[i] = p
    BY <1>1, <1>4
  <2> QED  BY <1>1, <1>3, <2>1 DEF DyingAreOut
<1> QED  BY <1>1, <1>3, <1>5 DEF TreeInv, FreeAreAlone

LEMMA ChildKeepsTree ==
  ASSUME TypeOK, KillsCurrent, TreeInv, TerminateChild
  PROVE  TreeInv'
<1> DEFINE q == Last(stack)
           c == tree.child[q]
           u == removeChild(tree, q)
<1>1. /\ mode = "kill" /\ mode' = "kill" /\ pcbFree' = pcbFree /\ pcbFree \subseteq Pcb
      /\ c # NULL /\ tree' = outChild(u, c) /\ stack' = Append(stack, c)
  BY DEF TerminateChild, TypeOK, emptyChild
<1>2. stack \in Seq(Pcb) /\ q \in Pcb
  BY <1>1 DEF TypeOK, KillsCurrent, Last
<1>3. PICK kids : Family(tree, kids)
  BY DEF TreeInv
<1>4. kids[q] # <<>>
  BY <1>1, <1>2, <1>3, FamilyFacts
<1> HIDE DEF q
<1>5. /\ \E k : Family(u, k)
      /\ \A p \in pcbFree : u.prnt[p] = NULL /\ u.child[p] = NULL
      /\ u.prnt = [tree.prnt EXCEPT ![c] = NULL]
      /\ c \in Pcb /\ tree.prnt[c] = q /\ c \notin pcbFree
  BY <1>1, <1>2, <1>3, <1>4, RemoveKeepsTree
<1> HIDE DEF u, c
<1>6. tree.prnt \in [Pcb -> PcbOrNull]
  BY <1>2, <1>3, FamilyFacts
<1>7. tree' = u
  BY <1>1, <1>5, <1>6 DEF outChild
<1>8. /\ \A i, j \in 1 .. Len(stack) : stack[i] = stack[j] => i = j
      /\ \A i \in 1 .. Len(stack) : /\ stack[i] \in Pcb /\ stack[i] \notin pcbFree
                                    /\ tree.prnt[stack[i]] = NULL /\ stack[i] # c
  BY <1>1, <1>2, <1>5, NullAssumption DEF TreeInv, DyingAreOut
<1>9. /\ Len(stack') = Len(stack) + 1 /\ stack'[Len(stack) + 1] = c
      /\ \A i \in 1 .. Len(stack) : stack'[i] = stack[i]
      /\ Len(stack) \in Nat
  BY <1>1, <1>2, <1>5
<1>10. \A i \in 1 .. Len(stack') : i \in 1 .. Len(stack) \/ i = Len(stack) + 1
  BY <1>9
<1>11. \A p \in Pcb : tree.prnt[p] = NULL \/ p = c => tree'.prnt[p] = NULL
  BY <1>5, <1>6, <1>7
<1>12. DyingAreOut'
  <2>1. \A i, j \in 1 .. Len(stack') : stack'[i] = stack'[j] => i = j
    BY <1>8, <1>9, <1>10
  <2>2. \A i \in 1 .. Len(stack') : stack'[i] \notin pcbFree' /\ tree'.prnt[stack'[i]] = NULL
    BY <1>1, <1>5, <1>8, <1>9, <1>10, <1>11
  <2> QED  BY <2>1, <2>2 DEF DyingAreOut
<1> QED  BY <1>1, <1>5, <1>7, <1>12 DEF TreeInv, FreeAreAlone

LEMMA SelfKeepsTree ==
  ASSUME TypeOK, KillsCurrent, TreeInv, TerminateSelf
  PROVE  TreeInv'
<1> DEFINE p == Last(stack)
           n == Len(stack)
<1>1. stack \in Seq(Pcb) /\ n \in Nat /\ n > 0 /\ p \in Pcb /\ p = stack[n]
  BY DEF TerminateSelf, TypeOK, KillsCurrent, Last
<1>2. /\ \A i, j \in 1 .. n : stack[i] = stack[j] => i = j
      /\ \A i \in 1 .. n : stack[i] \notin pcbFree /\ tree.prnt[stack[i]] = NULL
  BY DEF TerminateSelf, TreeInv, DyingAreOut
<1>3. n \in 1 .. n
  BY <1>1
<1>4. p \notin pcbFree /\ tree.prnt[p] = NULL
  BY <1>1, <1>2, <1>3
<1>5. /\ mode = "kill" /\ tree.child[p] = NULL /\ tree' = tree
      /\ pcbFree' = pcbFree \cup {p} /\ stack' = Front(stack)
  BY DEF TerminateSelf, emptyChild, freePcb
<1>6. mode' = "kill" \/ mode' \in {"run", "wait", "halt", "panic"}
  BY <1>4, SchedulerModes DEF TerminateSelf
<1>7. FreeAreAlone'
  BY <1>4, <1>5 DEF TreeInv, FreeAreAlone
<1>8. /\ Len(stack') = n - 1
      /\ \A i \in 1 .. n - 1 : stack'[i] = stack[i]
  <2>1. stack' = SubSeq(stack, 1, Len(stack) - 1)
    BY <1>5 DEF Front
  <2>2. stack # <<>>
    BY <1>1
  <2> QED  BY <1>1, <2>1, <2>2, FrontFacts
<1> HIDE DEF n, p
<1>9. ASSUME NEW i \in 1 .. n - 1 PROVE i \in 1 .. n /\ stack[i] # p
  BY <1>1, <1>2, <1>3
<1>10. DyingAreOut'
  <2>1. \A i \in 1 .. Len(stack') : i \in 1 .. n - 1
    BY <1>8
  <2> QED  BY <1>2, <1>5, <1>8, <1>9, <2>1 DEF DyingAreOut
<1> QED  BY <1>5, <1>6, <1>7, <1>10 DEF TreeInv

(* What has been severed stays so.                                         *)
LEMMA SeveredStays == [Next]_vars /\ ~severed' => ~severed
<1> SUFFICES ASSUME [Next]_vars, ~severed', severed PROVE FALSE
  OBVIOUS
<1>1. CASE UNCHANGED severed
  BY <1>1
<1>2. CASE terminate_Process
  BY <1>2 DEF terminate_Process
<1>3. CASE SystemCall /\ ~terminate_Process
  BY <1>1, <1>3
  DEF SystemCall, create_Process, passeren, verhogen, wait_For_Clock, CommandAndWait, Command,
      WaitForCommanded, wait_For_IO, kernelVars
<1>4. CASE Termination
  BY <1>1, <1>4 DEF Termination, TerminateChild, TerminateSelf
<1>5. CASE Interrupt
  BY <1>1, <1>5
  DEF Interrupt, handlePLTInterrupt, handleIntervalTimerInterrupt, handleDeviceInterrupt
<1>6. ASSUME NEW u \in Unit, DeviceCompletes(u) PROVE FALSE
  BY <1>1, <1>6 DEF DeviceCompletes, kernelVars
<1>7. CASE Stay \/ UNCHANGED vars
  BY <1>1, <1>7 DEF Stay, vars
<1> QED  BY <1>2, <1>3, <1>4, <1>5, <1>6, <1>7 DEF Next

TreeUnlessSevered == ~severed => TreeInv

LEMMA TreeStep ==
  ASSUME IInv, TreeUnlessSevered, [Next]_vars
  PROVE  TreeUnlessSevered'
<1> SUFFICES ASSUME ~severed' PROVE TreeInv'
  BY DEF TreeUnlessSevered
<1> USE DEF IInv
<1>1. TreeInv
  BY SeveredStays DEF TreeUnlessSevered
<1>2. CASE TreeRests
  BY <1>1, <1>2 DEF TreeRests, TreeInv, FreeAreAlone, DyingAreOut
<1> QED
  BY <1>1, <1>2, TreeRestsStep, CreateKeepsTree, TerminateKeepsTree, ChildKeepsTree, SelfKeepsTree

----------------------------------------------------------------------------
(* The theorems                                                            *)

LEMMA DeviceInductive ==
  ASSUME MaskedIO, OneWay
  PROVE  Spec => [](IInv /\ DeviceInv)
<1>1. Init => DeviceInv
  BY DeviceInit
<1>2. IInv /\ DeviceInv /\ [Next]_vars => DeviceInv'
  BY DeviceStep
<1> QED  BY <1>1, <1>2, Inductive, PTL DEF Spec

(* softBlockedCount is at least the number of events still to come.        *)
THEOREM SoftBlockedCorrect ==
  ASSUME MaskedIO, OneWay
  PROVE  Spec => []SoftBlockedCoversEvents
<1>1. DeviceInv => SoftBlockedCoversEvents
  BY DEF DeviceInv, Covered, SoftBlockedCoversEvents, Active
<1> QED  BY <1>1, DeviceInductive, PTL

(* The scheduler stops the machine only when no event can come any more.   *)
THEOREM PanicCorrect ==
  ASSUME MaskedIO, OneWay
  PROVE  Spec => []PanicIsDeadlock
<1>1. IInv /\ DeviceInv => PanicIsDeadlock
  <2> SUFFICES ASSUME TypeOK, DeviceInv, mode = "panic"
               PROVE  /\ waiting[clockSemaphore] = <<>>
                      /\ \A u \in Unit : device[u] = "ready"
    BY DEF IInv, PanicIsDeadlock
  <2>1. waiting[clockSemaphore] \in Seq(Pcb)  BY SemFacts DEF TypeOK
  <2>2. IsFiniteSet(Active) /\ Cardinality(Active) \in Nat  BY ActiveFinite DEF Active
  <2>3. Len(waiting[clockSemaphore]) \in Nat /\ softBlockedCount \in Int
    BY <2>1 DEF TypeOK
  <2>4. /\ softBlockedCount >= Len(waiting[clockSemaphore]) + Cardinality(Active)
        /\ softBlockedCount <= 0
    BY DEF DeviceInv, Covered
  <2>5. Len(waiting[clockSemaphore]) = 0 /\ Cardinality(Active) = 0
    BY <2>2, <2>3, <2>4
  <2>6. Active = {}
    BY <2>2, <2>5, FS_EmptySet
  <2> QED  BY <2>1, <2>5, <2>6 DEF Active
<1> QED  BY <1>1, DeviceInductive, PTL

(* A process that waits for a device waits for an operation that is on: no *)
(* completion came before the process blocked.                             *)
THEOREM CompletionsCorrect ==
  ASSUME MaskedIO, OneWay
  PROVE  Spec => []NoCompletionLost
<1>1. DeviceInv => NoCompletionLost
  BY DEF DeviceInv, Commanded, NoCompletionLost
<1> QED  BY <1>1, DeviceInductive, PTL

(* ... and it is released only when the operation of its own register has  *)
(* ended, whatever the other half of a terminal does.                      *)
THEOREM ReleasesCorrect ==
  ASSUME MaskedIO, OneWay
  PROVE  Spec => ReleasedByItsOwnDevice
<1>1. IInv /\ DeviceInv /\ [Next]_vars
        => [\A u \in Unit, p \in Pcb :
              /\ Contains(waiting[semOf(u)], p)
              /\ Contains(readyQueue', p) \/ (mode' = "run" /\ currentProcess' = p)
              => device[u] = "done"]_vars
  BY ReleaseStep DEF IInv, DeviceInv, Released
<1> QED  BY <1>1, DeviceInductive, PTL DEF Spec, ReleasedByItsOwnDevice

LEMMA TreeInductive == Spec => [](IInv /\ TreeUnlessSevered)
<1>1. Init => TreeUnlessSevered
  BY TreeInit DEF TreeUnlessSevered
<1>2. IInv /\ TreeUnlessSevered /\ [Next]_vars => TreeUnlessSevered'
  BY TreeStep
<1> QED  BY <1>1, <1>2, Inductive, PTL DEF Spec

(* Until a process with a younger sibling terminates, all the progeny goes *)
(* with whoever terminates: no process names a free block as its parent.   *)
THEOREM OrphansCorrect == Spec => []NoOrphansUnlessSevered
<1>1. IInv /\ TreeUnlessSevered => NoOrphansUnlessSevered
  <2> SUFFICES ASSUME IInv, TreeInv, NEW p \in Pcb \ pcbFree, tree.prnt[p] \in pcbFree
               PROVE  FALSE
    BY DEF NoOrphans, NoOrphansUnlessSevered, TreeUnlessSevered
  <2> DEFINE q == tree.prnt[p]
  <2>1. PICK kids : Family(tree, kids)
    BY DEF TreeInv
  <2>2. q \in Pcb
    BY DEF IInv, TypeOK
  <2>3. Contains(kids[q], p)
    BY <2>1, <2>2 DEF Family
  <2>4. kids[q] = <<>>
    BY <2>1, <2>2, FamilyFacts DEF TreeInv, FreeAreAlone
  <2> QED  BY <2>3, <2>4 DEF Contains
<1> QED  BY <1>1, TreeInductive, PTL

(* ... and no block is freed twice, so processCount is exact.              *)
THEOREM ExactCountCorrect == Spec => []CountExactUnlessSevered
<1>1. IInv /\ TreeUnlessSevered => CountExactUnlessSevered
  BY DEF IInv, TreeUnlessSevered, TreeInv, CountsProcesses, ProcessCountExact, CountExactUnlessSevered
<1> QED  BY <1>1, TreeInductive, PTL
=============================================================================
