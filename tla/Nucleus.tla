------------------------------- MODULE Nucleus ------------------------------
(***************************************************************************)
(* The PandOS nucleus: the scheduler, the nucleus system calls and the     *)
(* interrupt handlers (scheduler.c, nucleousSystemCalls.c, interrupts.c    *)
(* and init.c) over the queues and the tree of pcb.c and the semaphore     *)
(* list of asl.c.                                                          *)
(*                                                                         *)
(* A handler runs with interrupts masked, so it is one action, except the  *)
(* recursion of terminate_Process_rec, which is one action per call and    *)
(* return.  Between handlers the current process executes: it may make any *)
(* system call, write a command to a device, or be interrupted.            *)
(*                                                                         *)
(* The ready queue and the queues of blocked processes are sequences (see  *)
(* ProcQueues and Asl), the tree keeps its pointers (PcbLinks), because    *)
(* what termination does depends on them.  freePcb of a process that is    *)
(* free already breaks the ring of free blocks: that is the mode "corrupt",*)
(* in which nothing more is modelled.                                      *)
(***************************************************************************)
EXTENDS PcbLinks, Integers, SequencesExt

CONSTANTS
  UserSem,       \* semaphores of the processes, by address
  Unit,          \* device registers in use: <<line, device number, receiver>>
  DevSemInit,    \* the device semaphores at the start: 0, or 1 (test_phase_3)
  MaskedIO,      \* a command and the IOWAIT after it with interrupts disabled
  OneWay,        \* a terminal is commanded in one direction at a time
  MaxVal,        \* bound: no semaphore is raised above it
  MaxSoft        \* bound: softBlockedCount stays within -MaxSoft .. MaxSoft

DEVICE_NUM == 49
DISKINT == 3
TERMINT == 7
DEVPERINT == 8

clockSemaphore == DEVICE_NUM - 1

(* Defect: both halves of a terminal share a semaphore.                    *)
getSemIndex_OnePerTerminal(interruptLine, deviceNo, termIsRECV) ==
  (interruptLine - DISKINT) * DEVPERINT + deviceNo

(* Disks to printers have one register and one semaphore per device, a     *)
(* terminal has a receiver (1) and a transmitter (0) with one each.  The   *)
(* branch of the interval timer (clockSemaphore) and the PANIC for other   *)
(* lines are left out: the calls modelled are for the lines of Unit.       *)
getSemIndex(interruptLine, deviceNo, termIsRECV) ==
  IF interruptLine = TERMINT /\ termIsRECV = 0
  THEN (interruptLine - DISKINT + 1) * DEVPERINT + deviceNo
  ELSE (interruptLine - DISKINT) * DEVPERINT + deviceNo

semOf(u) == getSemIndex(u[1], u[2], u[3])

DevSem == {semOf(u) : u \in Unit}
Sem == UserSem \cup DevSem \cup {clockSemaphore}

ASSUME NucleusAssumption ==
  /\ IsFiniteSet(Pcb)
  /\ Unit \subseteq (DISKINT .. TERMINT) \X (0 .. DEVPERINT - 1) \X {0, 1}
  /\ \A u \in Unit : u[1] # TERMINT => u[3] = 0
  /\ \A u \in Unit : u[1] = TERMINT => {<<TERMINT, u[2], 0>>, <<TERMINT, u[2], 1>>} \subseteq Unit
  /\ UserSem \cap Int = {}
  /\ NULL \notin UserSem \cup Int \cup Unit
  /\ DevSemInit \in {0, 1}
  /\ {MaskedIO, OneWay} \subseteq BOOLEAN
  /\ MaxVal \in Nat /\ MaxSoft \in Nat

VARIABLES
  pcbFree,           \* the blocks on the free list
  tree,              \* the tree fields of every block
  p_semAdd,          \* the semaphore each process is blocked at, or NULL
  readyQueue,        \* the ready processes, oldest first
  waiting,           \* the processes blocked at each semaphore, oldest first
  sem,               \* the value of each semaphore
  processCount, softBlockedCount,
  currentProcess,
  mode,              \* what the processor does
  stack,             \* the active calls of terminate_Process_rec, outermost first
  device,            \* the status of every device register
  pending,           \* the register a process has commanded but not yet waited for
  severed            \* history: a process with a younger sibling has terminated

vars == <<pcbFree, tree, p_semAdd, readyQueue, waiting, sem, processCount,
          softBlockedCount, currentProcess, mode, stack, device, pending, severed>>

kernelVars == <<pcbFree, tree, p_semAdd, readyQueue, waiting, sem, processCount,
                softBlockedCount, currentProcess, mode, stack, severed>>

Stopped == mode \in {"halt", "panic", "corrupt"}

(* main has called initPcbs, initASL and scheduler: the first process runs.*)
Init ==
  \E first \in Pcb :
    /\ pcbFree = Pcb \ {first}
    /\ tree = [prnt |-> [p \in Pcb |-> NULL], child |-> [p \in Pcb |-> NULL],
               nsib |-> [p \in Pcb |-> NULL], psib  |-> [p \in Pcb |-> NULL]]
    /\ p_semAdd = [p \in Pcb |-> NULL]
    /\ readyQueue = <<>>
    /\ waiting = [s \in Sem |-> <<>>]
    /\ sem \in [Sem -> {0, 1}]
    /\ \A s \in DevSem \cup {clockSemaphore} : sem[s] = DevSemInit
    /\ processCount = 1
    /\ softBlockedCount = 0
    /\ currentProcess = first
    /\ mode = "run"
    /\ stack = <<>>
    /\ device = [u \in Unit |-> "ready"]
    /\ pending = [p \in Pcb |-> NULL]
    /\ severed = FALSE

----------------------------------------------------------------------------
(* The scheduler, entered with these values of the ready queue and of the  *)
(* two counters.                                                           *)

(* Defect: headProcQ in place of removeProcQ.                              *)
scheduler_HeadStays(ready, processes, softBlocked) ==
  /\ readyQueue' = ready
  /\ IF ready # <<>>
     THEN currentProcess' = Head(ready) /\ mode' = "run"
     ELSE /\ UNCHANGED currentProcess
          /\ mode' = IF processes = 0 THEN "halt" ELSE IF softBlocked > 0 THEN "wait" ELSE "panic"

(* Defect: the last blocked process is not counted.                        *)
scheduler_OffByOne(ready, processes, softBlocked) ==
  IF ready # <<>>
  THEN readyQueue' = Tail(ready) /\ currentProcess' = Head(ready) /\ mode' = "run"
  ELSE /\ readyQueue' = ready
       /\ currentProcess' = IF softBlocked > 1 THEN NULL ELSE currentProcess
       /\ mode' = IF processes = 0 THEN "halt" ELSE IF softBlocked > 1 THEN "wait" ELSE "panic"

scheduler(ready, processes, softBlocked) ==
  /\ readyQueue' = IF ready = <<>> THEN ready ELSE Tail(ready)
  /\ currentProcess' = IF ready # <<>> THEN Head(ready)
                       ELSE IF processes > 0 /\ softBlocked > 0 THEN NULL
                       ELSE currentProcess
  /\ mode' = IF ready # <<>> THEN "run"
             ELSE IF processes = 0 THEN "halt"
             ELSE IF softBlocked > 0 THEN "wait"
             ELSE "panic"

(* blockCurrentProcessAt(s), then the scheduler.                           *)
blockCurrentProcessAt(s, softBlocked) ==
  /\ waiting' = [waiting EXCEPT ![s] = Append(@, currentProcess)]
  /\ p_semAdd' = [p_semAdd EXCEPT ![currentProcess] = s]
  /\ softBlockedCount' = softBlocked
  /\ scheduler(readyQueue, processCount, softBlocked)

----------------------------------------------------------------------------
(* The nucleus system calls of the current process                         *)

(* A process between its command and its IOWAIT makes no other call.       *)
Running == mode = "run" /\ pending[currentProcess] = NULL

(* The walk of insertChild to the last sibling ends; where it does not,    *)
(* the nucleus hangs in it.                                                *)
SiblingsEnd(t, p) == emptyChild(t, p) \/ \E q \in Pcb : IsLastSibling(t, t.child[p], q)

(* Any free block: ProcQueues has the order of the free list.              *)
allocPcb(p) == /\ pcbFree' = pcbFree \ {p}
               /\ processCount' = processCount + 1

create_Process ==
  /\ Running
  /\ \/ /\ pcbFree = {}
        /\ UNCHANGED <<pcbFree, tree, readyQueue, processCount>>
     \/ \E p \in pcbFree :
          /\ SiblingsEnd(allocTree(tree, p), currentProcess)
          /\ allocPcb(p)
          /\ readyQueue' = Append(readyQueue, p)
          /\ tree' = insertChild(allocTree(tree, p), currentProcess, p)
  /\ UNCHANGED <<p_semAdd, waiting, sem, softBlockedCount, currentProcess, mode,
                 stack, device, pending, severed>>

passeren(s) ==
  /\ Running
  /\ sem' = [sem EXCEPT ![s] = @ - 1]
  /\ IF sem[s] - 1 < 0
     THEN blockCurrentProcessAt(s, softBlockedCount)
     ELSE UNCHANGED <<p_semAdd, readyQueue, waiting, softBlockedCount,
                      currentProcess, mode>>
  /\ UNCHANGED <<pcbFree, tree, processCount, stack, device, pending, severed>>

(* Defect: the result of removeBlocked is not compared with NULL.          *)
WakeOldest_NoTest(s) ==
  /\ readyQueue' = Append(readyQueue, IF waiting[s] = <<>> THEN NULL ELSE Head(waiting[s]))
  /\ waiting' = [waiting EXCEPT ![s] = IF @ = <<>> THEN @ ELSE Tail(@)]
  /\ p_semAdd' = [p \in Pcb |-> IF waiting[s] # <<>> /\ p = Head(waiting[s])
                                THEN NULL ELSE p_semAdd[p]]

(* Defect: removeBlocked leaves p_semAdd as it is.                         *)
WakeOldest_SemAddStays(s) ==
  IF waiting[s] = <<>>
  THEN UNCHANGED <<p_semAdd, waiting, readyQueue>>
  ELSE /\ waiting' = [waiting EXCEPT ![s] = Tail(@)]
       /\ readyQueue' = Append(readyQueue, Head(waiting[s]))
       /\ UNCHANGED p_semAdd

(* removeBlocked(s) into the ready queue; nothing when nobody waits.       *)
WakeOldest(s) ==
  IF waiting[s] = <<>>
  THEN UNCHANGED <<p_semAdd, waiting, readyQueue>>
  ELSE /\ p_semAdd' = [p_semAdd EXCEPT ![Head(waiting[s])] = NULL]
       /\ waiting' = [waiting EXCEPT ![s] = Tail(@)]
       /\ readyQueue' = Append(readyQueue, Head(waiting[s]))

verhogen(s) ==
  /\ Running /\ sem[s] < MaxVal
  /\ sem' = [sem EXCEPT ![s] = @ + 1]
  /\ WakeOldest(s)
  /\ UNCHANGED <<pcbFree, tree, processCount, softBlockedCount, currentProcess,
                 mode, stack, device, pending, severed>>

wait_For_IO(u) ==
  /\ softBlockedCount < MaxSoft
  /\ sem' = [sem EXCEPT ![semOf(u)] = @ - 1]
  /\ blockCurrentProcessAt(semOf(u), softBlockedCount + 1)
  /\ UNCHANGED <<pcbFree, tree, processCount, stack, severed>>

(* Defect: the value is tested before it is decremented.                   *)
wait_For_Clock_TestsFirst ==
  /\ Running /\ softBlockedCount < MaxSoft
  /\ sem' = [sem EXCEPT ![clockSemaphore] = @ - 1]
  /\ IF sem[clockSemaphore] < 0
     THEN blockCurrentProcessAt(clockSemaphore, softBlockedCount + 1)
     ELSE UNCHANGED <<p_semAdd, readyQueue, waiting, softBlockedCount,
                      currentProcess, mode>>
  /\ UNCHANGED <<pcbFree, tree, processCount, stack, device, pending, severed>>

(* Defect: the waiting process is not counted in softBlockedCount.         *)
wait_For_Clock_NotCounted ==
  /\ Running /\ softBlockedCount < MaxSoft
  /\ sem' = [sem EXCEPT ![clockSemaphore] = @ - 1]
  /\ IF sem[clockSemaphore] - 1 < 0
     THEN blockCurrentProcessAt(clockSemaphore, softBlockedCount)
     ELSE UNCHANGED <<p_semAdd, readyQueue, waiting, softBlockedCount,
                      currentProcess, mode>>
  /\ UNCHANGED <<pcbFree, tree, processCount, stack, device, pending, severed>>

wait_For_Clock ==
  /\ Running /\ softBlockedCount < MaxSoft
  /\ sem' = [sem EXCEPT ![clockSemaphore] = @ - 1]
  /\ IF sem[clockSemaphore] - 1 < 0
     THEN blockCurrentProcessAt(clockSemaphore, softBlockedCount + 1)
     ELSE UNCHANGED <<p_semAdd, readyQueue, waiting, softBlockedCount,
                      currentProcess, mode>>
  /\ UNCHANGED <<pcbFree, tree, processCount, stack, device, pending, severed>>

----------------------------------------------------------------------------
(* Commands to the devices, by the processes (p2test.c, p3test.c and       *)
(* supportSystemCalls.c).  A semaphore of theirs gives one process at a    *)
(* time the use of a register, and it commands a register that is ready.   *)

MayCommand(u) ==
  /\ device[u] = "ready"
  /\ waiting[semOf(u)] = <<>>
  /\ \A p \in Pcb : pending[p] # u
  /\ OneWay /\ u[1] = TERMINT => device[<<TERMINT, u[2], 1 - u[3]>>] = "ready"

(* disable_interrupts, the command, and SYSCALL(IOWAIT, ...).              *)
CommandAndWait(u) ==
  /\ MaskedIO /\ Running /\ MayCommand(u)
  /\ device' = [device EXCEPT ![u] = "busy"]
  /\ wait_For_IO(u)
  /\ UNCHANGED pending

(* The same two steps with interrupts enabled.                             *)
Command(u) ==
  /\ ~MaskedIO /\ Running /\ MayCommand(u)
  /\ device' = [device EXCEPT ![u] = "busy"]
  /\ pending' = [pending EXCEPT ![currentProcess] = u]
  /\ UNCHANGED kernelVars

WaitForCommanded(u) ==
  /\ mode = "run" /\ pending[currentProcess] = u
  /\ pending' = [pending EXCEPT ![currentProcess] = NULL]
  /\ wait_For_IO(u)
  /\ UNCHANGED device

----------------------------------------------------------------------------
(* Termination: of the current process by TERMPROCESS, or by passupOrDie   *)
(* when it has no support structure.                                       *)

(* outChild does what it should while the process has no younger sibling   *)
(* (see ProcTree); severed remembers when it had one.                      *)
terminate_Process ==
  /\ Running
  /\ severed' = (severed \/ tree.nsib[currentProcess] # NULL)
  /\ tree' = outChild(tree, currentProcess)
  /\ stack' = <<currentProcess>>
  /\ mode' = "kill"
  /\ UNCHANGED <<pcbFree, p_semAdd, readyQueue, waiting, sem, processCount,
                 softBlockedCount, currentProcess, device, pending>>

(* terminate_Process_rec calls itself for the first child; removeChild has *)
(* cleared the child's p_prnt, so its outChild does nothing.               *)
TerminateChild ==
  LET current == Last(stack)
  IN  /\ mode = "kill"
      /\ ~emptyChild(tree, current)
      /\ tree' = outChild(removeChild(tree, current), tree.child[current])
      /\ stack' = Append(stack, tree.child[current])
      /\ UNCHANGED <<pcbFree, p_semAdd, readyQueue, waiting, sem, processCount,
                     softBlockedCount, currentProcess, mode, device, pending, severed>>

(* outProcQ and outBlocked on a sequence: take p out where it stands.      *)
takeOut(queue, p) ==
  IF Contains(queue, p)
  THEN RemoveAt(queue, CHOOSE i \in DOMAIN queue : queue[i] = p)
  ELSE queue

(* Defect: a blocked process is taken out without a V on its semaphore.    *)
leaveQueue_NoV(p) ==
  IF p_semAdd[p] = NULL
  THEN UNCHANGED <<sem, waiting, p_semAdd>>
  ELSE /\ waiting' = [waiting EXCEPT ![p_semAdd[p]] = takeOut(@, p)]
       /\ p_semAdd' = [p_semAdd EXCEPT ![p] = NULL]
       /\ UNCHANGED sem

(* A blocked process leaves the queue of its semaphore; one that is not    *)
(* blocked leaves the ready queue, if it is there.                         *)
leaveQueue(p) ==
  IF p_semAdd[p] = NULL
  THEN UNCHANGED <<sem, waiting, p_semAdd>>
  ELSE /\ sem' = [sem EXCEPT ![p_semAdd[p]] = @ + 1]
       /\ waiting' = [waiting EXCEPT ![p_semAdd[p]] = takeOut(@, p)]
       /\ p_semAdd' = [p_semAdd EXCEPT ![p] = NULL]

readyWithout(p) == IF p_semAdd[p] = NULL THEN takeOut(readyQueue, p) ELSE readyQueue

(* Defect: the terminated process is not counted off.                      *)
freePcb_NotCounted(p) == pcbFree' = pcbFree \cup {p} /\ UNCHANGED processCount

freePcb(p) == /\ pcbFree' = pcbFree \cup {p}
              /\ processCount' = processCount - 1

(* The rest of terminate_Process_rec, when no child is left.  When the     *)
(* outermost call returns, terminate_Process calls the scheduler.          *)
TerminateSelf ==
  LET current == Last(stack)
      ready   == readyWithout(current)
  IN  /\ mode = "kill"
      /\ emptyChild(tree, current)
      /\ leaveQueue(current)
      /\ freePcb(current)
      /\ pending' = [pending EXCEPT ![current] = NULL]
      /\ stack' = Front(stack)
      /\ IF current \in pcbFree
         THEN readyQueue' = ready /\ mode' = "corrupt" /\ UNCHANGED currentProcess
         ELSE IF Len(stack) > 1
         THEN readyQueue' = ready /\ UNCHANGED <<mode, currentProcess>>
         ELSE scheduler(ready, processCount', softBlockedCount)
      /\ UNCHANGED <<tree, softBlockedCount, device, severed>>

----------------------------------------------------------------------------
(* Interrupts: taken while a process runs or the processor waits           *)

(* The end of handleInterrupts: back to the process that was interrupted,  *)
(* or to the scheduler when there was none.                                *)
Resume(ready, softBlocked) ==
  IF currentProcess # NULL
  THEN readyQueue' = ready /\ UNCHANGED <<currentProcess, mode>>
  ELSE scheduler(ready, processCount, softBlocked)

(* Defect: the interrupted process is not put back into the ready queue.   *)
handlePLTInterrupt_NoInsert ==
  /\ mode = "run"
  /\ scheduler(readyQueue, processCount, softBlockedCount)
  /\ UNCHANGED <<pcbFree, tree, p_semAdd, waiting, sem, processCount,
                 softBlockedCount, stack, device, pending, severed>>

(* Defect: the interrupted process simply goes on.                         *)
handlePLTInterrupt_NoSwitch == mode = "run" /\ UNCHANGED vars

handlePLTInterrupt ==
  /\ mode = "run"
  /\ scheduler(Append(readyQueue, currentProcess), processCount, softBlockedCount)
  /\ UNCHANGED <<pcbFree, tree, p_semAdd, waiting, sem, processCount,
                 softBlockedCount, stack, device, pending, severed>>

(* Defect: the semaphore is reset and nobody is released.                  *)
handleIntervalTimerInterrupt_NoRelease ==
  /\ mode \in {"run", "wait"}
  /\ sem' = [sem EXCEPT ![clockSemaphore] = 0]
  /\ Resume(readyQueue, softBlockedCount)
  /\ UNCHANGED <<pcbFree, tree, p_semAdd, waiting, processCount, softBlockedCount,
                 stack, device, pending, severed>>

(* Every process that waits for the clock becomes ready, oldest first.     *)
handleIntervalTimerInterrupt ==
  LET woken == waiting[clockSemaphore]
  IN  /\ mode \in {"run", "wait"}
      /\ p_semAdd' = [p \in Pcb |-> IF Contains(woken, p) THEN NULL ELSE p_semAdd[p]]
      /\ waiting' = [waiting EXCEPT ![clockSemaphore] = <<>>]
      /\ softBlockedCount' = softBlockedCount - Len(woken)
      /\ sem' = [sem EXCEPT ![clockSemaphore] = 0]
      /\ Resume(readyQueue \o woken, softBlockedCount')
      /\ UNCHANGED <<pcbFree, tree, processCount, stack, device, pending, severed>>

(* Hardware: the operation of a commanded register ends, and the register  *)
(* interrupts until its status is acknowledged.                            *)
DeviceCompletes(u) ==
  /\ ~Stopped /\ device[u] = "busy"
  /\ device' = [device EXCEPT ![u] = "done"]
  /\ UNCHANGED <<kernelVars, pending>>

Interrupting == {<<u[1], u[2]>> : u \in {v \in Unit : device[v] = "done"}}

(* handleInterrupts asks the lines in order; getDeviceNoFromLine takes the *)
(* lowest device of the line.                                              *)
Before(d, e) == d[1] < e[1] \/ (d[1] = e[1] /\ d[2] < e[2])

terminalIsRECV(deviceNo) == device[<<TERMINT, deviceNo, 1>>] # "ready"

(* The register handleDeviceInterrupt reads and acknowledges.              *)
ServedUnit(line, deviceNo) ==
  <<line, deviceNo, IF line = TERMINT /\ terminalIsRECV(deviceNo) THEN 1 ELSE 0>>

(* Defect: the value of a semaphore with one waiter is tested with < 0,    *)
(* which is right when the semaphore starts at 0 only.                     *)
releaseSemAndUpdateStatus_Strict(s) ==
  /\ softBlockedCount' = softBlockedCount - 1
  /\ IF sem[s] < 0 /\ waiting[s] # <<>>
     THEN /\ sem' = [sem EXCEPT ![s] = @ + 1]
          /\ p_semAdd' = [p_semAdd EXCEPT ![Head(waiting[s])] = NULL]
          /\ waiting' = [waiting EXCEPT ![s] = Tail(@)]
          /\ Resume(Append(readyQueue, Head(waiting[s])), softBlockedCount')
     ELSE /\ UNCHANGED <<sem, p_semAdd, waiting>>
          /\ Resume(readyQueue, softBlockedCount')

(* softBlockedCount falls whether somebody waits or not; the semaphore     *)
(* rises only when somebody does.                                          *)
releaseSemAndUpdateStatus(s) ==
  /\ softBlockedCount' = softBlockedCount - 1
  /\ IF sem[s] <= 0 /\ waiting[s] # <<>>
     THEN /\ sem' = [sem EXCEPT ![s] = @ + 1]
          /\ p_semAdd' = [p_semAdd EXCEPT ![Head(waiting[s])] = NULL]
          /\ waiting' = [waiting EXCEPT ![s] = Tail(@)]
          /\ Resume(Append(readyQueue, Head(waiting[s])), softBlockedCount')
     ELSE /\ UNCHANGED <<sem, p_semAdd, waiting>>
          /\ Resume(readyQueue, softBlockedCount')

(* An acknowledgement sent to a register that is busy has no effect.       *)
handleDeviceInterrupt(d) ==
  LET u == ServedUnit(d[1], d[2])
  IN  /\ mode \in {"run", "wait"}
      /\ d \in Interrupting /\ \A e \in Interrupting : ~Before(e, d)
      /\ softBlockedCount > -MaxSoft
      /\ device' = [device EXCEPT ![u] = IF @ = "done" THEN "ready" ELSE @]
      /\ releaseSemAndUpdateStatus(semOf(u))
      /\ UNCHANGED <<pcbFree, tree, processCount, stack, pending, severed>>

(* HALT, PANIC or a broken free list: nothing happens any more.            *)
Stay == Stopped /\ UNCHANGED vars

----------------------------------------------------------------------------

SystemCall == \/ create_Process
              \/ terminate_Process
              \/ \E s \in UserSem : passeren(s) \/ verhogen(s)
              \/ wait_For_Clock
              \/ \E u \in Unit : CommandAndWait(u) \/ Command(u) \/ WaitForCommanded(u)

Termination == TerminateChild \/ TerminateSelf

Interrupt == \/ handlePLTInterrupt
             \/ handleIntervalTimerInterrupt
             \/ \E u \in Unit : handleDeviceInterrupt(<<u[1], u[2]>>)

Next == \/ SystemCall \/ Termination \/ Interrupt
        \/ \E u \in Unit : DeviceCompletes(u)
        \/ Stay

Spec == Init /\ [][Next]_vars

(* The recursion of terminate_Process_rec goes on; the timers fire again   *)
(* and again; a commanded device finishes; an interrupt that is pending    *)
(* whenever interrupts are enabled is taken in the end.                    *)
Fairness == /\ WF_vars(Termination)
            /\ SF_vars(handlePLTInterrupt)
            /\ SF_vars(handleIntervalTimerInterrupt)
            /\ \A u \in Unit : WF_vars(DeviceCompletes(u))
            /\ \A d \in {<<u[1], u[2]>> : u \in Unit} : SF_vars(handleDeviceInterrupt(d))

FairSpec == Spec /\ Fairness

----------------------------------------------------------------------------
(* Properties that hold whatever the processes do                          *)

(* Type invariant.                                                         *)
TypeOK ==
  /\ pcbFree \subseteq Pcb
  /\ tree \in Trees
  /\ p_semAdd \in [Pcb -> Sem \cup {NULL}]
  /\ readyQueue \in Seq(Pcb)
  /\ waiting \in [Sem -> Seq(Pcb)]
  /\ sem \in [Sem -> Int]
  /\ processCount \in Int /\ softBlockedCount \in Int
  /\ currentProcess \in PcbOrNull
  /\ mode \in {"run", "wait", "kill", "halt", "panic", "corrupt"}
  /\ stack \in Seq(Pcb)
  /\ device \in [Unit -> {"ready", "busy", "done"}]
  /\ pending \in [Pcb -> Unit \cup {NULL}]
  /\ severed \in BOOLEAN

(* p_semAdd and the queues of the semaphores agree.  Termination trusts    *)
(* p_semAdd alone to find a blocked process (nucleousSystemCalls.c:124).   *)
WaitsWhereItSays ==
  \A p \in Pcb, s \in Sem : p_semAdd[p] = s <=> Contains(waiting[s], p)

(* No process is twice in a queue, and the running process, the ready      *)
(* ones, the blocked ones and the free blocks exclude each other.          *)
InOnePlaceAtMost ==
  /\ IsInjective(readyQueue)
  /\ \A s \in Sem : IsInjective(waiting[s])
  /\ \A p \in Pcb : (p \in pcbFree \/ Contains(readyQueue, p)) => p_semAdd[p] = NULL
  /\ \A p \in pcbFree : ~Contains(readyQueue, p)
  /\ mode = "run" => /\ currentProcess \in Pcb \ pcbFree
                     /\ p_semAdd[currentProcess] = NULL
                     /\ ~Contains(readyQueue, currentProcess)

(* No process is lost: one that is not free runs, is being terminated, is  *)
(* ready, or is blocked where a V or an interrupt will find it; and when   *)
(* the scheduler takes over from a termination, the process it replaces is *)
(* the one that was terminated.                                            *)
NoProcessLost ==
  /\ \A p \in Pcb \ pcbFree : \/ p = currentProcess /\ mode \in {"run", "kill", "corrupt"}
                              \/ Contains(readyQueue, p)
                              \/ p_semAdd[p] # NULL
  /\ mode = "kill" => stack # <<>> /\ stack[1] = currentProcess

(* The value of a semaphore tells how many wait at it, also after waiters  *)
(* were terminated (nucleousSystemCalls.c:125) or interrupts came when     *)
(* nobody waited: a negative value counts the waiters; a device semaphore  *)
(* has the same sum with its waiters for ever.                             *)
ValuesCountWaiters ==
  /\ \A s \in UserSem \cup {clockSemaphore} :
       Len(waiting[s]) = IF sem[s] < 0 THEN -sem[s] ELSE 0
  /\ \A s \in DevSem : Len(waiting[s]) = DevSemInit - sem[s]

(* processCount is the "number of started but not yet terminated           *)
(* processes" (init.h:11), as long as no block is freed twice.             *)
CountsProcesses == mode # "corrupt" => processCount = Cardinality(Pcb \ pcbFree)

----------------------------------------------------------------------------
(* Properties that rest on what the processes do                           *)

(* terminate_Process "terminates the invoking process and all its progeny" *)
(* (nucleousSystemCalls.c:105): no process outlives its parent.            *)
NoOrphans == \A p \in Pcb \ pcbFree : tree.prnt[p] \notin pcbFree

(* processCount is the "number of started but not yet terminated           *)
(* processes" (init.h:11), always: no process is terminated twice, which   *)
(* would put its block on the free list twice and let processCount fall    *)
(* below the number of processes.                                          *)
ProcessCountExact == processCount = Cardinality(Pcb \ pcbFree)

(* The code breaks both (NucleusOrphans, NucleusTwice), and not before a   *)
(* process terminates that has a younger sibling: until then no process    *)
(* outlives its parent, however many siblings there are and whatever they  *)
(* do (nucleousSystemCalls.c:105).                                         *)
NoOrphansUnlessSevered == ~severed => NoOrphans

(* ... and no process is terminated twice, so processCount is exact        *)
(* (init.h:11).                                                            *)
CountExactUnlessSevered == ~severed => ProcessCountExact

(* softBlockedCount never falls below the number of events the kernel has  *)
(* still to see: otherwise the scheduler would PANIC while one is coming.  *)
SoftBlockedCoversEvents ==
  softBlockedCount >= Len(waiting[clockSemaphore])
                      + Cardinality({u \in Unit : device[u] # "ready"})

(* The scheduler's PANIC is a deadlock (scheduler.c:33): nobody waits for  *)
(* the clock, nor for a device whose interrupt is still to come.           *)
PanicIsDeadlock ==
  mode = "panic" => /\ waiting[clockSemaphore] = <<>>
                    /\ \A u \in Unit : waiting[semOf(u)] # <<>> => device[u] = "ready"

(* A process waits for a device only while its operation is on: IOWAIT     *)
(* "blocks a process until an I/O operation is completed"                  *)
(* (nucleousSystemCalls.c:163), not after.                                 *)
NoCompletionLost == \A u \in Unit : waiting[semOf(u)] # <<>> => device[u] # "ready"

(* ... and no sooner: a process goes from a device's queue to the ready    *)
(* queue, or straight to a processor that was waiting, only when the       *)
(* operation of that very register has ended.                              *)
ReleasedByItsOwnDevice ==
  [][\A u \in Unit, p \in Pcb :
       /\ Contains(waiting[semOf(u)], p)
       /\ Contains(readyQueue', p) \/ (mode' = "run" /\ currentProcess' = p)
       => device[u] = "done"]_vars

(* WAIT is for an event: the processor waits only while some process waits *)
(* for the clock or some device has an operation on (scheduler.c:28).      *)
WaitHasACause ==
  mode = "wait" => \/ waiting[clockSemaphore] # <<>>
                   \/ \E u \in Unit : device[u] # "ready"

(* CLOCKWAIT "allows the invoking process to wait for a spin of the        *)
(* interval timer (next device tick)" (nucleousSystemCalls.c:189): the     *)
(* caller is blocked until the timer fires, whatever went before.          *)
ClockCallWaits ==
  [][wait_For_Clock => Contains(waiting'[clockSemaphore], currentProcess)]_vars

----------------------------------------------------------------------------
(* Liveness, under Fairness                                                *)

(* Round robin: a ready process gets the processor, or is terminated.      *)
ReadyProcessRuns ==
  \A p \in Pcb :
    Contains(readyQueue, p) ~> (currentProcess = p \/ p \in pcbFree \/ mode = "corrupt")

(* A process that waits for a device or for the clock is released in the   *)
(* end, whatever the other devices and processes do.                       *)
DeviceWaitEnds ==
  \A u \in Unit, p \in Pcb :
    Contains(waiting[semOf(u)], p) ~> (~Contains(waiting[semOf(u)], p) \/ mode = "corrupt")

ClockWaitEnds ==
  \A p \in Pcb :
    Contains(waiting[clockSemaphore], p)
      ~> (~Contains(waiting[clockSemaphore], p) \/ mode = "corrupt")
=============================================================================
