# PandOS in TLA+

PandOS (`src/`) is a teaching kernel for the uMPS3 machine, in three levels: the
data structures (`pcb.c`, `asl.c`), the nucleus above them (scheduler, system
calls, interrupts), and a support level with a pager that runs eight user
processes. This directory models the three levels, checks them with TLC on small
instances, and proves with TLAPS, for every size, every safety property, action
property and refinement those runs check: the linked lists and what they
implement, the bookkeeping of the nucleus, the ownership and memory of the user
processes, and what a call of the support level does. File and line references below are to `src/src/`.

## The system

| component | state | operations | who calls it |
|---|---|---|---|
| process queues, free list (`pcb.c`) | `p_next`, `p_prev`, `pcbFree_h`, the tail pointers, `processCount` | `initPcbs`, `allocPcb`, `freePcb`, `insertProcQ`, `removeProcQ`, `outProcQ` | nucleus, `asl.c` |
| process tree (`pcb.c`) | `p_prnt`, `p_child`, `p_next_sib`, `p_prev_sib` | `insertChild`, `removeChild`, `outChild` | `create_Process`, `terminate_Process_rec` |
| active semaphore list (`asl.c`) | `semd_h`, `semdFree_h`, the descriptors, `p_semAdd` | `insertBlocked`, `removeBlocked`, `outBlocked`, `headBlocked` | system calls, interrupts |
| scheduler (`scheduler.c`) | `readyQueue`, `currentProcess`, `processCount`, `softBlockedCount` | `scheduler` | every handler that gives up the processor |
| nucleus calls (`nucleousSystemCalls.c`) | the above, `deviceSemaphores`, the processes' semaphores | SYS1 to SYS8 | processes, through `handleExceptions` |
| interrupts (`interrupts.c`) | the above, the device registers | one handler per source | the machine |
| CPU time (`scheduler.c`, `interrupts.c`, `nucleousSystemCalls.c`) | `startT`, `p_time` | dispatch, preemption, GETTIME | the handlers |
| pass up (`exceptions.c`) | `p_s`, the exception states of a support structure | `passupOrDie` | the machine |
| support calls (`supportSystemCalls.c`) | printer and terminal semaphores | SYS9 to SYS13 | user processes |
| pager (`vmSupport.c`) | `swapTable`, page tables, TLB, `swapSem` | `handlePageFault` | the machine, by pass up |
| TLB refill (`sysSupport.c`) | TLB | `uTLB_RefillHandler` | the machine |
| life cycle (`p3test.c`, `initSupp.c`) | `masterSem`, the stack of support structures | `test_phase_3`, `terminate_support` | the nucleus at start, processes at their end |

Handlers of the nucleus run with interrupts masked: two of them never
interleave, and what is concurrent is everything between them. A process can be
preempted between any two of its calls, and a device can finish at any moment.
What is hard here, and what the properties are about:

- **pointers**: a list operation that leaves one stale pointer behind is noticed
  two operations later, by another caller (`pcb.c:219`, `pcb.c:245`);
- **the same fact kept in several places**: `p_semAdd`, the queues and the values
  of the semaphores; `softBlockedCount` and who really waits;
- **order**: a device that finishes before the process says that it waits; two
  halves of a terminal that share one interrupt line;
- **termination**, which reaches into every queue and every semaphore at once,
  whatever the victims were doing;
- **verdicts**: HALT, PANIC and WAIT are decided from two counters;
- **three copies of a translation**: page table, TLB and swap table, while the
  page is being replaced and its owner may have ended;
- **a stack used without a lock**: `alloc_supp` runs with interrupts enabled and
  is interrupted by processes that push on the same stack;
- **which state to resume**: a user process has a state in `p_s`, two in its
  support structure and the one it runs in, and each handler picks one of them.

`PROJECT.json` lists each of them with its line.

## Modules

| module | models | state and actions |
|---|---|---|
| `PcbLinks` | `pcb.c` as operators on the pointer fields | no state; one operator per C function, used by the three modules below |
| `ProcQueues` | process queues and free list | `links`, `pcbFree_h`, `tail`, `held`, `answer`; one action per function |
| `FifoQueues` | abstract: what the queues promise | sequences; `ProcQueues` implements it |
| `ProcTree` | process tree, under any calls | the tree pointers, `answer`, the history variable `severed`; one action per function |
| `ChildLists` | abstract: an ordered list of children per process | `ProcTree` implements it |
| `MCProcTree` | the instance of `ProcTree`: symmetry of the blocks, and the constraint that ends a behaviour at the first severing | - |
| `Asl` | active semaphore list | descriptors, `semdFree_h`, `p_semAdd`, `answer` |
| `BlockedQueues` | abstract: a FIFO queue per address, refusals included | `Asl` implements it |
| `Nucleus` | scheduler, system calls, interrupts, devices | see below |
| `MCNucleus` | instances of `Nucleus` | - |
| `LinkProofs` | lemmas about `PcbLinks` and about linked lists | - |
| `QueueProofs`, `TreeProofs`, `AslProofs` | theorems about `ProcQueues`, `ProcTree`, `Asl` | - |
| `NucleusProofs` | theorems about `Nucleus`, whatever the processes do | - |
| `DisciplineProofs` | theorems about `Nucleus` under `MaskedIO` and `OneWay`, and about the tree until it is severed | - |
| `Lifecycle` | `p3test.c`, `initSupp.c`, `terminate_support` | the stack, `masterSem`, what became of each process; one action per statement of `alloc_supp` and `test_phase_3` |
| `Pager` | `vmSupport.c`, refill of `sysSupport.c` | page tables, TLB, swap table, frames and flash blocks; one action per stretch between two blocking points |
| `UserProcesses` | `Lifecycle` and `Pager` composed | the actions of both, the properties that relate them |
| `CpuTime` | `startT` and `p_time` of one process | no specification of its own; parts of the handlers' actions |
| `SupportCalls` | `supportSystemCalls.c`, `exceptions.c`, `sysSupport.c` | one user process: its states, its calls, its string, its time (`CpuTime`) |
| `UserProofs` | theorems about `UserProcesses` | - |
| `SupportProofs` | theorems about `SupportCalls` | - |

In the first three pairs `answer` records the last call and what it returned: an
abstract specification that promises the state only would accept a removal that
hands out the wrong process.

A definition marked `Defect:` is a wrong variant of the definition after it. No
specification uses one; they are there to show that every property is broken by
some plausible mistake in the code (`mutants` in `PROJECT.json`).

### How Nucleus corresponds to the code

`Nucleus` uses sequences for the ready queue and for the queue of each semaphore
(`ProcQueues` and `Asl` show that the pointers implement them), and the pointers
themselves for the process tree, because what termination reaches depends on
them. `insertBlocked` is never refused: there are as many descriptors as
processes, and each descriptor in use has a process waiting at it
(`NoDescriptorLost`).

- `mode` is what the processor does: `run` a process, `wait`, `kill` (inside
  `terminate_Process`), or for good `halt`, `panic`. `corrupt` stands for a block
  that was freed twice: the C code goes on with a broken free list, and nothing
  is modelled after it.
- Every handler is one action, with its trailing call of the scheduler or of
  `loadProcess`. The recursion of `terminate_Process_rec` is one action per call
  and per return (`TerminateChild`, `TerminateSelf`), `stack` holds the active
  calls. Interrupts are masked meanwhile, but devices go on.
- `create_Process` is not enabled where `insertChild` would follow the sibling
  pointers in a circle: the C code hangs there.
- `device` is the status of each device register: `ready`, `busy`, `done` (it
  interrupts until it is acknowledged). `handleDeviceInterrupt` serves the lowest
  line and the lowest device first, reads the terminal's half the way
  `terminalIsRECV` does, and the acknowledgement of a busy register has no effect.
- `getSemIndex` lacks its branch for the interval timer and its PANIC for other
  lines (`interrupts.c:184`, `:202`): the calls modelled never take them, the clock's
  handlers name `clockSemaphore` themselves.
- Left out: processor state, status words, `p_time`, the timers' values, the
  support structures. `GETTIME` and `GETSUPPORTPTR` change nothing that is left.

The processes are not part of the kernel. They may make any call at any moment,
restricted by two constants that say how disciplined they are:

| constant | TRUE means | the code that does so / does not |
|---|---|---|
| `MaskedIO` | a command and its IOWAIT with interrupts disabled | `supportSystemCalls.c:92`, `vmSupport.c:243` / `p2test.c:124` |
| `OneWay` | a terminal is commanded in one direction at a time | the user programs that only write / one process that reads and one that writes |

A register is commanded by one process at a time and only when it is ready (the
per device semaphores of the programs), always followed by the IOWAIT.
`DevSemInit` is the value of the device semaphores when processes start to use
them: 0 in phase 2, 1 after `initDevSemaphores` (`p3test.c:48`).

### How Lifecycle and Pager correspond to the code

`test_phase_3` runs with interrupts enabled: every statement of `alloc_supp` is an
action, and the statement that steps to the predecessor two (`ReadBelow`,
`StoreTop`), since `freeSupp_tp = freeSupp_tp->prev_supp` reads, then writes. The
nucleus calls it makes are atomic. The compiler is asked for `-O0`
(`compile_flags` of `src/Makefile`): a variable is read when the source says so.

The handlers of the support level run with all interrupt lines masked, since
`p3test.c:87` gives their contexts no `IMON`. So a process that terminates does
`dealloc_supp`, the V on `masterSem` and TERMPROCESS in one action
(`terminate_support`), and the pager is cut only where it blocks: at the P on
`swapSem` (`EnterPager`) and at the IOWAIT of each transfer (`handleTLBInvalid` up
to the first, `writeFromPoolToDev`, `writeFromDevToPool` with the V at the end).
Between two instructions of its program a process can always be preempted.
(Interrupts are taken to be enabled wherever `IECON` is set in an initial state. If
`LDST` pops that bit, programs run masked, which is a part of these behaviours.)

- `step[a]` is where process `a` stands in the pager: `user` (in its program),
  `queue` (blocked on `swapSem`), `pager` (has it), `out`, `in` (transfer running).
- A page's content is whose page it is and how many of its writes it contains.
  `Write` is a store by the program through a valid TLB entry, to whatever frame
  the entry names; if that frame holds something else the content becomes garbage.
- `Transferred` is what the flash device finds at the address
  `writeFromPoolToDev` computes. It adds the base of the pool to a frame number
  that counts from 0 in memory; `phase3Config` has 128 frames of RAM, and the
  result is at `0x40060000` or above. The device then leaves the block unchanged,
  and the status that says so is not looked at (`vmSupport.c:246`).
- An access to a page in nobody's table is `getMissingPage_NotFound`: TERMPROCESS
  without what `terminate_support` does before it.
- `at = "fault"` is `initUProcs` writing through the null pointer that `alloc_supp`
  returned. Nothing is modelled after it.

### How SupportCalls corresponds to the code

One user process, running an arbitrary program of `Length` instructions: loads
from either of two pages, GETTIME, the support calls, a call with a bad argument.
A processor state is a point in the code: a place and an instruction number or
the status an IOWAIT left in `v0`. There are four of them: `at` (the processor,
while it runs), `p_s`, and `exc0`, `exc1`, the two states of its support structure.
Locals of a handler are on its stack (`-O0`), so they survive a wrong resume.

- `passupOrDie` saves in `exc0` or `exc1`; every nucleus call of a handler saves in
  `p_s`, a P that does not block too.
- The refill handler resumes from `p_s` (`sysSupport.c:43`), wherever that leads.
- The write loops test for EOS, command the device and IOWAIT, then advance;
  `string[i]` is in page 0 up to `Split` and in page 1 behind it, and both the test
  and the store of an EOS after an error can fault. The read loop stores before it
  tests. Device errors end both.
- `Others` stands for the other processes, which take TLB entries and frames away
  whenever this one does not run. The printer and the terminal of a process are
  its own by ASID: nobody else uses their semaphores.
- A process is billed in `blockCurrentProcessAt`, `handlePLTInterrupt`,
  `get_Cpu_Time` and `handleInterrupts` (`interrupts.c:65`); `startT` is set at the
  dispatch (`scheduler.c:58`), by GETTIME (`nucleousSystemCalls.c:185`) and after a
  device interrupt (`interrupts.c:122`). `Tick` lets time pass.

### Where the code fails, and what is checked beyond it

Some failures of the code reach so far that nothing could be said past them. Seven history
variables tell when one of them has happened, each property names the one it
depends on, and what it says holds until then (or, for `lost`, of all pages
but those):

| variable | becomes TRUE when | guards |
|---|---|---|
| `severed` (`ProcTree`) | `outChild` is asked for a process with a younger sibling (`pcb.c:219`, `pcb.c:245`) | `ParentsAgree`, `SiblingsReadBothWays`, `KeepsChildLists` |
| `severed` (`Nucleus`) | a process with a younger sibling terminates | `NoOrphansUnlessSevered`, `CountExactUnlessSevered` |
| `raced` | a process ends between the two reads of `alloc_supp` (`initSupp.c:22`) | `OwnSupport`, `TranslationsAgree`, `MemoryKept` |
| `reused` | a structure that was given back is taken again (`vmSupport.c:180`) | `MemoryKept` |
| `lost` (a set) | a replacement drops what a page was written (`vmSupport.c:244`) | `MemoryKept`, for these pages: they still hold an earlier content of their own |
| `repeated` | a refill resumes elsewhere than at the access (`sysSupport.c:43`) | `EntireString`, `EachInstructionOnce` |
| `garbled` | a device interrupt sets `startT` wrong (`interrupts.c:122`) | `CpuTimeExact` |

Removing a guard from its property and running the same configuration shows the
failure; findings 6 to 12 below are read off those traces. Of the two properties
`severed` guards in `Nucleus`, the forms without it are `NoOrphans` and
`ProcessCountExact`, which the runs `NucleusOrphans` and `NucleusTwice` refute.

The tree guard cannot be weaker: `outChild` of a process with a younger sibling
breaks a whole tree in that very call, whatever it looks like (`SeveringBreaks`). It is
also not a rare case. The processes of `p1test.c` and all user processes of
phase 3 are siblings, so in phase 3 the guard ends when the first of them
terminates, unless that is the youngest.

## What TLC checks

| run | bounds | shows |
|---|---|---|
| `ProcQueues` | 4 blocks, 2 queues | the rings read the same both ways, partition the blocks, and implement `FifoQueues` |
| `ProcTree` | 5 blocks, interchangeable; up to the first `outChild` of a process with a younger sibling | until then parents, children and siblings agree, and the pointers implement `ChildLists` |
| `Asl` | 3 processes, 3 addresses (one above `MAXADD`), 2 descriptors | sorted, no descriptor lost, `p_semAdd` right, implements `BlockedQueues` |
| `NucleusAny` | 3 processes, a user semaphore, a terminal, the clock | whatever the programs do: places, queues, values and counters agree, nobody is lost, every CLOCKWAIT waits |
| `NucleusMasked` | the same, disciplined, with fairness | until a process with a younger sibling terminates no orphan and exact counts; PANIC only in a deadlock, no lost or misdirected completion; until a block is freed twice ready processes run and waits end |
| `UserProcesses` | 3 processes of 1 page, 2 frames, 2 TLB entries, 1 write per page, with fairness | own structures, an instantiator that outlives its processes, one process in the pager, agreeing translations, pages that keep their content, page faults that end |
| `SupportCalls` | every program of 2 instructions, a string of 2 characters over 2 pages, clock up to 2, with fairness | entire strings, each instruction once, exact CPU time, calls that return |
| `NucleusOrphans`, `NucleusTwice`, `NucleusLost`, `NucleusWait`, `NucleusTerminal` | smallest that fail | findings 1 to 5 below |

Why the bounds are enough. Four blocks give a ring a head, a middle and a tail
while another list is not empty. Five give a parent with a first, two middle and a
last child, or a tree with siblings on two levels; `MCProcTree` checks the state
after the first severing and goes no further, since nothing is claimed of
what follows. Two descriptors
for three addresses make refusals happen. Three processes give a running, a
ready and a blocked one, two waiters at a semaphore, and a grandchild. A terminal
is the only device with two registers on a line; `NucleusLost` uses a disk.
`MaxVal` bounds how often a semaphore is raised, `MaxSoft` the counter
`softBlockedCount`. The upper bounds stop calls only; the lower one would stop a
device interrupt, but in `NucleusMasked`, where liveness is checked, the counter
never falls below 0 (`SoftBlockedCoversEvents`).

`UserProcesses` needs three processes: the window of `alloc_supp` opens for the
second structure at the earliest, when only one process exists, and the damage
shows at the third; three are also what it takes for one in the pager and two in
its queue. With fewer frames than pages every frame is replaced, and
with fewer TLB entries than pages the round robin evicts live entries. What one
page per process cannot show, two pages of a process in each other's way, is in
the instance `UPROCMAX = 2`, `MAXPAGES = 2`, `DataPage = {1}` (1,178,735 states,
checked by hand; it takes longer than a regular run should). One write per page
tells a page written from one that is not, and `MaxWrites` bounds nothing else.

In `SupportCalls` two instructions are a call and whatever comes before or after
it, two characters make a string cross a page, and a clock of two steps is enough
for time to pass in two of the places where it is billed or not. Preemption,
other processes and devices are not bounded, but for one: a device interrupts the
process no more once it has made `p_time` wrong (`garbled`). The theorems below are for all
values of these constants.

### Fairness

`FairSpec` assumes that the recursion of termination goes on (it is a loop with
interrupts masked), that a commanded device finishes (weak fairness), and that the
two timers and each pending device interrupt are taken in the end although
system calls mask them again and again (strong fairness, for each device register
by itself): the timers are
periodic, an interrupt line stays up until it is acknowledged, and interrupts are
enabled in the programs and while the processor waits (`init.c:64`, `p3test.c:79`,
`scheduler.c:51`). The three liveness properties hold up to
`corrupt`, a block freed twice, after which nothing is modelled. The support level's handlers start with every line masked
(`p3test.c:87` has no `IMON`), but each of them soon blocks or returns to its
program. No fairness is assumed of the processes.

In `UserProcesses` each step of a process inside the pager is weakly fair: it is
ready or its flash device is busy, and both end (`ReadyProcessRuns` and
`DeviceWaitEnds` of `NucleusMasked`). The V that wakes the next one is part of the
last step. Programs and `test_phase_3` may stop anywhere.

In `SupportCalls` the handlers' code (`Handling`), the devices (`Released`) and the
dispatch of a ready process (`Dispatched`, again `ReadyProcessRuns`) are weakly
fair; the program and the other processes are not. A handler whose page is taken
away again and again still goes on: others run only while it is blocked or ready,
and a refill or a page fault it makes leads back into it.

### Findings

1. `NucleusOrphans`: a first child that terminates orphans its siblings
   (`pcb.c:219`).
2. `NucleusTwice`: `unlinkChild` forgets the back pointer of the next sibling
   (`pcb.c:245`), and a later termination frees a block twice.
3. `NucleusLost`: a device that finishes before the IOWAIT is not remembered
   (`interrupts.c:144`).
4. `NucleusWait`: a process terminated while it waits for the clock stays in
   `softBlockedCount` (`nucleousSystemCalls.c:125`).
5. `NucleusTerminal`: a busy receiver is taken for one that has received
   (`interrupts.c:212`).

The next seven have no run of their own: the guard named above keeps them out of
the property, and dropping it shows them under the run's own configuration.

6. `MemoryKept`: the address of the frame to write out has the base of the pool in
   it twice (`vmSupport.c:244`); no write of a program ever reaches a flash device.
7. `OwnSupport`: `alloc_supp` reads the top of the stack twice (`initSupp.c:22`); a
   process that ends in between makes two processes share a structure.
8. `MemoryKept`: the frames of a process that has ended stay in the swap table,
   with a pointer to a structure that may be another's by now (`vmSupport.c:180`).
   Only with `reused`: until then such a frame is written to the flash device of
   its dead owner, which nobody reads again.
9. `EachInstructionOnce`, `EntireString`: the refill handler resumes `p_s`
   (`sysSupport.c:43`).
10. `OutlivesItsProcesses`: a process terminated for a page it has not got makes no
    V on `masterSem` (`sysSupport.c:77`); the instantiator waits for ever. Here the
    guard is "killed" in the second conjunct.
11. `CpuTimeExact`: `startT` gets a timer's value (`interrupts.c:122`).
12. `EachInstructionOnce`: GET_TOD resumes at its own SYSCALL
    (`supportSystemCalls.c:69`). The guard is the exception in the property.

`ClockCallWaits` holds with the clock semaphore at 0, as `main` leaves it. After
`initDevSemaphores`, which sets all 49 semaphores to 1, the first CLOCKWAIT would
not wait; no process of phase 3 makes that call.

## What is proved

Every theorem is about the specification the runs check, without fairness. What
restricts it are the named assumptions on the constants, in the theorems of
`DisciplineProofs` about devices that `MaskedIO` and `OneWay` are TRUE, and the
guards of the properties themselves.

### The data structures

For any number of blocks, queues and descriptors and any set of addresses
(`NullAssumption`, `PcbAssumption`, `AslAssumption`), `QueueProofs`, `TreeProofs`
and `AslProofs` prove the invariants of the runs `ProcQueues`, `ProcTree` and
`Asl`, and the three refinements.

The invariants of the runs say what a walk along the pointers meets, and a walk
says nothing about the order that a removal must keep. So each inductive
invariant says instead that *some sequences fit the pointers*: `Rings` (each
queue and the free list are a ring of the blocks of a sequence, and the sequences
share no block), `Family` (the children of each process are the blocks of a
sequence, linked both ways and naming their parent), `AslFits` (the active list
is sorted from one sentinel to the other, the free stack has the rest, and the
queues are those of the listed addresses). Each call is then shown to do to the
pointers what an operation on the sequences does.

- `LinkProofs` has what these proofs share: `Linked` and `RingList` under
  insertion and removal at any place, and that what is reachable by following the
  pointers is exactly the sequence. The last one needs an induction along the list,
  which is taken as the least of the positions that would be missed (`LeastNumber`).
- `FifoKept`, `ListsKept` and `BlockedKept` are the refinements. The abstract
  state is an expression over walks (`ChildrenOf`, `QueueAt`...), so each proof first
  shows that these expressions *are* the sequences of the invariant, then maps
  every step to the abstract operation with the same answer, or to a stutter.
- `AslSorted` needs no bound on addresses: the search stops at the sentinel's own
  address too, so one above `MAXADD` is the last before the sentinel.
- The theorems of `TreeProofs` are about a tree that may be called in any way:
  `Family` is kept by `insertChild` and `removeChild` always, and by `outChild` of a
  process that is detached or the youngest of its parent. `ParentsCorrect`,
  `SiblingsCorrect` and `ListsKept` say so up to the first other call, and
  `SeveringBreaks` that this call always breaks the agreement of parents or that
  of siblings: the guard is exactly where the code fails.
- `BlockedKept` includes the refusals: `insertBlocked` refuses a process exactly
  when nobody waits at the address yet and every descriptor that is not a sentinel
  has somebody waiting.

### The nucleus

For any finite set of processes, any semaphores, any devices and all values of
the two constants above, `NucleusProofs` proves every property of the run
`NucleusAny`. The assumptions are `NucleusAssumption` (finite `Pcb`, devices on the
lines 3 to 7 with both halves of a terminal, semaphore addresses apart from
numbers and `NULL`) and `NullAssumption`.

None of the properties is inductive by itself. `IInv` (theorem `Inductive`) is the
conjunction of

- `TypeOK`, and `KillsCurrent`, `RunsSomebody`: what `currentProcess` and `stack`
  are in each mode;
- `Placed`: `p_semAdd` is the queue a process is in, nobody is twice in a queue,
  and the running, ready, blocked and free processes exclude each other. A wake
  up needs that the process it moves is not ready yet, a preemption that the
  running process is in no queue, an allocation that a free block is in none.
  Termination frees a process that was taken out of its queue, and need not know
  which of them it was in: the pointers of the tree are not restricted at all, so
  these facts hold after the tree has been damaged, up to a block freed twice;
- `ValuesCountWaiters`, which needs `Placed` where termination makes the V: the
  process leaves the one queue whose semaphore is raised;
- `KeptNow`: a process that is not free runs, is being terminated, is ready or is
  blocked. With `KillsCurrent` it gives `NoProcessLost`;
- `CountsProcesses`, by counting `Pcb \ pcbFree`.

`ClockCallBlocks` adds `ClockLow`, the clock semaphore never above 0, which
holds when it starts at 0.

`DisciplineProofs` proves the safety properties of the run `NucleusMasked`, each
from the part of the discipline it needs:

- with `MaskedIO` and `OneWay`, `DeviceInv`: `OneDirection` (one register of a terminal
  is in use), `Commanded` (nobody is between a command and its IOWAIT, and who waits
  for a register waits for an operation that is on, alone) and `Covered`
  (`softBlockedCount` covers the events to come). They give `SoftBlockedCorrect`,
  `PanicCorrect`, `CompletionsCorrect` and the action property `ReleasesCorrect`.
  Without `OneWay` the wrong half of a terminal would be served; without `MaskedIO`
  a completion comes before the wait. The findings 3 and 5 are these two cases.
- with no assumption on the processes, `TreeUnlessSevered`: until a process with
  a younger sibling terminates, `Family` again, now for the tree in the nucleus
  (`PcbLinks` is shared, and so are the lemmas), free blocks have neither parent
  nor children (`FreeAreAlone`), and the processes a termination has begun with are
  out of the tree, each once, and not free yet (`DyingAreOut`). A termination goes
  down the tree from first child to first child with `removeChild`, which keeps
  all this; only the `outChild` it begins with can sever. They give `OrphansCorrect`
  and `ExactCountCorrect`.

That `MaskedIO` and `OneWay` are assumed in the first group is what findings 3
and 5 show to be necessary, and findings 1 and 2 show it of the guard in the second.

### The user processes

`UserProofs` proves every safety property of the run `UserProcesses`, for any
number of processes, pages, frames, TLB entries and writes. The assumptions are `LifecycleAssumption` (at least one process, `NULL` is not a
number) and `PagerAssumption` (at least one page, frame and TLB entry; the
programs write to pages of their table; the pool does not start below its own
size in memory, which is what makes the doubled address fall outside it).

- `InstantiatorOutlives`: `MasterCounts`, that `masterSem` is the number of
  processes that have ended, less those waited for, less the instantiator if it is
  blocked, with `LifeControl`, what is known at each statement of `test_phase_3`.
- `UserTypeOK` and `PagerExclusive` are proved together (`UserInv`): that
  `frameIndexToReplace` and the swap table are in range needs that they belong to
  one process, and that needs `Turns` and `Queued`: who is in the pager is alone
  there, `swapSem` counts the queue, and the queue has processes that wait, each once.
- `SupportIsOwn`: the stack is a chain without repetition (`Chain`), and the
  structures are those on it, those held, and the one in `alloc_supp`'s hand
  (`Divided`). `Reading` says that what `alloc_supp` has read is still so, which is
  exactly what `raced` denies. `ChainIsStack` shows that the chain is the
  set `FreeStack` of the property; it takes the first of the structures that would be
  missing, by `LeastExists`, the least element of a set of numbers.
- `TranslationsKept`: `AgreeOK` adds to the property that every entry names its own
  page and a structure of its owner (`EntriesNamed`), and `VictimInvalid`: during a
  replacement no valid page is in the frame that is replaced. Without it the end of
  the handler could leave two valid pages in one frame.
- `MemoryIsKept`: `FramesNamed` (an occupied frame is entered under the page whose
  entry has the frame's number; since it has one number, no page is in two frames,
  though its process may have ended), `InvalidLeaves` and `MissingInvalid` (a page
  is invalid in a frame only while it is replaced, and the page that is fetched is
  invalid, so it is in no frame with content that counts), `Untouched` (no write
  ever reaches a flash block) and `PagesStored`, the content of every page where
  it is. `Fresh` says that a new process gets a structure that was nobody's,
  which is what `reused` denies.

### A user process and its calls

`SupportProofs` proves every safety property of `SupportCalls`, for programs and
strings of any length, any split over the pages, any clock and time slice (`CpuTimeAssumption`, `SupportCallsAssumption`).

- `CpuTimeIsExact`: the property is inductive once the variables are numbers.
- `InstructionsInTurn`: `Control` follows the states that wait for the process.
  Inside the pager it stands where the page fault found it (`Standing`); a point
  of the program among them follows the last instruction issued, and a handler that will
  return finds its SYSCALL in `exc1`.
- `StringsEntire`: `Strings`, the loop invariant at the head of each loop, after its
  IOWAIT and at its end, with `Control` to know that the call in progress is the
  one whose locals these are, also during a page fault in the middle of it.
- `SupportTypes`: no guard here, so the invariant has to follow a process wherever a
  wrong refill leads it. `Placed` says what holds at each place in terms of
  `Standing`: in the program or at the handler every device is free (`AllFree`); at
  the head of a loop, after its IOWAIT and in the pager from there, the device of the call is
  held and no other (`OneHeld`), and either the last state saved is the point itself
  or the page fault (`Faulted`), or a refill at the head of a write loop leads back
  to the IOWAIT before it. That makes the program's pointer go one character too
  far, at most once: the page it is in has its TLB entry after that (`Listed`). That is why
  `virtAddr` is bounded although the loops look for the EOS only. A refill never
  gives a device back twice, so the semaphores stay 0 or 1.

### Only model checked

Liveness: `ReadyProcessRuns`, `DeviceWaitEnds` and `ClockWaitEnds` of `NucleusMasked`,
`FaultServed` of `UserProcesses`, `CallReturns` of `SupportCalls`. Fairness and
ENABLED are out of reach of the prover. Everything else the passing runs check is
a theorem.

## Not modelled

- **Program traps.** `handleSupportLevelExceptions` compares the raw cause register
  with an exception code (`sysSupport.c:20`): a trap of a user process is never
  recognised and is handled as the call whose number `a0` happens to hold.
- **Strings without EOS, lines longer than the buffer.** The loops do not look at
  the length they were given (`supportSystemCalls.c:91`). `SupportCalls` assumes an
  EOS, and a newline before the buffer is full; what comes behind a string whose
  end was missed is the point `beyond`, after which nothing is modelled.
- **Call numbers outside the switch.** The switch of `handleSupportSystemcalls` has
  no default (`supportSystemCalls.c:25`): any other number that gets there than
  SYS9 to SYS13 falls out of the handler, which returns into whatever called it. A program of
  `SupportCalls` makes these five calls only.
- **A call that missed its EOS.** At the point `beyond` the device of the call is
  still held, and `CallReturns` counts such a call as over: what it does next is
  decided by memory behind the string.
- **Addresses from `0xC0000000` on.** They are taken for pages of the table without
  their two highest bits (`sysSupport.c:72`). `Pager` has pages of the table and
  accesses to none.
- **Errors of the flash devices.** The handlers ignore their status
  (`vmSupport.c:246`), and the transfers of `Pager` succeed, except that one of them has
  the wrong address.
- **The clock's overflow, GET_TOD's value, the timers' values.** A time slice may end
  at any moment.
- **What is written once**: the pass up vector, the initial registers
  (`init.c`), the initialisation of the device semaphores (`DevSemInit`).
- **Text** that programs print and devices transfer, and the copies of whole processor states
  (`stateUtil.c`), which are assignments of a point here.
- **Dead code**: `getFreeAsid`, `removePagesFromTLB`, `frameAddrInPool`, `setSwapFloor`,
  `next_supp`, `headBlocked` outside `p1test.c`.
- **Tests and user programs** (`p1test.c`, `p2test.c`, the testers): they were read for
  what they expect and how they drive the kernel. `Nucleus` lets processes make any
  call in any order, `SupportCalls` runs every short program.
- **The machine** is external: its devices, TLB and interrupt lines are actions of
  the modules as far as the handlers see them.

`Nucleus` and the modules of the support level are not composed: the support level
uses the nucleus through P, V, IOWAIT and the scheduler, whose promises
(`ValuesCountWaiters`, `NoProcessLost`, `ReadyProcessRuns`, `DeviceWaitEnds`) are
checked in `Nucleus` and taken as atomic steps and as fairness above. The findings
about the nucleus that a disciplined program cannot meet do not reach that far:
handlers of the support level command devices with interrupts masked, and a
terminal of a user process is used in one direction at a time. One does: the user
processes are siblings, and the first to end orphans the others (finding 1), so
that the instantiator's TERMPROCESS would not find them; it comes after the last of them
has ended (`OutlivesItsProcesses`).
