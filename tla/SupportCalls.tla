----------------------------- MODULE SupportCalls ----------------------------
(***************************************************************************)
(* One user process at work: its program, the support level calls it makes *)
(* (supportSystemCalls.c), its page faults and TLB refills, and the four   *)
(* processor states the kernel keeps of it: p_s and the two exception      *)
(* states, and the one it runs in (exceptions.c, sysSupport.c).            *)
(*                                                                         *)
(* A processor state is a point: <<code, n>>, where n is the instruction   *)
(* of the program, or the status an IOWAIT returned.  Locals of a handler  *)
(* are in memory (-O0), not in a processor state.                          *)
(*                                                                         *)
(* The handlers run with all interrupt lines masked (p3test.c:87): each    *)
(* stretch between two points where they may block or miss a page is one   *)
(* action.  The other processes are the environment: they take TLB entries *)
(* and frames while this one does not run.  Printer, transmitter and       *)
(* receiver of a process belong to it alone, by ASID.                      *)
(***************************************************************************)
EXTENDS CpuTime, Sequences, FiniteSets

CONSTANTS
  Op,                \* the instructions of the program
  Length,            \* bound: their number
  LEN, Split         \* a string's characters, and how many are in the first page

Page == 0 .. 1
Writes == {"printer", "transmitter"}
Calls == Writes \cup {"receiver", "GET_TOD", "TERMINATE", "tooLong"}

ASSUME SupportCallsAssumption ==
  /\ Op \subseteq Calls \cup {"load0", "load1", "GETTIME"}
  /\ Length \in Nat \ {0} /\ LEN \in Nat \ {0} /\ Split \in 0 .. LEN

VARIABLES
  program,
  run,               \* "on" the processor, "ready", "blocked", or "dead"
  at,                \* the point it runs at
  p_s,
  exc0, exc1,        \* sup_exceptState, by PGFAULTEXCEPT and GENERALEXCEPT
  tlb, present,      \* the pages with a TLB entry, the pages in a frame
  sem,               \* the support level's semaphores for its devices
  call,              \* the function it is in, by its device
  virtAddr,          \* position in the string
  retValue,
  eos,               \* position of the EOS
  moved,             \* history: the positions that went through the device
  last,              \* history: the last instruction of the program issued
  repeated           \* history: a refill resumed elsewhere than at the access

callVars == <<sem, call, virtAddr, retValue, eos, moved>>
vars == <<program, run, at, p_s, exc0, exc1, tlb, present, callVars, last, repeated, timeVars>>

PageOf(pos) == IF pos <= Split THEN 0 ELSE 1
UserPoint(n) == <<"user", n>>

Init ==
  /\ program \in [1 .. Length -> Op]
  /\ run = "on" /\ at = UserPoint(1) /\ p_s = at /\ exc0 = at /\ exc1 = at
  /\ tlb = {} /\ present = {}
  /\ sem = [d \in Writes \cup {"receiver"} |-> 1]
  /\ call = "none" /\ virtAddr = 1 /\ retValue = 0 /\ eos = LEN + 1 /\ moved = <<>>
  /\ last = 0 /\ repeated = FALSE
  /\ TimeInit

InUser == run = "on" /\ at[1] = "user" /\ at[2] <= Length
At(code) == run = "on" /\ at[1] = code

(* The call to handle: SYSCALL(TERMINATE) from inside a handler is another.*)
currentSyscall == IF exc1[1] = "user" THEN program[exc1[2]] ELSE "TERMINATE"

----------------------------------------------------------------------------
(* Pages                                                                   *)

(* The pages the next access needs.                                        *)
Needs ==
  CASE InUser /\ program[at[2]] = "load0" -> {0}
    [] InUser /\ program[at[2]] = "load1" -> {1}
    [] At("test") /\ call \in Writes -> {PageOf(virtAddr)}
    [] At("done") /\ (call = "receiver" \/ at[2] = "error") -> {PageOf(virtAddr)}
    [] OTHER -> {}

Hit == Needs \subseteq tlb \cap present

(* Where a refill leads: to p_s, and from the end of the pager on to the    *)
(* state of the last page fault.                                           *)
Resumed == IF p_s[1] = "left" THEN exc0 ELSE p_s

(* An entry for the page, perhaps in the place of another of the process.  *)
(* It goes on from p_s, which is not where the access was if anything was  *)
(* done since p_s was saved.                                               *)
uTLB_RefillHandler ==
  \E v \in Needs \ tlb, old \in SUBSET tlb :
    /\ Cardinality(old) <= 1
    /\ tlb' = (tlb \ old) \cup {v}
    /\ at' = p_s
    /\ repeated' = (repeated \/ Resumed # at)
    /\ UNCHANGED <<program, run, p_s, exc0, exc1, present, callVars, last, timeVars>>

(* The state is saved where the support level's handler looks for it.      *)
passupOrDie(exceptionType) ==
  IF exceptionType = "PGFAULTEXCEPT"
  THEN exc0' = at /\ UNCHANGED exc1
  ELSE exc1' = at /\ UNCHANGED exc0

(* The process gives up the processor in a call, to go on at a point.      *)
BlockAt(point) ==
  /\ run' = "blocked"
  /\ p_s' = point /\ at' = point
  /\ blockCurrentProcessAt

(* A page that has an entry but no frame: up to the IOWAIT for the flash   *)
(* device, or the P on swapSem if that blocks.                             *)
TLBExceptionHandler ==
  \E v \in (Needs \cap tlb) \ present :
    /\ passupOrDie("PGFAULTEXCEPT")
    /\ BlockAt(<<"pager", v>>)
    /\ UNCHANGED <<program, tlb, present, callVars, last, repeated>>

(* The page is there, perhaps in the frame of another of the process; the  *)
(* V on swapSem saves p_s.                                                 *)
handlePageFault ==
  /\ At("pager")
  /\ \E old \in SUBSET present :
       Cardinality(old) <= 1 /\ present' = (present \ old) \cup {at[2]}
  /\ p_s' = <<"left", 0>> /\ at' = p_s'
  /\ UNCHANGED <<program, run, exc0, exc1, tlb, callVars, last, repeated, timeVars>>

(* Defect: the instruction that faulted is taken for done.                 *)
ReturnFromPager_PcPlus4 ==
  /\ At("left")
  /\ at' = IF exc0[1] = "user" THEN UserPoint(exc0[2] + 1) ELSE exc0
  /\ UNCHANGED <<program, run, p_s, exc0, exc1, tlb, present, callVars, last, repeated, timeVars>>

ReturnFromPager ==
  /\ At("left")
  /\ at' = exc0
  /\ UNCHANGED <<program, run, p_s, exc0, exc1, tlb, present, callVars, last, repeated, timeVars>>

----------------------------------------------------------------------------
(* The program                                                             *)

Load ==
  /\ InUser /\ Needs # {} /\ Hit
  /\ at' = UserPoint(at[2] + 1)
  /\ last' = at[2]
  /\ UNCHANGED <<program, run, p_s, exc0, exc1, tlb, present, callVars, repeated, timeVars>>

(* GETTIME is answered by the nucleus; p_s is past the SYSCALL.            *)
GetTime ==
  /\ InUser /\ program[at[2]] = "GETTIME"
  /\ at' = UserPoint(at[2] + 1) /\ p_s' = at'
  /\ last' = at[2]
  /\ get_Cpu_Time
  /\ UNCHANGED <<program, run, exc0, exc1, tlb, present, callVars, repeated>>

(* The others are passed up, up to the handler's GETSUPPORTPTR.  The pc is *)
(* not advanced in the state that is saved.                                *)
SupportCall ==
  /\ InUser /\ program[at[2]] \in Calls
  /\ passupOrDie("GENERALEXCEPT")
  /\ p_s' = <<"handler", 0>> /\ at' = p_s'
  /\ last' = at[2]
  /\ UNCHANGED <<program, run, tlb, present, callVars, repeated, timeVars>>

----------------------------------------------------------------------------
(* The calls                                                               *)

get_TOD ==
  /\ At("handler") /\ currentSyscall = "GET_TOD"
  /\ at' = exc1
  /\ UNCHANGED <<program, run, p_s, exc0, exc1, tlb, present, callVars, last, repeated, timeVars>>

terminate_support ==
  /\ At("handler") /\ currentSyscall = "TERMINATE"
  /\ run' = "dead"
  /\ UNCHANGED <<program, at, p_s, exc0, exc1, tlb, present, callVars, last, repeated, timeVars>>

(* Arguments out of range: a call of TERMINATE from inside the handler.    *)
RefuseArguments ==
  /\ At("handler") /\ currentSyscall = "tooLong"
  /\ passupOrDie("GENERALEXCEPT")
  /\ UNCHANGED <<program, run, at, p_s, tlb, present, callVars, last, repeated, timeVars>>

(* Defect: no P.                                                           *)
GetDevice_NoP(d) ==
  /\ At("handler") /\ currentSyscall = d
  /\ call' = d
  /\ virtAddr' = 1 /\ retValue' = 0 /\ eos' = LEN + 1 /\ moved' = <<>>
  /\ p_s' = <<"test", "ok">> /\ at' = p_s'
  /\ UNCHANGED <<program, run, exc0, exc1, tlb, present, sem, last, repeated, timeVars>>

(* The head of the three functions, with the P on the device.              *)
GetDevice(d) ==
  /\ At("handler") /\ currentSyscall = d
  /\ call' = d
  /\ virtAddr' = 1 /\ retValue' = 0 /\ eos' = LEN + 1 /\ moved' = <<>>
  /\ sem' = [sem EXCEPT ![d] = @ - 1]
  /\ IF sem'[d] < 0
     THEN BlockAt(<<"test", "ok">>)
     ELSE /\ p_s' = <<"test", "ok">> /\ at' = p_s'
          /\ UNCHANGED <<run, timeVars>>
  /\ UNCHANGED <<program, exc0, exc1, tlb, present, last, repeated>>

(* A character to the device, and IOWAIT.                                  *)
Command ==
  /\ BlockAt(<<"done", "none">>)
  /\ UNCHANGED <<program, exc0, exc1, tlb, present, callVars, last, repeated>>

(* Defect: no V.                                                           *)
ReleaseDevice_NoV ==
  /\ p_s' = <<"return", 0>> /\ at' = p_s'
  /\ UNCHANGED <<program, run, exc0, exc1, tlb, present, callVars, last, repeated, timeVars>>

ReleaseDevice ==
  /\ sem' = [sem EXCEPT ![call] = @ + 1]
  /\ p_s' = <<"return", 0>> /\ at' = p_s'
  /\ UNCHANGED <<program, run, exc0, exc1, tlb, present, call, virtAddr, retValue, eos,
                 moved, last, repeated, timeVars>>

(* The condition of the write loops.  What is behind the EOS is not known. *)
TestWrite(d) ==
  /\ At("test") /\ call = d /\ Hit
  /\ \/ virtAddr < eos /\ Command
     \/ virtAddr = eos /\ ReleaseDevice
     \/ /\ virtAddr > eos
        /\ at' = <<"beyond", 0>>
        /\ UNCHANGED <<program, run, p_s, exc0, exc1, tlb, present, callVars, last, repeated,
                       timeVars>>

(* The condition of the read loop.                                         *)
TestRead ==
  /\ At("test") /\ call = "receiver"
  /\ IF at[2] = "ok" THEN Command ELSE ReleaseDevice

(* Defect: the pointer is not advanced.                                    *)
Advance_Not == retValue' = retValue + 1 /\ UNCHANGED <<virtAddr, eos>>

Advance == virtAddr' = virtAddr + 1 /\ retValue' = retValue + 1 /\ UNCHANGED eos

(* The result is an error, and the string ends here.                       *)
Fail == retValue' = -1 /\ eos' = virtAddr /\ UNCHANGED virtAddr

(* The loops after IOWAIT.                                                 *)
AfterWrite(d) ==
  /\ At("done") /\ call = d /\ Hit
  /\ IF at[2] = "error" THEN Fail ELSE Advance
  /\ at' = <<"test", at[2]>>
  /\ UNCHANGED <<program, run, p_s, exc0, exc1, tlb, present, sem, call, moved, last, repeated,
                 timeVars>>

AfterRead ==
  /\ At("done") /\ call = "receiver" /\ Hit
  /\ IF at[2] = "error"
     THEN Fail /\ UNCHANGED moved
     ELSE Advance /\ moved' = Append(moved, virtAddr)
  /\ at' = <<"test", at[2]>>
  /\ UNCHANGED <<program, run, p_s, exc0, exc1, tlb, present, sem, call, last, repeated, timeVars>>

(* Back to the program, past the SYSCALL; the locals are no more.          *)
Return ==
  /\ At("return")
  /\ exc1' = UserPoint(exc1[2] + 1) /\ at' = exc1'
  /\ call' = "none" /\ virtAddr' = 1 /\ retValue' = 0 /\ eos' = LEN + 1 /\ moved' = <<>>
  /\ UNCHANGED <<program, run, p_s, exc0, tlb, present, sem, last, repeated, timeVars>>

(* The test of the printer's status is written out twice, of a terminal's  *)
(* once: otherwise the two functions are the same.                         *)
write_To_Printer == GetDevice("printer") \/ TestWrite("printer") \/ AfterWrite("printer")

write_To_Terminal ==
  GetDevice("transmitter") \/ TestWrite("transmitter") \/ AfterWrite("transmitter")

read_From_Terminal == GetDevice("receiver") \/ TestRead \/ AfterRead

----------------------------------------------------------------------------
(* Interrupts, and the other processes                                     *)

Preempted ==
  /\ InUser
  /\ run' = "ready" /\ p_s' = at
  /\ handlePLTInterrupt
  /\ UNCHANGED <<program, at, exc0, exc1, tlb, present, callVars, last, repeated>>

(* By another process's device, or by the interval timer: it goes on.      *)
Interrupted ==
  /\ InUser
  /\ p_s' = at
  /\ handleDeviceInterrupt \/ get_Cpu_Time
  /\ UNCHANGED <<program, run, at, exc0, exc1, tlb, present, callVars, last, repeated>>

(* Its device has finished: v0 of p_s is the status.  A line of input ends *)
(* before the buffer does.                                                 *)
Released ==
  /\ run = "blocked" /\ p_s[1] \in {"done", "pager"}
  /\ run' = "ready"
  /\ \/ p_s[1] = "pager" /\ UNCHANGED <<p_s, at, moved>>
     \/ \E status \in {"ok", "newline", "error"} :
          /\ p_s[1] = "done"
          /\ status = "newline" => call = "receiver"
          /\ call = "receiver" /\ virtAddr >= LEN => status # "ok"
          /\ p_s' = <<"done", status>> /\ at' = p_s'
          /\ moved' = IF call \in Writes /\ status = "ok"
                      THEN Append(moved, virtAddr) ELSE moved
  /\ UNCHANGED <<program, exc0, exc1, tlb, present, sem, call, virtAddr, retValue, eos, last,
                 repeated, timeVars>>

Dispatched ==
  /\ run = "ready"
  /\ run' = "on" /\ at' = p_s
  /\ updateTimeAndSwitch
  /\ UNCHANGED <<program, p_s, exc0, exc1, tlb, present, callVars, last, repeated>>

Others ==
  /\ run \in {"ready", "blocked"}
  /\ \E v \in Page : \/ tlb' = tlb \ {v} /\ UNCHANGED present
                     \/ present' = present \ {v} /\ UNCHANGED tlb
  /\ UNCHANGED <<program, run, at, p_s, exc0, exc1, callVars, last, repeated, timeVars>>

TimePasses ==
  /\ run # "dead"
  /\ Tick(run = "on")
  /\ UNCHANGED <<program, run, at, p_s, exc0, exc1, tlb, present, callVars, last, repeated>>

(* The process is dead, out of its string or at the end of the program.    *)
Stay == (run = "dead" \/ At("beyond") \/ (At("user") /\ ~InUser)) /\ UNCHANGED vars

(* One disjunct for each of the calls of the switch.  A number outside it  *)
(* falls out of handleSupportSystemcalls, which has no default; programs   *)
(* that ask for one are left out.                                          *)
Handling ==
  \/ get_TOD \/ terminate_support \/ RefuseArguments
  \/ write_To_Printer \/ write_To_Terminal \/ read_From_Terminal \/ Return
  \/ uTLB_RefillHandler \/ TLBExceptionHandler \/ handlePageFault \/ ReturnFromPager

Next ==
  \/ Handling \/ Load \/ GetTime \/ SupportCall
  \/ Preempted \/ Interrupted \/ Released \/ Dispatched \/ Others \/ TimePasses \/ Stay

Spec == Init /\ [][Next]_vars

(* Handlers go on, devices finish, and a ready process gets the processor  *)
(* (ReadyProcessRuns of Nucleus).  Nothing is assumed of the program.      *)
FairSpec == Spec /\ WF_vars(Handling) /\ WF_vars(Released) /\ WF_vars(Dispatched)

----------------------------------------------------------------------------

InCall ==
  /\ run # "dead"
  /\ \/ at[1] \in {"handler", "test", "done", "return"}
     \/ at[1] \in {"pager", "left"} /\ exc0[1] # "user"

(* Type invariant.                                                         *)
TypeOK ==
  LET Point == ({"user"} \X (1 .. Length + 2)) \cup ({"pager"} \X Page)
               \cup ({"handler", "left", "return", "beyond"} \X {0})
               \cup ({"test", "done"} \X {"none", "ok", "newline", "error"})
  IN  /\ program \in [1 .. Length -> Op]
      /\ run \in {"on", "ready", "blocked", "dead"}
      /\ {at, p_s, exc0, exc1} \subseteq Point
      /\ {tlb, present} \subseteq SUBSET Page
      /\ sem \in [Writes \cup {"receiver"} -> {0, 1}]
      /\ call \in DOMAIN sem \cup {"none"}
      /\ virtAddr \in 1 .. LEN + 2 /\ retValue \in -1 .. LEN + 1 /\ eos \in 1 .. LEN + 1
      /\ moved \in Seq(1 .. LEN)
      /\ last \in 0 .. Length /\ {repeated, garbled} \subseteq BOOLEAN
      /\ {now, startT, used} \subseteq Nat /\ p_time \in Int

(* "the printing of an entire string" (supportSystemCalls.c:72), and the   *)
(* reading of a line: the characters go in order, each once, and the       *)
(* result counts them or tells an error, whatever pages fault on the way;  *)
(* unless a refill resumed elsewhere (sysSupport.c:43).                    *)
EntireString ==
  ~repeated =>
    /\ moved = [i \in 1 .. Len(moved) |-> i]
    /\ At("return") =>
         IF retValue = -1 THEN eos = Len(moved) + 1
         ELSE retValue = Len(moved) /\ (call \in Writes => retValue = LEN)

(* The program's instructions take their turn, each once: calls, page      *)
(* faults, interrupts and other processes lead back to where the program   *)
(* was (exceptions.c:74), but for GET_TOD, which leads back to itself      *)
(* (supportSystemCalls.c:69), and for refills (sysSupport.c:43).           *)
EachInstructionOnce ==
  ~repeated /\ InUser =>
    at[2] = last + 1 \/ (at[2] = last /\ program[last] = "GET_TOD")

(* p_time is the time the process has run up to its last update, over      *)
(* calls, slices and interrupts, up to the first interrupt of a device     *)
(* that finds it running (interrupts.c:122).  The last stretch of a        *)
(* process that terminates is nobody's.                                    *)
CpuTimeExact ==
  ~garbled /\ run # "dead" => used = p_time + (IF run = "on" THEN now - startT ELSE 0)

(* Every call is over in the end: the devices are given back and no wait   *)
(* is for a page, a device or a semaphore that nobody will release.  A     *)
(* write that skipped the EOS of its string after a wrong refill (the      *)
(* point "beyond", see repeated) counts as over: it still holds its device *)
(* and reads on behind the string, which is not modelled.                  *)
CallReturns == InCall ~> ~InCall
=============================================================================
