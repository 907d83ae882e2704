---------------------------- MODULE SupportProofs ---------------------------
(***************************************************************************)
(* Theorems about SupportCalls, for every program, string length, clock    *)
(* and timeslice: the CPU time, the order of the instructions, and the     *)
(* strings.                                                                *)
(*                                                                         *)
(* Where a process stands in its own code is `at', but inside the pager it *)
(* is the state of the page fault (Standing).  The control invariant says  *)
(* which call the states that wait for the process belong to, the string   *)
(* invariant what the locals of the loops are at each point of them.       *)
(***************************************************************************)
EXTENDS SupportCalls, TLAPS

Device == Writes \cup {"receiver"}

----------------------------------------------------------------------------
(* The CPU time                                                            *)

TimeInv ==
  /\ {now, startT, p_time, used} \subseteq Int
  /\ CpuTimeExact

LEMMA TimeInvInit == Init => TimeInv
BY DEF Init, TimeInit, TimeInv, CpuTimeExact

(* The handlers that leave the clock alone, and the process running or not *)
(* running as it was.                                                      *)
LEMMA TimeKept ==
  ASSUME TimeInv, UNCHANGED timeVars,
         run' = "on" <=> run = "on", run' = "dead" <=> run = "dead"
  PROVE  TimeInv'
BY DEF TimeInv, CpuTimeExact, timeVars

(* The process gives up the processor.                                     *)
LEMMA TimeBilled ==
  ASSUME TimeInv, run = "on", run' # "on",
         blockCurrentProcessAt \/ handlePLTInterrupt
  PROVE  TimeInv'
BY DEF TimeInv, CpuTimeExact, blockCurrentProcessAt, handlePLTInterrupt

(* It is billed and runs on.                                               *)
LEMMA TimeBilledOn ==
  ASSUME TimeInv, run = "on", run' = "on",
         get_Cpu_Time \/ handleDeviceInterrupt
  PROVE  TimeInv'
<1>1. CASE get_Cpu_Time
  BY <1>1 DEF TimeInv, CpuTimeExact, get_Cpu_Time
<1>2. CASE handleDeviceInterrupt
  <2>1. PICK timer \in 0 .. Timeslice :
          p_time' = p_time + (now - timer) /\ garbled' = (timer # startT)
    BY <1>2 DEF handleDeviceInterrupt
  <2>2. ~garbled /\ startT' = now /\ now' = now /\ used' = used
    BY <1>2 DEF handleDeviceInterrupt
  <2>3. Timeslice \in Int
    BY CpuTimeAssumption
  <2>4. {now, startT, p_time, used}' \subseteq Int
    BY <2>1, <2>2, <2>3 DEF TimeInv
  <2>5. ~garbled' => timer = startT
    BY <2>1
  <2> QED
    BY <2>1, <2>2, <2>4, <2>5 DEF TimeInv, CpuTimeExact
<1> QED  BY <1>1, <1>2

LEMMA TimeDevice ==
  ASSUME TimeInv, NEW d \in Device,
         GetDevice(d) \/ TestWrite(d) \/ AfterWrite(d) \/ TestRead \/ AfterRead
  PROVE  TimeInv'
<1>1. CASE GetDevice(d) /\ sem'[d] < 0
  BY <1>1, TimeBilled DEF GetDevice, At, BlockAt
<1>2. CASE GetDevice(d) /\ ~(sem'[d] < 0)
  BY <1>2, TimeKept DEF GetDevice
<1>3. CASE run = "on" /\ Command
  BY <1>3, TimeBilled DEF Command, BlockAt
<1>4. CASE ReleaseDevice
  BY <1>4, TimeKept DEF ReleaseDevice
<1>5. CASE TestWrite(d) /\ ~Command /\ ~ReleaseDevice
  BY <1>5, TimeKept DEF TestWrite
<1>6. CASE AfterWrite(d) \/ AfterRead
  BY <1>6, TimeKept DEF AfterWrite, AfterRead
<1>7. TestWrite(d) \/ TestRead => run = "on"
  BY DEF TestWrite, TestRead, At
<1>8. TestRead => Command \/ ReleaseDevice
  BY DEF TestRead
<1> QED  BY <1>1, <1>2, <1>3, <1>4, <1>5, <1>6, <1>7, <1>8

LEMMA TimeHandling ==
  ASSUME TimeInv, Handling
  PROVE  TimeInv'
<1>1. CASE terminate_support
  BY <1>1 DEF terminate_support, timeVars, TimeInv, CpuTimeExact
<1>2. CASE TLBExceptionHandler
  <2>1. run = "on"
    BY <1>2 DEF TLBExceptionHandler, Needs, InUser, At
  <2>2. run' = "blocked" /\ blockCurrentProcessAt
    BY <1>2 DEF TLBExceptionHandler, BlockAt
  <2> QED  BY <2>1, <2>2, TimeBilled
<1>3. CASE get_TOD \/ RefuseArguments \/ Return \/ ReturnFromPager
  BY <1>3, TimeKept DEF get_TOD, RefuseArguments, Return, ReturnFromPager
<1>4. CASE uTLB_RefillHandler \/ handlePageFault
  BY <1>4, TimeKept DEF uTLB_RefillHandler, handlePageFault
<1>5. CASE write_To_Printer \/ write_To_Terminal \/ read_From_Terminal
  BY <1>5, TimeDevice DEF write_To_Printer, write_To_Terminal, read_From_Terminal, Device, Writes
<1> QED  BY <1>1, <1>2, <1>3, <1>4, <1>5 DEF Handling

LEMMA TimeStep == TimeInv /\ [Next]_vars => TimeInv'
<1> SUFFICES ASSUME TimeInv, [Next]_vars PROVE TimeInv'
  OBVIOUS
<1>1. CASE Handling
  BY <1>1, TimeHandling
<1>2. CASE Load \/ SupportCall \/ Others
  BY <1>2, TimeKept DEF Load, SupportCall, Others
<1>3. CASE GetTime
  BY <1>3, TimeBilledOn DEF GetTime, InUser
<1>4. CASE Preempted
  BY <1>4, TimeBilled DEF Preempted, InUser
<1>5. CASE Interrupted
  BY <1>5, TimeBilledOn DEF Interrupted, InUser
<1>6. CASE Released
  BY <1>6, TimeKept DEF Released
<1>7. CASE Dispatched
  BY <1>7 DEF Dispatched, updateTimeAndSwitch, TimeInv, CpuTimeExact
<1>8. CASE TimePasses
  BY <1>8 DEF TimePasses, Tick, TimeInv, CpuTimeExact
<1>9. CASE UNCHANGED vars
  BY <1>9, TimeKept DEF vars
<1> QED
  BY <1>1, <1>2, <1>3, <1>4, <1>5, <1>6, <1>7, <1>8, <1>9 DEF Next, Stay

(* Over any number of slices, calls and interrupts, p_time is the time the *)
(* process has run up to its last update (interrupts.c:65, 78,             *)
(* nucleousSystemCalls.c:183, 215), while no device has interrupted it     *)
(* (interrupts.c:122).                                                     *)
THEOREM CpuTimeIsExact == Spec => []CpuTimeExact
<1>1. TimeInv => CpuTimeExact
  BY DEF TimeInv
<1> QED  BY TimeInvInit, TimeStep, <1>1, PTL DEF Spec

----------------------------------------------------------------------------
(* Control                                                                 *)

InPager == at[1] \in {"pager", "left"}
Standing == IF InPager THEN exc0 ELSE at

(* A point of the program that comes after the last instruction issued, or *)
(* the SYSCALL(GET_TOD) itself.                                            *)
Following(point) ==
  point[1] = "user" =>
    point[2] = last + 1 \/ (point[2] = last /\ program[last] = "GET_TOD")

(* A handler that will return finds the SYSCALL in exc1; one without comes *)
(* from a call made inside a handler, and will terminate the process.      *)
OwnCall ==
  /\ Standing[1] \in {"test", "done", "return"} => exc1[1] = "user" /\ exc1[2] = last
  /\ Standing[1] = "handler" /\ exc1[1] = "user" => exc1[2] = last

Control ==
  /\ last \in Nat
  /\ run \in {"ready", "blocked"} => at = p_s
  /\ Following(at)
  /\ InPager => Following(exc0) /\ exc0[1] \notin {"pager", "left"}
  /\ OwnCall

ControlInv == ~repeated => Control

LEMMA NeedsPoint == Needs # {} => run = "on" /\ at[1] \in {"user", "test", "done"}
BY DEF Needs, InUser, At

LEMMA ControlInit == Init => ControlInv
BY DEF Init, ControlInv, Control, Following, OwnCall, Standing, InPager, UserPoint

(* The points and the program's progress are left alone.                   *)
LEMMA ControlKept ==
  ASSUME ControlInv, UNCHANGED <<program, at, exc0, exc1, last, repeated>>,
         run' \in {"ready", "blocked"} => at = p_s'
  PROVE  ControlInv'
BY DEF ControlInv, Control, Following, OwnCall, Standing, InPager

(* From a point of a call to another one, outside the pager.               *)
LEMMA ControlInCall ==
  ASSUME ControlInv, run = "on",
         at[1] \in {"test", "done", "return"} \/ (at[1] = "handler" /\ exc1[1] = "user"),
         at'[1] \in {"test", "done", "return", "beyond"},
         UNCHANGED <<exc1, last, repeated>>,
         run' \in {"ready", "blocked"} => at' = p_s'
  PROVE  ControlInv'
BY DEF ControlInv, Control, Following, OwnCall, Standing, InPager

LEMMA ControlRefill == ControlInv /\ uTLB_RefillHandler => ControlInv'
<1> SUFFICES ASSUME ControlInv, uTLB_RefillHandler, ~repeated' PROVE Control'
  BY DEF ControlInv
<1>1. /\ Needs # {} /\ at' = p_s
      /\ ~repeated /\ Resumed = at
      /\ UNCHANGED <<program, run, p_s, exc0, exc1, last>>
  BY DEF uTLB_RefillHandler
<1>2. run = "on" /\ at[1] \in {"user", "test", "done"}
  BY <1>1, NeedsPoint
<1>3. CASE p_s[1] = "left"
  BY <1>1, <1>2, <1>3 DEF Resumed, ControlInv, Control, Following, OwnCall, Standing, InPager
<1>4. CASE p_s[1] # "left"
  BY <1>1, <1>2, <1>4 DEF Resumed, ControlInv, Control, Following, OwnCall, Standing, InPager
<1> QED  BY <1>3, <1>4

LEMMA ControlPager ==
  ASSUME ControlInv, TLBExceptionHandler \/ handlePageFault \/ ReturnFromPager
  PROVE  ControlInv'
<1>1. CASE TLBExceptionHandler
  <2>1. run = "on" /\ at[1] \in {"user", "test", "done"}
    BY <1>1, NeedsPoint DEF TLBExceptionHandler
  <2>2. PICK v \in Needs : at' = <<"pager", v>> /\ p_s' = at'
    BY <1>1 DEF TLBExceptionHandler, BlockAt
  <2>3. exc0' = at /\ UNCHANGED <<program, exc1, last, repeated>>
    BY <1>1 DEF TLBExceptionHandler, passupOrDie
  <2> QED
    BY <2>1, <2>2, <2>3 DEF ControlInv, Control, Following, OwnCall, Standing, InPager
<1>2. CASE handlePageFault
  <2>1. run = "on" /\ at[1] = "pager" /\ at' = <<"left", 0>>
    BY <1>2 DEF handlePageFault, At
  <2>2. UNCHANGED <<program, run, exc0, exc1, last, repeated>>
    BY <1>2 DEF handlePageFault
  <2> QED
    BY <2>1, <2>2 DEF ControlInv, Control, Following, OwnCall, Standing, InPager
<1>3. CASE ReturnFromPager
  <2>1. run = "on" /\ at[1] = "left" /\ at' = exc0
    BY <1>3 DEF ReturnFromPager, At
  <2>2. UNCHANGED <<program, run, exc0, exc1, last, repeated>>
    BY <1>3 DEF ReturnFromPager
  <2> QED
    BY <2>1, <2>2 DEF ControlInv, Control, Following, OwnCall, Standing, InPager
<1> QED  BY <1>1, <1>2, <1>3

LEMMA ControlDevice ==
  ASSUME ControlInv, NEW d \in Device,
         GetDevice(d) \/ TestWrite(d) \/ AfterWrite(d) \/ TestRead \/ AfterRead
  PROVE  ControlInv'
<1>1. CASE GetDevice(d)
  <2>1. run = "on" /\ at[1] = "handler" /\ exc1[1] = "user"
    BY <1>1 DEF GetDevice, At, currentSyscall, Device, Writes
  <2>2. at'[1] = "test" /\ at' = p_s' /\ UNCHANGED <<exc1, last, repeated>>
    BY <1>1 DEF GetDevice, BlockAt
  <2> QED  BY <2>1, <2>2, ControlInCall
<1>2. CASE Command /\ At("test")
  BY <1>2, ControlInCall DEF Command, BlockAt, At
<1>3. CASE ReleaseDevice /\ At("test")
  BY <1>3, ControlInCall DEF ReleaseDevice, At
<1>4. CASE TestWrite(d) \/ TestRead
  <2>1. At("test")
    BY <1>4 DEF TestWrite, TestRead
  <2>2. CASE Command \/ ReleaseDevice
    BY <2>1, <2>2, <1>2, <1>3
  <2>3. CASE ~Command /\ ~ReleaseDevice
    BY <1>4, <2>3, ControlInCall DEF TestWrite, TestRead, At
  <2> QED  BY <2>2, <2>3
<1>5. CASE AfterWrite(d) \/ AfterRead
  BY <1>5, ControlInCall DEF AfterWrite, AfterRead, At
<1> QED  BY <1>1, <1>4, <1>5

LEMMA ControlReturn ==
  ASSUME ControlInv, get_TOD \/ terminate_support \/ RefuseArguments \/ Return
  PROVE  ControlInv'
<1>1. CASE get_TOD
  <2>1. /\ run = "on" /\ at[1] = "handler" /\ at' = exc1
        /\ UNCHANGED <<program, run, exc0, exc1, last, repeated>>
    BY <1>1 DEF get_TOD, At
  <2>2. exc1[1] = "user" /\ program[exc1[2]] = "GET_TOD"
    BY <1>1 DEF get_TOD, currentSyscall
  <2> QED
    BY <2>1, <2>2 DEF ControlInv, Control, Following, OwnCall, Standing, InPager
<1>2. CASE terminate_support
  BY <1>2, ControlKept DEF terminate_support
<1>3. CASE RefuseArguments
  <2>1. run = "on" /\ at[1] = "handler" /\ exc1' = at
    BY <1>3 DEF RefuseArguments, At, passupOrDie
  <2>2. UNCHANGED <<program, run, at, exc0, last, repeated>>
    BY <1>3 DEF RefuseArguments, passupOrDie
  <2> QED
    BY <2>1, <2>2 DEF ControlInv, Control, Following, OwnCall, Standing, InPager
<1>4. CASE Return
  <2>1. /\ run = "on" /\ at[1] = "return"
        /\ at' = <<"user", exc1[2] + 1>>
        /\ UNCHANGED <<program, run, exc0, last, repeated>>
    BY <1>4 DEF Return, At, UserPoint
  <2> QED
    BY <2>1 DEF ControlInv, Control, Following, OwnCall, Standing, InPager
<1> QED  BY <1>1, <1>2, <1>3, <1>4

LEMMA ControlProgram ==
  ASSUME ControlInv, Load \/ GetTime \/ SupportCall
  PROVE  ControlInv'
<1>1. run = "on" /\ at[1] = "user" /\ run' = run /\ repeated' = repeated
  BY DEF Load, GetTime, SupportCall, InUser
<1>2. ~repeated => at[2] \in Nat
  BY <1>1 DEF ControlInv, Control, Following
<1>3. CASE Load \/ GetTime
  <2>1. at' = <<"user", at[2] + 1>> /\ last' = at[2]
    BY <1>3 DEF Load, GetTime, UserPoint
  <2> QED
    BY <1>1, <1>2, <2>1 DEF ControlInv, Control, Following, OwnCall, Standing, InPager
<1>4. CASE SupportCall
  <2>1. at' = <<"handler", 0>> /\ last' = at[2] /\ exc1' = at
    BY <1>4 DEF SupportCall, passupOrDie
  <2> QED
    BY <1>1, <1>2, <2>1
    DEF ControlInv, Control, Following, OwnCall, Standing, InPager
<1> QED  BY <1>3, <1>4
LEMMA ControlStep == ControlInv /\ [Next]_vars => ControlInv'
<1> SUFFICES ASSUME ControlInv, [Next]_vars PROVE ControlInv'
  OBVIOUS
<1>1. CASE write_To_Printer \/ write_To_Terminal \/ read_From_Terminal
  BY <1>1, ControlDevice
  DEF write_To_Printer, write_To_Terminal, read_From_Terminal, Device, Writes
<1>2. CASE Handling
  BY <1>1, <1>2, ControlRefill, ControlPager, ControlReturn DEF Handling
<1>3. CASE Load \/ GetTime \/ SupportCall
  BY <1>3, ControlProgram
<1>4. CASE Preempted \/ Interrupted
  BY <1>4, ControlKept DEF Preempted, Interrupted, InUser
<1>5. CASE Released
  <2>1. run = "blocked" /\ run' = "ready"
    BY <1>5 DEF Released
  <2>2. UNCHANGED <<program, exc0, exc1, last, repeated>>
    BY <1>5 DEF Released
  <2>3. CASE UNCHANGED <<p_s, at>>
    BY <2>1, <2>2, <2>3, ControlKept DEF ControlInv, Control
  <2>4. CASE p_s[1] = "done" /\ at'[1] = "done" /\ p_s' = at'
    BY <2>1, <2>2, <2>4 DEF ControlInv, Control, Following, OwnCall, Standing, InPager
  <2> QED
    BY <1>5, <2>3, <2>4 DEF Released
<1>6. CASE Dispatched
  BY <1>6, ControlKept DEF Dispatched, ControlInv, Control
<1>7. CASE Others \/ TimePasses
  BY <1>7, ControlKept DEF Others, TimePasses, ControlInv, Control
<1>8. CASE UNCHANGED vars
  BY <1>8, ControlKept DEF vars, ControlInv, Control
<1> QED
  BY <1>2, <1>3, <1>4, <1>5, <1>6, <1>7, <1>8 DEF Next, Stay

(* Whatever calls, page faults, refills and interrupts lie between, the    *)
(* program goes on after the last instruction it issued                    *)
(* (exceptions.c:74), but for GET_TOD (supportSystemCalls.c:69) and as     *)
(* long as no refill resumed elsewhere (sysSupport.c:43).                  *)
THEOREM InstructionsInTurn == Spec => []EachInstructionOnce
<1>1. ControlInv => EachInstructionOnce
  BY DEF ControlInv, Control, Following, EachInstructionOnce, InUser
<1> QED  BY ControlInit, ControlStep, <1>1, PTL DEF Spec
----------------------------------------------------------------------------
(* Strings                                                                 *)

Counted(n) == [i \in 1 .. n |-> i]

LEMMA CountedFacts ==
  ASSUME NEW n \in Nat
  PROVE  /\ Len(Counted(n)) = n
         /\ Append(Counted(n), n + 1) = Counted(n + 1)
<1>1. Counted(n) \in Seq(Nat) /\ Len(Counted(n)) = n
  BY DEF Counted
<1>2. Counted(n + 1) \in Seq(Nat) /\ Len(Counted(n + 1)) = n + 1
  BY DEF Counted
<1>3. Append(Counted(n), n + 1) \in Seq(Nat) /\ Len(Append(Counted(n), n + 1)) = n + 1
  BY <1>1
<1>4. \A i \in 1 .. n + 1 : Append(Counted(n), n + 1)[i] = Counted(n + 1)[i]
  BY <1>1 DEF Counted
<1> QED  BY <1>1, <1>2, <1>3, <1>4

Count == Len(moved)

(* No error so far, or the end of the string put where the error was.      *)
GoingOn == retValue = Count /\ virtAddr = Count + 1 /\ eos = LEN + 1
Failed == retValue = -1 /\ eos = Count + 1 /\ virtAddr = eos

(* The locals at the head of a loop, after its IOWAIT, and at its end.     *)
AtTest(status) ==
  IF status = "error" THEN Failed
  ELSE /\ GoingOn /\ virtAddr <= LEN + 1
       /\ call = "receiver" /\ status = "ok" => virtAddr <= LEN

AtDone(status) ==
  /\ retValue = virtAddr - 1 /\ eos = LEN + 1 /\ virtAddr \in 1 .. LEN
  /\ Count = IF call \in Writes /\ status = "ok" THEN virtAddr ELSE virtAddr - 1
  /\ status \in {"none", "ok", "newline", "error"}
  /\ status = "newline" => call = "receiver"
  /\ call = "receiver" /\ status = "ok" => virtAddr < LEN

AtReturn == Failed \/ (GoingOn /\ (call \in Writes => Count = LEN))

(* It waits for the device it has commanded.                               *)
Waiting == run = "blocked" /\ at[1] = "done"

Strings ==
  /\ Count \in Nat /\ moved = Counted(Count)
  /\ Standing[1] \in {"test", "done", "return"} => call \in Device
  /\ Standing[1] = "test" => AtTest(Standing[2])
  /\ Standing[1] = "done" => AtDone(Standing[2]) /\ (Standing[2] = "none" <=> Waiting)
  /\ Standing[1] = "return" => AtReturn

StringsInv == ~repeated => Strings

LEMMA NothingMoved == Len(<<>>) = 0 /\ Counted(0) = <<>>
BY DEF Counted

LEMMA MovedOne ==
  ASSUME Count \in Nat, moved = Counted(Count), moved' = Append(moved, Count + 1)
  PROVE  Count' = Count + 1 /\ moved' = Counted(Count')
<1>1. moved' = Counted(Count + 1)
  BY CountedFacts
<1>2. Len(Counted(Count + 1)) = Count + 1
  BY CountedFacts
<1>3. Count' = Count + 1
  BY <1>1, <1>2 DEF Count
<1> QED  BY <1>1, <1>3

LEMMA StringsInit == Init => StringsInv
BY NothingMoved DEF Init, StringsInv, Strings, Count, Standing, InPager, UserPoint

LEMMA StringsKept ==
  ASSUME StringsInv, ~repeated' => ~repeated,
         UNCHANGED <<call, virtAddr, retValue, eos, moved>>,
         ~repeated' => Standing' = Standing /\ (Waiting' <=> Waiting)
  PROVE  StringsInv'
BY DEF StringsInv, Strings, Count, AtTest, AtDone, AtReturn, GoingOn, Failed

(* The process is at no point of a loop.                                   *)
LEMMA StringsElsewhere ==
  ASSUME StringsInv, repeated' = repeated, moved' = moved \/ moved' = <<>>,
         Standing'[1] \notin {"test", "done", "return"}
  PROVE  StringsInv'
BY NothingMoved DEF StringsInv, Strings, Count

LEMMA StringsPager ==
  ASSUME StringsInv, ControlInv,
         uTLB_RefillHandler \/ TLBExceptionHandler \/ handlePageFault \/ ReturnFromPager
  PROVE  StringsInv'
<1>1. CASE uTLB_RefillHandler
  <2>1. run = "on" /\ at[1] \in {"user", "test", "done"}
    BY <1>1, NeedsPoint DEF uTLB_RefillHandler
  <2>2. /\ at' = p_s /\ UNCHANGED <<run, p_s, exc0, callVars>>
        /\ repeated' = (repeated \/ Resumed # at)
    BY <1>1 DEF uTLB_RefillHandler
  <2>3. ~repeated' => Standing' = Standing /\ (Waiting' <=> Waiting)
    BY <2>1, <2>2 DEF Resumed, Standing, InPager, Waiting
  <2> QED  BY <2>2, <2>3, StringsKept DEF callVars
<1>2. CASE TLBExceptionHandler
  <2>1. run = "on" /\ at[1] \in {"user", "test", "done"}
    BY <1>2, NeedsPoint DEF TLBExceptionHandler
  <2>2. PICK v \in Needs : at' = <<"pager", v>> /\ run' = "blocked"
    BY <1>2 DEF TLBExceptionHandler, BlockAt
  <2>3. exc0' = at /\ UNCHANGED <<callVars, repeated>>
    BY <1>2 DEF TLBExceptionHandler, passupOrDie
  <2>4. Standing' = Standing /\ (Waiting' <=> Waiting)
    BY <2>1, <2>2, <2>3 DEF Standing, InPager, Waiting
  <2> QED  BY <2>3, <2>4, StringsKept DEF callVars
<1>3. CASE handlePageFault
  <2>1. run = "on" /\ run' = run /\ at[1] = "pager" /\ at' = <<"left", 0>> /\ exc0' = exc0
    BY <1>3 DEF handlePageFault, At
  <2>2. Standing' = Standing /\ (Waiting' <=> Waiting)
    BY <2>1 DEF Standing, InPager, Waiting
  <2> QED  BY <1>3, <2>2, StringsKept DEF handlePageFault, callVars
<1>4. CASE ReturnFromPager
  <2>1. run = "on" /\ run' = run /\ at[1] = "left" /\ at' = exc0 /\ repeated' = repeated
    BY <1>4 DEF ReturnFromPager, At
  <2>2. ~repeated => exc0[1] \notin {"pager", "left"}
    BY <2>1 DEF ControlInv, Control, InPager
  <2>3. ~repeated => Standing' = Standing /\ (Waiting' <=> Waiting)
    BY <2>1, <2>2 DEF Standing, InPager, Waiting
  <2> QED  BY <1>4, <2>1, <2>3, StringsKept DEF ReturnFromPager, callVars
<1> QED  BY <1>1, <1>2, <1>3, <1>4

LEMMA StringsGetDevice ==
  ASSUME StringsInv, NEW d \in Device, GetDevice(d)
  PROVE  StringsInv'
<1>1. /\ at' = <<"test", "ok">> /\ call' = d
      /\ virtAddr' = 1 /\ retValue' = 0 /\ eos' = LEN + 1 /\ moved' = <<>>
  BY DEF GetDevice, BlockAt
<1>2. LEN \in Nat \ {0}
  BY SupportCallsAssumption
<1>3. Standing' = <<"test", "ok">>
  BY <1>1 DEF Standing, InPager
<1>4. Count' = 0 /\ moved' = Counted(Count')
  BY <1>1, NothingMoved DEF Count
<1>5. AtTest("ok")'
  BY <1>1, <1>2, <1>4 DEF AtTest, GoingOn
<1> QED
  BY <1>1, <1>3, <1>4, <1>5 DEF StringsInv, Strings

LEMMA StringsTest ==
  ASSUME StringsInv, NEW d \in Device, (d \in Writes /\ TestWrite(d)) \/ TestRead
  PROVE  StringsInv'
<1>1. run = "on" /\ at[1] = "test" /\ repeated' = repeated /\ Standing = at
  BY DEF TestWrite, TestRead, Command, ReleaseDevice, At, Standing, InPager
<1>2. UNCHANGED <<call, virtAddr, retValue, eos, moved>>
  BY DEF TestWrite, TestRead, Command, ReleaseDevice, callVars
<1>3. ~repeated => /\ Count \in Nat /\ moved = Counted(Count) /\ call \in Device
                   /\ AtTest(at[2])
  BY <1>1 DEF StringsInv, Strings
<1>4. Count' = Count
  BY <1>2 DEF Count
<1>5. CASE Command
  <2>1. at' = <<"done", "none">> /\ run' = "blocked"
    BY <1>5 DEF Command, BlockAt
  <2>2. Standing' = at' /\ Waiting'
    BY <2>1 DEF Standing, InPager, Waiting
  <2>3. ~repeated => GoingOn /\ virtAddr <= LEN
    <3>1. CASE TestRead
      BY <1>1, <1>3, <1>5, <3>1 DEF TestRead, AtTest, Command, BlockAt, ReleaseDevice
    <3>2. CASE TestWrite(d)
      <4>1. virtAddr < eos
        BY <1>5, <2>1, <3>2 DEF TestWrite, ReleaseDevice
      <4> QED  BY <1>3, <4>1, SupportCallsAssumption DEF AtTest, GoingOn, Failed
    <3> QED  BY <3>1, <3>2
  <2>4. ~repeated => AtDone("none")'
    BY <1>2, <1>3, <1>4, <2>3, SupportCallsAssumption DEF AtDone, GoingOn
  <2> QED
    BY <1>1, <1>2, <1>3, <1>4, <2>1, <2>2, <2>4 DEF StringsInv, Strings
<1>6. CASE ReleaseDevice
  <2>1. at' = <<"return", 0>>
    BY <1>6 DEF ReleaseDevice
  <2>2. Standing' = at'
    BY <2>1 DEF Standing, InPager
  <2>3. ~repeated => AtReturn
    <3>1. CASE TestRead
      <4>1. call \notin Writes
        BY <3>1 DEF TestRead, Writes
      <4> QED  BY <1>3, <4>1 DEF AtTest, AtReturn
    <3>2. CASE TestWrite(d)
      <4>1. virtAddr = eos
        BY <1>6, <2>1, <3>2 DEF TestWrite, Command, BlockAt
      <4> QED  BY <1>3, <4>1, SupportCallsAssumption DEF AtTest, AtReturn, GoingOn
    <3> QED  BY <3>1, <3>2
  <2>4. ~repeated => AtReturn'
    BY <1>2, <1>4, <2>3 DEF AtReturn, GoingOn, Failed
  <2> QED
    BY <1>1, <1>2, <1>3, <1>4, <2>1, <2>2, <2>4 DEF StringsInv, Strings
<1>7. CASE ~Command /\ ~ReleaseDevice
  <2>1. at' = <<"beyond", 0>>
    BY <1>7 DEF TestWrite, TestRead
  <2>2. Standing' = at'
    BY <2>1 DEF Standing, InPager
  <2> QED  BY <1>1, <1>2, <2>1, <2>2, StringsElsewhere
<1> QED  BY <1>5, <1>6, <1>7
LEMMA StringsAfter ==
  ASSUME StringsInv, NEW d \in Device, (d \in Writes /\ AfterWrite(d)) \/ AfterRead
  PROVE  StringsInv'
<1>1. /\ run = "on" /\ run' = run /\ at[1] = "done" /\ at' = <<"test", at[2]>>
      /\ Standing = at /\ Standing' = at' /\ ~Waiting
      /\ call' = call /\ repeated' = repeated
  BY DEF AfterWrite, AfterRead, At, Standing, InPager, Waiting
<1>2. ~repeated => /\ Count \in Nat /\ moved = Counted(Count) /\ call \in Device
                   /\ AtDone(at[2]) /\ at[2] # "none"
  BY <1>1 DEF StringsInv, Strings
<1>3. LEN \in Nat \ {0} /\ (call \in Device => (call \in Writes <=> call # "receiver"))
  BY SupportCallsAssumption DEF Device, Writes
<1>4. ASSUME ~repeated, at[2] = "error" PROVE Strings'
  <2>1. Fail /\ moved' = moved
    BY <1>4 DEF AfterWrite, AfterRead
  <2>2. Count' = Count /\ AtTest(at[2])'
    BY <1>1, <1>2, <1>4, <2>1 DEF Fail, Count, AtDone, AtTest, Failed
  <2> QED  BY <1>1, <1>2, <1>4, <2>1, <2>2 DEF Strings
<1>5. ASSUME ~repeated, at[2] # "error", call \in Writes PROVE Strings'
  <2>1. Advance /\ moved' = moved
    BY <1>5, <1>3, <1>2 DEF AfterWrite, AfterRead
  <2>2. at[2] = "ok"
    BY <1>2, <1>3, <1>5 DEF AtDone
  <2>3. Count' = Count /\ AtTest(at[2])'
    BY <1>1, <1>2, <1>3, <1>5, <2>1, <2>2 DEF Advance, Count, AtDone, AtTest, GoingOn
  <2> QED  BY <1>1, <1>2, <1>5, <2>1, <2>3 DEF Strings
<1>6. ASSUME ~repeated, at[2] # "error", call \notin Writes PROVE Strings'
  <2>1. Advance /\ moved' = Append(moved, virtAddr)
    BY <1>6, <1>2 DEF AfterWrite, AfterRead
  <2>2. virtAddr = Count + 1
    BY <1>2, <1>6 DEF AtDone
  <2>3. Count' = Count + 1 /\ moved' = Counted(Count')
    BY <1>2, <1>6, <2>1, <2>2, MovedOne
  <2>4. AtTest(at[2])'
    BY <1>1, <1>2, <1>3, <1>6, <2>1, <2>2, <2>3 DEF Advance, AtDone, AtTest, GoingOn
  <2> QED  BY <1>1, <1>2, <1>6, <2>1, <2>3, <2>4 DEF Strings
<1> QED  BY <1>1, <1>4, <1>5, <1>6 DEF StringsInv

LEMMA StringsReleased == StringsInv /\ ControlInv /\ Released => StringsInv'
<1> SUFFICES ASSUME StringsInv, ControlInv, Released PROVE StringsInv'
  OBVIOUS
<1>1. /\ run = "blocked" /\ run' = "ready" /\ p_s[1] \in {"done", "pager"}
      /\ UNCHANGED <<exc0, call, virtAddr, retValue, eos, repeated>>
  BY DEF Released
<1>2. ~repeated => at = p_s
  BY <1>1 DEF ControlInv, Control
<1>3. CASE p_s[1] = "pager"
  <2>1. UNCHANGED <<at, moved>>
    BY <1>3 DEF Released
  <2>2. ~repeated => Standing' = Standing /\ (Waiting' <=> Waiting)
    BY <1>1, <1>2, <1>3, <2>1 DEF Standing, InPager, Waiting
  <2> QED  BY <1>1, <2>1, <2>2, StringsKept
<1>4. ASSUME p_s[1] = "done", ~repeated PROVE Strings'
  <2>1. PICK status \in {"ok", "newline", "error"} :
          /\ status = "newline" => call = "receiver"
          /\ call = "receiver" /\ virtAddr >= LEN => status # "ok"
          /\ at' = <<"done", status>>
          /\ moved' = IF call \in Writes /\ status = "ok" THEN Append(moved, virtAddr) ELSE moved
    BY <1>4 DEF Released
  <2>2. Standing = at /\ at[1] = "done" /\ Waiting
    BY <1>1, <1>2, <1>4 DEF Standing, InPager, Waiting
  <2>3. /\ Count \in Nat /\ moved = Counted(Count) /\ call \in Device
        /\ at[2] = "none" /\ AtDone("none")
    BY <1>4, <2>2 DEF StringsInv, Strings
  <2>4. Standing' = <<"done", status>> /\ ~Waiting'
    BY <1>1, <2>1 DEF Standing, InPager, Waiting
  <2>5. CASE call \in Writes /\ status = "ok"
    <3>1. virtAddr = Count + 1 /\ call # "receiver"
      BY <2>3, <2>5 DEF AtDone, Writes
    <3>2. Count' = Count + 1 /\ moved' = Counted(Count')
      BY <2>1, <2>3, <2>5, <3>1, MovedOne
    <3>3. AtDone(status)'
      BY <1>1, <2>3, <2>5, <3>1, <3>2 DEF AtDone
    <3> QED  BY <1>1, <2>3, <2>4, <2>5, <3>2, <3>3 DEF Strings
  <2>6. CASE ~(call \in Writes /\ status = "ok")
    <3>1. moved' = moved /\ Count' = Count
      BY <2>1, <2>6 DEF Count
    <3>2. AtDone(status)'
      BY <1>1, <2>1, <2>3, <2>6, <3>1, SupportCallsAssumption DEF AtDone
    <3> QED  BY <1>1, <2>1, <2>3, <2>4, <3>1, <3>2 DEF Strings
  <2> QED  BY <2>5, <2>6
<1> QED  BY <1>1, <1>3, <1>4 DEF StringsInv

LEMMA StringsStep == StringsInv /\ ControlInv /\ [Next]_vars => StringsInv'
<1> SUFFICES ASSUME StringsInv, ControlInv, [Next]_vars PROVE StringsInv'
  OBVIOUS
<1>1. CASE write_To_Printer \/ write_To_Terminal \/ read_From_Terminal
  BY <1>1, StringsGetDevice, StringsTest, StringsAfter
  DEF write_To_Printer, write_To_Terminal, read_From_Terminal, Device, Writes
<1>2. CASE uTLB_RefillHandler \/ TLBExceptionHandler \/ handlePageFault \/ ReturnFromPager
  BY <1>2, StringsPager
<1>3. CASE get_TOD
  <2>1. exc1[1] = "user" /\ at' = exc1
    BY <1>3 DEF get_TOD, currentSyscall
  <2> QED  BY <1>3, <2>1, StringsElsewhere DEF get_TOD, callVars, Standing, InPager
<1>4. CASE terminate_support \/ RefuseArguments
  BY <1>4, StringsElsewhere DEF terminate_support, RefuseArguments, passupOrDie, callVars, At,
     Standing, InPager
<1>5. CASE Return
  BY <1>5, StringsElsewhere DEF Return, UserPoint, Standing, InPager
<1>6. CASE Load \/ GetTime \/ SupportCall
  BY <1>6, StringsElsewhere DEF Load, GetTime, SupportCall, UserPoint, callVars, Standing, InPager
<1>7. CASE Preempted \/ Interrupted
  BY <1>7, StringsElsewhere DEF Preempted, Interrupted, InUser, callVars, Standing, InPager
<1>8. CASE Dispatched
  <2>1. ~repeated => at' = at
    BY <1>8 DEF Dispatched, ControlInv, Control
  <2> QED
    BY <1>8, <2>1, StringsKept DEF Dispatched, callVars, Standing, InPager, Waiting
<1>9. CASE Others \/ TimePasses
  BY <1>9, StringsKept DEF Others, TimePasses, callVars, Standing, InPager, Waiting
<1>10. CASE UNCHANGED vars
  BY <1>10, StringsKept DEF vars, callVars, Standing, InPager, Waiting
<1> QED
  BY <1>1, <1>2, <1>3, <1>4, <1>5, <1>6, <1>7, <1>8, <1>9, <1>10, StringsReleased
  DEF Next, Handling, Stay

(* A string of any length goes to or from its device character by          *)
(* character, in order, and the result says how many there were or that    *)
(* one failed (supportSystemCalls.c:72, 113, 149), wherever its pages      *)
(* fault; as long as no refill resumed elsewhere (sysSupport.c:43).        *)
THEOREM StringsEntire == Spec => []EntireString
<1>1. StringsInv => EntireString
  <2> SUFFICES ASSUME Strings, ~repeated
               PROVE  /\ moved = [i \in 1 .. Len(moved) |-> i]
                      /\ At("return") =>
                           IF retValue = -1 THEN eos = Len(moved) + 1
                           ELSE retValue = Len(moved) /\ (call \in Writes => retValue = LEN)
    BY DEF StringsInv, EntireString
  <2>1. moved = [i \in 1 .. Len(moved) |-> i] /\ Len(moved) \in Nat
    BY DEF Strings, Count, Counted
  <2>2. At("return") => AtReturn
    BY DEF Strings, At, Standing, InPager
  <2> QED  BY <2>1, <2>2 DEF AtReturn, GoingOn, Failed, Count
<1> QED  BY ControlInit, ControlStep, StringsInit, StringsStep, <1>1, PTL DEF Spec

----------------------------------------------------------------------------
(* Types                                                                   *)

(* Where a process can be, whatever the refills did to it: a refill may    *)
(* lead back to the end of a call that is over, to a load done before, or  *)
(* to the end of an IOWAIT, but the semaphores and the locals still fit    *)
(* the place it is at, and the write loops are at most one character       *)
(* behind the EOS.                                                         *)
Status == {"none", "ok", "newline", "error"}
Points == ({"user"} \X (1 .. Length + 1)) \cup ({"pager"} \X Page)
          \cup ({"handler", "left", "return", "beyond"} \X {0})
          \cup ({"test", "done"} \X Status)

Clocks == {now, startT, used} \subseteq Nat /\ p_time \in Int /\ garbled \in BOOLEAN

Locals ==
  /\ program \in [1 .. Length -> Op]
  /\ run \in {"on", "ready", "blocked", "dead"}
  /\ {tlb, present} \subseteq SUBSET Page
  /\ sem \in [Device -> {0, 1}] /\ call \in Device \cup {"none"}
  /\ virtAddr \in 1 .. LEN + 2 /\ retValue \in -1 .. LEN + 1 /\ eos \in 1 .. LEN + 1
  /\ moved \in Seq(1 .. LEN)
  /\ last \in 0 .. Length /\ repeated \in BOOLEAN

(* A process that waits or is ready waits at the point that is saved, and  *)
(* so does one in the pager; what faulted can only be an access.           *)
Pointed ==
  /\ {at, p_s, exc0, exc1} \subseteq Points
  /\ run \in {"ready", "blocked"} => at = p_s
  /\ InPager => p_s = at
  /\ p_s[1] \in {"pager", "left"} => exc0[1] \in {"user", "test", "done"}

(* The last thing saved is the page fault of the access it is at.          *)
Faulted == p_s[1] \in {"pager", "left"} /\ exc0 = Standing

AllFree == \A d \in Device : sem[d] = 1
OneHeld == call \in Device /\ sem[call] = 0 /\ \A d \in Device \ {call} : sem[d] = 1
Own == exc1[1] = "user" /\ exc1[2] <= Length
Advanced == eos = LEN + 1 /\ retValue = virtAddr - 1
Listed == PageOf(virtAddr) \in tlb

UserPlace ==
  /\ call = "none" /\ AllFree
  /\ \/ p_s[1] = "user"
     \/ p_s[1] \in {"pager", "left"} /\ exc0[1] = "user"
     \/ p_s[1] = "return" /\ exc1[1] = "user" /\ exc1[2] <= at[2]
     \/ p_s[1] = "handler" /\ at[2] <= Length /\ program[at[2]] = "GET_TOD"

HandlerPlace ==
  p_s[1] = "handler" /\ call = "none" /\ AllFree /\ (exc1[1] = "user" => exc1[2] <= Length)

TestPlace(status) ==
  /\ OneHeld /\ Own /\ (run = "on" \/ InPager) /\ status # "none"
  /\ status = "error" =>
       /\ virtAddr <= LEN /\ eos = virtAddr
       /\ call \in Writes => ~InPager /\ Listed /\ PageOf(virtAddr) \in present
  /\ status # "error" => Advanced
  /\ status # "error" /\ call \in Writes =>
       \/ p_s = at /\ virtAddr <= LEN + 1
       \/ Faulted
       \/ p_s = <<"done", status>> /\ (virtAddr <= LEN + 1 \/ Listed)
  /\ status # "error" /\ call = "receiver" =>
       ~InPager /\ virtAddr <= LEN + 1 /\ (status = "ok" => virtAddr <= LEN)

DonePlace(status) ==
  /\ OneHeld /\ Own /\ Advanced
  /\ \/ p_s = at /\ ~InPager
     \/ Faulted /\ (call = "receiver" \/ status = "error")
  /\ status = "none" => run = "blocked" /\ ~InPager
  /\ \/ virtAddr <= LEN
     \/ /\ virtAddr = LEN + 1 /\ call \in Writes /\ status \notin {"none", "error"}
        /\ run = "on" /\ ~InPager /\ Listed
  /\ call = "receiver" /\ status = "ok" => virtAddr < LEN

ReturnPlace == p_s[1] = "return" /\ AllFree /\ Own

Placed ==
  /\ Standing[1] = "user" => UserPlace
  /\ Standing[1] = "handler" => HandlerPlace
  /\ Standing[1] = "test" => TestPlace(Standing[2])
  /\ Standing[1] = "done" => DonePlace(Standing[2])
  /\ Standing[1] = "return" => ReturnPlace

PlacesInv == Clocks /\ Locals /\ Pointed /\ Placed

(* What a point is.                                                        *)
LEMMA PointFacts ==
  /\ \A x \in Points :
       /\ x = <<x[1], x[2]>>
       /\ x[1] \in {"user", "pager", "handler", "left", "return", "beyond", "test", "done"}
       /\ x[1] = "user" => x[2] \in 1 .. Length + 1
       /\ x[1] = "pager" => x[2] \in Page
       /\ x[1] \in {"test", "done"} => x[2] \in Status
  /\ \A n \in 1 .. Length + 1 : <<"user", n>> \in Points
  /\ \A v \in Page : <<"pager", v>> \in Points
  /\ \A status \in Status : <<"test", status>> \in Points /\ <<"done", status>> \in Points
  /\ <<"handler", 0>> \in Points /\ <<"left", 0>> \in Points /\ <<"return", 0>> \in Points
  /\ <<"beyond", 0>> \in Points
<1>1. \A n \in 1 .. Length + 1 : <<"user", n>> \in Points
  BY DEF Points
<1>2. \A v \in Page : <<"pager", v>> \in Points
  BY DEF Points
<1>3. \A status \in Status : <<"test", status>> \in Points /\ <<"done", status>> \in Points
  BY DEF Points
<1>4. /\ <<"handler", 0>> \in Points /\ <<"left", 0>> \in Points /\ <<"return", 0>> \in Points
      /\ <<"beyond", 0>> \in Points
  BY DEF Points
<1>5. ASSUME NEW x \in Points
      PROVE  /\ x = <<x[1], x[2]>>
             /\ x[1] \in {"user", "pager", "handler", "left", "return", "beyond", "test", "done"}
             /\ x[1] = "user" => x[2] \in 1 .. Length + 1
             /\ x[1] = "pager" => x[2] \in Page
             /\ x[1] \in {"test", "done"} => x[2] \in Status
  BY DEF Points
<1> QED  BY <1>1, <1>2, <1>3, <1>4, <1>5

LEMMA Bounds == /\ Length \in Nat /\ Length > 0 /\ LEN \in Nat /\ LEN > 0 /\ Split \in 0 .. LEN
                /\ \A pos \in Int : pos > LEN => PageOf(pos) = 1
                /\ \A pos : PageOf(pos) \in Page
                /\ Writes = {"printer", "transmitter"}
                /\ Device = {"printer", "transmitter", "receiver"}
<1>1. Length \in Nat /\ Length > 0 /\ LEN \in Nat /\ LEN > 0 /\ Split \in 0 .. LEN
  BY SupportCallsAssumption
<1> QED  BY <1>1 DEF PageOf, Page, Writes, Device

----------------------------------------------------------------------------

LEMMA PlacesInit == Init => PlacesInv
<1> SUFFICES ASSUME Init PROVE PlacesInv
  OBVIOUS
<1>1. Clocks
  <2>1. now = 0 /\ startT = 0 /\ used = 0 /\ p_time = 0 /\ garbled = FALSE
    BY DEF Init, TimeInit
  <2>2. {now, startT, used} \subseteq Nat /\ p_time \in Int
    BY <2>1
  <2> QED  BY <2>1, <2>2 DEF Clocks
<1>2. Locals
  <2>1. sem \in [Device -> {0, 1}] /\ call \in Device \cup {"none"}
    BY DEF Init, Device
  <2>2. program \in [1 .. Length -> Op] /\ run \in {"on", "ready", "blocked", "dead"}
    BY DEF Init
  <2>3. {tlb, present} \subseteq SUBSET Page
    BY DEF Init
  <2>4. virtAddr \in 1 .. LEN + 2 /\ retValue \in -1 .. LEN + 1 /\ eos \in 1 .. LEN + 1
    BY Bounds DEF Init
  <2>5. moved \in Seq(1 .. LEN)
    BY DEF Init
  <2>6. last \in 0 .. Length
    BY Bounds DEF Init
  <2>7. repeated \in BOOLEAN
    BY DEF Init
  <2> QED  BY <2>1, <2>2, <2>3, <2>4, <2>5, <2>6, <2>7 DEF Locals
<1>3. /\ at = <<"user", 1>> /\ p_s = at /\ exc0 = at /\ exc1 = at /\ run = "on" /\ call = "none"
      /\ AllFree
  BY DEF Init, UserPoint, AllFree, Device
<1>4. Pointed
  <2>1. <<"user", 1>> \in Points
    BY PointFacts, Bounds
  <2> QED  BY <1>3, <2>1 DEF Pointed, InPager
<1>5. Placed
  BY <1>3 DEF Placed, Standing, InPager, UserPlace
<1> QED  BY <1>1, <1>2, <1>4, <1>5 DEF PlacesInv

(* The clock is read and set, whatever the process does.                   *)
LEMMA ClocksStep == Clocks /\ [Next]_vars => Clocks'
<1> SUFFICES ASSUME Clocks, [Next]_vars PROVE Clocks'
  OBVIOUS
<1>1. CASE UNCHANGED timeVars
  BY <1>1 DEF timeVars, Clocks
<1>2. CASE get_Cpu_Time \/ blockCurrentProcessAt \/ handlePLTInterrupt \/ updateTimeAndSwitch
  BY <1>2 DEF get_Cpu_Time, blockCurrentProcessAt, handlePLTInterrupt, updateTimeAndSwitch, Clocks
<1>3. CASE handleDeviceInterrupt
  <2>1. PICK timer \in 0 .. Timeslice :
          p_time' = p_time + (now - timer) /\ garbled' = (timer # startT)
    BY <1>3 DEF handleDeviceInterrupt
  <2>2. now' = now /\ startT' = now /\ used' = used
    BY <1>3 DEF handleDeviceInterrupt
  <2>3. timer \in Int
    BY CpuTimeAssumption
  <2>4. garbled' \in BOOLEAN
    BY <2>1
  <2> QED  BY <2>1, <2>2, <2>3, <2>4 DEF Clocks
<1>4. CASE TimePasses
  BY <1>4 DEF TimePasses, Tick, Clocks
<1>5. CASE Handling
  <2>1. CASE get_TOD \/ terminate_support \/ RefuseArguments \/ Return
    BY <1>1, <2>1 DEF get_TOD, terminate_support, RefuseArguments, Return
  <2>2. CASE uTLB_RefillHandler \/ handlePageFault \/ ReturnFromPager
    BY <1>1, <2>2 DEF uTLB_RefillHandler, handlePageFault, ReturnFromPager
  <2>3. CASE TLBExceptionHandler
    BY <1>2, <2>3 DEF TLBExceptionHandler, BlockAt
  <2>4. ASSUME NEW d, GetDevice(d) \/ TestWrite(d) \/ AfterWrite(d) \/ TestRead \/ AfterRead
        PROVE  Clocks'
    <3>1. Command \/ ReleaseDevice => Clocks'
      BY <1>1, <1>2 DEF Command, ReleaseDevice, BlockAt
    <3>2. GetDevice(d) => Clocks'
      BY <1>1, <1>2 DEF GetDevice, BlockAt
    <3> QED  BY <1>1, <2>4, <3>1, <3>2 DEF TestWrite, AfterWrite, TestRead, AfterRead
  <2> QED  BY <1>5, <2>1, <2>2, <2>3, <2>4
           DEF Handling, write_To_Printer, write_To_Terminal, read_From_Terminal
<1>6. CASE Load \/ SupportCall \/ Released \/ Others
  BY <1>1, <1>6 DEF Load, SupportCall, Released, Others
<1>7. CASE GetTime \/ Preempted \/ Interrupted \/ Dispatched
  BY <1>2, <1>3, <1>7 DEF GetTime, Preempted, Interrupted, Dispatched
<1>8. CASE UNCHANGED vars
  BY <1>1, <1>8 DEF vars
<1> QED  BY <1>4, <1>5, <1>6, <1>7, <1>8 DEF Next, Stay

(* A place that is entered is all there is to show.                        *)
LEMMA PlacedUser == ASSUME at'[1] = "user", UserPlace' PROVE Placed'
BY DEF Placed, Standing, InPager

LEMMA PlacedHandler == ASSUME at'[1] = "handler", HandlerPlace' PROVE Placed'
BY DEF Placed, Standing, InPager

LEMMA PlacedTest == ASSUME at'[1] = "test", TestPlace(at[2])' PROVE Placed'
BY DEF Placed, Standing, InPager

LEMMA PlacedDone == ASSUME at'[1] = "done", DonePlace(at[2])' PROVE Placed'
BY DEF Placed, Standing, InPager

LEMMA PlacedReturn == ASSUME at'[1] = "return", ReturnPlace' PROVE Placed'
BY DEF Placed, Standing, InPager

(* The points, where neither the point nor what is saved is in the pager.  *)
LEMMA PointedOutside ==
  ASSUME {at, p_s, exc0, exc1}' \subseteq Points,
         run' \in {"ready", "blocked"} => at' = p_s',
         at'[1] \notin {"pager", "left"}, p_s'[1] \notin {"pager", "left"}
  PROVE  Pointed'
BY DEF Pointed, InPager

(* The program's steps.                                                    *)
LEMMA PlacesProgram ==
  Locals /\ Pointed /\ Placed /\ (Load \/ GetTime \/ SupportCall) => (Locals /\ Pointed /\ Placed)'
<1> SUFFICES ASSUME Locals, Pointed, Placed, Load \/ GetTime \/ SupportCall
             PROVE  (Locals /\ Pointed /\ Placed)'
  OBVIOUS
<1>1. run = "on" /\ at[1] = "user" /\ at[2] <= Length
  BY DEF Load, GetTime, SupportCall, InUser
<1>2. at \in Points /\ p_s \in Points /\ exc0 \in Points /\ exc1 \in Points
  BY DEF Pointed
<1>3. at[2] \in 1 .. Length /\ at = <<"user", at[2]>>
  <2>1. at = <<at[1], at[2]>> /\ at[2] \in 1 .. Length + 1
    BY <1>1, <1>2, PointFacts
  <2> QED  BY <1>1, <2>1, Bounds
<1>4. <<"user", at[2] + 1>> \in Points
  <2>1. at[2] + 1 \in 1 .. Length + 1
    BY <1>3, Bounds
  <2> QED  BY <2>1, PointFacts
<1>5. UserPlace
  BY <1>1 DEF Placed, Standing, InPager
<1>6. Locals'
  <2>1. /\ UNCHANGED <<program, run, tlb, present, callVars, repeated>>
        /\ last' = at[2]
    BY DEF Load, GetTime, SupportCall
  <2>2. last' \in 0 .. Length
    BY <1>3, <2>1, Bounds
  <2> QED  BY <2>1, <2>2 DEF Locals, callVars
<1>7. CASE Load
  <2>1. /\ at' = <<"user", at[2] + 1>> /\ Needs # {}
        /\ UNCHANGED <<program, run, p_s, exc0, exc1, sem, call>>
    BY <1>7 DEF Load, UserPoint, callVars
  <2>2. program[at[2]] # "GET_TOD"
    BY <1>1, <2>1 DEF Needs, InUser, At
  <2>3. UserPlace'
    <3>1. at'[2] = at[2] + 1
      BY <2>1
    <3>2. call' = "none" /\ AllFree'
      BY <1>5, <2>1 DEF UserPlace, AllFree
    <3>3. \/ p_s[1] = "user"
          \/ p_s[1] \in {"pager", "left"} /\ exc0[1] = "user"
          \/ p_s[1] = "return" /\ exc1[1] = "user" /\ exc1[2] <= at[2]
      BY <1>5, <2>2 DEF UserPlace
    <3>4. exc1[1] = "user" /\ exc1[2] <= at[2] => exc1[2] <= at[2] + 1
      <4>1. exc1[1] = "user" => exc1[2] \in 1 .. Length + 1
        BY <1>2, PointFacts
      <4> QED  BY <4>1, <1>3, Bounds
    <3> QED  BY <2>1, <3>1, <3>2, <3>3, <3>4 DEF UserPlace
  <2>4. Placed'
    BY <2>1, <2>3, PlacedUser
  <2>5. Pointed'
    BY <1>1, <1>2, <1>4, <2>1 DEF Pointed, InPager
  <2> QED  BY <1>6, <2>4, <2>5
<1>8. CASE GetTime
  <2>1. /\ at' = <<"user", at[2] + 1>> /\ p_s' = at'
        /\ UNCHANGED <<program, run, exc0, exc1, sem, call>>
    BY <1>8 DEF GetTime, UserPoint, callVars
  <2>2. UserPlace'
    BY <1>5, <2>1 DEF UserPlace, AllFree
  <2>3. Placed'
    BY <2>1, <2>2, PlacedUser
  <2>4. Pointed'
    BY <1>2, <1>4, <2>1, PointedOutside
  <2> QED  BY <1>6, <2>3, <2>4
<1>9. CASE SupportCall
  <2>1. /\ at' = <<"handler", 0>> /\ p_s' = at' /\ exc1' = at
        /\ UNCHANGED <<program, run, exc0, sem, call>>
    BY <1>9 DEF SupportCall, passupOrDie, callVars
  <2>2. HandlerPlace'
    BY <1>1, <1>5, <2>1 DEF UserPlace, HandlerPlace, AllFree
  <2>3. Placed'
    BY <2>1, <2>2, PlacedHandler
  <2>4. <<"handler", 0>> \in Points
    BY PointFacts
  <2>5. Pointed'
    BY <1>2, <2>1, <2>4, PointedOutside
  <2> QED  BY <1>6, <2>3, <2>5
<1> QED  BY <1>7, <1>8, <1>9

(* The calls without a device, and the way back.                           *)
LEMMA PlacesReturn ==
  Locals /\ Pointed /\ Placed /\ (get_TOD \/ terminate_support \/ RefuseArguments \/ Return)
    => (Locals /\ Pointed /\ Placed)'
<1> SUFFICES ASSUME Locals, Pointed, Placed,
                    get_TOD \/ terminate_support \/ RefuseArguments \/ Return
             PROVE  (Locals /\ Pointed /\ Placed)'
  OBVIOUS
<1>1. at \in Points /\ p_s \in Points /\ exc0 \in Points /\ exc1 \in Points
  BY DEF Pointed
<1>2. at[1] = "handler" => HandlerPlace
  BY DEF Placed, Standing, InPager
<1>3. CASE get_TOD
  <2>1. /\ at[1] = "handler" /\ exc1[1] = "user" /\ at' = exc1
        /\ program[exc1[2]] = "GET_TOD" /\ run = "on"
        /\ UNCHANGED <<program, run, p_s, exc0, exc1, tlb, present, callVars, last, repeated>>
    BY <1>3 DEF get_TOD, At, currentSyscall
  <2>2. UserPlace'
    BY <1>2, <2>1 DEF UserPlace, HandlerPlace, AllFree, callVars
  <2>3. Placed'
    BY <2>1, <2>2, PlacedUser
  <2>4. Pointed'
    BY <1>1, <1>2, <2>1, PointedOutside DEF HandlerPlace
  <2>5. Locals'
    BY <2>1 DEF Locals, callVars
  <2> QED  BY <2>3, <2>4, <2>5
<1>4. CASE terminate_support
  <2>1. /\ at[1] = "handler" /\ run' = "dead"
        /\ UNCHANGED <<program, at, p_s, exc0, exc1, tlb, present, callVars, last, repeated>>
    BY <1>4 DEF terminate_support, At
  <2>2. HandlerPlace'
    BY <1>2, <2>1 DEF HandlerPlace, AllFree, callVars
  <2>3. Placed'
    BY <2>1, <2>2, PlacedHandler
  <2>4. Pointed'
    BY <1>1, <1>2, <2>1, PointedOutside DEF HandlerPlace
  <2>5. Locals'
    BY <2>1 DEF Locals, callVars
  <2> QED  BY <2>3, <2>4, <2>5
<1>5. CASE RefuseArguments
  <2>1. /\ at[1] = "handler" /\ run = "on" /\ exc1' = at
        /\ UNCHANGED <<program, run, at, p_s, exc0, tlb, present, callVars, last, repeated>>
    BY <1>5 DEF RefuseArguments, passupOrDie, At
  <2>2. HandlerPlace'
    BY <1>2, <2>1 DEF HandlerPlace, AllFree, callVars
  <2>3. Placed'
    BY <2>1, <2>2, PlacedHandler
  <2>4. Pointed'
    BY <1>1, <1>2, <2>1, PointedOutside DEF HandlerPlace
  <2>5. Locals'
    BY <2>1 DEF Locals, callVars
  <2> QED  BY <2>3, <2>4, <2>5
<1>6. CASE Return
  <2>1. /\ at[1] = "return" /\ run = "on" /\ exc1' = <<"user", exc1[2] + 1>> /\ at' = exc1'
        /\ call' = "none" /\ virtAddr' = 1 /\ retValue' = 0 /\ eos' = LEN + 1 /\ moved' = <<>>
        /\ UNCHANGED <<program, run, p_s, exc0, tlb, present, sem, last, repeated>>
    BY <1>6 DEF Return, UserPoint, At
  <2>2. ReturnPlace
    BY <2>1 DEF Placed, Standing, InPager
  <2>3. exc1[2] \in 1 .. Length
    <3>1. exc1[2] \in 1 .. Length + 1
      BY <1>1, <2>2, PointFacts DEF ReturnPlace, Own
    <3> QED  BY <2>2, <3>1, Bounds DEF ReturnPlace, Own
  <2>4. <<"user", exc1[2] + 1>> \in Points
    <3>1. exc1[2] + 1 \in 1 .. Length + 1
      BY <2>3, Bounds
    <3> QED  BY <3>1, PointFacts
  <2>5. UserPlace'
    <3>1. exc1'[2] = exc1[2] + 1 /\ at'[2] = exc1[2] + 1 /\ exc1'[1] = "user"
      BY <2>1
    <3>2. exc1'[2] <= at'[2]
      BY <2>3, <3>1, Bounds
    <3> QED  BY <2>1, <2>2, <3>1, <3>2 DEF UserPlace, ReturnPlace, AllFree
  <2>6. Placed'
    BY <2>1, <2>5, PlacedUser
  <2>7. Pointed'
    BY <1>1, <2>1, <2>2, <2>4, PointedOutside DEF ReturnPlace
  <2>8. Locals'
    <3>1. virtAddr' \in 1 .. LEN + 2 /\ retValue' \in -1 .. LEN + 1 /\ eos' \in 1 .. LEN + 1
      BY <2>1, Bounds
    <3>2. moved' \in Seq(1 .. LEN)
      BY <2>1
    <3> QED  BY <2>1, <3>1, <3>2 DEF Locals
  <2> QED  BY <2>6, <2>7, <2>8
<1> QED  BY <1>3, <1>4, <1>5, <1>6

(* The refill handler is where it is at a place only the last thing saved  *)
(* may lead to.                                                            *)
LEMMA PlacesRefill ==
  Locals /\ Pointed /\ Placed /\ uTLB_RefillHandler => (Locals /\ Pointed /\ Placed)'
<1> SUFFICES ASSUME Locals, Pointed, Placed, uTLB_RefillHandler
             PROVE  (Locals /\ Pointed /\ Placed)'
  OBVIOUS
<1>1. PICK v \in Needs \ tlb, old \in SUBSET tlb :
        /\ tlb' = (tlb \ old) \cup {v}
        /\ at' = p_s
        /\ repeated' = (repeated \/ Resumed # at)
        /\ UNCHANGED <<program, run, p_s, exc0, exc1, present, callVars, last>>
  BY DEF uTLB_RefillHandler
<1>2. Needs # {}
  BY <1>1
<1>3. run = "on" /\ at[1] \in {"user", "test", "done"}
  BY <1>2, NeedsPoint
<1>4. at \in Points /\ p_s \in Points /\ exc0 \in Points /\ exc1 \in Points
  BY DEF Pointed
<1>5. at = <<at[1], at[2]>>
  BY <1>4, PointFacts
<1>6. ~InPager /\ Standing = at
  BY <1>3 DEF Standing, InPager
<1>7. /\ UNCHANGED <<program, run, p_s, exc0, exc1, present, last>>
      /\ UNCHANGED <<sem, call, virtAddr, retValue, eos, moved>>
  BY <1>1 DEF callVars
<1>8. Locals'
  <2>1. v \in Page
    BY <1>1, Bounds DEF Needs, Page
  <2>2. tlb' \subseteq Page
    BY <1>1, <2>1 DEF Locals
  <2>3. repeated' \in BOOLEAN
    BY <1>1
  <2> QED  BY <1>7, <2>2, <2>3 DEF Locals
<1>9. Pointed'
  BY <1>1, <1>3, <1>7 DEF Pointed, InPager
<1>10. CASE at[1] = "user"
  <2>1. UserPlace
    BY <1>6, <1>10 DEF Placed
  <2>2. /\ at[2] <= Length
        /\ program[at[2]] # "GET_TOD"
    BY <1>2, <1>10 DEF Needs, InUser, At
  <2>3. CASE p_s[1] = "user"
    <3>1. UserPlace'
      BY <1>7, <2>1, <2>3 DEF UserPlace, AllFree
    <3> QED  BY <1>1, <1>8, <1>9, <2>3, <3>1, PlacedUser
  <2>4. CASE p_s[1] \in {"pager", "left"}
    <3>1. exc0[1] = "user"
      BY <2>1, <2>4 DEF UserPlace
    <3>2. UserPlace'
      BY <1>7, <2>1, <2>4, <3>1 DEF UserPlace, AllFree
    <3>3. Standing' = exc0
      BY <1>1, <1>7, <2>4 DEF Standing, InPager
    <3>4. Placed'
      BY <3>1, <3>2, <3>3 DEF Placed
    <3> QED  BY <1>8, <1>9, <3>4
  <2>5. CASE p_s[1] = "return"
    <3>1. AllFree /\ exc1[1] = "user" /\ exc1[2] <= at[2]
      BY <2>1, <2>5 DEF UserPlace
    <3>2. exc1[2] <= Length
      <4>1. exc1[2] \in 1 .. Length + 1 /\ at[2] \in 1 .. Length + 1
        BY <1>4, <1>10, <3>1, PointFacts
      <4> QED  BY <2>2, <3>1, <4>1, Bounds
    <3>3. ReturnPlace'
      BY <1>7, <2>5, <3>1, <3>2 DEF ReturnPlace, Own, AllFree
    <3> QED  BY <1>1, <1>8, <1>9, <2>5, <3>3, PlacedReturn
  <2> QED  BY <2>1, <2>2, <2>3, <2>4, <2>5 DEF UserPlace
<1>11. CASE at[1] = "test"
  <2> DEFINE status == at[2]
  <2>1. TestPlace(status)
    BY <1>6, <1>11 DEF Placed
  <2>2. call \in Writes /\ Needs = {PageOf(virtAddr)}
    BY <1>2, <1>11 DEF Needs, InUser, At
  <2>3. ~Listed /\ v = PageOf(virtAddr)
    BY <1>1, <2>2 DEF Listed
  <2>4. status # "error" /\ status # "none"
    BY <2>1, <2>2, <2>3 DEF TestPlace
  <2>5. call # "receiver"
    BY <2>2 DEF Writes
  <2>6. OneHeld /\ Own /\ Advanced
    BY <2>1, <2>4 DEF TestPlace
  <2>7. (OneHeld /\ Own /\ Advanced)'
    BY <1>7, <2>6 DEF OneHeld, Own, Advanced
  <2>8. CASE p_s = at
    <3>1. virtAddr \in Int
      BY DEF Locals
    <3>2. virtAddr <= LEN + 1
      <4>1. virtAddr <= LEN + 1 \/ Faulted \/ Listed
        BY <2>1, <2>2, <2>4 DEF TestPlace
      <4>2. ~Faulted
        BY <1>11, <2>8 DEF Faulted
      <4> QED  BY <2>3, <4>1, <4>2
    <3>3. at' = at
      BY <1>1, <2>8
    <3>4. TestPlace(at[2])'
      BY <1>3, <1>7, <2>2, <2>4, <2>5, <2>7, <2>8, <3>2, <3>3 DEF TestPlace
    <3> QED  BY <1>8, <1>9, <1>11, <3>3, <3>4, PlacedTest
  <2>9. CASE Faulted
    <3>1. InPager' /\ Standing' = at
      BY <1>1, <1>6, <1>7, <2>9 DEF Faulted, Standing, InPager
    <3>2. Faulted'
      BY <1>6, <1>7, <2>9, <3>1 DEF Faulted
    <3>3. Standing'[2] = status
      BY <3>1
    <3>4. TestPlace(Standing[2])'
      BY <2>2, <2>4, <2>5, <2>7, <3>1, <3>2, <3>3, <1>7 DEF TestPlace
    <3>5. Standing'[1] = "test"
      BY <1>11, <3>1
    <3> QED  BY <1>8, <1>9, <3>4, <3>5 DEF Placed
  <2>10. CASE p_s = <<"done", status>> /\ virtAddr <= LEN + 1
    <3>1. at' = <<"done", status>> /\ p_s' = at'
      BY <1>1, <1>7, <2>10
    <3>2. Listed'
      BY <1>1, <1>7, <2>3 DEF Listed, PageOf
    <3>3. virtAddr' <= LEN \/ virtAddr' = LEN + 1
      <4>1. virtAddr \in Int
        BY DEF Locals
      <4> QED  BY <1>7, <2>10, <4>1, Bounds
    <3>4. ~InPager'
      BY <3>1 DEF InPager
    <3>5. DonePlace(at[2])'
      BY <1>3, <1>7, <2>2, <2>4, <2>5, <2>7, <3>1, <3>2, <3>3, <3>4 DEF DonePlace
    <3> QED  BY <1>8, <1>9, <3>1, <3>5, PlacedDone
  <2> QED
    <3>1. \/ p_s = at /\ virtAddr <= LEN + 1
          \/ Faulted
          \/ p_s = <<"done", status>> /\ (virtAddr <= LEN + 1 \/ Listed)
      BY <2>1, <2>2, <2>4 DEF TestPlace
    <3> QED  BY <2>3, <2>8, <2>9, <2>10, <3>1
<1>12. CASE at[1] = "done"
  <2> DEFINE status == at[2]
  <2>1. DonePlace(status)
    BY <1>6, <1>12 DEF Placed
  <2>2. call = "receiver" \/ status = "error"
    BY <1>2, <1>12 DEF Needs, InUser, At
  <2>3. /\ status # "none" /\ virtAddr <= LEN
        /\ OneHeld /\ Own /\ Advanced
        /\ call = "receiver" /\ status = "ok" => virtAddr < LEN
    <3>1. status # "none"
      BY <1>3, <2>1 DEF DonePlace
    <3>2. call # "receiver" \/ call \notin Writes
      BY DEF Writes
    <3>3. virtAddr <= LEN
      BY <2>1, <2>2, <3>2 DEF DonePlace
    <3> QED  BY <2>1, <3>1, <3>3 DEF DonePlace
  <2>4. (OneHeld /\ Own /\ Advanced)'
    BY <1>7, <2>3 DEF OneHeld, Own, Advanced
  <2>5. CASE p_s = at
    <3>1. at' = at /\ p_s' = at' /\ ~InPager'
      BY <1>1, <1>6, <1>7, <2>5 DEF InPager
    <3>2. DonePlace(at[2])'
      BY <1>7, <2>3, <2>4, <3>1 DEF DonePlace
    <3> QED  BY <1>8, <1>9, <1>12, <3>1, <3>2, PlacedDone
  <2>6. CASE Faulted
    <3>1. InPager' /\ Standing' = at
      BY <1>1, <1>6, <1>7, <2>6 DEF Faulted, Standing, InPager
    <3>2. Faulted'
      BY <1>6, <1>7, <2>6, <3>1 DEF Faulted
    <3>3. Standing'[2] = status /\ Standing'[1] = "done"
      BY <1>12, <3>1
    <3>4. DonePlace(Standing[2])'
      BY <1>7, <2>2, <2>3, <2>4, <3>2, <3>3 DEF DonePlace
    <3> QED  BY <1>8, <1>9, <3>3, <3>4 DEF Placed
  <2> QED  BY <2>1, <2>5, <2>6 DEF DonePlace
<1> QED  BY <1>3, <1>10, <1>11, <1>12

(* The page fault handler, and the way into it and out of it: the process  *)
(* stands where the access is.                                             *)
LEMMA PlacesPager ==
  Locals /\ Pointed /\ Placed /\ (TLBExceptionHandler \/ handlePageFault \/ ReturnFromPager)
    => (Locals /\ Pointed /\ Placed)'
<1> SUFFICES ASSUME Locals, Pointed, Placed,
                    TLBExceptionHandler \/ handlePageFault \/ ReturnFromPager
             PROVE  (Locals /\ Pointed /\ Placed)'
  OBVIOUS
<1>1. at \in Points /\ p_s \in Points /\ exc0 \in Points /\ exc1 \in Points
  BY DEF Pointed
<1>2. /\ UNCHANGED <<program, exc1, tlb, last, repeated>>
      /\ UNCHANGED <<sem, call, virtAddr, retValue, eos, moved>>
  BY DEF TLBExceptionHandler, handlePageFault, ReturnFromPager, passupOrDie, callVars
<1>3. Standing' = Standing /\ Faulted'
  <2>1. CASE TLBExceptionHandler
    <3>1. PICK v \in (Needs \cap tlb) \ present : exc0' = at /\ at' = <<"pager", v>> /\ p_s' = at'
      BY <2>1 DEF TLBExceptionHandler, passupOrDie, BlockAt
    <3>2. at[1] \in {"user", "test", "done"}
      BY <3>1, NeedsPoint
    <3> QED  BY <3>1, <3>2 DEF Standing, InPager, Faulted
  <2>2. CASE handlePageFault
    <3>1. at[1] = "pager" /\ at' = <<"left", 0>> /\ p_s' = at' /\ exc0' = exc0
      BY <2>2 DEF handlePageFault, At
    <3> QED  BY <3>1 DEF Standing, InPager, Faulted
  <2>3. CASE ReturnFromPager
    <3>1. at[1] = "left" /\ at' = exc0 /\ exc0' = exc0 /\ p_s' = p_s
      BY <2>3 DEF ReturnFromPager, At
    <3>2. p_s = at /\ exc0[1] \in {"user", "test", "done"}
      BY <3>1 DEF Pointed, InPager
    <3> QED  BY <3>1, <3>2 DEF Standing, InPager, Faulted
  <2> QED  BY <2>1, <2>2, <2>3
<1>4. Standing[1] \in {"user", "test", "done"}
  <2>1. InPager => p_s = at /\ exc0[1] \in {"user", "test", "done"}
    BY DEF Pointed, InPager
  <2>2. ~InPager => at[1] \in {"user", "test", "done"}
    <3>1. TLBExceptionHandler => Needs # {}
      BY DEF TLBExceptionHandler
    <3> QED  BY <3>1, NeedsPoint DEF handlePageFault, ReturnFromPager, At, InPager
  <2> QED  BY <2>1, <2>2 DEF Standing
<1>5. run = "on" /\ run' \in {"on", "blocked"} /\ (run' = "on" \/ InPager')
  <2>1. TLBExceptionHandler => Needs # {}
    BY DEF TLBExceptionHandler
  <2>2. TLBExceptionHandler => at'[1] = "pager" /\ run' = "blocked"
    BY DEF TLBExceptionHandler, BlockAt
  <2> QED  BY <2>1, <2>2, NeedsPoint DEF handlePageFault, ReturnFromPager, At, InPager
<1>6. Locals'
  <2>1. present' \subseteq Page
    <3>1. at[1] = "pager" => at[2] \in Page
      BY <1>1, PointFacts
    <3> QED  BY <3>1 DEF TLBExceptionHandler, handlePageFault, ReturnFromPager, At, Locals
  <2> QED  BY <1>2, <1>5, <2>1 DEF Locals
<1>7. Pointed'
  <2>1. at' \in Points /\ p_s' \in Points /\ exc0' \in Points /\ exc1' \in Points
    <3>1. TLBExceptionHandler => exc0' = at /\ p_s' = at' /\ \E v \in Page : at' = <<"pager", v>>
      <4>1. Needs \subseteq Page
        BY Bounds DEF Needs, Page
      <4> QED  BY <4>1 DEF TLBExceptionHandler, passupOrDie, BlockAt
    <3>2. handlePageFault => exc0' = exc0 /\ p_s' = at' /\ at' = <<"left", 0>>
      BY DEF handlePageFault
    <3>3. ReturnFromPager => exc0' = exc0 /\ p_s' = p_s /\ at' = exc0
      BY DEF ReturnFromPager
    <3> QED  BY <1>1, <1>2, <3>1, <3>2, <3>3, PointFacts
  <2>2. InPager' => p_s' = at'
    <3>1. ReturnFromPager => ~InPager'
      <4>1. ReturnFromPager => at' = Standing /\ at'[1] = Standing[1]
        BY DEF ReturnFromPager, At, Standing, InPager
      <4> QED  BY <1>4, <4>1 DEF InPager
    <3> QED  BY <3>1 DEF TLBExceptionHandler, handlePageFault, BlockAt
  <2>3. run' = "blocked" => at' = p_s'
    BY <1>5 DEF TLBExceptionHandler, handlePageFault, ReturnFromPager, BlockAt
  <2>4. exc0'[1] \in {"user", "test", "done"}
    BY <1>3, <1>4 DEF Faulted
  <2> QED  BY <1>5, <2>1, <2>2, <2>3, <2>4 DEF Pointed
<1>8. CASE Standing[1] = "user"
  <2>1. UserPlace
    BY <1>8 DEF Placed
  <2>2. UserPlace'
    <3>1. p_s'[1] \in {"pager", "left"} /\ exc0'[1] = "user"
      BY <1>3, <1>8 DEF Faulted
    <3> QED  BY <1>2, <2>1, <3>1 DEF UserPlace, AllFree
  <2>3. Placed'
    BY <1>3, <1>8, <2>2 DEF Placed
  <2> QED  BY <1>6, <1>7, <2>3
<1>9. CASE Standing[1] = "test"
  <2> DEFINE status == Standing[2]
  <2>1. TestPlace(status)
    BY <1>9 DEF Placed
  <2>2. (OneHeld /\ Own)'
    BY <1>2, <2>1 DEF TestPlace, OneHeld, Own
  <2>3. status # "error" => Advanced'
    BY <1>2, <2>1 DEF TestPlace, Advanced
  <2>4. call \in Writes => status # "error"
    <3>1. SUFFICES ASSUME call \in Writes, status = "error" PROVE FALSE
      OBVIOUS
    <3>2. ~InPager /\ PageOf(virtAddr) \in present
      BY <2>1, <3>1 DEF TestPlace
    <3>3. Standing = at /\ at[1] = "test"
      BY <1>9, <3>2 DEF Standing
    <3>4. TLBExceptionHandler
      BY <3>2 DEF handlePageFault, ReturnFromPager, At, InPager
    <3>5. Needs \subseteq {PageOf(virtAddr)}
      BY <3>3 DEF Needs, InUser, At
    <3> QED  BY <3>2, <3>4, <3>5 DEF TLBExceptionHandler
  <2>5. call = "receiver" => status = "error"
    <3>1. SUFFICES ASSUME call = "receiver", status # "error" PROVE FALSE
      OBVIOUS
    <3>2. ~InPager
      BY <2>1, <3>1 DEF TestPlace
    <3>3. Standing = at /\ at[1] = "test"
      BY <1>9, <3>2 DEF Standing
    <3>4. TLBExceptionHandler
      BY <3>2 DEF handlePageFault, ReturnFromPager, At, InPager
    <3>5. call \notin Writes
      BY <3>1 DEF Writes
    <3>6. Needs = {}
      BY <3>3, <3>5 DEF Needs, InUser, At
    <3> QED  BY <3>4, <3>6 DEF TLBExceptionHandler
  <2>6. TestPlace(status)'
    <3>1. status' = status
      BY <1>3
    <3> HIDE DEF status
    <3>2. status' # "none" /\ (status' = "error" => virtAddr' <= LEN /\ eos' = virtAddr')
      BY <1>2, <2>1, <3>1 DEF TestPlace
    <3> QED  BY <1>2, <1>3, <1>5, <2>2, <2>3, <2>4, <2>5, <3>1, <3>2 DEF TestPlace
  <2>7. Placed'
    BY <1>3, <1>9, <2>6 DEF Placed
  <2> QED  BY <1>6, <1>7, <2>7
<1>10. CASE Standing[1] = "done"
  <2> DEFINE status == Standing[2]
  <2>1. DonePlace(status)
    BY <1>10 DEF Placed
  <2>2. (OneHeld /\ Own /\ Advanced)'
    BY <1>2, <2>1 DEF DonePlace, OneHeld, Own, Advanced
  <2>3. status # "none"
    BY <1>5, <2>1 DEF DonePlace
  <2>4. call = "receiver" \/ status = "error"
    <3>1. InPager => call = "receiver" \/ status = "error"
      BY <2>1 DEF DonePlace
    <3>2. ASSUME ~InPager
          PROVE  call = "receiver" \/ status = "error"
      <4>1. Standing = at /\ at[1] = "done"
        BY <1>10, <3>2 DEF Standing
      <4>2. Needs # {}
        BY <3>2 DEF TLBExceptionHandler, handlePageFault, ReturnFromPager, At, InPager
      <4> QED  BY <4>1, <4>2 DEF Needs, InUser, At
    <3> QED  BY <3>1, <3>2
  <2>5. virtAddr <= LEN
    <3>1. call # "receiver" \/ call \notin Writes
      BY DEF Writes
    <3> QED  BY <2>1, <2>4, <3>1 DEF DonePlace
  <2>6. DonePlace(status)'
    <3>1. status' = status
      BY <1>3
    <3> HIDE DEF status
    <3>2. call' = "receiver" /\ status' = "ok" => virtAddr' < LEN
      BY <1>2, <2>1, <3>1 DEF DonePlace
    <3> QED  BY <1>2, <1>3, <2>2, <2>3, <2>4, <2>5, <3>1, <3>2 DEF DonePlace
  <2>7. Placed'
    BY <1>3, <1>10, <2>6 DEF Placed
  <2> QED  BY <1>6, <1>7, <2>7
<1> QED  BY <1>4, <1>8, <1>9, <1>10

(* The functions for a device: its semaphore is taken,                     *)
LEMMA PlacesGetDevice ==
  ASSUME NEW d \in Device, Locals, Pointed, Placed, GetDevice(d)
  PROVE  (Locals /\ Pointed /\ Placed)'
<1>1. /\ at[1] = "handler" /\ run = "on" /\ currentSyscall = d /\ call' = d
      /\ virtAddr' = 1 /\ retValue' = 0 /\ eos' = LEN + 1 /\ moved' = <<>>
      /\ sem' = [sem EXCEPT ![d] = @ - 1]
      /\ UNCHANGED <<program, exc0, exc1, tlb, present, last, repeated>>
  BY DEF GetDevice, At
<1>2. HandlerPlace
  BY <1>1 DEF Placed, Standing, InPager
<1>3. Own
  <2>1. d # "TERMINATE"
    BY DEF Device, Writes
  <2> QED  BY <1>1, <1>2, <2>1 DEF currentSyscall, HandlerPlace, Own
<1>4. sem' \in [Device -> {0, 1}] /\ sem'[d] = 0 /\ \A other \in Device \ {d} : sem'[other] = 1
  <2>1. sem \in [Device -> {0, 1}] /\ sem[d] = 1 /\ \A other \in Device : sem[other] = 1
    BY <1>2 DEF Locals, HandlerPlace, AllFree
  <2> QED  BY <1>1, <2>1
<1>5. p_s' = <<"test", "ok">> /\ at' = p_s' /\ run' = "on"
  BY <1>1, <1>4 DEF GetDevice
<1>6. Locals'
  <2>1. virtAddr' \in 1 .. LEN + 2 /\ retValue' \in -1 .. LEN + 1 /\ eos' \in 1 .. LEN + 1
    BY <1>1, Bounds
  <2>2. moved' \in Seq(1 .. LEN)
    BY <1>1
  <2> QED  BY <1>1, <1>4, <1>5, <2>1, <2>2 DEF Locals
<1>7. Pointed'
  <2>1. <<"test", "ok">> \in Points
    BY PointFacts DEF Status
  <2>2. exc0 \in Points /\ exc1 \in Points
    BY DEF Pointed
  <2> QED  BY <1>1, <1>5, <2>1, <2>2, PointedOutside
<1>8. TestPlace(at[2])'
  <2>1. at'[1] = "test" /\ at'[2] = "ok"
    BY <1>5
  <2>2. OneHeld' /\ Own'
    BY <1>1, <1>3, <1>4 DEF OneHeld, Own
  <2>3. Advanced' /\ virtAddr' <= LEN /\ virtAddr' <= LEN + 1
    BY <1>1, Bounds DEF Advanced
  <2>4. ~InPager'
    BY <2>1 DEF InPager
  <2> QED  BY <1>5, <2>1, <2>2, <2>3, <2>4 DEF TestPlace
<1> QED  BY <1>5, <1>6, <1>7, <1>8, PlacedTest

(* a character is asked for,                                               *)
LEMMA PlacesCommand ==
  ASSUME Locals, Pointed, OneHeld, Own, Advanced, virtAddr <= LEN, Command
  PROVE  (Locals /\ Pointed /\ Placed)'
<1>1. /\ run' = "blocked" /\ p_s' = <<"done", "none">> /\ at' = p_s'
      /\ UNCHANGED <<program, exc0, exc1, tlb, present, last, repeated>>
      /\ UNCHANGED <<sem, call, virtAddr, retValue, eos, moved>>
  BY DEF Command, BlockAt, callVars
<1>2. Locals'
  BY <1>1 DEF Locals
<1>3. Pointed'
  <2>1. <<"done", "none">> \in Points
    BY PointFacts DEF Status
  <2>2. exc0 \in Points /\ exc1 \in Points
    BY DEF Pointed
  <2> QED  BY <1>1, <2>1, <2>2, PointedOutside
<1>4. DonePlace(at[2])'
  <2>1. at'[1] = "done" /\ at'[2] = "none"
    BY <1>1
  <2>2. (OneHeld /\ Own /\ Advanced)' /\ virtAddr' <= LEN
    BY <1>1 DEF OneHeld, Own, Advanced
  <2>3. ~InPager'
    BY <2>1 DEF InPager
  <2> QED  BY <1>1, <2>1, <2>2, <2>3 DEF DonePlace
<1> QED  BY <1>1, <1>2, <1>3, <1>4, PlacedDone

(* or the semaphore is given back,                                         *)
LEMMA PlacesRelease ==
  ASSUME Locals, Pointed, OneHeld, Own, run = "on", ReleaseDevice
  PROVE  (Locals /\ Pointed /\ Placed)'
<1>1. /\ sem' = [sem EXCEPT ![call] = @ + 1]
      /\ p_s' = <<"return", 0>> /\ at' = p_s'
      /\ UNCHANGED <<program, run, exc0, exc1, tlb, present, call, virtAddr, retValue, eos,
                     moved, last, repeated>>
  BY DEF ReleaseDevice
<1>2. sem' \in [Device -> {0, 1}] /\ AllFree'
  BY <1>1 DEF Locals, OneHeld, AllFree
<1>3. Locals'
  BY <1>1, <1>2 DEF Locals
<1>4. Pointed'
  <2>1. exc0 \in Points /\ exc1 \in Points
    BY DEF Pointed
  <2> QED  BY <1>1, <2>1, PointFacts, PointedOutside
<1>5. ReturnPlace'
  BY <1>1, <1>2 DEF ReturnPlace, Own
<1> QED  BY <1>1, <1>3, <1>4, <1>5, PlacedReturn

(* as the condition of the loop says;                                      *)
LEMMA PlacesTest ==
  ASSUME Locals, Pointed, Placed, NEW d, (TestWrite(d) /\ d \in Writes) \/ TestRead
  PROVE  (Locals /\ Pointed /\ Placed)'
<1> DEFINE status == at[2]
<1>1. at[1] = "test" /\ run = "on"
  BY DEF TestWrite, TestRead, At
<1>2. TestPlace(status)
  BY <1>1 DEF Placed, Standing, InPager
<1>3. OneHeld /\ Own
  BY <1>2 DEF TestPlace
<1>4. virtAddr \in Int /\ eos \in 1 .. LEN + 1
  BY DEF Locals
<1>5. CASE ReleaseDevice
  BY <1>1, <1>3, <1>5, PlacesRelease
<1>6. CASE TestWrite(d) /\ virtAddr < eos /\ Command
  <2>1. status # "error"
    BY <1>2, <1>4, <1>6 DEF TestPlace
  <2>2. Advanced
    BY <1>2, <2>1 DEF TestPlace
  <2>3. virtAddr <= LEN
    BY <1>4, <1>6, <2>2, Bounds DEF Advanced
  <2> QED  BY <1>3, <1>6, <2>2, <2>3, PlacesCommand
<1>7. CASE /\ at' = <<"beyond", 0>>
           /\ UNCHANGED <<program, run, p_s, exc0, exc1, tlb, present, callVars, last, repeated>>
  <2>1. Locals'
    BY <1>7 DEF Locals, callVars
  <2>2. Pointed'
    BY <1>1, <1>7, PointFacts DEF Pointed, InPager
  <2>3. Placed'
    BY <1>7 DEF Placed, Standing, InPager
  <2> QED  BY <2>1, <2>2, <2>3
<1>8. CASE TestRead /\ status = "ok" /\ Command
  <2>1. Advanced
    BY <1>2, <1>8 DEF TestPlace
  <2>2. virtAddr <= LEN
    BY <1>2, <1>8 DEF TestPlace, TestRead
  <2> QED  BY <1>3, <1>8, <2>1, <2>2, PlacesCommand
<1> QED  BY <1>5, <1>6, <1>7, <1>8 DEF TestWrite, TestRead

(* and after the IOWAIT the pointer moves on, or the string ends.          *)
LEMMA PlacesAfter ==
  ASSUME Locals, Pointed, Placed, NEW d, (AfterWrite(d) /\ d \in Writes) \/ AfterRead
  PROVE  (Locals /\ Pointed /\ Placed)'
<1> DEFINE status == at[2]
<1>1. /\ at[1] = "done" /\ run = "on" /\ at' = <<"test", status>>
      /\ IF status = "error" THEN Fail ELSE Advance
      /\ UNCHANGED <<program, run, p_s, exc0, exc1, tlb, present, sem, call, last, repeated>>
  BY DEF AfterWrite, AfterRead, At
<1>2. at \in Points /\ p_s \in Points /\ exc0 \in Points /\ exc1 \in Points
  BY DEF Pointed
<1>3. at = <<"done", status>> /\ status \in Status
  BY <1>1, <1>2, PointFacts
<1>4. DonePlace(status)
  BY <1>1 DEF Placed, Standing, InPager
<1>5. status # "none" /\ OneHeld /\ Own /\ Advanced
  BY <1>1, <1>4 DEF DonePlace
<1>6. OneHeld' /\ Own'
  BY <1>1, <1>5 DEF OneHeld, Own
<1>7. at'[1] = "test" /\ at'[2] = status /\ ~InPager'
  BY <1>1 DEF InPager
<1>8. ~InPager
  BY <1>1 DEF InPager
<1>9. virtAddr \in 1 .. LEN + 2 /\ eos \in 1 .. LEN + 1 /\ retValue = virtAddr - 1 /\ eos = LEN + 1
  BY <1>5 DEF Locals, Advanced
<1>10. call \in Writes \/ call = "receiver"
  BY DEF AfterWrite, AfterRead
<1>11. call # "receiver" \/ call \notin Writes
  BY DEF Writes
<1>12. virtAddr <= LEN \/ (virtAddr = LEN + 1 /\ call \in Writes /\ status # "error" /\ Listed)
  BY <1>4 DEF DonePlace
<1>13. Pointed'
  <2>1. <<"test", status>> \in Points
    BY <1>3, PointFacts
  <2> QED  BY <1>1, <1>2, <1>7, <2>1 DEF Pointed
<1>14. virtAddr' \in 1 .. LEN + 2 /\ retValue' \in -1 .. LEN + 1 /\ eos' \in 1 .. LEN + 1
  BY <1>1, <1>9, <1>12, Bounds DEF Fail, Advance
<1>15. moved' \in Seq(1 .. LEN)
  <2>1. moved \in Seq(1 .. LEN)
    BY DEF Locals
  <2>2. call = "receiver" => virtAddr \in 1 .. LEN
    BY <1>9, <1>11, <1>12, Bounds
  <2>3. \A x \in 1 .. LEN : Append(moved, x) \in Seq(1 .. LEN)
    BY <2>1
  <2> QED  BY <2>1, <2>2, <2>3 DEF AfterWrite, AfterRead
<1>16. Locals'
  BY <1>1, <1>14, <1>15 DEF Locals
<1> HIDE DEF status
<1>17. CASE status = "error"
  <2>1. virtAddr' = virtAddr /\ eos' = virtAddr' /\ virtAddr' <= LEN
    BY <1>1, <1>12, <1>17 DEF Fail
  <2>2. call \in Writes => PageOf(virtAddr) \in tlb /\ PageOf(virtAddr) \in present
    <3>1. ASSUME call \in Writes
          PROVE  Hit /\ Needs = {PageOf(virtAddr)}
      <4>1. ~InUser /\ ~At("test") /\ At("done")
        BY <1>1 DEF InUser, At
      <4>2. at[2] = "error"
        BY <1>17 DEF status
      <4>3. Needs = {PageOf(virtAddr)}
        BY <4>1, <4>2 DEF Needs
      <4>4. call # "receiver"
        BY <3>1, <1>11
      <4> QED  BY <4>3, <4>4 DEF AfterWrite, AfterRead
    <3> QED  BY <3>1 DEF Hit
  <2>3. call' \in Writes => Listed' /\ PageOf(virtAddr)' \in present'
    BY <1>1, <2>1, <2>2 DEF Listed, PageOf
  <2>4. TestPlace(at[2])'
    BY <1>1, <1>6, <1>7, <1>17, <2>1, <2>3 DEF TestPlace
  <2> QED  BY <1>7, <1>13, <1>16, <2>4, PlacedTest
<1>18. CASE status # "error"
  <2>1. virtAddr' = virtAddr + 1 /\ retValue' = retValue + 1 /\ eos' = eos
    BY <1>1, <1>18 DEF Advance
  <2>2. Advanced'
    BY <1>9, <2>1 DEF Advanced
  <2>3. CASE call \in Writes
    <3>1. p_s = at
      BY <1>4, <1>8, <1>11, <1>18, <2>3 DEF DonePlace
    <3>2. p_s' = <<"done", at'[2]>>
      BY <1>1, <1>3, <1>7, <3>1
    <3>3. virtAddr' <= LEN + 1 \/ Listed'
      <4>1. virtAddr <= LEN => virtAddr' <= LEN + 1
        BY <1>9, <2>1, Bounds
      <4>2. ASSUME virtAddr = LEN + 1, Listed
            PROVE  Listed'
        <5>1. virtAddr \in Int /\ virtAddr' \in Int /\ virtAddr > LEN /\ virtAddr' > LEN
          BY <1>9, <2>1, <4>2, Bounds
        <5>2. PageOf(virtAddr) = 1
          BY <5>1, Bounds
        <5>3. \A pos \in Int : pos > LEN => PageOf(pos) = 1
          BY Bounds
        <5>4. PageOf(virtAddr') = 1
          BY <5>1, <5>3
        <5>5. PageOf(virtAddr)' = PageOf(virtAddr')
          BY DEF PageOf
        <5> QED  BY <1>1, <4>2, <5>2, <5>4, <5>5 DEF Listed
      <4> QED  BY <1>12, <4>1, <4>2
    <3>4. call' # "receiver"
      BY <1>1, <1>11, <2>3
    <3>5. TestPlace(at[2])'
      BY <1>1, <1>5, <1>6, <1>7, <1>18, <2>2, <3>2, <3>3, <3>4 DEF TestPlace
    <3> QED  BY <1>7, <1>13, <1>16, <3>5, PlacedTest
  <2>4. CASE call = "receiver"
    <3>1. virtAddr <= LEN /\ (status = "ok" => virtAddr < LEN)
      BY <1>4, <1>11, <1>12, <2>4 DEF DonePlace
    <3>2. virtAddr' <= LEN + 1 /\ (status = "ok" => virtAddr' <= LEN)
      BY <1>9, <2>1, <3>1, Bounds
    <3>3. call' \notin Writes
      BY <1>1, <1>11, <2>4
    <3>4. TestPlace(at[2])'
      BY <1>1, <1>5, <1>6, <1>7, <1>18, <2>2, <3>2, <3>3 DEF TestPlace
    <3> QED  BY <1>7, <1>13, <1>16, <3>4, PlacedTest
  <2> QED  BY <1>10, <2>3, <2>4
<1> QED  BY <1>17, <1>18

(* Interrupts.                                                             *)
LEMMA PlacesInterrupt ==
  Locals /\ Pointed /\ Placed /\ (Preempted \/ Interrupted) => (Locals /\ Pointed /\ Placed)'
<1> SUFFICES ASSUME Locals, Pointed, Placed, Preempted \/ Interrupted
             PROVE  (Locals /\ Pointed /\ Placed)'
  OBVIOUS
<1>1. /\ at[1] = "user" /\ p_s' = at /\ run' \in {"on", "ready"}
      /\ UNCHANGED <<program, at, exc0, exc1, tlb, present, last, repeated>>
      /\ UNCHANGED <<sem, call, virtAddr, retValue, eos, moved>>
  BY DEF Preempted, Interrupted, InUser, callVars
<1>2. Locals'
  BY <1>1 DEF Locals
<1>3. Pointed'
  BY <1>1, PointedOutside DEF Pointed
<1>4. UserPlace
  BY <1>1 DEF Placed, Standing, InPager
<1>5. UserPlace'
  BY <1>1, <1>4 DEF UserPlace, AllFree
<1> QED  BY <1>1, <1>2, <1>3, <1>5, PlacedUser

(* A process that waits comes to the processor again, and other processes  *)
(* run before that.                                                        *)
LEMMA PlacesWaiting ==
  ASSUME Locals, Pointed, Placed,
         run \in {"ready", "blocked"},
         run' \in {run, "ready", "on"}, run' # "blocked" => run = "ready" \/ at[1] = "pager",
         run' = "on" => UNCHANGED <<tlb, present>>,
         tlb' \subseteq tlb, present' \subseteq present,
         UNCHANGED <<program, at, p_s, exc0, exc1, last, repeated>>,
         UNCHANGED <<sem, call, virtAddr, retValue, eos, moved>>
  PROVE  (Locals /\ Pointed /\ Placed)'
<1>1. Locals'
  BY DEF Locals
<1>2. at = p_s
  BY DEF Pointed
<1>3. Pointed'
  BY <1>2 DEF Pointed, InPager
<1>4. Standing' = Standing /\ InPager' = InPager
  BY DEF Standing, InPager
<1>5. Standing[1] = "user" => UserPlace'
  BY DEF Placed, UserPlace, AllFree
<1>6. Standing[1] = "handler" => HandlerPlace'
  BY DEF Placed, HandlerPlace, AllFree
<1>7. Standing[1] = "return" => ReturnPlace'
  BY DEF Placed, ReturnPlace, Own, AllFree
<1>8. ASSUME Standing[1] = "test"
      PROVE  TestPlace(Standing[2])'
  <2> DEFINE status == Standing[2]
  <2>1. TestPlace(status) /\ status' = status
    BY <1>4, <1>8 DEF Placed
  <2> HIDE DEF status
  <2>2. InPager
    BY <2>1 DEF TestPlace
  <2>3. p_s[1] # "done"
    BY <1>2, <2>2 DEF InPager
  <2>4. (OneHeld /\ Own)'
    BY <2>1 DEF TestPlace, OneHeld, Own
  <2>5. status # "error" => Advanced'
    BY <2>1 DEF TestPlace, Advanced
  <2>6. status = "error" => virtAddr <= LEN /\ eos = virtAddr /\ call \notin Writes
    BY <2>1, <2>2 DEF TestPlace
  <2>7. status # "error" /\ call \in Writes => (p_s = at /\ virtAddr <= LEN + 1) \/ Faulted
    <3>1. p_s # <<"done", status>>
      BY <2>3
    <3> QED  BY <2>1, <3>1 DEF TestPlace
  <2>8. Faulted => Faulted'
    BY <1>4 DEF Faulted
  <2>9. status # "error" => call # "receiver"
    BY <2>1, <2>2 DEF TestPlace
  <2>10. TestPlace(status)'
    BY <1>4, <2>1, <2>2, <2>4, <2>5, <2>6, <2>7, <2>8, <2>9 DEF TestPlace
  <2> QED  BY <2>10 DEF status
<1>9. ASSUME Standing[1] = "done"
      PROVE  DonePlace(Standing[2])'
  <2> DEFINE status == Standing[2]
  <2>1. DonePlace(status) /\ status' = status
    BY <1>4, <1>9 DEF Placed
  <2>2. status = "none" => run' = "blocked"
    <3>1. status = "none" => run = "blocked" /\ ~InPager
      BY <2>1 DEF DonePlace
    <3> QED  BY <3>1 DEF InPager
  <2> HIDE DEF status
  <2>3. (OneHeld /\ Own /\ Advanced)'
    BY <2>1 DEF DonePlace, OneHeld, Own, Advanced
  <2>4. virtAddr <= LEN
    BY <2>1 DEF DonePlace
  <2>5. Faulted => Faulted'
    BY <1>4 DEF Faulted
  <2>6. status = "none" => ~InPager
    BY <2>1 DEF DonePlace
  <2>7. \/ p_s = at /\ ~InPager
        \/ Faulted /\ (call = "receiver" \/ status = "error")
    BY <2>1 DEF DonePlace
  <2>8. call = "receiver" /\ status = "ok" => virtAddr < LEN
    BY <2>1 DEF DonePlace
  <2>9. DonePlace(status)'
    BY <1>4, <2>1, <2>2, <2>3, <2>4, <2>5, <2>6, <2>7, <2>8 DEF DonePlace
  <2> QED  BY <2>9 DEF status
<1>10. Placed'
  BY <1>4, <1>5, <1>6, <1>7, <1>8, <1>9 DEF Placed
<1> QED  BY <1>1, <1>3, <1>10

(* The device has finished: the status is the result of the IOWAIT.        *)
LEMMA PlacesReleased ==
  Locals /\ Pointed /\ Placed /\ Released => (Locals /\ Pointed /\ Placed)'
<1> SUFFICES ASSUME Locals, Pointed, Placed, Released PROVE (Locals /\ Pointed /\ Placed)'
  OBVIOUS
<1>1. /\ run = "blocked" /\ run' = "ready"
      /\ UNCHANGED <<program, exc0, exc1, tlb, present, sem, call, virtAddr, retValue, eos, last,
                     repeated>>
  BY DEF Released
<1>2. at = p_s
  BY <1>1 DEF Pointed
<1>3. CASE p_s[1] = "pager"
  <2>1. UNCHANGED <<p_s, at, moved>>
    BY <1>3 DEF Released
  <2> QED  BY <1>1, <1>2, <1>3, <2>1, PlacesWaiting
<1>4. CASE p_s[1] = "done"
  <2>1. PICK status \in {"ok", "newline", "error"} :
          /\ status = "newline" => call = "receiver"
          /\ call = "receiver" /\ virtAddr >= LEN => status # "ok"
          /\ p_s' = <<"done", status>> /\ at' = p_s'
          /\ moved' = IF call \in Writes /\ status = "ok"
                      THEN Append(moved, virtAddr) ELSE moved
    BY <1>4 DEF Released
  <2>2. DonePlace(at[2])
    BY <1>2, <1>4 DEF Placed, Standing, InPager
  <2>3. virtAddr <= LEN /\ (OneHeld /\ Own /\ Advanced)
    BY <1>1, <2>2 DEF DonePlace
  <2>4. virtAddr \in 1 .. LEN
    BY <2>3, Bounds DEF Locals
  <2>5. Locals'
    <3>1. moved' \in Seq(1 .. LEN)
      <4>1. moved \in Seq(1 .. LEN)
        BY DEF Locals
      <4>2. \A x \in 1 .. LEN : Append(moved, x) \in Seq(1 .. LEN)
        BY <4>1
      <4> QED  BY <2>1, <2>4, <4>1, <4>2
    <3> QED  BY <1>1, <3>1 DEF Locals
  <2>6. at'[1] = "done" /\ at'[2] = status /\ p_s' = at'
    BY <2>1
  <2>7. Pointed'
    <3>1. <<"done", status>> \in Points
      BY PointFacts DEF Status
    <3>2. exc0 \in Points /\ exc1 \in Points
      BY DEF Pointed
    <3> QED  BY <1>1, <2>1, <2>6, <3>1, <3>2, PointedOutside
  <2>8. DonePlace(at[2])'
    <3>1. (OneHeld /\ Own /\ Advanced)' /\ virtAddr' <= LEN
      BY <1>1, <2>3 DEF OneHeld, Own, Advanced
    <3>2. ~InPager'
      BY <2>6 DEF InPager
    <3>3. call' = "receiver" /\ status = "ok" => virtAddr' < LEN
      BY <1>1, <2>1, <2>4, Bounds
    <3> QED  BY <2>1, <2>6, <3>1, <3>2, <3>3 DEF DonePlace
  <2> QED  BY <2>5, <2>6, <2>7, <2>8, PlacedDone
<1> QED  BY <1>3, <1>4 DEF Released

LEMMA PlacesStep == PlacesInv /\ [Next]_vars => PlacesInv'
<1> SUFFICES ASSUME PlacesInv, [Next]_vars PROVE (Locals /\ Pointed /\ Placed)'
  BY ClocksStep DEF PlacesInv
<1>1. Locals /\ Pointed /\ Placed
  BY DEF PlacesInv
<1>2. CASE Handling
  <2>1. ASSUME NEW d \in Writes, GetDevice(d) \/ TestWrite(d) \/ AfterWrite(d)
        PROVE  (Locals /\ Pointed /\ Placed)'
    <3>1. d \in Device
      BY DEF Device
    <3> QED  BY <1>1, <2>1, <3>1, PlacesGetDevice, PlacesTest, PlacesAfter
  <2>2. CASE read_From_Terminal
    <3>1. "receiver" \in Device
      BY DEF Device
    <3>2. CASE GetDevice("receiver")
      BY <1>1, <3>1, <3>2, PlacesGetDevice
    <3> QED  BY <1>1, <2>2, <3>2, PlacesTest, PlacesAfter DEF read_From_Terminal
  <2>3. CASE write_To_Printer \/ write_To_Terminal
    BY <2>1, <2>3 DEF write_To_Printer, write_To_Terminal, Writes
  <2>4. CASE get_TOD \/ terminate_support \/ RefuseArguments \/ Return
    BY <1>1, <2>4, PlacesReturn
  <2>5. CASE uTLB_RefillHandler
    BY <1>1, <2>5, PlacesRefill
  <2>6. CASE TLBExceptionHandler \/ handlePageFault \/ ReturnFromPager
    BY <1>1, <2>6, PlacesPager
  <2> QED  BY <1>2, <2>2, <2>3, <2>4, <2>5, <2>6 DEF Handling
<1>3. CASE Load \/ GetTime \/ SupportCall
  BY <1>1, <1>3, PlacesProgram
<1>4. CASE Preempted \/ Interrupted
  BY <1>1, <1>4, PlacesInterrupt
<1>5. CASE Released
  BY <1>1, <1>5, PlacesReleased
<1>6. CASE Dispatched
  <2>1. /\ run = "ready" /\ run' = "on" /\ at' = p_s
        /\ UNCHANGED <<program, p_s, exc0, exc1, tlb, present, callVars, last, repeated>>
    BY <1>6 DEF Dispatched
  <2>2. at' = at
    BY <1>1, <2>1 DEF Pointed
  <2> QED  BY <1>1, <2>1, <2>2, PlacesWaiting DEF callVars
<1>7. CASE Others
  <2>1. /\ run \in {"ready", "blocked"} /\ run' = run
        /\ UNCHANGED <<program, at, p_s, exc0, exc1, callVars, last, repeated>>
        /\ tlb' \subseteq tlb /\ present' \subseteq present
    BY <1>7 DEF Others
  <2> QED  BY <1>1, <2>1, PlacesWaiting DEF callVars
<1>8. CASE UNCHANGED <<program, run, at, p_s, exc0, exc1, tlb, present, callVars, last, repeated>>
  <2>1. Locals'
    BY <1>1, <1>8 DEF Locals, callVars
  <2>2. Pointed'
    BY <1>1, <1>8 DEF Pointed, InPager
  <2>3. Placed'
    BY <1>1, <1>8 DEF Placed, Standing, InPager, UserPlace, HandlerPlace, TestPlace, DonePlace,
           ReturnPlace, Faulted, AllFree, OneHeld, Own, Advanced, Listed, PageOf, callVars
  <2> QED  BY <2>1, <2>2, <2>3
<1>9. TimePasses \/ UNCHANGED vars
        => UNCHANGED <<program, run, at, p_s, exc0, exc1, tlb, present, callVars, last, repeated>>
  BY DEF TimePasses, vars
<1> QED  BY <1>2, <1>3, <1>4, <1>5, <1>6, <1>7, <1>8, <1>9 DEF Next, Stay

(* Whatever program runs, and wherever a refill led it: the processor      *)
(* states hold points the code has, a device's semaphore is 0 or 1, the    *)
(* pointer of a write loop is never more than one character behind the EOS *)
(* (supportSystemCalls.c:91), and only positions of the string went        *)
(* through a device.                                                       *)
THEOREM SupportTypes == Spec => []TypeOK
<1>1. PlacesInv => TypeOK
  <2> SUFFICES ASSUME PlacesInv PROVE TypeOK
    OBVIOUS
  <2> DEFINE Point == ({"user"} \X (1 .. Length + 2)) \cup ({"pager"} \X Page)
                      \cup ({"handler", "left", "return", "beyond"} \X {0})
                      \cup ({"test", "done"} \X {"none", "ok", "newline", "error"})
  <2>1. Points \subseteq Point
    <3>1. 1 .. Length + 1 \subseteq 1 .. Length + 2
      BY Bounds
    <3> QED  BY <3>1 DEF Points, Status
  <2> HIDE DEF Point
  <2>2. {at, p_s, exc0, exc1} \subseteq Point
    BY <2>1 DEF PlacesInv, Pointed
  <2>3. sem \in [Writes \cup {"receiver"} -> {0, 1}] /\ call \in DOMAIN sem \cup {"none"}
    BY DEF PlacesInv, Locals, Device
  <2>4. {repeated, garbled} \subseteq BOOLEAN
    BY Zenon DEF PlacesInv, Locals, Clocks
  <2>5. /\ program \in [1 .. Length -> Op]
        /\ run \in {"on", "ready", "blocked", "dead"}
        /\ {tlb, present} \subseteq SUBSET Page
        /\ virtAddr \in 1 .. LEN + 2 /\ retValue \in -1 .. LEN + 1 /\ eos \in 1 .. LEN + 1
        /\ moved \in Seq(1 .. LEN) /\ last \in 0 .. Length
    BY DEF PlacesInv, Locals
  <2>6. {now, startT, used} \subseteq Nat /\ p_time \in Int
    BY DEF PlacesInv, Clocks
  <2> USE DEF Point
  <2> QED  BY <2>2, <2>3, <2>4, <2>5, <2>6 DEF TypeOK
<1> QED  BY PlacesInit, PlacesStep, <1>1, PTL DEF Spec
=============================================================================
