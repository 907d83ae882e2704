------------------------------- MODULE CpuTime ------------------------------
(***************************************************************************)
(* The CPU time of one process: p_time, and startT while it runs           *)
(* (scheduler.c, interrupts.c, nucleousSystemCalls.c).  Handlers take no   *)
(* time.  While the process does not run, startT is about another one: the *)
(* dispatch of this process sets it.                                       *)
(*                                                                         *)
(* This module has the state and the parts of the handlers that change it; *)
(* SupportCalls says when they run.                                        *)
(***************************************************************************)
EXTENDS Integers

CONSTANTS
  MaxTime,           \* bound: the clock's readings
  Timeslice          \* the most the processor local timer shows

ASSUME CpuTimeAssumption == {MaxTime, Timeslice} \subseteq Nat

VARIABLES
  now,               \* the time of day clock, what STCK reads
  startT,
  p_time,
  used,              \* history: the time the process has run
  garbled            \* history: a device interrupted it (interrupts.c:122)

timeVars == <<now, startT, p_time, used, garbled>>

TimeInit == now = 0 /\ startT = 0 /\ p_time = 0 /\ used = 0 /\ garbled = FALSE

(* Time goes by.                                                           *)
Tick(running) ==
  /\ now < MaxTime
  /\ now' = now + 1
  /\ used' = IF running THEN used + 1 ELSE used
  /\ UNCHANGED <<startT, p_time, garbled>>

(* The process is dispatched.                                              *)
updateTimeAndSwitch == startT' = now /\ UNCHANGED <<now, p_time, used, garbled>>

(* Defect: the time since the dispatch is forgotten.                       *)
blockCurrentProcessAt_Unbilled == UNCHANGED timeVars

(* The process gives up the processor in a call.                           *)
blockCurrentProcessAt ==
  p_time' = p_time + (now - startT) /\ UNCHANGED <<now, startT, used, garbled>>

(* It is preempted.                                                        *)
handlePLTInterrupt ==
  p_time' = p_time + (now - startT) /\ UNCHANGED <<now, startT, used, garbled>>

(* GETTIME, and an interrupt of the interval timer: billed so far, and it  *)
(* runs on.                                                                *)
get_Cpu_Time ==
  p_time' = p_time + (now - startT) /\ startT' = now /\ UNCHANGED <<now, used, garbled>>

(* A device interrupts it: startT is set to what the processor local timer *)
(* shows, then p_time is updated.  Bound: p_time is not garbled twice.     *)
handleDeviceInterrupt ==
  /\ ~garbled
  /\ \E timer \in 0 .. Timeslice :
       /\ p_time' = p_time + (now - timer)
       /\ garbled' = (timer # startT)
  /\ startT' = now
  /\ UNCHANGED <<now, used>>
=============================================================================
