----------------------------- MODULE Lifecycle ------------------------------
(***************************************************************************)
(* The birth and the end of the user processes: test_phase_3 creates them  *)
(* and waits for them (p3test.c), each with a support structure of the     *)
(* stack of initSupp.c, which gets it back when the process ends           *)
(* (supportSystemCalls.c:56).                                              *)
(*                                                                         *)
(* test_phase_3 runs with interrupts enabled, so it is one action per      *)
(* statement (and two for a statement that reads and writes the top of the *)
(* stack).  A process ends with all interrupt lines masked: one action.    *)
(*                                                                         *)
(* This module has the state and the actions; Pager composes them with the *)
(* memory of the processes.  next_supp is written and never read.          *)
(***************************************************************************)
EXTENDS Integers, Sequences, FiniteSets

CONSTANTS
  UPROCMAX,          \* the number of user processes
  NULL

ASSUME LifecycleAssumption == UPROCMAX \in Nat \ {0} /\ NULL \notin Int

(* User processes by ASID, and the support structures initSuppStack pushes *)
(* (uproc_supp has one more, which is never used).                         *)
Asid == 1 .. UPROCMAX
Supp == 0 .. UPROCMAX - 1

VARIABLES
  freeSupp_tp,       \* the top of the stack of free support structures
  prev_supp,         \* the structure below each of them
  sup_asid,          \* the ASID in each structure
  at,                \* the statement test_phase_3 is at
  supp,              \* the structure alloc_supp has taken
  below,             \* what it has read to be the new top
  started,           \* the processes created, i of initUProcs
  awaited,           \* the P on masterSem that have returned, i of waitForUprocs
  masterSem,
  uproc,             \* what has become of each process
  p_supportStruct,   \* the support structure each process was created with
  raced,             \* history: a process ended between the two reads of the top
  reused             \* history: a structure given back was taken again

lifeVars == <<freeSupp_tp, prev_supp, sup_asid, at, supp, below, started, awaited,
              masterSem, uproc, p_supportStruct, raced, reused>>

Alive == {a \in Asid : uproc[a] = "alive"}

(* test_phase_3 after initSuppStack: structure 0 was pushed first.         *)
LifeInit ==
  /\ freeSupp_tp = UPROCMAX - 1
  /\ prev_supp = [s \in Supp |-> IF s = 0 THEN NULL ELSE s - 1]
  /\ sup_asid = [s \in Supp |-> 0]
  /\ at = "alloc"
  /\ supp = NULL /\ below = NULL
  /\ started = 0 /\ awaited = 0
  /\ masterSem = 0
  /\ uproc = [a \in Asid |-> "none"]
  /\ p_supportStruct = [a \in Asid |-> NULL]
  /\ raced = FALSE /\ reused = FALSE

----------------------------------------------------------------------------
(* alloc_supp, statement by statement                                      *)

(* With no structure left it returns NULL, and initUProcs writes through   *)
(* it: nothing is modelled after that.                                     *)
TestEmpty ==
  /\ at = "alloc"
  /\ at' = IF freeSupp_tp = NULL THEN "fault" ELSE "take"
  /\ UNCHANGED <<freeSupp_tp, prev_supp, sup_asid, supp, below, started, awaited,
                 masterSem, uproc, p_supportStruct, raced, reused>>

(* The copy of freeSupp_tp and the test of its prev_supp are one step: the *)
(* structure copied is the one tested, and dealloc_supp writes no          *)
(* prev_supp of a structure that is on the list.                           *)
TakeTop ==
  /\ at = "take"
  /\ supp' = freeSupp_tp
  /\ reused' = (reused \/ \E a \in Asid : p_supportStruct[a] = freeSupp_tp)
  /\ at' = IF prev_supp[freeSupp_tp] # NULL THEN "step" ELSE "last"
  /\ UNCHANGED <<freeSupp_tp, prev_supp, sup_asid, below, started, awaited,
                 masterSem, uproc, p_supportStruct, raced>>

(* freeSupp_tp is read again, it may be another by now.                    *)
ReadBelow ==
  /\ at = "step"
  /\ below' = prev_supp[freeSupp_tp]
  /\ at' = "store"
  /\ UNCHANGED <<freeSupp_tp, prev_supp, sup_asid, supp, started, awaited,
                 masterSem, uproc, p_supportStruct, raced, reused>>

(* Defect: the structure stays on the stack.                               *)
StoreTop_Stays ==
  /\ at \in {"store", "last"}
  /\ at' = "clear"
  /\ UNCHANGED <<freeSupp_tp, prev_supp, sup_asid, supp, below, started, awaited,
                 masterSem, uproc, p_supportStruct, raced, reused>>

StoreTop ==
  /\ at \in {"store", "last"}
  /\ freeSupp_tp' = IF at = "store" THEN below ELSE NULL
  /\ below' = NULL
  /\ at' = "clear"
  /\ UNCHANGED <<prev_supp, sup_asid, supp, started, awaited,
                 masterSem, uproc, p_supportStruct, raced, reused>>

ClearLinks ==
  /\ at = "clear"
  /\ prev_supp' = [prev_supp EXCEPT ![supp] = NULL]
  /\ at' = "init"
  /\ UNCHANGED <<freeSupp_tp, sup_asid, supp, below, started, awaited,
                 masterSem, uproc, p_supportStruct, raced, reused>>

alloc_supp == TestEmpty \/ TakeTop \/ ReadBelow \/ StoreTop \/ ClearLinks

----------------------------------------------------------------------------
(* The rest of test_phase_3                                                *)

(* The ASID and the contexts; Pager adds the page table.                   *)
init_uproc_support ==
  /\ at = "init"
  /\ sup_asid' = [sup_asid EXCEPT ![supp] = started + 1]
  /\ at' = "create"
  /\ UNCHANGED <<freeSupp_tp, prev_supp, supp, below, started, awaited,
                 masterSem, uproc, p_supportStruct, raced, reused>>

create_Process ==
  /\ at = "create"
  /\ uproc' = [uproc EXCEPT ![started + 1] = "alive"]
  /\ p_supportStruct' = [p_supportStruct EXCEPT ![started + 1] = supp]
  /\ started' = started + 1
  /\ supp' = NULL
  /\ at' = IF started' < UPROCMAX THEN "alloc" ELSE "wait"
  /\ UNCHANGED <<freeSupp_tp, prev_supp, sup_asid, below, awaited,
                 masterSem, raced, reused>>

(* Defect: one P too few.                                                  *)
afterP_OneTooFew == IF awaited' >= UPROCMAX - 1 THEN "end" ELSE "wait"

(* Where waitForUprocs goes on when a P has returned.                      *)
afterP == IF awaited' = UPROCMAX THEN "end" ELSE "wait"

(* P on masterSem: it returns at once, or when a process ends.             *)
waitForUprocs ==
  /\ at = "wait"
  /\ masterSem' = masterSem - 1
  /\ IF masterSem' < 0
     THEN at' = "blocked" /\ UNCHANGED awaited
     ELSE awaited' = awaited + 1 /\ at' = afterP
  /\ UNCHANGED <<freeSupp_tp, prev_supp, sup_asid, supp, below, started, uproc,
                 p_supportStruct, raced, reused>>

(* TERMPROCESS, of what is left of the progeny as well.                    *)
EndInstantiator ==
  /\ at = "end"
  /\ at' = "done"
  /\ uproc' = [a \in Asid |-> IF uproc[a] = "alive" THEN "killed" ELSE uproc[a]]
  /\ UNCHANGED <<freeSupp_tp, prev_supp, sup_asid, supp, below, started, awaited,
                 masterSem, p_supportStruct, raced, reused>>

----------------------------------------------------------------------------
(* The end of a user process                                               *)

(* A process that ends here has changed the top of the stack behind the    *)
(* back of alloc_supp.                                                     *)
InWindow == at \in {"step", "store", "last"}

(* V on masterSem, by a process that ends.                                 *)
notifyTerminated ==
  /\ masterSem' = masterSem + 1
  /\ IF at = "blocked"
     THEN awaited' = awaited + 1 /\ at' = afterP
     ELSE UNCHANGED <<awaited, at>>

(* Defect: TERMPROCESS without the V.                                      *)
terminate_support_NoV(a) ==
  /\ uproc[a] = "alive"
  /\ freeSupp_tp' = p_supportStruct[a]
  /\ prev_supp' = [prev_supp EXCEPT ![p_supportStruct[a]] = freeSupp_tp]
  /\ raced' = (raced \/ InWindow)
  /\ uproc' = [uproc EXCEPT ![a] = "ended"]
  /\ UNCHANGED <<sup_asid, at, supp, below, started, awaited, masterSem,
                 p_supportStruct, reused>>

(* dealloc_supp, notifyTerminated, TERMPROCESS.                            *)
terminate_support(a) ==
  /\ uproc[a] = "alive"
  /\ freeSupp_tp' = p_supportStruct[a]
  /\ prev_supp' = [prev_supp EXCEPT ![p_supportStruct[a]] = freeSupp_tp]
  /\ raced' = (raced \/ InWindow)
  /\ notifyTerminated
  /\ uproc' = [uproc EXCEPT ![a] = "ended"]
  /\ UNCHANGED <<sup_asid, supp, below, started, p_supportStruct, reused>>

(* A page that is not in the page table: TERMPROCESS alone.                *)
getMissingPage_NotFound(a) ==
  /\ uproc[a] = "alive"
  /\ uproc' = [uproc EXCEPT ![a] = "killed"]
  /\ UNCHANGED <<freeSupp_tp, prev_supp, sup_asid, at, supp, below, started, awaited,
                 masterSem, p_supportStruct, raced, reused>>

----------------------------------------------------------------------------
(* The structures on the stack: what every set has that has the top, and   *)
(* with a structure the one below it.                                      *)
Downward(C) ==
  /\ freeSupp_tp \in C \cup {NULL}
  /\ \A s \in C : prev_supp[s] \in C \cup {NULL}

FreeStack == {s \in Supp : \A C \in SUBSET Supp : Downward(C) => s \in C}

(* Between its taking from the stack and the creation of its process.      *)
InHand == IF at \in {"clear", "init", "create"} THEN {supp} ELSE {}

(* Each process has a support structure of its own with its own ASID in    *)
(* it, "process ID" (pandos_types.h:33), and no structure is lost: unless  *)
(* a process ended inside alloc_supp.                                      *)
OwnSupport ==
  ~raced =>
    /\ \A a, b \in Asid : {uproc[a], uproc[b]} \cap {"alive", "killed"} = {uproc[a], uproc[b]} =>
         /\ sup_asid[p_supportStruct[a]] = a
         /\ p_supportStruct[a] = p_supportStruct[b] => a = b
    /\ LET held == {p_supportStruct[a] : a \in {b \in Asid : uproc[b] \in {"alive", "killed"}}}
       IN  /\ held \cap (FreeStack \cup InHand) = {} /\ FreeStack \cap InHand = {}
           /\ Supp = held \cup FreeStack \cup InHand
    /\ at # "fault"

(* test_phase_3 ends after every process, and only then (p3test.c:43); it  *)
(* waits for ever only when a process was terminated without its V         *)
(* (sysSupport.c:60, 77).                                                  *)
OutlivesItsProcesses ==
  /\ at = "done" => \A a \in Asid : uproc[a] = "ended"
  /\ at = "blocked" => \E a \in Asid : uproc[a] \in {"alive", "killed"}
=============================================================================
