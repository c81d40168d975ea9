----------------------------- MODULE CacheUtils -----------------------------
(***************************************************************************)
(* components/spi_flash/cache_utils.c on a chip with two CPUs.  A task     *)
(* that is about to command the flash chip turns off the caches of both    *)
(* CPUs, through which all code outside IRAM is fetched.  Before that it   *)
(* makes the IPC task of the other CPU suspend the scheduler there, mask   *)
(* the interrupts whose handlers are in flash, and spin in IRAM.           *)
(*                                                                         *)
(* The FreeRTOS scheduler (one running thread per CPU, time slices, tasks  *)
(* that migrate when their affinity allows it) and esp_ipc_call are        *)
(* external: they are modelled from what cache_utils.c needs of them.      *)
(* A task that is never inside these functions is at "app": it executes    *)
(* code in flash.                                                          *)
(***************************************************************************)
EXTENDS Integers, FiniteSets

CONSTANTS Tasks,      \* the application's tasks
          Affinity    \* Affinity[t]: the CPUs t may run on

Cpu == {0, 1}
Other(c) == 1 - c
Threads == Tasks \cup {"ipc", "idle"}    \* on CPU c, "ipc" is ipc_task of c

ASSUME TasksAssumption == Tasks \cap {"ipc", "idle", "none"} = {}
ASSUME AffinityAssumption == Affinity \in [Tasks -> (SUBSET Cpu) \ {{}}]

VARIABLES
  running,     \* running[c]: the thread CPU c executes
  suspended,   \* CPUs whose scheduler is suspended (vTaskSuspendAll)
  masked,      \* CPUs whose non-IRAM interrupts are disabled
  dark,        \* CPUs whose cache is disabled
  raised,      \* tasks at priority configMAX_PRIORITIES - 1
  mutex,       \* holder of s_flash_op_mutex, or "none"
  opCpu,       \* s_flash_op_cpu
  canStart,    \* s_flash_op_can_start
  complete,    \* s_flash_op_complete
  pc,          \* pc[t]: the next statement of task t
  cpuid,       \* cpuid[t]: the local variable of that name
  ipc          \* ipc[c]: the next statement of the IPC task of c

lockVars == <<raised, mutex, opCpu, cpuid>>
cpuVars  == <<suspended, masked, dark>>
flags    == <<canStart, complete>>
cacheVars == <<running, cpuVars, lockVars, flags, pc, ipc>>

TaskPc == {"app", "lock", "lookup", "raise", "call", "ack", "await", "suspend",
           "restore", "mask", "disable", "off", "enable", "complete", "unmask",
           "resume", "unlock"}
IpcPc == {"wait", "called", "suspend", "mask", "clear", "start", "spin",
          "restore", "unmask", "resume"}

CacheTypeOK ==
  /\ running \in [Cpu -> Threads]
  /\ suspended \subseteq Cpu
  /\ masked \subseteq Cpu
  /\ dark \subseteq Cpu
  /\ raised \subseteq Tasks
  /\ mutex \in Tasks \cup {"none"}
  /\ opCpu \in {-1, 0, 1}
  /\ canStart \in {0, 1}
  /\ complete \in {0, 1}
  /\ pc \in [Tasks -> TaskPc]
  /\ cpuid \in [Tasks -> Cpu]
  /\ ipc \in [Cpu -> IpcPc]

CacheInit ==
  /\ running = [c \in Cpu |-> "idle"]
  /\ suspended = {} /\ masked = {} /\ dark = {}
  /\ raised = {} /\ mutex = "none" /\ opCpu = -1
  /\ canStart = 0 /\ complete = 0
  /\ pc = [t \in Tasks |-> "app"]
  /\ cpuid = [t \in Tasks |-> 0]
  /\ ipc = [c \in Cpu |-> "wait"]

-----------------------------------------------------------------------------
\* The scheduler

\* A task waits for the mutex, or for the other CPU's IPC task to take its call.
Blocked(t) ==
  \/ pc[t] = "lock" /\ mutex # "none"
  \/ pc[t] = "call" /\ ipc[Other(cpuid[t])] # "wait"
  \/ pc[t] = "ack"

\* Thread x could be given CPU c, or has it and can go on.
Able(x, c) ==
  \/ x = "idle"
  \/ x = "ipc" /\ ipc[c] # "wait"
  \/ /\ x \in Tasks
     /\ c \in Affinity[x]
     /\ ~Blocked(x)
     /\ running[Other(c)] # x

\* IPC tasks have the priority a task in cache_utils.c is raised to.
Priority(x) == IF x = "idle" THEN 0
               ELSE IF x = "ipc" \/ x \in raised THEN 2 ELSE 1

\* CPU c turns to x: no thread it could run has a higher priority.
Dispatch(c, x) ==
  /\ c \notin suspended
  /\ running[c] # x
  /\ Able(x, c)
  /\ \A y \in Threads : Able(y, c) => Priority(y) <= Priority(x)
  /\ running' = [running EXCEPT ![c] = x]
  /\ UNCHANGED <<cpuVars, lockVars, flags, pc, ipc>>

-----------------------------------------------------------------------------
\* spi_flash_disable_interrupts_caches_and_other_cpu

\* Task t, running on c, goes from one statement to another.
Step(t, c, from, to) ==
  /\ running[c] = t
  /\ pc[t] = from
  /\ pc' = [pc EXCEPT ![t] = to]
  /\ UNCHANGED running

\* spi1_start of the task's chip operation
Disable(t, c) ==
  /\ Step(t, c, "app", "lock")
  /\ UNCHANGED <<cpuVars, lockVars, flags, ipc>>

\* spi_flash_op_lock; no holder takes the recursive mutex twice
Lock(t, c) ==
  /\ Step(t, c, "lock", "lookup")
  /\ mutex = "none"
  /\ mutex' = t
  /\ UNCHANGED <<cpuVars, raised, opCpu, cpuid, flags, ipc>>

Lookup(t, c) ==
  /\ Step(t, c, "lookup", "raise")
  /\ cpuid' = [cpuid EXCEPT ![t] = c]
  /\ opCpu' = c
  /\ UNCHANGED <<cpuVars, raised, mutex, flags, ipc>>

\* A plausible slip: s_flash_op_complete is reset together with can_start, on
\* the CPU that asks, while the block function of the operation before may not
\* have seen it set yet.
RaiseMutant(t, c) ==
  /\ Step(t, c, "raise", "call")
  /\ raised' = raised \cup {t}
  /\ canStart' = 0
  /\ complete' = 0
  /\ UNCHANGED <<cpuVars, mutex, opCpu, cpuid, ipc>>

\* prvTaskPriorityRaise; then s_flash_op_can_start is reset.  The branches for
\* a scheduler that has not started (cache_utils.c:166-172, :234, :248) are left
\* out: there are no tasks yet, and the other CPU is held in IRAM.
Raise(t, c) ==
  /\ Step(t, c, "raise", "call")
  /\ raised' = raised \cup {t}
  /\ canStart' = 0
  /\ UNCHANGED <<cpuVars, mutex, opCpu, cpuid, complete, ipc>>

\* esp_ipc_call gives the other CPU's IPC task its function and waits until
\* that task has taken it.  A function still running there is finished first.
IpcCall(t, c) ==
  /\ Step(t, c, "call", "ack")
  /\ ipc[Other(cpuid[t])] = "wait"
  /\ ipc' = [ipc EXCEPT ![Other(cpuid[t])] = "called"]
  /\ UNCHANGED <<cpuVars, lockVars, flags>>

\* while (!s_flash_op_can_start)
Await(t, c) ==
  /\ Step(t, c, "await", "suspend")
  /\ canStart = 1
  /\ UNCHANGED <<cpuVars, lockVars, flags, ipc>>

SuspendAll(t, c) ==
  /\ Step(t, c, "suspend", "restore")
  /\ suspended' = suspended \cup {c}
  /\ UNCHANGED <<masked, dark, lockVars, flags, ipc>>

RestorePriority(t, c) ==
  /\ Step(t, c, "restore", "mask")
  /\ raised' = raised \ {t}
  /\ UNCHANGED <<cpuVars, mutex, opCpu, cpuid, flags, ipc>>

MaskNonIram(t, c) ==
  /\ Step(t, c, "mask", "disable")
  /\ masked' = masked \cup {c}
  /\ UNCHANGED <<suspended, dark, lockVars, flags, ipc>>

\* spi_flash_disable_cache for this CPU and for the other one
DisableCaches(t, c) ==
  /\ Step(t, c, "disable", "off")
  /\ dark' = dark \cup {cpuid[t], Other(cpuid[t])}
  /\ UNCHANGED <<suspended, masked, lockVars, flags, ipc>>

-----------------------------------------------------------------------------
\* spi_flash_enable_interrupts_caches_and_other_cpu

Enable(t, c) ==
  /\ Step(t, c, "off", "enable")
  /\ UNCHANGED <<cpuVars, lockVars, flags, ipc>>

RestoreCaches(t, c) ==
  /\ Step(t, c, "enable", "complete")
  /\ opCpu' = -1
  /\ dark' = dark \ {c, Other(c)}
  /\ UNCHANGED <<suspended, masked, raised, mutex, cpuid, flags, ipc>>

Complete(t, c) ==
  /\ Step(t, c, "complete", "unmask")
  /\ complete' = 1
  /\ UNCHANGED <<cpuVars, lockVars, canStart, ipc>>

UnmaskNonIram(t, c) ==
  /\ Step(t, c, "unmask", "resume")
  /\ masked' = masked \ {c}
  /\ UNCHANGED <<suspended, dark, lockVars, flags, ipc>>

ResumeAll(t, c) ==
  /\ Step(t, c, "resume", "unlock")
  /\ suspended' = suspended \ {c}
  /\ UNCHANGED <<masked, dark, lockVars, flags, ipc>>

Unlock(t, c) ==
  /\ Step(t, c, "unlock", "app")
  /\ mutex' = "none"
  /\ UNCHANGED <<cpuVars, raised, opCpu, cpuid, flags, ipc>>

-----------------------------------------------------------------------------
\* spi_flash_op_block_func, called by the IPC task of CPU c

IpcStep(c, from, to) ==
  /\ running[c] = "ipc"
  /\ ipc[c] = from
  /\ ipc' = [ipc EXCEPT ![c] = to]
  /\ UNCHANGED <<running, lockVars>>

\* The IPC task acknowledges, which wakes the caller, and calls the function.
IpcTake(c) ==
  /\ IpcStep(c, "called", "suspend")
  /\ pc' = [t \in Tasks |-> IF pc[t] = "ack" THEN "await" ELSE pc[t]]
  /\ UNCHANGED <<cpuVars, flags>>

\* A plausible slip: the go-ahead is given before the interrupts are masked.
BlockSuspendMutant(c) ==
  /\ IpcStep(c, "suspend", "mask")
  /\ suspended' = suspended \cup {c}
  /\ canStart' = 1
  /\ UNCHANGED <<masked, dark, complete, pc>>

BlockSuspend(c) ==
  /\ IpcStep(c, "suspend", "mask")
  /\ suspended' = suspended \cup {c}
  /\ UNCHANGED <<masked, dark, flags, pc>>

BlockMask(c) ==
  /\ IpcStep(c, "mask", "clear")
  /\ masked' = masked \cup {c}
  /\ UNCHANGED <<suspended, dark, flags, pc>>

BlockClear(c) ==
  /\ IpcStep(c, "clear", "start")
  /\ complete' = 0
  /\ UNCHANGED <<cpuVars, canStart, pc>>

BlockStart(c) ==
  /\ IpcStep(c, "start", "spin")
  /\ canStart' = 1
  /\ UNCHANGED <<cpuVars, complete, pc>>

BlockSpin(c) ==
  /\ IpcStep(c, "spin", "restore")
  /\ complete = 1
  /\ UNCHANGED <<cpuVars, flags, pc>>

BlockRestore(c) ==
  /\ IpcStep(c, "restore", "unmask")
  /\ dark' = dark \ {c}
  /\ UNCHANGED <<suspended, masked, flags, pc>>

BlockUnmask(c) ==
  /\ IpcStep(c, "unmask", "resume")
  /\ masked' = masked \ {c}
  /\ UNCHANGED <<suspended, dark, flags, pc>>

BlockResume(c) ==
  /\ IpcStep(c, "resume", "wait")
  /\ suspended' = suspended \ {c}
  /\ UNCHANGED <<masked, dark, flags, pc>>

BlockFunc(c) ==
  \/ IpcTake(c) \/ BlockSuspend(c) \/ BlockMask(c) \/ BlockClear(c)
  \/ BlockStart(c) \/ BlockSpin(c) \/ BlockRestore(c) \/ BlockUnmask(c)
  \/ BlockResume(c)

\* What a task does between its call and the moment both caches are off, and
\* between the end of its chip operation and its return
Acquire(t, c) ==
  \/ Lock(t, c) \/ Lookup(t, c) \/ Raise(t, c) \/ IpcCall(t, c) \/ Await(t, c)
  \/ SuspendAll(t, c) \/ RestorePriority(t, c) \/ MaskNonIram(t, c)
  \/ DisableCaches(t, c)

Release(t, c) ==
  \/ RestoreCaches(t, c) \/ Complete(t, c) \/ UnmaskNonIram(t, c)
  \/ ResumeAll(t, c) \/ Unlock(t, c)

\* What the callers of the two functions can make happen
CacheNext ==
  \/ \E c \in Cpu, x \in Threads : Dispatch(c, x)
  \/ \E t \in Tasks, c \in Cpu :
       Disable(t, c) \/ Acquire(t, c) \/ Enable(t, c) \/ Release(t, c)
  \/ \E c \in Cpu : BlockFunc(c)

CacheSpec == CacheInit /\ [][CacheNext]_cacheVars

-----------------------------------------------------------------------------
\* While the cache of a CPU is off, that CPU executes the task that commands
\* the chip, or the block function on its behalf, with its interrupts masked
\* and its scheduler suspended: "None of these CPUs will touch external RAM or
\* flash this way" (cache_utils.c:203-206).
CacheOffAlone ==
  \A c \in dark :
    /\ c \in masked
    /\ c \in suspended
    /\ \/ running[c] = mutex /\ pc[mutex] \in {"off", "enable"}
       \/ running[c] = "ipc" /\ ipc[c] = "spin" /\ complete = 0

\* The assertions of the two functions: no other operation is on record when
\* one starts (cache_utils.c:162), and the task is on the CPU it recorded once
\* the scheduler there is suspended (:199) and when it ends (:220), although it
\* may have been moved to the other CPU in between.
SameCpu ==
  \A c \in Cpu, t \in Tasks : running[c] = t =>
    /\ pc[t] = "lookup" => opCpu = -1
    /\ pc[t] = "restore" => c = cpuid[t]
    /\ pc[t] = "enable" => c = opCpu

FlashAlone == CacheOffAlone /\ SameCpu
=============================================================================
