--------------------------- MODULE EspFlash_proof ---------------------------
(***************************************************************************)
(* Theorems of EspFlash and of CacheUtils below it, for every set of       *)
(* tasks, sectors, regions and block size: the caches are off alone, the   *)
(* steps of EspFlash are steps of CacheUtils, and no call leaves old       *)
(* contents in a cache.                                                    *)
(***************************************************************************)
EXTENDS EspFlash, TLAPS

-----------------------------------------------------------------------------
\* CacheUtils: while the flash chip is commanded nothing is fetched through a
\* cache, for every set of tasks and every affinity.  TLC checks CacheInv for
\* two tasks; it holds whatever the callers do in between.

\* The inductive invariant

\* What a task knows at each statement: whether it holds the mutex, what the
\* flags say, and how far the IPC task of the other CPU is.
TaskInv(t) ==
  LET mine  == cpuid[t]
      other == Other(cpuid[t])
  IN
  /\ mutex = t <=> pc[t] \notin {"app", "lock"}
  /\ pc[t] \in {"raise", "call", "ack", "await", "suspend", "restore", "mask",
                "disable", "off", "enable"} => opCpu = mine
  /\ pc[t] \in {"lookup", "complete", "unmask", "resume", "unlock"} => opCpu = -1
  /\ pc[t] \notin {"app", "lock", "lookup"} => ipc[mine] = "wait"
  /\ pc[t] \in {"call", "ack"} => canStart = 0
  /\ pc[t] = "ack" => ipc[other] = "called"
  /\ pc[t] = "await" =>
       \/ ipc[other] \in {"suspend", "mask", "clear", "start"} /\ canStart = 0
       \/ ipc[other] = "spin" /\ complete = 0
  /\ pc[t] \in {"suspend", "restore", "mask", "disable", "off", "enable", "complete"}
       => ipc[other] = "spin" /\ complete = 0
  /\ pc[t] \in {"restore", "mask", "disable", "off", "enable", "complete",
                "unmask", "resume"} => running[mine] = t /\ mine \in suspended
  /\ pc[t] \in {"disable", "off", "enable", "complete", "unmask"} => mine \in masked

\* What the IPC task of c knows: it keeps its CPU from the suspension of the
\* scheduler to its resumption, and it works for the holder of the mutex until
\* that one completes.
IpcInv(c) ==
  /\ ipc[c] \in {"mask", "clear", "start", "spin", "restore", "unmask", "resume"}
       => running[c] = "ipc" /\ c \in suspended
  /\ ipc[c] \in {"clear", "start", "spin", "restore", "unmask"} => c \in masked
  /\ ipc[c] = "called" =>
       mutex \in Tasks /\ pc[mutex] = "ack" /\ c = Other(cpuid[mutex])
  /\ ipc[c] \in {"suspend", "mask", "clear", "start"} =>
       mutex \in Tasks /\ pc[mutex] = "await" /\ c = Other(cpuid[mutex])
  /\ ipc[c] = "start" => complete = 0

\* A task runs on one CPU at a time.
OneCpu == \A t \in Tasks : ~(running[0] = t /\ running[1] = t)

HolderInv ==
  /\ mutex = "none" => opCpu = -1
  /\ dark # {} => mutex \in Tasks /\ pc[mutex] \in {"off", "enable"}

CacheInv ==
  /\ CacheTypeOK
  /\ \A t \in Tasks : TaskInv(t)
  /\ \A c \in Cpu : IpcInv(c)
  /\ OneCpu
  /\ HolderInv

-----------------------------------------------------------------------------
\* A task that runs on c, by its place in the code, is the only holder.
LEMMA OthersOutside ==
  ASSUME CacheInv, NEW t \in Tasks, mutex = t
  PROVE  \A u \in Tasks \ {t} : pc[u] \in {"app", "lock"}
  BY TasksAssumption DEF CacheInv, TaskInv

LEMMA DisableStep ==
  ASSUME CacheInv, NEW t \in Tasks, NEW c \in Cpu, Disable(t, c)
  PROVE  CacheInv'
  <1> USE DEF Disable, Step, cpuVars, lockVars, flags
  <1>1. CacheTypeOK'
    BY DEF CacheInv, CacheTypeOK, TaskPc, IpcPc, Cpu, Other
  <1>2. \A u \in Tasks : TaskInv(u)'
    BY TasksAssumption, OthersOutside DEF CacheInv, CacheTypeOK, TaskInv, IpcInv, OneCpu,
       HolderInv, Cpu, Other
  <1>3. \A d \in Cpu : IpcInv(d)'
    BY TasksAssumption, OthersOutside DEF CacheInv, CacheTypeOK, TaskInv, IpcInv, OneCpu,
       HolderInv, Cpu, Other
  <1>4. OneCpu' /\ HolderInv'
    BY TasksAssumption, OthersOutside DEF CacheInv, CacheTypeOK, OneCpu, HolderInv, TaskInv, Cpu, Other
  <1> QED BY <1>1, <1>2, <1>3, <1>4 DEF CacheInv

LEMMA LockStep ==
  ASSUME CacheInv, NEW t \in Tasks, NEW c \in Cpu, Lock(t, c)
  PROVE  CacheInv'
  <1> USE DEF Lock, Step, cpuVars, lockVars, flags
  <1>1. CacheTypeOK'
    BY DEF CacheInv, CacheTypeOK, TaskPc, IpcPc, Cpu, Other
  <1>2. \A u \in Tasks : TaskInv(u)'
    BY TasksAssumption, OthersOutside DEF CacheInv, CacheTypeOK, TaskInv, IpcInv, OneCpu,
       HolderInv, Cpu, Other
  <1>3. \A d \in Cpu : IpcInv(d)'
    BY TasksAssumption, OthersOutside DEF CacheInv, CacheTypeOK, TaskInv, IpcInv, OneCpu,
       HolderInv, Cpu, Other
  <1>4. OneCpu' /\ HolderInv'
    BY TasksAssumption, OthersOutside DEF CacheInv, CacheTypeOK, OneCpu, HolderInv, TaskInv, Cpu, Other
  <1> QED BY <1>1, <1>2, <1>3, <1>4 DEF CacheInv

LEMMA LookupStep ==
  ASSUME CacheInv, NEW t \in Tasks, NEW c \in Cpu, Lookup(t, c)
  PROVE  CacheInv'
  <1> USE DEF Lookup, Step, cpuVars, lockVars, flags
  <1>1. CacheTypeOK'
    BY DEF CacheInv, CacheTypeOK, TaskPc, IpcPc, Cpu, Other
  <1>a. ipc[c] = "wait"
    BY TasksAssumption DEF CacheInv, CacheTypeOK, TaskInv, IpcInv, IpcPc
  <1>b. mutex = t /\ cpuid' = [cpuid EXCEPT ![t] = c] /\ cpuid'[t] = c
    BY DEF CacheInv, CacheTypeOK, TaskInv
  <1>2. \A u \in Tasks : TaskInv(u)'
    BY <1>a, <1>b, TasksAssumption, OthersOutside DEF CacheInv, CacheTypeOK, TaskInv, IpcInv, OneCpu,
       HolderInv, Cpu, Other
  <1>3. \A d \in Cpu : IpcInv(d)'
    BY TasksAssumption, OthersOutside DEF CacheInv, CacheTypeOK, TaskInv, IpcInv, OneCpu,
       HolderInv, Cpu, Other
  <1>4. OneCpu' /\ HolderInv'
    BY TasksAssumption, OthersOutside DEF CacheInv, CacheTypeOK, OneCpu, HolderInv, TaskInv, Cpu, Other
  <1> QED BY <1>1, <1>2, <1>3, <1>4 DEF CacheInv

LEMMA RaiseStep ==
  ASSUME CacheInv, NEW t \in Tasks, NEW c \in Cpu, Raise(t, c)
  PROVE  CacheInv'
  <1> USE DEF Raise, Step, cpuVars, lockVars, flags
  <1>1. CacheTypeOK'
    BY DEF CacheInv, CacheTypeOK, TaskPc, IpcPc, Cpu, Other
  <1>2. \A u \in Tasks : TaskInv(u)'
    BY TasksAssumption, OthersOutside DEF CacheInv, CacheTypeOK, TaskInv, IpcInv, OneCpu,
       HolderInv, Cpu, Other
  <1>3. \A d \in Cpu : IpcInv(d)'
    BY TasksAssumption, OthersOutside DEF CacheInv, CacheTypeOK, TaskInv, IpcInv, OneCpu,
       HolderInv, Cpu, Other
  <1>4. OneCpu' /\ HolderInv'
    BY TasksAssumption, OthersOutside DEF CacheInv, CacheTypeOK, OneCpu, HolderInv, TaskInv, Cpu, Other
  <1> QED BY <1>1, <1>2, <1>3, <1>4 DEF CacheInv

LEMMA IpcCallStep ==
  ASSUME CacheInv, NEW t \in Tasks, NEW c \in Cpu, IpcCall(t, c)
  PROVE  CacheInv'
  <1> USE DEF IpcCall, Step, cpuVars, lockVars, flags
  <1>1. CacheTypeOK'
    BY DEF CacheInv, CacheTypeOK, TaskPc, IpcPc, Cpu, Other
  <1>2. \A u \in Tasks : TaskInv(u)'
    BY TasksAssumption, OthersOutside DEF CacheInv, CacheTypeOK, TaskInv, IpcInv, OneCpu,
       HolderInv, Cpu, Other
  <1>3. \A d \in Cpu : IpcInv(d)'
    BY TasksAssumption, OthersOutside DEF CacheInv, CacheTypeOK, TaskInv, IpcInv, OneCpu,
       HolderInv, Cpu, Other
  <1>4. OneCpu' /\ HolderInv'
    BY TasksAssumption, OthersOutside DEF CacheInv, CacheTypeOK, OneCpu, HolderInv, TaskInv, Cpu, Other
  <1> QED BY <1>1, <1>2, <1>3, <1>4 DEF CacheInv

LEMMA AwaitStep ==
  ASSUME CacheInv, NEW t \in Tasks, NEW c \in Cpu, Await(t, c)
  PROVE  CacheInv'
  <1> USE DEF Await, Step, cpuVars, lockVars, flags
  <1>1. CacheTypeOK'
    BY DEF CacheInv, CacheTypeOK, TaskPc, IpcPc, Cpu, Other
  <1>2. \A u \in Tasks : TaskInv(u)'
    BY TasksAssumption, OthersOutside DEF CacheInv, CacheTypeOK, TaskInv, IpcInv, OneCpu,
       HolderInv, Cpu, Other
  <1>3. \A d \in Cpu : IpcInv(d)'
    BY TasksAssumption, OthersOutside DEF CacheInv, CacheTypeOK, TaskInv, IpcInv, OneCpu,
       HolderInv, Cpu, Other
  <1>4. OneCpu' /\ HolderInv'
    BY TasksAssumption, OthersOutside DEF CacheInv, CacheTypeOK, OneCpu, HolderInv, TaskInv, Cpu, Other
  <1> QED BY <1>1, <1>2, <1>3, <1>4 DEF CacheInv

LEMMA SuspendAllStep ==
  ASSUME CacheInv, NEW t \in Tasks, NEW c \in Cpu, SuspendAll(t, c)
  PROVE  CacheInv'
  <1> USE DEF SuspendAll, Step, cpuVars, lockVars, flags
  <1>1. CacheTypeOK'
    BY DEF CacheInv, CacheTypeOK, TaskPc, IpcPc, Cpu, Other
  <1>2. \A u \in Tasks : TaskInv(u)'
    BY TasksAssumption, OthersOutside DEF CacheInv, CacheTypeOK, TaskInv, IpcInv, OneCpu,
       HolderInv, Cpu, Other
  <1>3. \A d \in Cpu : IpcInv(d)'
    BY TasksAssumption, OthersOutside DEF CacheInv, CacheTypeOK, TaskInv, IpcInv, OneCpu,
       HolderInv, Cpu, Other
  <1>4. OneCpu' /\ HolderInv'
    BY TasksAssumption, OthersOutside DEF CacheInv, CacheTypeOK, OneCpu, HolderInv, TaskInv, Cpu, Other
  <1> QED BY <1>1, <1>2, <1>3, <1>4 DEF CacheInv

LEMMA RestorePriorityStep ==
  ASSUME CacheInv, NEW t \in Tasks, NEW c \in Cpu, RestorePriority(t, c)
  PROVE  CacheInv'
  <1> USE DEF RestorePriority, Step, cpuVars, lockVars, flags
  <1>1. CacheTypeOK'
    BY DEF CacheInv, CacheTypeOK, TaskPc, IpcPc, Cpu, Other
  <1>2. \A u \in Tasks : TaskInv(u)'
    BY TasksAssumption, OthersOutside DEF CacheInv, CacheTypeOK, TaskInv, IpcInv, OneCpu,
       HolderInv, Cpu, Other
  <1>3. \A d \in Cpu : IpcInv(d)'
    BY TasksAssumption, OthersOutside DEF CacheInv, CacheTypeOK, TaskInv, IpcInv, OneCpu,
       HolderInv, Cpu, Other
  <1>4. OneCpu' /\ HolderInv'
    BY TasksAssumption, OthersOutside DEF CacheInv, CacheTypeOK, OneCpu, HolderInv, TaskInv, Cpu, Other
  <1> QED BY <1>1, <1>2, <1>3, <1>4 DEF CacheInv

LEMMA MaskNonIramStep ==
  ASSUME CacheInv, NEW t \in Tasks, NEW c \in Cpu, MaskNonIram(t, c)
  PROVE  CacheInv'
  <1> USE DEF MaskNonIram, Step, cpuVars, lockVars, flags
  <1>1. CacheTypeOK'
    BY DEF CacheInv, CacheTypeOK, TaskPc, IpcPc, Cpu, Other
  <1>2. \A u \in Tasks : TaskInv(u)'
    BY TasksAssumption, OthersOutside DEF CacheInv, CacheTypeOK, TaskInv, IpcInv, OneCpu,
       HolderInv, Cpu, Other
  <1>3. \A d \in Cpu : IpcInv(d)'
    BY TasksAssumption, OthersOutside DEF CacheInv, CacheTypeOK, TaskInv, IpcInv, OneCpu,
       HolderInv, Cpu, Other
  <1>4. OneCpu' /\ HolderInv'
    BY TasksAssumption, OthersOutside DEF CacheInv, CacheTypeOK, OneCpu, HolderInv, TaskInv, Cpu, Other
  <1> QED BY <1>1, <1>2, <1>3, <1>4 DEF CacheInv

LEMMA DisableCachesStep ==
  ASSUME CacheInv, NEW t \in Tasks, NEW c \in Cpu, DisableCaches(t, c)
  PROVE  CacheInv'
  <1> USE DEF DisableCaches, Step, cpuVars, lockVars, flags
  <1>a. cpuid[t] \in Cpu /\ Other(cpuid[t]) \in Cpu
    BY DEF CacheInv, CacheTypeOK, Cpu, Other
  <1>b. dark' \subseteq Cpu
    BY <1>a DEF CacheInv, CacheTypeOK
  <1>1. CacheTypeOK'
    BY <1>b DEF CacheInv, CacheTypeOK, TaskPc, IpcPc, Cpu, Other
  <1>2. \A u \in Tasks : TaskInv(u)'
    BY TasksAssumption, OthersOutside DEF CacheInv, CacheTypeOK, TaskInv, IpcInv, OneCpu,
       HolderInv, Cpu, Other
  <1>3. \A d \in Cpu : IpcInv(d)'
    BY TasksAssumption, OthersOutside DEF CacheInv, CacheTypeOK, TaskInv, IpcInv, OneCpu,
       HolderInv, Cpu, Other
  <1>4. OneCpu' /\ HolderInv'
    BY TasksAssumption, OthersOutside DEF CacheInv, CacheTypeOK, OneCpu, HolderInv, TaskInv, Cpu, Other
  <1> QED BY <1>1, <1>2, <1>3, <1>4 DEF CacheInv

LEMMA EnableStep ==
  ASSUME CacheInv, NEW t \in Tasks, NEW c \in Cpu, Enable(t, c)
  PROVE  CacheInv'
  <1> USE DEF Enable, Step, cpuVars, lockVars, flags
  <1>1. CacheTypeOK'
    BY DEF CacheInv, CacheTypeOK, TaskPc, IpcPc, Cpu, Other
  <1>2. \A u \in Tasks : TaskInv(u)'
    BY TasksAssumption, OthersOutside DEF CacheInv, CacheTypeOK, TaskInv, IpcInv, OneCpu,
       HolderInv, Cpu, Other
  <1>3. \A d \in Cpu : IpcInv(d)'
    BY TasksAssumption, OthersOutside DEF CacheInv, CacheTypeOK, TaskInv, IpcInv, OneCpu,
       HolderInv, Cpu, Other
  <1>4. OneCpu' /\ HolderInv'
    BY TasksAssumption, OthersOutside DEF CacheInv, CacheTypeOK, OneCpu, HolderInv, TaskInv, Cpu, Other
  <1> QED BY <1>1, <1>2, <1>3, <1>4 DEF CacheInv

LEMMA RestoreCachesStep ==
  ASSUME CacheInv, NEW t \in Tasks, NEW c \in Cpu, RestoreCaches(t, c)
  PROVE  CacheInv'
  <1> USE DEF RestoreCaches, Step, cpuVars, lockVars, flags
  <1>1. CacheTypeOK'
    BY DEF CacheInv, CacheTypeOK, TaskPc, IpcPc, Cpu, Other
  <1>2. \A u \in Tasks : TaskInv(u)'
    BY TasksAssumption, OthersOutside DEF CacheInv, CacheTypeOK, TaskInv, IpcInv, OneCpu,
       HolderInv, Cpu, Other
  <1>3. \A d \in Cpu : IpcInv(d)'
    BY TasksAssumption, OthersOutside DEF CacheInv, CacheTypeOK, TaskInv, IpcInv, OneCpu,
       HolderInv, Cpu, Other
  <1>a. dark' = {}
    <2>1. c = 0 \/ c = 1
      BY DEF Cpu
    <2> QED BY <2>1 DEF CacheInv, CacheTypeOK, Cpu, Other
  <1>4. OneCpu' /\ HolderInv'
    BY <1>a, TasksAssumption DEF CacheInv, CacheTypeOK, OneCpu, HolderInv, TaskInv, Cpu, Other
  <1> QED BY <1>1, <1>2, <1>3, <1>4 DEF CacheInv

LEMMA CompleteStep ==
  ASSUME CacheInv, NEW t \in Tasks, NEW c \in Cpu, Complete(t, c)
  PROVE  CacheInv'
  <1> USE DEF Complete, Step, cpuVars, lockVars, flags
  <1>1. CacheTypeOK'
    BY DEF CacheInv, CacheTypeOK, TaskPc, IpcPc, Cpu, Other
  <1>2. \A u \in Tasks : TaskInv(u)'
    BY TasksAssumption, OthersOutside DEF CacheInv, CacheTypeOK, TaskInv, IpcInv, OneCpu,
       HolderInv, Cpu, Other
  <1>3. \A d \in Cpu : IpcInv(d)'
    BY TasksAssumption, OthersOutside DEF CacheInv, CacheTypeOK, TaskInv, IpcInv, OneCpu,
       HolderInv, Cpu, Other
  <1>4. OneCpu' /\ HolderInv'
    BY TasksAssumption, OthersOutside DEF CacheInv, CacheTypeOK, OneCpu, HolderInv, TaskInv, Cpu, Other
  <1> QED BY <1>1, <1>2, <1>3, <1>4 DEF CacheInv

LEMMA UnmaskNonIramStep ==
  ASSUME CacheInv, NEW t \in Tasks, NEW c \in Cpu, UnmaskNonIram(t, c)
  PROVE  CacheInv'
  <1> USE DEF UnmaskNonIram, Step, cpuVars, lockVars, flags
  <1>1. CacheTypeOK'
    BY DEF CacheInv, CacheTypeOK, TaskPc, IpcPc, Cpu, Other
  <1>2. \A u \in Tasks : TaskInv(u)'
    BY TasksAssumption, OthersOutside DEF CacheInv, CacheTypeOK, TaskInv, IpcInv, OneCpu,
       HolderInv, Cpu, Other
  <1>3. \A d \in Cpu : IpcInv(d)'
    BY TasksAssumption, OthersOutside DEF CacheInv, CacheTypeOK, TaskInv, IpcInv, OneCpu,
       HolderInv, Cpu, Other
  <1>4. OneCpu' /\ HolderInv'
    BY TasksAssumption, OthersOutside DEF CacheInv, CacheTypeOK, OneCpu, HolderInv, TaskInv, Cpu, Other
  <1> QED BY <1>1, <1>2, <1>3, <1>4 DEF CacheInv

LEMMA ResumeAllStep ==
  ASSUME CacheInv, NEW t \in Tasks, NEW c \in Cpu, ResumeAll(t, c)
  PROVE  CacheInv'
  <1> USE DEF ResumeAll, Step, cpuVars, lockVars, flags
  <1>1. CacheTypeOK'
    BY DEF CacheInv, CacheTypeOK, TaskPc, IpcPc, Cpu, Other
  <1>2. \A u \in Tasks : TaskInv(u)'
    BY TasksAssumption, OthersOutside DEF CacheInv, CacheTypeOK, TaskInv, IpcInv, OneCpu,
       HolderInv, Cpu, Other
  <1>3. \A d \in Cpu : IpcInv(d)'
    BY TasksAssumption, OthersOutside DEF CacheInv, CacheTypeOK, TaskInv, IpcInv, OneCpu,
       HolderInv, Cpu, Other
  <1>4. OneCpu' /\ HolderInv'
    BY TasksAssumption, OthersOutside DEF CacheInv, CacheTypeOK, OneCpu, HolderInv, TaskInv, Cpu, Other
  <1> QED BY <1>1, <1>2, <1>3, <1>4 DEF CacheInv

LEMMA UnlockStep ==
  ASSUME CacheInv, NEW t \in Tasks, NEW c \in Cpu, Unlock(t, c)
  PROVE  CacheInv'
  <1> USE DEF Unlock, Step, cpuVars, lockVars, flags
  <1>1. CacheTypeOK'
    BY DEF CacheInv, CacheTypeOK, TaskPc, IpcPc, Cpu, Other
  <1>2. \A u \in Tasks : TaskInv(u)'
    BY TasksAssumption, OthersOutside DEF CacheInv, CacheTypeOK, TaskInv, IpcInv, OneCpu,
       HolderInv, Cpu, Other
  <1>3. \A d \in Cpu : IpcInv(d)'
    BY TasksAssumption, OthersOutside DEF CacheInv, CacheTypeOK, TaskInv, IpcInv, OneCpu,
       HolderInv, Cpu, Other
  <1>4. OneCpu' /\ HolderInv'
    BY TasksAssumption, OthersOutside DEF CacheInv, CacheTypeOK, OneCpu, HolderInv, TaskInv, Cpu, Other
  <1> QED BY <1>1, <1>2, <1>3, <1>4 DEF CacheInv

LEMMA IpcTakeStep ==
  ASSUME CacheInv, NEW c \in Cpu, IpcTake(c)
  PROVE  CacheInv'
  <1> USE DEF IpcTake, IpcStep, cpuVars, lockVars, flags
  <1>1. CacheTypeOK'
    BY DEF CacheInv, CacheTypeOK, TaskPc, IpcPc, Cpu
  <1>2. \A u \in Tasks : TaskInv(u)'
    BY TasksAssumption, OthersOutside DEF CacheInv, CacheTypeOK, TaskInv, IpcInv, OneCpu,
       HolderInv, Cpu, Other
  <1>3. \A d \in Cpu : IpcInv(d)'
    BY TasksAssumption, OthersOutside DEF CacheInv, CacheTypeOK, TaskInv, IpcInv, OneCpu,
       HolderInv, Cpu, Other
  <1>4. OneCpu' /\ HolderInv'
    BY TasksAssumption, OthersOutside DEF CacheInv, CacheTypeOK, OneCpu, HolderInv, TaskInv, Cpu, Other
  <1> QED BY <1>1, <1>2, <1>3, <1>4 DEF CacheInv

LEMMA BlockSuspendStep ==
  ASSUME CacheInv, NEW c \in Cpu, BlockSuspend(c)
  PROVE  CacheInv'
  <1> USE DEF BlockSuspend, IpcStep, cpuVars, lockVars, flags
  <1>1. CacheTypeOK'
    BY DEF CacheInv, CacheTypeOK, TaskPc, IpcPc, Cpu
  <1>2. \A u \in Tasks : TaskInv(u)'
    BY TasksAssumption, OthersOutside DEF CacheInv, CacheTypeOK, TaskInv, IpcInv, OneCpu,
       HolderInv, Cpu, Other
  <1>3. \A d \in Cpu : IpcInv(d)'
    BY TasksAssumption, OthersOutside DEF CacheInv, CacheTypeOK, TaskInv, IpcInv, OneCpu,
       HolderInv, Cpu, Other
  <1>4. OneCpu' /\ HolderInv'
    BY TasksAssumption, OthersOutside DEF CacheInv, CacheTypeOK, OneCpu, HolderInv, TaskInv, Cpu, Other
  <1> QED BY <1>1, <1>2, <1>3, <1>4 DEF CacheInv

LEMMA BlockMaskStep ==
  ASSUME CacheInv, NEW c \in Cpu, BlockMask(c)
  PROVE  CacheInv'
  <1> USE DEF BlockMask, IpcStep, cpuVars, lockVars, flags
  <1>1. CacheTypeOK'
    BY DEF CacheInv, CacheTypeOK, TaskPc, IpcPc, Cpu
  <1>2. \A u \in Tasks : TaskInv(u)'
    BY TasksAssumption, OthersOutside DEF CacheInv, CacheTypeOK, TaskInv, IpcInv, OneCpu,
       HolderInv, Cpu, Other
  <1>3. \A d \in Cpu : IpcInv(d)'
    BY TasksAssumption, OthersOutside DEF CacheInv, CacheTypeOK, TaskInv, IpcInv, OneCpu,
       HolderInv, Cpu, Other
  <1>4. OneCpu' /\ HolderInv'
    BY TasksAssumption, OthersOutside DEF CacheInv, CacheTypeOK, OneCpu, HolderInv, TaskInv, Cpu, Other
  <1> QED BY <1>1, <1>2, <1>3, <1>4 DEF CacheInv

LEMMA BlockClearStep ==
  ASSUME CacheInv, NEW c \in Cpu, BlockClear(c)
  PROVE  CacheInv'
  <1> USE DEF BlockClear, IpcStep, cpuVars, lockVars, flags
  <1>1. CacheTypeOK'
    BY DEF CacheInv, CacheTypeOK, TaskPc, IpcPc, Cpu
  <1>2. \A u \in Tasks : TaskInv(u)'
    BY TasksAssumption, OthersOutside DEF CacheInv, CacheTypeOK, TaskInv, IpcInv, OneCpu,
       HolderInv, Cpu, Other
  <1>3. \A d \in Cpu : IpcInv(d)'
    BY TasksAssumption, OthersOutside DEF CacheInv, CacheTypeOK, TaskInv, IpcInv, OneCpu,
       HolderInv, Cpu, Other
  <1>4. OneCpu' /\ HolderInv'
    BY TasksAssumption, OthersOutside DEF CacheInv, CacheTypeOK, OneCpu, HolderInv, TaskInv, Cpu, Other
  <1> QED BY <1>1, <1>2, <1>3, <1>4 DEF CacheInv

LEMMA BlockStartStep ==
  ASSUME CacheInv, NEW c \in Cpu, BlockStart(c)
  PROVE  CacheInv'
  <1> USE DEF BlockStart, IpcStep, cpuVars, lockVars, flags
  <1>1. CacheTypeOK'
    BY DEF CacheInv, CacheTypeOK, TaskPc, IpcPc, Cpu
  <1>a. mutex \in Tasks /\ pc[mutex] = "await" /\ c = Other(cpuid[mutex])
    BY DEF CacheInv, IpcInv
  <1>2. \A u \in Tasks : TaskInv(u)'
    BY <1>a, TasksAssumption, OthersOutside DEF CacheInv, CacheTypeOK, TaskInv, IpcInv, OneCpu,
       HolderInv, Cpu, Other
  <1>3. \A d \in Cpu : IpcInv(d)'
    BY TasksAssumption, OthersOutside DEF CacheInv, CacheTypeOK, TaskInv, IpcInv, OneCpu,
       HolderInv, Cpu, Other
  <1>4. OneCpu' /\ HolderInv'
    BY TasksAssumption, OthersOutside DEF CacheInv, CacheTypeOK, OneCpu, HolderInv, TaskInv, Cpu, Other
  <1> QED BY <1>1, <1>2, <1>3, <1>4 DEF CacheInv

LEMMA BlockSpinStep ==
  ASSUME CacheInv, NEW c \in Cpu, BlockSpin(c)
  PROVE  CacheInv'
  <1> USE DEF BlockSpin, IpcStep, cpuVars, lockVars, flags
  <1>1. CacheTypeOK'
    BY DEF CacheInv, CacheTypeOK, TaskPc, IpcPc, Cpu
  <1>2. \A u \in Tasks : TaskInv(u)'
    BY TasksAssumption, OthersOutside DEF CacheInv, CacheTypeOK, TaskInv, IpcInv, OneCpu,
       HolderInv, Cpu, Other
  <1>3. \A d \in Cpu : IpcInv(d)'
    BY TasksAssumption, OthersOutside DEF CacheInv, CacheTypeOK, TaskInv, IpcInv, OneCpu,
       HolderInv, Cpu, Other
  <1>4. OneCpu' /\ HolderInv'
    BY TasksAssumption, OthersOutside DEF CacheInv, CacheTypeOK, OneCpu, HolderInv, TaskInv, Cpu, Other
  <1> QED BY <1>1, <1>2, <1>3, <1>4 DEF CacheInv

LEMMA BlockRestoreStep ==
  ASSUME CacheInv, NEW c \in Cpu, BlockRestore(c)
  PROVE  CacheInv'
  <1> USE DEF BlockRestore, IpcStep, cpuVars, lockVars, flags
  <1>1. CacheTypeOK'
    BY DEF CacheInv, CacheTypeOK, TaskPc, IpcPc, Cpu
  <1>2. \A u \in Tasks : TaskInv(u)'
    BY TasksAssumption, OthersOutside DEF CacheInv, CacheTypeOK, TaskInv, IpcInv, OneCpu,
       HolderInv, Cpu, Other
  <1>3. \A d \in Cpu : IpcInv(d)'
    BY TasksAssumption, OthersOutside DEF CacheInv, CacheTypeOK, TaskInv, IpcInv, OneCpu,
       HolderInv, Cpu, Other
  <1>4. OneCpu' /\ HolderInv'
    BY TasksAssumption, OthersOutside DEF CacheInv, CacheTypeOK, OneCpu, HolderInv, TaskInv, Cpu, Other
  <1> QED BY <1>1, <1>2, <1>3, <1>4 DEF CacheInv

LEMMA BlockUnmaskStep ==
  ASSUME CacheInv, NEW c \in Cpu, BlockUnmask(c)
  PROVE  CacheInv'
  <1> USE DEF BlockUnmask, IpcStep, cpuVars, lockVars, flags
  <1>1. CacheTypeOK'
    BY DEF CacheInv, CacheTypeOK, TaskPc, IpcPc, Cpu
  <1>2. \A u \in Tasks : TaskInv(u)'
    BY TasksAssumption, OthersOutside DEF CacheInv, CacheTypeOK, TaskInv, IpcInv, OneCpu,
       HolderInv, Cpu, Other
  <1>3. \A d \in Cpu : IpcInv(d)'
    BY TasksAssumption, OthersOutside DEF CacheInv, CacheTypeOK, TaskInv, IpcInv, OneCpu,
       HolderInv, Cpu, Other
  <1>4. OneCpu' /\ HolderInv'
    BY TasksAssumption, OthersOutside DEF CacheInv, CacheTypeOK, OneCpu, HolderInv, TaskInv, Cpu, Other
  <1> QED BY <1>1, <1>2, <1>3, <1>4 DEF CacheInv

LEMMA BlockResumeStep ==
  ASSUME CacheInv, NEW c \in Cpu, BlockResume(c)
  PROVE  CacheInv'
  <1> USE DEF BlockResume, IpcStep, cpuVars, lockVars, flags
  <1>1. CacheTypeOK'
    BY DEF CacheInv, CacheTypeOK, TaskPc, IpcPc, Cpu
  <1>2. \A u \in Tasks : TaskInv(u)'
    BY TasksAssumption, OthersOutside DEF CacheInv, CacheTypeOK, TaskInv, IpcInv, OneCpu,
       HolderInv, Cpu, Other
  <1>3. \A d \in Cpu : IpcInv(d)'
    BY TasksAssumption, OthersOutside DEF CacheInv, CacheTypeOK, TaskInv, IpcInv, OneCpu,
       HolderInv, Cpu, Other
  <1>4. OneCpu' /\ HolderInv'
    BY TasksAssumption, OthersOutside DEF CacheInv, CacheTypeOK, OneCpu, HolderInv, TaskInv, Cpu, Other
  <1> QED BY <1>1, <1>2, <1>3, <1>4 DEF CacheInv

LEMMA DispatchStep ==
  ASSUME CacheInv, NEW c \in Cpu, NEW x \in Threads, Dispatch(c, x)
  PROVE  CacheInv'
  <1> USE DEF Dispatch, Able, cpuVars, lockVars, flags
  <1>1. CacheTypeOK'
    BY DEF CacheInv, CacheTypeOK, Threads
  <1>2. \A u \in Tasks : TaskInv(u)'
    BY TasksAssumption, OthersOutside DEF CacheInv, CacheTypeOK, TaskInv, IpcInv, OneCpu,
       HolderInv, Cpu, Other
  <1>3. \A d \in Cpu : IpcInv(d)'
    BY TasksAssumption, OthersOutside DEF CacheInv, CacheTypeOK, TaskInv, IpcInv, OneCpu,
       HolderInv, Cpu, Other
  <1>4. OneCpu' /\ HolderInv'
    BY TasksAssumption, OthersOutside DEF CacheInv, CacheTypeOK, OneCpu, HolderInv, TaskInv, Cpu, Other
  <1> QED BY <1>1, <1>2, <1>3, <1>4 DEF CacheInv

-----------------------------------------------------------------------------
LEMMA CacheInitInv == CacheInit => CacheInv
  BY TasksAssumption DEF CacheInit, CacheInv, CacheTypeOK, TaskInv, IpcInv, OneCpu,
     HolderInv, Cpu, Threads, TaskPc, IpcPc

LEMMA CacheStepInv == CacheInv /\ [CacheNext]_cacheVars => CacheInv'
  <1> SUFFICES ASSUME CacheInv, [CacheNext]_cacheVars PROVE CacheInv'
    OBVIOUS
  <1>1. ASSUME NEW c \in Cpu, NEW x \in Threads, Dispatch(c, x) PROVE CacheInv'
    BY <1>1, DispatchStep
  <1>2. ASSUME NEW t \in Tasks, NEW c \in Cpu, Disable(t, c) \/ Acquire(t, c)
        PROVE  CacheInv'
    BY <1>2, DisableStep, LockStep, LookupStep, RaiseStep, IpcCallStep, AwaitStep,
       SuspendAllStep, RestorePriorityStep, MaskNonIramStep, DisableCachesStep
       DEF Acquire
  <1>3. ASSUME NEW t \in Tasks, NEW c \in Cpu, Enable(t, c) \/ Release(t, c)
        PROVE  CacheInv'
    BY <1>3, EnableStep, RestoreCachesStep, CompleteStep, UnmaskNonIramStep,
       ResumeAllStep, UnlockStep DEF Release
  <1>4. ASSUME NEW c \in Cpu, BlockFunc(c) PROVE CacheInv'
    BY <1>4, IpcTakeStep, BlockSuspendStep, BlockMaskStep, BlockClearStep,
       BlockStartStep, BlockSpinStep, BlockRestoreStep, BlockUnmaskStep,
       BlockResumeStep DEF BlockFunc
  <1>5. CASE UNCHANGED cacheVars
    BY <1>5 DEF cacheVars, cpuVars, lockVars, flags, CacheInv, CacheTypeOK, TaskInv,
       IpcInv, OneCpu, HolderInv
  <1> QED BY <1>1, <1>2, <1>3, <1>4, <1>5 DEF CacheNext

\* When a cache is off, the holder of the mutex has its CPU, and its handshake
\* has pinned down the IPC task of the other one.
LEMMA InvFlashAlone == CacheInv => FlashAlone
  <1> SUFFICES ASSUME CacheInv PROVE FlashAlone
    OBVIOUS
  <1>1. CacheOffAlone
    <2> SUFFICES ASSUME NEW c \in dark
                 PROVE  /\ c \in masked /\ c \in suspended
                        /\ \/ running[c] = mutex /\ pc[mutex] \in {"off", "enable"}
                           \/ running[c] = "ipc" /\ ipc[c] = "spin" /\ complete = 0
      BY DEF CacheOffAlone
    <2>1. mutex \in Tasks /\ pc[mutex] \in {"off", "enable"} /\ c \in Cpu
      BY DEF CacheInv, CacheTypeOK, HolderInv
    <2>2. c = cpuid[mutex] \/ c = Other(cpuid[mutex])
      BY <2>1 DEF CacheInv, CacheTypeOK, Cpu, Other
    <2> QED BY <2>1, <2>2 DEF CacheInv, TaskInv, IpcInv
  <1>2. SameCpu
    BY DEF CacheInv, CacheTypeOK, TaskInv, OneCpu, SameCpu, Cpu
  <1> QED BY <1>1, <1>2 DEF FlashAlone

\* No CPU executes from flash while the caches are off, whatever calls the two
\* functions of cache_utils.c, and their assertions hold.
THEOREM CachesOffAlone == CacheSpec => []FlashAlone
  BY CacheInitInv, CacheStepInv, InvFlashAlone, PTL DEF CacheSpec

-----------------------------------------------------------------------------
\* EspFlash: its steps, and what they leave in the caches

\* Every step keeps to the order of calls that cache_utils.c expects.
LEMMA NextIsCacheNext == [Next]_vars => [CacheNext]_cacheVars
  <1> SUFFICES ASSUME [Next]_vars PROVE [CacheNext]_cacheVars
    OBVIOUS
  <1>1. ASSUME NEW x \in Threads, Schedule(x) PROVE CacheNext
    BY <1>1 DEF Schedule, CacheNext
  <1>2. ASSUME NEW t \in Tasks, Lend(t) PROVE CacheNext \/ UNCHANGED cacheVars
    BY <1>2 DEF Lend, Operate, StartPiece, Command, Read, FlushCache, Return, CacheNext
  <1>3. ASSUME NEW t \in Tasks, NEW c \in Cpu, Call(t, c) PROVE UNCHANGED cacheVars
    BY <1>3 DEF Call
  <1>4. ASSUME NEW c \in Cpu, Block(c) PROVE CacheNext
    BY <1>4 DEF Block, CacheNext
  <1>5. ASSUME NEW s \in Mapped, Fill(s) \/ Evict(s) PROVE UNCHANGED cacheVars
    BY <1>5 DEF Fill, Evict
  <1>6. CASE UNCHANGED vars
    BY <1>6 DEF vars
  <1>7. CASE ChipDone
    BY <1>7 DEF ChipDone
  <1> QED BY <1>1, <1>2, <1>3, <1>4, <1>5, <1>6, <1>7 DEF Next

\* The flash operations implement the protocol of cache_utils.c.
THEOREM FlashImplementsCache == Spec => CacheSpec
  <1>1. Init => CacheInit
    BY DEF Init
  <1> QED BY <1>1, NextIsCacheNext, PTL DEF Spec, CacheSpec

\* Nothing runs from flash while a task erases, writes or reads it.
THEOREM OperationsAlone == Spec => []FlashAlone
  BY FlashImplementsCache, CachesOffAlone, PTL

-----------------------------------------------------------------------------
CallType ==
  /\ op \in [Tasks -> Ops]
  /\ cached \in [Mapped -> {"none", "fresh", "stale", "misread"}]
  /\ chip \in {"idle", "busy"}

\* Pieces follow each other through the region of a call.
OpInv ==
  \A t \in Tasks :
    /\ op[t].kind = "none" => op[t].phase = "end"
    /\ op[t].phase = "loop" => op[t].first <= op[t].next /\ op[t].next <= op[t].last
    /\ op[t].phase = "flush" => op[t].next <= op[t].last + 1

IInv == CallType /\ OpInv /\ StaleOnlyDuring

LEMMA AfterBounds ==
  ASSUME NEW o \in Ops, o.next <= o.last
  PROVE  After(o) \in o.next + 1 .. o.last + 1
  BY BlockSizeAssumption, SectorsAssumption DEF Ops, After, BlockAhead, Sector

LEMMA InitIInv == Init => IInv
  <1> SUFFICES ASSUME Init PROVE IInv
    OBVIOUS
  <1>1. NoOp \in Ops
    BY SectorsAssumption DEF NoOp, Ops, Sector
  <1>2. CallType
    BY <1>1 DEF Init, CallType
  <1>3. OpInv /\ StaleOnlyDuring
    BY DEF Init, OpInv, StaleOnlyDuring, NoOp
  <1> QED BY <1>2, <1>3 DEF IInv

\* A call begins: nothing is attributed to it, or to no call, before or after.
LEMMA CallInv ==
  ASSUME IInv, NEW t \in Tasks, NEW c \in Cpu, Call(t, c)
  PROVE  IInv'
  <1>1. PICK kind \in Kinds, r \in Regions :
          op' = [op EXCEPT ![t] = [kind |-> kind, first |-> r[1], last |-> r[2],
                                   next |-> r[1], phase |-> "loop"]]
    BY DEF Call
  <1> DEFINE new == [kind |-> kind, first |-> r[1], last |-> r[2],
                     next |-> r[1], phase |-> "loop"]
  <1>2. r[1] \in Sector /\ r[2] \in Sector /\ r[1] <= r[2]
    BY RegionsAssumption
  <1>3. /\ new \in Ops /\ new.kind # "none" /\ new.phase = "loop"
        /\ new.first <= new.next /\ new.next <= new.last
    BY <1>2, SectorsAssumption DEF Ops, Kinds, Sector
  <1>4. op'[t] = new /\ \A u \in Tasks \ {t} : op'[u] = op[u]
    BY <1>1 DEF IInv, CallType
  <1>5. CallType' /\ OpInv'
    <2>1. CallType'
      BY <1>1, <1>3 DEF IInv, CallType, Call, data
    <2> QED BY <1>3, <1>4, <2>1 DEF IInv, OpInv
  <1>6. StaleOnlyDuring'
    BY <1>4 DEF Call, data, NoOp, IInv, StaleOnlyDuring
  <1> QED BY <1>5, <1>6 DEF IInv

\* The changed sectors join the part of the region the call answers for.
LEMMA CommandInv ==
  ASSUME IInv, NEW t \in Tasks, NEW c \in Cpu, Command(t, c)
  PROVE  IInv'
  <1> DEFINE o == op[t]
             o1 == op'[t]
  <1>1. /\ o \in Ops /\ o.kind \in {"erase", "write"} /\ o.phase = "loop"
        /\ o.first <= o.next /\ o.next <= o.last
    BY DEF Command, IInv, CallType, OpInv
  <1>2. After(o) \in o.next + 1 .. o.last + 1
    BY <1>1, AfterBounds
  <1>3. /\ \/ op' = [op EXCEPT ![t].next = After(o), ![t].phase = "flush"]
           \/ op' = [op EXCEPT ![t].next = After(o)] /\ After(o) <= o.last
        /\ cached' = cached \/ cached' = Spoil(Piece(o))
        /\ chip' \in {"idle", "busy"}
    <2>1. PICK outcome \in {"done", "rejected", "timeout"} :
            /\ CommandChip(Piece(o), outcome)
            /\ \/ op' = [op EXCEPT ![t].next = After(o), ![t].phase = "flush"]
               \/ op' = [op EXCEPT ![t].next = After(o)] /\ ~(After(o) > o.last)
      BY DEF Command
    <2>2. /\ cached' = cached \/ cached' = Spoil(Piece(o))
          /\ chip' \in {"idle", "busy"}
      BY <2>1 DEF CommandChip, data, IInv, CallType
    <2> QED BY <1>1, <1>2, <2>1, <2>2, SectorsAssumption DEF Ops, Sector
  <1>4. \A u \in Tasks \ {t} : op'[u] = op[u]
    BY <1>3 DEF IInv, CallType
  <1>5. /\ o1 \in Ops /\ o1.kind = o.kind /\ o1.first = o.first /\ o1.last = o.last
        /\ o1.next = After(o)
        /\ \/ o1.phase = "flush"
           \/ o1.phase = "loop" /\ After(o) <= o.last
    BY <1>1, <1>2, <1>3, SectorsAssumption DEF IInv, CallType, Ops, Sector
  <1>6. CallType'
    BY <1>3, <1>4, <1>5 DEF IInv, CallType, Spoil
  <1>7. OpInv'
    BY <1>1, <1>2, <1>4, <1>5 DEF IInv, OpInv, Ops, Sector
  <1>8. StaleOnlyDuring'
    <2> SUFFICES ASSUME NEW s \in Mapped, cached'[s] = "stale"
                 PROVE  \E u \in Tasks : /\ op'[u].kind \in {"erase", "write"}
                                         /\ op'[u].phase \in {"loop", "flush"}
                                         /\ s \in op'[u].first .. op'[u].next - 1
      BY DEF StaleOnlyDuring
    <2>1. s \in Int /\ o.first \in Int /\ o.next \in Int /\ After(o) \in Int
      BY <1>1, <1>2, MappedAssumption DEF Ops, Sector
    <2>2. CASE cached[s] = "stale"
      <3>1. PICK u \in Tasks : /\ op[u].kind \in {"erase", "write"}
                               /\ op[u].phase \in {"loop", "flush"}
                               /\ s \in op[u].first .. op[u].next - 1
        BY <2>2 DEF IInv, StaleOnlyDuring
      <3>2. CASE u = t
        BY <1>1, <1>2, <1>5, <2>1, <3>1, <3>2
      <3>3. CASE u # t
        BY <1>4, <3>1, <3>3
      <3> QED BY <3>2, <3>3
    <2>3. CASE cached[s] # "stale"
      <3>1. s \in o.next .. After(o) - 1
        BY <1>3, <2>3 DEF Spoil, Piece
      <3> QED BY <1>1, <1>5, <2>1, <3>1
    <2> QED BY <2>2, <2>3
  <1> QED BY <1>6, <1>7, <1>8 DEF IInv

\* Steps of calls that change nothing: what they answer for stays theirs.
LEMMA ReadInv ==
  ASSUME IInv, NEW t \in Tasks, NEW c \in Cpu, Read(t, c)
  PROVE  IInv'
  <1> DEFINE o == op[t]
             o1 == op'[t]
  <1>1. /\ o \in Ops /\ o.kind = "read" /\ o.phase = "loop"
        /\ o.first <= o.next /\ o.next <= o.last
    BY DEF Read, IInv, CallType, OpInv
  <1>2. After(o) \in o.next + 1 .. o.last + 1
    BY <1>1, AfterBounds
  <1>3. \/ op' = [op EXCEPT ![t].next = After(o), ![t].phase = "end"]
        \/ op' = [op EXCEPT ![t].next = After(o), ![t].phase = "loop"] /\ After(o) <= o.last
    <2>1. PICK failed \in {"no", "yes"} :
            op' = [op EXCEPT ![t].next = After(o),
                             ![t].phase = IF failed = "yes" \/ After(o) > o.last
                                          THEN "end" ELSE "loop"]
      BY DEF Read
    <2>2. CASE failed = "yes" \/ After(o) > o.last
      BY <2>1, <2>2
    <2>3. CASE ~(failed = "yes" \/ After(o) > o.last)
      BY <1>1, <1>2, <2>1, <2>3, SectorsAssumption DEF Ops, Sector
    <2> QED BY <2>2, <2>3
  <1>4. \A u \in Tasks \ {t} : op'[u] = op[u]
    BY <1>3 DEF IInv, CallType
  <1>5. /\ o1 \in Ops /\ o1.kind = "read"
        /\ o1.first = o.first /\ o1.last = o.last /\ o1.next = After(o)
        /\ \/ o1.phase = "end"
           \/ o1.phase = "loop" /\ After(o) <= o.last
    BY <1>1, <1>2, <1>3, SectorsAssumption DEF IInv, CallType, Ops, Sector
  <1>6. CallType'
    BY <1>3, <1>4, <1>5 DEF IInv, CallType, Read, data
  <1>7. OpInv'
    BY <1>1, <1>2, <1>4, <1>5 DEF IInv, OpInv, Ops, Sector
  <1>8. StaleOnlyDuring'
    BY <1>1, <1>4 DEF IInv, StaleOnlyDuring, Read, data
  <1> QED BY <1>6, <1>7, <1>8 DEF IInv

\* The flush leaves nothing stale; without one nothing of the region is mapped.
LEMMA FlushInv ==
  ASSUME IInv, NEW t \in Tasks, NEW c \in Cpu, FlushCache(t, c)
  PROVE  IInv'
  <1> DEFINE o == op[t]
  <1>1. o \in Ops /\ o.phase = "flush" /\ o.next <= o.last + 1
    BY DEF FlushCache, IInv, CallType, OpInv
  <1>2. op' = [op EXCEPT ![t].phase = "end"]
    BY DEF FlushCache
  <1>3. /\ \A u \in Tasks \ {t} : op'[u] = op[u]
        /\ op'[t] \in Ops /\ op'[t].phase = "end"
    BY <1>1, <1>2 DEF IInv, CallType, Ops
  <1>4. CallType' /\ OpInv'
    <2>1. CallType'
      BY <1>2, <1>3 DEF IInv, CallType, FlushCache
    <2> QED BY <1>3, <2>1 DEF IInv, OpInv
  <1>5. StaleOnlyDuring'
    <2>1. CASE Mapped \cap (o.first .. o.last) # {}
      BY <2>1 DEF FlushCache, StaleOnlyDuring
    <2>2. CASE Mapped \cap (o.first .. o.last) = {}
      <3>1. cached' = cached
        BY <2>2 DEF FlushCache
      <3>2. \A s \in Mapped : s \notin o.first .. o.next - 1
        BY <1>1, <2>2, MappedAssumption, SectorsAssumption DEF Ops, Sector
      <3> QED BY <1>3, <3>1, <3>2 DEF IInv, StaleOnlyDuring
    <2> QED BY <2>1, <2>2
  <1> QED BY <1>4, <1>5 DEF IInv

LEMMA ReturnInv ==
  ASSUME IInv, NEW t \in Tasks, NEW c \in Cpu, Return(t, c)
  PROVE  IInv'
  <1>1. NoOp \in Ops /\ NoOp.phase = "end"
    BY SectorsAssumption DEF NoOp, Ops, Sector
  <1>2. CallType' /\ op'[t] = NoOp /\ \A u \in Tasks \ {t} : op'[u] = op[u]
    BY <1>1 DEF IInv, CallType, Return, data
  <1>3. OpInv'
    BY <1>1, <1>2 DEF IInv, OpInv
  <1>4. StaleOnlyDuring'
    BY <1>2 DEF IInv, StaleOnlyDuring, Return, data
  <1> QED BY <1>2, <1>3, <1>4 DEF IInv

\* Steps that leave the calls alone and make nothing stale
LEMMA CacheLineInv ==
  ASSUME IInv, NEW s \in Mapped, Fill(s) \/ Evict(s)
  PROVE  IInv'
  BY DEF IInv, CallType, OpInv, StaleOnlyDuring, Fill, Evict

LEMMA ChipDoneInv == IInv /\ ChipDone => IInv'
  BY DEF IInv, CallType, OpInv, StaleOnlyDuring, ChipDone

LEMMA OtherInv == IInv /\ UNCHANGED <<op, data>> => IInv'
  BY DEF data, IInv, CallType, OpInv, StaleOnlyDuring

LEMMA StepIInv == IInv /\ [Next]_vars => IInv'
  <1> SUFFICES ASSUME IInv, [Next]_vars PROVE IInv'
    OBVIOUS
  <1>1. ASSUME NEW x \in Threads, Schedule(x) PROVE IInv'
    BY <1>1, OtherInv DEF Schedule
  <1>2. ASSUME NEW t \in Tasks, Lend(t) PROVE IInv'
    <2>1. PICK c \in Cpu :
            \/ Operate(t, c)
            \/ (Acquire(t, c) \/ Release(t, c)) /\ UNCHANGED <<op, data>>
      BY <1>2 DEF Lend
    <2>2. CASE Operate(t, c)
      <3>1. CASE StartPiece(t, c)
        BY <3>1, OtherInv DEF StartPiece
      <3> QED BY <2>2, <3>1, CommandInv, ReadInv, FlushInv, ReturnInv DEF Operate
    <2> QED BY <2>1, <2>2, OtherInv
  <1>3. ASSUME NEW t \in Tasks, NEW c \in Cpu, Call(t, c) PROVE IInv'
    BY <1>3, CallInv
  <1>4. ASSUME NEW c \in Cpu, Block(c) PROVE IInv'
    BY <1>4, OtherInv DEF Block
  <1>5. ASSUME NEW s \in Mapped, Fill(s) \/ Evict(s) PROVE IInv'
    BY <1>5, CacheLineInv
  <1>6. CASE UNCHANGED vars
    BY <1>6, OtherInv DEF vars
  <1> QED BY <1>1, <1>2, <1>3, <1>4, <1>5, <1>6, ChipDoneInv DEF Next

\* Old contents stay in a cache only while the call that changed the sector
\* has not flushed: no call returns and leaves them behind.
THEOREM NoStaleAfterCalls == Spec => []StaleOnlyDuring
  <1>1. IInv => StaleOnlyDuring
    BY DEF IInv
  <1> QED BY <1>1, InitIInv, StepIInv, PTL DEF Spec

\* Every variable keeps its type.
THEOREM FlashTypeCorrect == Spec => []TypeOK
  <1>1. IInv /\ CacheInv => TypeOK
    BY DEF IInv, CallType, CacheInv, TypeOK
  <1>2. CacheSpec => []CacheInv
    BY CacheInitInv, CacheStepInv, PTL DEF CacheSpec
  <1> QED BY <1>1, <1>2, FlashImplementsCache, InitIInv, StepIInv, PTL DEF Spec
=============================================================================
