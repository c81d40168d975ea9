------------------------------ MODULE EspFlash ------------------------------
(***************************************************************************)
(* components/spi_flash/esp_flash_api.c on the main flash chip: the tasks  *)
(* erase, write and read regions piece by piece, and take and return the   *)
(* lock of CacheUtils for every piece, so that the pieces of different     *)
(* operations interleave and memory-mapped code and data are read between  *)
(* them.  An operation that changed the flash flushes the caches while it  *)
(* still holds the lock of its last piece.                                 *)
(*                                                                         *)
(* A sector stands for the range of addresses one command changes.  What   *)
(* the caches of the two CPUs hold of it is "none", "fresh" or "stale":    *)
(* "stale" as soon as one of them holds old contents, and "misread" if it  *)
(* was fetched from a chip that was still busy with a command, which       *)
(* answers anything.  The driver gives a command up after a time (600 ms   *)
(* for a sector); a chip that takes longer goes on by itself.              *)
(*                                                                         *)
(* yield(chip, 0), which would end a loop without a flush (:650-652,       *)
(* :1054-1056), never fails with the functions the main chip has.          *)
(***************************************************************************)
EXTENDS CacheUtils

CONSTANTS Sectors,      \* the sectors are 0 .. Sectors - 1
          BlockSize,    \* sectors that one block erase command erases
          Regions,      \* the regions calls are made for, <<first, last>>
          Mapped        \* sectors that are mapped for reads through the cache

Sector == 0 .. Sectors - 1

ASSUME SectorsAssumption == Sectors \in Nat \ {0}
ASSUME BlockSizeAssumption == BlockSize \in Nat \ {0}
ASSUME RegionsAssumption == Regions \subseteq {r \in Sector \X Sector : r[1] <= r[2]}
ASSUME MappedAssumption == Mapped \subseteq Sector

VARIABLES
  op,       \* op[t]: the call task t is executing
  cached,   \* cached[s]: what the caches hold of sector s
  chip      \* "busy": with a command that was given up

data == <<cached, chip>>
vars == <<cacheVars, op, data>>

Kinds == {"erase", "write", "read"}

\* next: the first sector not commanded yet; phase: "loop" while there are
\* pieces left, "flush" after the last change, "end" when the call can return
Ops == [kind : Kinds \cup {"none"}, first : Sector, last : Sector, next : 0 .. Sectors,
        phase : {"loop", "flush", "end"}]
NoOp == [kind |-> "none", first |-> 0, last |-> 0, next |-> 0, phase |-> "end"]

TypeOK ==
  /\ CacheTypeOK
  /\ op \in [Tasks -> Ops]
  /\ cached \in [Mapped -> {"none", "fresh", "stale", "misread"}]
  /\ chip \in {"idle", "busy"}

Init ==
  /\ CacheInit
  /\ op = [t \in Tasks |-> NoOp]
  /\ cached = [s \in Mapped |-> "none"]
  /\ chip = "idle"

-----------------------------------------------------------------------------
\* esp_flash_erase_region, esp_flash_write or esp_flash_read is called, with a
\* region inside the chip and not empty (the other calls return at once).
Call(t, c) ==
  /\ running[c] = t
  /\ pc[t] = "app"
  /\ op[t] = NoOp
  /\ \E kind \in Kinds, r \in Regions :
       op' = [op EXCEPT ![t] = [kind |-> kind, first |-> r[1], last |-> r[2],
                                next |-> r[1], phase |-> "loop"]]
  /\ UNCHANGED <<cacheVars, data>>

\* start of the next piece
StartPiece(t, c) ==
  /\ op[t].phase = "loop"
  /\ Disable(t, c)
  /\ UNCHANGED <<op, data>>

\* An erase has a whole block ahead of it.
BlockAhead(o) ==
  /\ o.kind = "erase"
  /\ o.next % BlockSize = 0
  /\ o.next + BlockSize - 1 <= o.last

\* The next command is about the sectors from o.next up to After(o).
After(o) == IF BlockAhead(o) THEN o.next + BlockSize ELSE o.next + 1
Piece(o) == o.next .. After(o) - 1

\* What was cached of a sector that changes is stale from now on.
Spoil(S) ==
  [s \in Mapped |-> IF s \in S /\ cached[s] = "fresh" THEN "stale" ELSE cached[s]]

\* The chip carries out the command, does not accept it (which the chip driver
\* answers with ESP_OK once the write latch is clear again), or does not
\* finish it in time.  A busy chip is waited for and then given none.
CommandChip(S, outcome) ==
  \/ /\ outcome = "done" /\ chip = "idle"
     /\ cached' = Spoil(S) /\ UNCHANGED chip
  \/ outcome = "rejected" /\ chip = "idle" /\ UNCHANGED data
  \/ /\ outcome = "timeout" /\ chip = "idle"
     /\ cached' = Spoil(S) /\ chip' = "busy"
  \/ outcome = "timeout" /\ chip = "busy" /\ UNCHANGED data

\* The loop ends at an error and after the last piece.
Command(t, c) ==
  /\ running[c] = t
  /\ pc[t] = "off"
  /\ op[t].kind \in {"erase", "write"}
  /\ op[t].phase = "loop"
  /\ \E outcome \in {"done", "rejected", "timeout"} :
       /\ CommandChip(Piece(op[t]), outcome)
       /\ LET last == outcome = "timeout" \/ After(op[t]) > op[t].last
          IN  IF last
              THEN /\ op' = [op EXCEPT ![t].next = After(op[t]), ![t].phase = "flush"]
                   /\ UNCHANGED cacheVars
              ELSE /\ op' = [op EXCEPT ![t].next = After(op[t])]
                   /\ Enable(t, c)

\* A read of at most MAX_READ_CHUNK bytes; an error ends the loop.
Read(t, c) ==
  /\ op[t].kind = "read"
  /\ op[t].phase = "loop"
  /\ Enable(t, c)
  /\ \E failed \in {"no", "yes"} :
       op' = [op EXCEPT ![t].next = After(op[t]),
                        ![t].phase = IF failed = "yes" \/ After(op[t]) > op[t].last
                                     THEN "end" ELSE "loop"]
  /\ UNCHANGED data

\* A plausible slip: the flush is asked for at the address of the last piece.
FlushCacheMutant(t, c) ==
  /\ op[t].phase = "flush"
  /\ Enable(t, c)
  /\ cached' = IF op[t].next - 1 \in Mapped
               THEN [s \in Mapped |-> "none"] ELSE cached
  /\ op' = [op EXCEPT ![t].phase = "end"]
  /\ UNCHANGED chip

\* flash_end_flush_cache: memspi_host_flush_cache syncs both caches, as wholes,
\* if a page of the region is mapped.
FlushCache(t, c) ==
  /\ op[t].phase = "flush"
  /\ Enable(t, c)
  /\ cached' = IF Mapped \cap (op[t].first .. op[t].last) # {}
               THEN [s \in Mapped |-> "none"] ELSE cached
  /\ op' = [op EXCEPT ![t].phase = "end"]
  /\ UNCHANGED chip

\* The call returns to the application.
Return(t, c) ==
  /\ running[c] = t
  /\ pc[t] = "app"
  /\ op[t] # NoOp /\ op[t].phase = "end"
  /\ op' = [op EXCEPT ![t] = NoOp]
  /\ UNCHANGED <<cacheVars, data>>

\* Code that runs on a CPU whose cache is on reads a mapped sector through it.
Fill(s) ==
  /\ dark # Cpu
  /\ cached[s] = "none"
  /\ cached' = [cached EXCEPT ![s] = IF chip = "busy" THEN "misread" ELSE "fresh"]
  /\ UNCHANGED <<cacheVars, op, chip>>

\* The cache needs the room for something else.
Evict(s) ==
  /\ dark # Cpu
  /\ cached[s] # "none"
  /\ cached' = [cached EXCEPT ![s] = "none"]
  /\ UNCHANGED <<cacheVars, op, chip>>

\* The chip is done with the command that was given up.
ChipDone ==
  /\ chip = "busy"
  /\ chip' = "idle"
  /\ UNCHANGED <<cacheVars, op, cached>>

-----------------------------------------------------------------------------
Operate(t, c) ==
  StartPiece(t, c) \/ Command(t, c) \/ Read(t, c) \/ FlushCache(t, c) \/ Return(t, c)

Schedule(x) == (\E c \in Cpu : Dispatch(c, x)) /\ UNCHANGED <<op, data>>
Lend(t) == \E c \in Cpu :
  \/ Operate(t, c)
  \/ (Acquire(t, c) \/ Release(t, c)) /\ UNCHANGED <<op, data>>
Block(c) == BlockFunc(c) /\ UNCHANGED <<op, data>>

Next ==
  \/ \E x \in Threads : Schedule(x)
  \/ \E t \in Tasks : Lend(t) \/ \E c \in Cpu : Call(t, c)
  \/ \E c \in Cpu : Block(c)
  \/ \E s \in Mapped : Fill(s) \/ Evict(s)
  \/ ChipDone

Spec == Init /\ [][Next]_vars

\* A thread that can run gets its time slices, and one that gets them gets on,
\* however they are cut.
FairSpec ==
  /\ Spec
  /\ \A t \in Tasks : WF_vars(Schedule(t)) /\ SF_vars(Lend(t))
  /\ \A c \in Cpu :
       /\ WF_vars(Dispatch(c, "ipc") /\ UNCHANGED <<op, data>>)
       /\ SF_vars(Block(c))

-----------------------------------------------------------------------------
\* A cache holds old contents of a sector only while a call that changed the
\* sector has not flushed the caches: a call that has returned leaves none,
\* whatever the pieces of other calls did in between (esp_flash_api.c:682-684).
\* What a busy chip answered is another matter: after a time-out the caches are
\* flushed and switched on before the chip is done, and "misread" may stay.
StaleOnlyDuring ==
  \A s \in Mapped : cached[s] = "stale" =>
    \E t \in Tasks :
      /\ op[t].kind \in {"erase", "write"}
      /\ op[t].phase \in {"loop", "flush"}
      /\ s \in op[t].first .. op[t].next - 1

\* A task that has taken the lock gives it back: it does not wait for ever for
\* the other CPU's IPC task or for that task's flag, nor does an IPC task spin
\* for ever and keep its CPU (cache_utils.c:131-133 and :174 say what this rests
\* on).  A task that waits for the lock may be overtaken again and again.
LockGivenBack == mutex # "none" ~> mutex = "none"
=============================================================================
