-------------------------- MODULE OtaHandler_proof --------------------------
(***************************************************************************)
(* The safety properties of OtaHandler for every set of firmwares, number  *)
(* of chunks, of retries, every bound on packets and calls, and failures   *)
(* of flash and hash at any step.                                          *)
(***************************************************************************)
EXTENDS OtaHandler, TLAPS

-----------------------------------------------------------------------------
(* The inductive invariant                                                 *)

(* Nothing has disturbed the size of the buffer.                           *)
Normal == ~Replaced /\ refused = 0

(* While an update runs both callbacks are there, the packet in hand is    *)
(* the one requested, the hash is of what was written since begin(), and   *)
(* nothing has been hashed before the first chunk.                         *)
RunInv ==
  outcome = "running" =>
    /\ ota_cb = "set" /\ tb_cb = "set" /\ updater = "set" /\ crashed = 0
    /\ told = 0 /\ after = {}
    /\ fw \in Firmware
    /\ requested < Total
    /\ pc # "idle" => packet.n = requested
    /\ handle = "open" => img = hash
    /\ requested = 0 /\ pc # "advance" => hash = << >>
    /\ pc = "idle" => timer = "armed" \/ fired = 1
    /\ Normal => change = 1

EndInv ==
  outcome # "running" =>
    /\ Normal => buffer = "small"
    /\ after = {} =>
         /\ crashed = 0
         /\ told = (IF outcome = "none" THEN 0 ELSE 1)
         /\ outcome = "done" => \E f \in Firmware : boot = Complete(f)

ToldRight(u) == ~u.late => u.told = (IF u.outcome \in {"failed", "done"} THEN 1 ELSE 0)

(* What was true of an update when another took its place.                 *)
PastInv == \A u \in past : ToldRight(u)

IInv ==
  TypeOK /\ RunInv /\ EndInv /\ PastInv /\ (Normal => previous = "small")

(* What is true of the update that is on, or was the last.                 *)
LEMMA CurrentTold ==
  ASSUME TypeOK, RunInv, EndInv
  PROVE  ToldRight([outcome |-> outcome, told |-> told, late |-> after # {}])
  <1>1. CASE outcome = "running"
    BY <1>1 DEF RunInv, ToldRight
  <1>2. CASE outcome # "running"
    BY <1>2 DEF EndInv, ToldRight, TypeOK, Result
  <1> QED BY <1>1, <1>2

(* What the properties say, from the invariant                             *)
LEMMA InvProperties ==
  IInv => BootsWholeFirmware /\ ToldOnce /\ NullOnlyAfterEnd /\ Watched /\ BufferRestored
  <1> SUFFICES ASSUME IInv
               PROVE  /\ BootsWholeFirmware /\ NullOnlyAfterEnd /\ Watched
                      /\ BufferRestored /\ ToldOnce
    OBVIOUS
  <1>1. BootsWholeFirmware /\ NullOnlyAfterEnd /\ Watched
    BY DEF IInv, TypeOK, RunInv, EndInv, BootsWholeFirmware, NullOnlyAfterEnd, Watched
  <1>2. BufferRestored
    BY DEF IInv, EndInv, BufferRestored, Normal
  <1>3. ToldOnce
    BY CurrentTold DEF IInv, PastInv, ToldRight, ToldOnce
  <1> QED BY <1>1, <1>2, <1>3

LEMMA TotalPositive == Total \in Nat /\ Total > 0
  BY OtaAssumption DEF Total

LEMMA InitInv == Init => IInv
  <1> SUFFICES ASSUME Init PROVE IInv
    OBVIOUS
  <1>1. PICK f \in Firmware : server = f
    BY DEF Init
  <1>2. [fw |-> f, n |-> 0] \in Packet
    BY TotalPositive DEF Packet
  <1>3. NoPacket \in Packet
    BY <1>2 DEF NoPacket
  <1>4. TypeOK
    <2>1. past \subseteq [outcome : Result, told : 0..2, late : BOOLEAN]
      BY DEF Init
    <2>2. faulty \in BOOLEAN
      BY DEF Init
    <2> QED BY <1>3, <2>1, <2>2, TotalPositive, OtaAssumption DEF Init, TypeOK, Result
  <1> QED BY <1>4 DEF Init, IInv, RunInv, EndInv, PastInv, Normal

-----------------------------------------------------------------------------
(* A packet more, or less, under way                                       *)
LEMMA NetMore ==
  ASSUME TypeOK, NEW p \in Packet, net[p] < MaxInFlight
  PROVE  [net EXCEPT ![p] = @ + 1] \in [Packet -> 0..MaxInFlight]
  BY OtaAssumption DEF TypeOK

LEMMA NetLess ==
  ASSUME TypeOK, NEW p \in Packet, net[p] > 0
  PROVE  [net EXCEPT ![p] = @ - 1] \in [Packet -> 0..MaxInFlight]
  BY OtaAssumption DEF TypeOK

LEMMA Answer ==
  ASSUME TypeOK, NEW n \in Nat, n < Total
  PROVE  [fw |-> server, n |-> n] \in Packet
  BY TotalPositive DEF TypeOK, Packet

LEMMA NoPacketTyped ==
  ASSUME TypeOK
  PROVE  NoPacket \in Packet
  <1> DEFINE first == [fw |-> server, n |-> 0]
  <1>1. first \in Packet
    BY TotalPositive, Answer
  <1>2. first.n = 0
    OBVIOUS
  <1> HIDE DEF first
  <1> QED BY <1>1, <1>2 DEF NoPacket

(* A step that handles something of an update that has ended: whatever it  *)
(* does, it only has to leave the buffer small.                            *)
LEMMA AfterEnd ==
  ASSUME IInv, TypeOK', outcome # "running", outcome' # "running", after' # {},
         buffer' \in {buffer, previous}, UNCHANGED <<previous, past, refused>>
  PROVE  IInv'
  BY DEF IInv, TypeOK, RunInv, EndInv, PastInv, Normal, Replaced

(* A running update ends: told once, and the buffer gets its size back.    *)
LEMMA Ends ==
  ASSUME IInv, TypeOK', outcome = "running", NEW result \in {"failed", "done"},
         EndUpdate(result), UNCHANGED <<crashed, after, past, refused>>,
         result = "done" => \E f \in Firmware : boot' = Complete(f)
  PROVE  IInv'
  <1>1. outcome' = result /\ told' = 1
    BY DEF IInv, RunInv, EndUpdate
  <1>2. Normal' => buffer' = "small" /\ previous' = "small"
    BY DEF IInv, RunInv, EndUpdate, Normal, Replaced
  <1>5. PastInv'
    BY DEF IInv, PastInv
  <1>3. crashed' = 0
    BY DEF IInv, RunInv
  <1>4. EndInv'
    BY <1>1, <1>2, <1>3 DEF EndInv, Complete
  <1> QED BY <1>1, <1>2, <1>4, <1>5 DEF IInv, RunInv

LEMMA ReceiveInv ==
  ASSUME IInv, NEW p \in Packet, Receive(p)
  PROVE  IInv'
  <1> USE DEF Receive, Handles, cloud, tb, handler, progress, store, task, history, earlier
  <1>1. net' \in [Packet -> 0..MaxInFlight]
    BY NetLess DEF IInv
  <1>2. TypeOK'
    <2>1. /\ pc' \in {"idle", "write", "advance"} /\ packet' \in Packet
          /\ timer' \in {"idle", "armed"}
          /\ after' \subseteq {"packet", "timeout", "stop"}
      BY DEF IInv, TypeOK, task
    <2> QED BY <1>1, <2>1 DEF IInv, TypeOK
  <1>3. p.n \in Nat
    BY TotalPositive DEF Packet
  <1>4. RunInv'
    BY <1>3 DEF IInv, TypeOK, RunInv, Normal, Replaced
  <1>5. EndInv' /\ PastInv' /\ (Normal' => previous' = "small")
    BY DEF IInv, TypeOK, EndInv, PastInv, Normal, Replaced
  <1> QED BY <1>2, <1>4, <1>5 DEF IInv

LEMMA LoseInv ==
  ASSUME IInv, NEW p \in Packet, Lose(p)
  PROVE  IInv'
  <1> USE DEF Lose, cloud, tb, handler, progress, clock, store, task, history, earlier
  <1>1. net' \in [Packet -> 0..MaxInFlight]
    BY NetLess DEF IInv
  <1>2. TypeOK'
    BY <1>1 DEF IInv, TypeOK
  <1> QED BY <1>2 DEF IInv, TypeOK, RunInv, EndInv, PastInv, Normal, Replaced

(* The update that was on becomes a past one.                              *)
LEMMA ReplaceKeeps ==
  ASSUME IInv, Replace
  PROVE  /\ past' \subseteq [outcome : Result, told : 0..2, late : BOOLEAN]
         /\ PastInv' /\ after' = {} /\ refused' = refused
         /\ Normal' => Normal /\ outcome # "running"
  <1> DEFINE u == [outcome |-> outcome, told |-> told, late |-> after # {}]
  <1>1. ToldRight(u) /\ u \in [outcome : Result, told : 0..2, late : BOOLEAN]
    BY CurrentTold DEF IInv, TypeOK
  <1>2. /\ after' = {} /\ refused' = refused
        /\ \/ past' = past /\ outcome = "none"
           \/ past' = past \union {u} /\ outcome # "none"
    <2>1. CASE outcome = "none"
      BY <2>1 DEF Replace
    <2>2. CASE outcome # "none"
      BY <2>2 DEF Replace
    <2> QED BY <2>1, <2>2
  <1>3. u.outcome = outcome
    OBVIOUS
  <1> HIDE DEF u
  <1>4. /\ past' \subseteq [outcome : Result, told : 0..2, late : BOOLEAN]
        /\ PastInv'
    BY <1>1, <1>2 DEF IInv, TypeOK, PastInv
  <1>5. Normal' => Normal /\ outcome # "running"
    BY <1>2, <1>3 DEF Normal, Replaced
  <1> QED BY <1>2, <1>4, <1>5

LEMMA StartInv ==
  ASSUME IInv, Start
  PROVE  IInv'
  <1> USE DEF Start, Accept, task
  <1>1. [fw |-> server, n |-> 0] \in Packet
    BY TotalPositive, Answer DEF IInv
  <1>2. net' \in [Packet -> 0..MaxInFlight]
    BY <1>1, NetMore DEF IInv, TypeOK
  <1>3. /\ past' \subseteq [outcome : Result, told : 0..2, late : BOOLEAN]
        /\ PastInv' /\ after' = {} /\ refused' = refused
        /\ Normal' => Normal /\ outcome # "running"
    BY ReplaceKeeps
  <1>4. news \in Firmware
    BY DEF IInv, TypeOK
  <1>5. TypeOK'
    BY <1>2, <1>3, <1>4, OtaAssumption, TotalPositive DEF IInv, TypeOK, Result
  <1>6. Normal' => change' = 1 /\ previous' = "small"
    BY <1>3 DEF IInv, EndInv
  <1>7. RunInv' /\ EndInv'
    BY <1>3, <1>4, <1>6, TotalPositive DEF IInv, TypeOK, RunInv, EndInv
  <1> QED BY <1>3, <1>5, <1>6, <1>7 DEF IInv

LEMMA StartWithoutUpdaterInv ==
  ASSUME IInv, StartWithoutUpdater
  PROVE  IInv'
  <1> USE DEF StartWithoutUpdater, Accept, task
  <1>1. /\ past' \subseteq [outcome : Result, told : 0..2, late : BOOLEAN]
        /\ PastInv' /\ after' = {} /\ refused' = refused
        /\ Normal' => Normal /\ outcome # "running"
    BY ReplaceKeeps
  <1>2. news \in Firmware /\ retries' \in 0..ChunkRetries
    BY OtaAssumption DEF IInv, TypeOK
  <1>3. TypeOK'
    BY <1>1, <1>2 DEF IInv, TypeOK, Result
  <1>4. Normal' => buffer' = "small" /\ previous' = "small"
    BY <1>1 DEF IInv, EndInv
  <1>5. RunInv' /\ EndInv'
    BY <1>1, <1>4 DEF RunInv, EndInv
  <1> QED BY <1>1, <1>3, <1>4, <1>5 DEF IInv

LEMMA NotEnoughRamInv ==
  ASSUME IInv, NotEnoughRam
  PROVE  IInv'
  <1> USE DEF NotEnoughRam, Accept, handler, progress, history, task
  <1>1. TypeOK'
    BY DEF IInv, TypeOK
  <1>2. ~Normal'
    BY DEF Normal
  <1>3. PastInv'
    BY DEF IInv, PastInv
  <1> QED BY <1>1, <1>2, <1>3 DEF IInv, RunInv, EndInv

LEMMA AnnounceInv ==
  ASSUME IInv, Prepare \/ Ignore \/ (\E f \in Firmware : Assign(f))
  PROVE  IInv'
  <1> USE DEF cloud, tb, handler, progress, clock, store, task, history, earlier
  <1>1. CASE Prepare
    <2>1. TypeOK'
      BY <1>1, OtaAssumption DEF Prepare, IInv, TypeOK
    <2> QED BY <1>1, <2>1 DEF Prepare, IInv, TypeOK, RunInv, EndInv, PastInv,
                                    Normal, Replaced
  <1>2. CASE Ignore
    <2>1. TypeOK'
      BY <1>2 DEF Ignore, IInv, TypeOK
    <2> QED BY <1>2, <2>1 DEF Ignore, IInv, TypeOK, RunInv, EndInv, PastInv,
                                    Normal, Replaced
  <1>3. ASSUME NEW f \in Firmware, Assign(f) PROVE IInv'
    <2>1. TypeOK'
      BY <1>3, OtaAssumption DEF Assign, IInv, TypeOK
    <2> QED BY <1>3, <2>1 DEF Assign, IInv, TypeOK, RunInv, EndInv, PastInv,
                                    Normal, Replaced
  <1> QED BY <1>1, <1>2, <1>3

LEMMA FireInv ==
  ASSUME IInv, Fire
  PROVE  IInv'
  <1> USE DEF Fire, cloud, tb, handler, progress, store, task, history, earlier
  <1>1. TypeOK'
    BY DEF IInv, TypeOK
  <1> QED BY <1>1 DEF IInv, TypeOK, RunInv, EndInv, PastInv, Normal, Replaced

-----------------------------------------------------------------------------
(* The parts the larger actions are made of                                *)

(* The parts' own typing: what they leave to their callers is assumed.     *)
Typed ==
  /\ net' \in [Packet -> 0..MaxInFlight]
  /\ tb_cb' \in {"set", "null"}
  /\ buffer' \in {"small", "large"} /\ previous' \in {"small", "large"}
  /\ change' \in {0, 1}
  /\ requested' \in 0..Total /\ retries' \in 0..ChunkRetries
  /\ timer' \in {"idle", "armed"}
  /\ handle' \in {"open", "closed"}
  /\ img' \in Seq(Packet) /\ hash' \in Seq(Packet) /\ boot' \in Seq(Packet)
  /\ crashed' \in {0, 1}
  /\ outcome' \in Result /\ told' \in 0..2

(* What no part does: begin an update, enlarge the buffer.                 *)
Modest ==
  /\ outcome' = "running" => outcome = "running"
  /\ buffer' \in {buffer, previous} /\ previous' = previous

LEMMA PublishPart ==
  ASSUME TypeOK, NEW n \in Nat, n < Total, Publish(n)
  PROVE  /\ net' \in [Packet -> 0..MaxInFlight] /\ timer' = "armed"
         /\ UNCHANGED <<tb, history, crashed>>
  <1>1. [fw |-> server, n |-> n] \in Packet
    BY Answer
  <1> QED BY <1>1, NetMore DEF Publish, TypeOK

LEMMA RequestFirstPart ==
  ASSUME TypeOK, RequestFirst
  PROVE  /\ Typed /\ Modest
         /\ \/ "null" \in {tb_cb, ota_cb, updater}
            \/ /\ requested' = 0 /\ hash' = << >> /\ handle' = "closed"
               /\ timer' = "armed" /\ UNCHANGED <<tb, history, crashed>>
  <1>1. CASE "null" \in {tb_cb, ota_cb, updater}
    BY <1>1 DEF RequestFirst, Crash, Typed, Modest, TypeOK, progress, store, tb, history
  <1>2. CASE "null" \notin {tb_cb, ota_cb, updater}
    <2>1. Publish(0)
      BY <1>2 DEF RequestFirst
    <2>2. /\ net' \in [Packet -> 0..MaxInFlight] /\ timer' = "armed"
          /\ UNCHANGED <<tb, history, crashed>>
      BY <2>1, TotalPositive, PublishPart
    <2> QED BY <1>2, <2>2, OtaAssumption, TotalPositive
            DEF RequestFirst, Typed, Modest, TypeOK, tb, history
  <1> QED BY <1>1, <1>2

LEMMA CrashPart ==
  ASSUME TypeOK, Crash
  PROVE  Typed /\ Modest
  BY DEF Crash, Typed, Modest, TypeOK, progress, store, tb, history

LEMMA GiveUpPart ==
  ASSUME TypeOK, GiveUp, UNCHANGED <<retries, store>>
  PROVE  /\ Typed /\ Modest
         /\ \/ ota_cb = "null"
            \/ EndUpdate("failed") /\ UNCHANGED crashed
  <1>1. CASE ota_cb = "null"
    <2>1. Crash
      BY <1>1 DEF GiveUp, Crash
    <2> QED BY <1>1, <2>1, CrashPart
  <1>2. CASE ota_cb # "null"
    <2>1. EndUpdate("failed") /\ UNCHANGED <<requested, timer, net, crashed>>
      BY <1>2 DEF GiveUp
    <2>2. Typed /\ Modest
      BY <2>1 DEF EndUpdate, Typed, Modest, TypeOK, Result, store
    <2> QED BY <2>1, <2>2
  <1> QED BY <1>1, <1>2

(* With a retry left the update starts over, else it fails.                *)
LEMMA RetryPart ==
  ASSUME TypeOK, NEW r \in Nat, RetryUpdate(r)
  PROVE  /\ Typed /\ Modest
         /\ \/ "null" \in {tb_cb, ota_cb, updater}
            \/ /\ requested' = 0 /\ hash' = << >> /\ handle' = "closed"
               /\ timer' = "armed" /\ UNCHANGED <<tb, history, crashed>>
            \/ EndUpdate("failed") /\ UNCHANGED crashed
  <1>1. CASE RequestFirst
    BY <1>1, RequestFirstPart
  <1>2. CASE GiveUp /\ UNCHANGED <<retries, store>>
    BY <1>2, GiveUpPart
  <1> QED BY <1>1, <1>2 DEF RetryUpdate

LEMMA CommitPart ==
  ASSUME TypeOK, Commit, retries' \in 0..ChunkRetries
  PROVE  /\ Typed /\ Modest
         /\ EndUpdate("done") /\ boot' = img /\ UNCHANGED crashed
  BY TotalPositive DEF Commit, EndUpdate, Typed, Modest, TypeOK, Result

(* The next chunk is requested; after the last one the update is finished, *)
(* which only commits an image whose hash is the announced one.            *)
LEMMA RequestNextPart ==
  ASSUME TypeOK, NEW n \in Nat, NEW r \in 0..ChunkRetries, RequestNext(n, r)
  PROVE  /\ Typed /\ Modest
         /\ faulty' \in BOOLEAN
         /\ \/ "null" \in {tb_cb, ota_cb, updater}
            \/ /\ n < Total /\ requested' = n
               /\ timer' = "armed" /\ UNCHANGED <<tb, history, crashed, store>>
            \/ /\ n >= Total /\ requested' = 0 /\ hash' = << >> /\ handle' = "closed"
               /\ timer' = "armed" /\ UNCHANGED <<tb, history, crashed>>
            \/ n >= Total /\ EndUpdate("failed") /\ UNCHANGED crashed
            \/ /\ n >= Total /\ Matches /\ handle = "open"
               /\ EndUpdate("done") /\ boot' = img /\ UNCHANGED crashed
  <1>1. CASE n < Total /\ NoFault /\ tb_cb = "null" /\ Crash
    <2>1. faulty' \in BOOLEAN
      BY <1>1 DEF NoFault
    <2> QED BY <1>1, <2>1, CrashPart
  <1>2. CASE n < Total /\ NoFault /\ Publish(n) /\ requested' = n /\ retries' = r /\ UNCHANGED store
    <2>1. /\ net' \in [Packet -> 0..MaxInFlight] /\ timer' = "armed"
          /\ UNCHANGED <<tb, history, crashed>>
      BY <1>2, PublishPart
    <2>2. faulty' \in BOOLEAN
      BY <1>2 DEF NoFault
    <2>3. Typed /\ Modest
      BY <1>2, <2>1, TotalPositive DEF Typed, Modest, TypeOK, store, tb, history
    <2> QED BY <1>2, <2>1, <2>2, <2>3
  <1>3. CASE n >= Total /\ Finish(r)
    <2>1. faulty' \in BOOLEAN
      BY <1>3, OtaAssumption DEF Finish, Fault, NoFault, TypeOK
    <2>2. CASE RetryUpdate(r)
      BY <1>3, <2>1, <2>2, RetryPart, OtaAssumption
    <2>3. CASE Matches /\ handle = "open" /\ Commit /\ retries' = r
      BY <1>3, <2>1, <2>3, CommitPart
    <2>4. CASE updater = "null" /\ Crash
      BY <2>1, <2>4, CrashPart
    <2> QED BY <1>3, <2>2, <2>3, <2>4 DEF Finish
  <1> QED BY <1>1, <1>2, <1>3 DEF RequestNext
-----------------------------------------------------------------------------
(* The larger actions                                                      *)

LEMMA WriteInv ==
  ASSUME IInv, Write
  PROVE  IInv'
  <1> USE DEF Write
  <1>1. CASE updater = "set" /\ Stored /\ NoFault
    <2> USE DEF Stored, NoFault, Handles, cloud, handler, tb, progress, history, earlier
    <2>1. img' \in Seq(Packet) /\ hash' \in Seq(Packet)
      <3>1. packet \in Packet /\ img \in Seq(Packet) /\ hash \in Seq(Packet)
        BY DEF IInv, TypeOK
      <3>2. /\ <<packet>> \in Seq(Packet)
            /\ Append(img, packet) \in Seq(Packet)
            /\ Append(hash, packet) \in Seq(Packet)
        BY <3>1, SMTT(30)
      <3> QED BY <1>1, <3>2
    <2>2. TypeOK'
      BY <1>1, <2>1 DEF IInv, TypeOK
    <2>3. RunInv'
      <3> SUFFICES ASSUME outcome = "running" PROVE RunInv'
        BY <1>1 DEF RunInv
      <3>1. packet.n \in Nat /\ packet.n = requested
        BY TotalPositive DEF IInv, TypeOK, RunInv, Packet
      <3>2. img' = hash'
        <4>1. CASE packet.n = 0
          BY <1>1, <3>1, <4>1 DEF IInv, RunInv
        <4>2. CASE packet.n > 0
          BY <1>1, <3>1, <4>2 DEF IInv, RunInv
        <4> QED BY <3>1, <4>1, <4>2
      <3> QED BY <1>1, <3>1, <3>2 DEF IInv, TypeOK, RunInv, Normal, Replaced
    <2> QED BY <1>1, <2>2, <2>3 DEF IInv, TypeOK, EndInv, PastInv, Normal, Replaced
  <1>2. CASE updater = "set" /\ NotStored
    <2>1. /\ RetryUpdate(retries) /\ faulty' \in BOOLEAN
          /\ pc' = "idle" /\ packet' \in Packet
      <3>1. NoPacket \in Packet
        BY NoPacketTyped DEF IInv
      <3> QED BY <1>2, <3>1, OtaAssumption DEF NotStored, Fault, NoFault, IInv, TypeOK
    <2>2. retries \in Nat
      BY OtaAssumption DEF IInv, TypeOK
    <2>3. /\ Typed /\ Modest
          /\ \/ "null" \in {tb_cb, ota_cb, updater}
             \/ /\ requested' = 0 /\ hash' = << >> /\ handle' = "closed"
                /\ timer' = "armed" /\ UNCHANGED <<tb, history, crashed>>
             \/ EndUpdate("failed") /\ UNCHANGED crashed
      BY <2>1, <2>2, RetryPart DEF IInv
    <2>4. TypeOK'
      BY <2>1, <2>3 DEF Handles, cloud, handler, earlier, Typed, IInv, TypeOK
    <2>5. CASE outcome # "running"
      BY <2>3, <2>4, <2>5, AfterEnd DEF Handles, Modest, earlier
    <2>6. CASE outcome = "running"
      <3>1. UNCHANGED <<after, past, refused, ota_cb, fw, updater>>
        BY <2>6 DEF Handles, handler, earlier
      <3>2. CASE EndUpdate("failed") /\ UNCHANGED crashed
        BY <2>4, <2>6, <3>1, <3>2, Ends
      <3>3. CASE /\ requested' = 0 /\ hash' = << >> /\ handle' = "closed"
                 /\ timer' = "armed" /\ UNCHANGED <<tb, history, crashed>>
        BY <2>1, <2>4, <2>6, <3>1, <3>3, TotalPositive
        DEF IInv, RunInv, EndInv, PastInv, Normal, Replaced, tb, history
      <3> QED BY <2>3, <2>6, <3>2, <3>3 DEF IInv, RunInv
    <2> QED BY <2>5, <2>6
  <1>3. CASE updater = "null" /\ Crash /\ NoFault /\ UNCHANGED task
    <2>1. Typed /\ Modest
      BY <1>3, CrashPart DEF IInv
    <2>2. TypeOK'
      BY <1>3, <2>1 DEF Handles, NoFault, cloud, handler, earlier, task, Typed, IInv, TypeOK
    <2> QED BY <1>3, <2>1, <2>2, AfterEnd DEF Handles, Modest, earlier, IInv, RunInv
  <1> QED BY <1>1, <1>2, <1>3

(* What follows a step that requests chunk n, when no packet is in hand    *)
(* afterwards or the packet stays.                                         *)
LEMMA RequestNextInv ==
  ASSUME IInv, NEW n \in Nat, NEW r \in 0..ChunkRetries, RequestNext(n, r),
         TypeOK', NEW what, Handles(what), UNCHANGED <<handler, earlier>>,
         \/ pc' = "idle" /\ n > 0
         \/ UNCHANGED <<pc, packet>> /\ (outcome = "running" => n = requested)
  PROVE  IInv'
  <1>1. /\ Typed /\ Modest
        /\ \/ "null" \in {tb_cb, ota_cb, updater}
           \/ /\ n < Total /\ requested' = n
              /\ timer' = "armed" /\ UNCHANGED <<tb, history, crashed, store>>
           \/ /\ n >= Total /\ requested' = 0 /\ hash' = << >> /\ handle' = "closed"
              /\ timer' = "armed" /\ UNCHANGED <<tb, history, crashed>>
           \/ n >= Total /\ EndUpdate("failed") /\ UNCHANGED crashed
           \/ /\ n >= Total /\ Matches /\ handle = "open"
              /\ EndUpdate("done") /\ boot' = img /\ UNCHANGED crashed
    BY RequestNextPart DEF IInv
  <1>2. CASE outcome # "running"
    BY <1>1, <1>2, AfterEnd DEF Handles, Modest, earlier
  <1>3. CASE outcome = "running"
    <2>1. /\ UNCHANGED <<after, past, refused, fw, ota_cb, updater>>
          /\ "null" \notin {tb_cb, ota_cb, updater} /\ requested < Total
          /\ requested \in Nat /\ Total \in Nat
      BY <1>3, TotalPositive DEF Handles, handler, earlier, IInv, RunInv, TypeOK
    <2>2. CASE /\ n < Total /\ requested' = n
               /\ timer' = "armed" /\ UNCHANGED <<tb, history, crashed, store>>
      BY <1>3, <2>1, <2>2
      DEF IInv, RunInv, EndInv, PastInv, Normal, Replaced, tb, history, store
    <2>3. CASE /\ n >= Total /\ requested' = 0 /\ hash' = << >> /\ handle' = "closed"
               /\ timer' = "armed" /\ UNCHANGED <<tb, history, crashed>>
      BY <1>3, <2>1, <2>3, TotalPositive
      DEF IInv, RunInv, EndInv, PastInv, Normal, Replaced, tb, history
    <2>4. CASE EndUpdate("failed") /\ UNCHANGED crashed
      BY <1>3, <2>1, <2>4, Ends
    <2>5. CASE /\ Matches /\ handle = "open"
               /\ EndUpdate("done") /\ boot' = img /\ UNCHANGED crashed
      <3>1. fw \in Firmware /\ img = Complete(fw)
        BY <1>3, <2>5 DEF IInv, RunInv, Matches
      <3>2. \E f \in Firmware : boot' = Complete(f)
        BY <2>5, <3>1
      <3> QED BY <1>3, <2>1, <2>5, <3>2, Ends
    <2> QED BY <1>1, <2>1, <2>2, <2>3, <2>4, <2>5
  <1> QED BY <1>2, <1>3

LEMMA AdvanceInv ==
  ASSUME IInv, Advance
  PROVE  IInv'
  <1>1. /\ pc = "advance" /\ pc' = "idle" /\ packet' = NoPacket /\ Handles("packet")
        /\ UNCHANGED <<server, news, calls, handler, fired, earlier>>
    BY DEF Advance, cloud
  <1>2. packet.n + 1 \in Nat /\ packet.n + 1 > 0 /\ ChunkRetries \in 0..ChunkRetries
    BY OtaAssumption, TotalPositive DEF IInv, TypeOK, Packet
  <1>3. packet' \in Packet
    BY <1>1, NoPacketTyped DEF IInv
  <1>4. CASE ota_cb = "null"
    <2>1. Crash /\ NoFault
      BY <1>4 DEF Advance, Crash, NoFault
    <2>2. Typed /\ Modest
      BY <2>1, CrashPart DEF IInv
    <2>3. TypeOK'
      BY <1>1, <1>3, <2>1, <2>2
      DEF Handles, NoFault, handler, earlier, Typed, IInv, TypeOK
    <2> QED BY <1>1, <1>4, <2>2, <2>3, AfterEnd DEF Handles, Modest, earlier, IInv, RunInv
  <1>5. CASE ota_cb # "null"
    <2>1. RequestNext(packet.n + 1, ChunkRetries)
      BY <1>5 DEF Advance
    <2>2. Typed /\ faulty' \in BOOLEAN
      BY <1>2, <2>1, RequestNextPart DEF IInv
    <2>3. TypeOK'
      BY <1>1, <1>3, <2>2 DEF Handles, handler, earlier, Typed, IInv, TypeOK
    <2> QED BY <1>1, <1>2, <2>1, <2>3, RequestNextInv
  <1> QED BY <1>4, <1>5

LEMMA AdvanceAndStopInv ==
  ASSUME IInv, AdvanceAndStop
  PROVE  IInv'
  <1> USE DEF AdvanceAndStop, cloud, earlier
  <1>1. packet' \in Packet /\ requested' \in 0..Total /\ retries' \in 0..ChunkRetries
    <2>1. packet' \in Packet
      BY NoPacketTyped DEF IInv
    <2>2. requested' \in 0..Total
      BY TotalPositive DEF IInv, TypeOK, Packet
    <2>3. retries' \in 0..ChunkRetries
      BY OtaAssumption DEF IInv, TypeOK
    <2> QED BY <2>1, <2>2, <2>3
  <1>2. TypeOK'
    <2>1. faulty' \in BOOLEAN
      BY DEF NoFault
    <2> QED BY <1>1, <2>1 DEF EndUpdate, Handles, IInv, TypeOK, Result
  <1>3. CASE outcome # "running"
    BY <1>2, <1>3, AfterEnd DEF EndUpdate, Handles
  <1>4. CASE outcome = "running"
    <2>1. EndUpdate("failed") /\ UNCHANGED <<crashed, after, past, refused>>
      BY <1>4 DEF Handles
    <2> QED BY <1>2, <1>4, <2>1, Ends
  <1> QED BY <1>3, <1>4

LEMMA StopInv ==
  ASSUME IInv, StopUpdate
  PROVE  IInv'
  <1> USE DEF StopUpdate, task, earlier
  <1>1. calls' \in 0..MaxCalls
    BY OtaAssumption DEF IInv, TypeOK
  <1>2. CASE "null" \in {ota_cb, updater}
    <2>1. Crash /\ UNCHANGED ota_cb
      BY <1>2 DEF Stop, Crash
    <2>2. Typed /\ Modest
      BY <2>1, CrashPart DEF IInv
    <2>3. TypeOK'
      BY <1>1, <2>1, <2>2 DEF Handles, Typed, IInv, TypeOK
    <2> QED BY <1>2, <2>2, <2>3, AfterEnd DEF Handles, Modest, IInv, RunInv
  <1>3. CASE "null" \notin {ota_cb, updater}
    <2>1. /\ timer' = "idle" /\ handle' = "closed" /\ img' = << >>
          /\ retries' = IF retries > 0 THEN retries - 1 ELSE 0
          /\ EndUpdate("failed")
          /\ ota_cb' = "null"
          /\ UNCHANGED <<hash, boot, requested, net, crashed>>
      BY <1>3 DEF Stop
    <2>2. retries' \in 0..ChunkRetries
      BY <2>1, OtaAssumption DEF IInv, TypeOK
    <2>3. TypeOK'
      BY <1>1, <2>1, <2>2 DEF EndUpdate, Handles, IInv, TypeOK, Result
    <2>4. CASE outcome # "running"
      BY <2>1, <2>3, <2>4, AfterEnd DEF EndUpdate, Handles
    <2>5. CASE outcome = "running"
      BY <2>1, <2>3, <2>5, Ends DEF Handles
    <2> QED BY <2>4, <2>5
  <1> QED BY <1>2, <1>3

LEMMA TimeoutInv ==
  ASSUME IInv, HandleTimeout
  PROVE  IInv'
  <1>1. /\ fired' = 0 /\ Handles("timeout")
        /\ UNCHANGED <<server, news, calls, handler, pc, packet, earlier>>
    BY DEF HandleTimeout, cloud, task
  <1>2. CASE retries > 0 /\ ota_cb = "set" /\ RequestNext(requested, retries - 1)
    <2>1. requested \in Nat /\ retries - 1 \in 0..ChunkRetries
      BY <1>2, OtaAssumption, TotalPositive DEF IInv, TypeOK
    <2>2. Typed /\ faulty' \in BOOLEAN
      BY <1>2, <2>1, RequestNextPart DEF IInv
    <2>3. TypeOK'
      BY <1>1, <2>2 DEF Handles, NoFault, handler, earlier, Typed, IInv, TypeOK
    <2> QED BY <1>1, <1>2, <2>1, <2>3, RequestNextInv
  <1>3. CASE ota_cb = "null" /\ Crash /\ NoFault
    <2>1. Typed /\ Modest
      BY <1>3, CrashPart DEF IInv
    <2>2. TypeOK'
      BY <1>1, <1>3, <2>1 DEF Handles, NoFault, handler, earlier, Typed, IInv, TypeOK
    <2> QED BY <1>1, <1>3, <2>1, <2>2, AfterEnd DEF Handles, Modest, earlier, IInv, RunInv
  <1>4. CASE GiveUp /\ NoFault /\ UNCHANGED <<retries, store>>
    <2>1. /\ Typed /\ Modest
          /\ \/ ota_cb = "null"
             \/ EndUpdate("failed") /\ UNCHANGED crashed
      BY <1>4, GiveUpPart DEF IInv
    <2>2. TypeOK'
      BY <1>1, <1>4, <2>1 DEF Handles, NoFault, handler, earlier, Typed, IInv, TypeOK
    <2>3. CASE outcome # "running"
      BY <1>1, <2>1, <2>2, <2>3, AfterEnd DEF Handles, Modest, earlier
    <2>4. CASE outcome = "running"
      <3>1. EndUpdate("failed") /\ UNCHANGED <<crashed, after, past, refused>>
        BY <1>1, <2>1, <2>4 DEF Handles, earlier, IInv, RunInv
      <3> QED BY <2>2, <2>4, <3>1, Ends
    <2> QED BY <2>3, <2>4
  <1> QED BY <1>2, <1>3, <1>4 DEF HandleTimeout

LEMMA StepInv == IInv /\ [Next]_vars => IInv'
  <1> SUFFICES ASSUME IInv, [Next]_vars PROVE IInv'
    OBVIOUS
  <1>1. CASE UNCHANGED vars
    BY <1>1 DEF vars, cloud, tb, handler, progress, clock, store, task, history, earlier,
       IInv, TypeOK, RunInv, EndInv, PastInv, Normal, Replaced
  <1> QED BY <1>1, ReceiveInv, LoseInv, WriteInv, AdvanceInv, AdvanceAndStopInv, StopInv,
             FireInv, TimeoutInv, AnnounceInv, NotEnoughRamInv, StartInv,
             StartWithoutUpdaterInv DEF Next

-----------------------------------------------------------------------------
LEMMA AlwaysIInv == Spec => []IInv
  BY InitInv, StepInv, PTL DEF Spec

(* Only a whole firmware is set to boot.                                   *)
THEOREM WholeFirmware == Spec => []BootsWholeFirmware
  BY AlwaysIInv, InvProperties, PTL

(* The application hears once of the end of each update that ended by      *)
(* itself, and never of one that was replaced while it ran.                *)
THEOREM HeardOnce == Spec => []ToldOnce
  BY AlwaysIInv, InvProperties, PTL

(* Null callbacks are only called through after the end of an update.      *)
THEOREM CrashOnlyLate == Spec => []NullOnlyAfterEnd
  BY AlwaysIInv, InvProperties, PTL

(* The watchdog watches whenever the update waits for a packet.            *)
THEOREM AlwaysWatched == Spec => []Watched
  BY AlwaysIInv, InvProperties, PTL

(* The MQTT buffer is small again after an update, as long as none         *)
(* replaced a running one and it could always be enlarged.                 *)
THEOREM BufferSmallAgain == Spec => []BufferRestored
  BY AlwaysIInv, InvProperties, PTL

(* Every variable keeps its type: m_retries never passes zero.             *)
THEOREM OtaTypeCorrect == Spec => []TypeOK
  <1>1. IInv => TypeOK
    BY DEF IInv
  <1> QED BY <1>1, AlwaysIInv, PTL
=============================================================================
