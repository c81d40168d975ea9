----------------------------- MODULE OtaHandler -----------------------------
(***************************************************************************)
(* A firmware update over MQTT: ThingsBoard hears of a firmware and hands  *)
(* it to OTA_Handler, which requests it chunk by chunk, writes each chunk  *)
(* to the other partition and to a hash, and switches partitions when the  *)
(* hash is the announced one.  A one-shot timer repeats a request.         *)
(*                                                                         *)
(* Three tasks share the handler without a lock.  The MQTT task handles a  *)
(* packet in three steps here, the timer task a timeout in one, and the    *)
(* application stops an update in one; the two latter run between any two  *)
(* of the former.  A timer that has fired can no longer be detached.       *)
(*                                                                         *)
(* Requests and packets have QoS 0: any may be lost or late, and a request *)
(* that was repeated is answered twice.  A packet does not say which       *)
(* firmware it is from: the server sends what it has assigned by then.     *)
(*                                                                         *)
(* A null pointer that is called through ends the model (crashed).  Flash  *)
(* and hash may fail at any step, as often as they like.                   *)
(***************************************************************************)
EXTENDS Naturals, Sequences, FiniteSets

CONSTANTS
  Firmware, NoFirmware,
  FwSize, ChunkSize,   \* m_fw_size, m_size
  ChunkRetries,        \* Get_Chunk_Retries()
  MaxInFlight,         \* bound: copies of a packet under way
  MaxCalls             \* bound: starts by the application, assignments

ASSUME OtaAssumption ==
  /\ FwSize \in Nat /\ ChunkSize \in Nat \ {0}
  /\ ChunkRetries \in Nat \ {0}
  /\ MaxInFlight \in Nat \ {0} /\ MaxCalls \in Nat
  /\ NoFirmware \notin Firmware

(* One more than needed, and then empty, when the chunks come out even.    *)
Total == FwSize \div ChunkSize + 1

Packet == [fw : Firmware, n : 0..(Total - 1)]

(* What the announced checksum is the checksum of.                         *)
Complete(f) == [i \in 1..Total |-> [fw |-> f, n |-> i - 1]]

NoPacket == CHOOSE p \in Packet : p.n = 0

VARIABLES
  server, news,           \* firmware assigned; announcement under way
  net,                    \* packets under way, with how many copies
  tb_cb, ota_cb,          \* m_fw_callback of ThingsBoard and of the handler
  buffer, previous, change,  \* MQTT buffer, m_previous_buffer_size, m_change_...
  fw, requested, retries, \* m_fw_checksum, m_requested_chunks, m_retries
  updater,                \* m_fw_updater
  timer, fired,           \* esp_timer; callback dispatched and not yet run
  handle, img, hash,      \* esp_ota handle, what was written, what was hashed
  boot,                   \* image set to boot, << >> the running one
  pc, packet,             \* the MQTT task inside Process_Firmware_Packet
  crashed, calls,
  faulty,                 \* flash or hash failed the step that used them last
  outcome, told,          \* the update; end callbacks it has got so far
  after,                  \* what was handled though the update had ended
  past,                   \* the updates before it
  refused                 \* 1: the MQTT buffer could not be enlarged once

cloud == <<server, news, calls>>
tb == <<tb_cb, buffer, previous, change>>
progress == <<requested, retries>>
clock == <<timer, fired>>
store == <<handle, img, hash, boot>>
task == <<pc, packet>>
handler == <<ota_cb, fw, updater>>
history == <<outcome, told>>
earlier == <<past, refused>>
vars == <<cloud, net, tb, handler, progress, clock, store, task, crashed,
          faulty, history, after, earlier>>

Result == {"none", "running", "failed", "done"}

TypeOK ==
  /\ server \in Firmware /\ news \in Firmware \union {NoFirmware}
  /\ net \in [Packet -> 0..MaxInFlight]
  /\ tb_cb \in {"set", "null"} /\ ota_cb \in {"set", "null"}
  /\ buffer \in {"small", "large"} /\ previous \in {"small", "large"}
  /\ change \in {0, 1}
  /\ fw \in Firmware \union {NoFirmware}
  /\ requested \in 0..Total /\ retries \in 0..ChunkRetries
  /\ updater \in {"set", "null"}
  /\ timer \in {"idle", "armed"} /\ fired \in {0, 1}
  /\ handle \in {"open", "closed"}
  /\ img \in Seq(Packet) /\ hash \in Seq(Packet) /\ boot \in Seq(Packet)
  /\ pc \in {"idle", "write", "advance"} /\ packet \in Packet
  /\ crashed \in {0, 1}
  /\ faulty \in BOOLEAN /\ calls \in 0..MaxCalls
  /\ outcome \in Result /\ told \in 0..2
  /\ after \subseteq {"packet", "timeout", "stop"}
  /\ past \subseteq [outcome : Result, told : 0..2, late : BOOLEAN]
  /\ refused \in {0, 1}

Init ==
  /\ server \in Firmware /\ news = NoFirmware
  /\ net = [p \in Packet |-> 0]
  /\ tb_cb = "null" /\ ota_cb = "null"
  /\ buffer = "small" /\ previous = "small" /\ change = 0
  /\ fw = NoFirmware /\ requested = 0 /\ retries = 0 /\ updater = "null"
  /\ timer = "idle" /\ fired = 0
  /\ handle = "closed" /\ img = << >> /\ hash = << >> /\ boot = << >>
  /\ pc = "idle" /\ packet = NoPacket
  /\ crashed = 0 /\ calls = 0 /\ faulty = FALSE
  /\ outcome = "none" /\ told = 0 /\ after = {} /\ past = {} /\ refused = 0

Fault == faulty' = TRUE

NoFault == faulty' = FALSE

(* A step that handles something of an update that has ended.              *)
Handles(what) ==
  after' = IF outcome = "running" THEN after ELSE after \union {what}

(***************************************************************************)
(* The steps below say what happens to progress, timer, store, net, tb,    *)
(* crashed and history; the actions say the rest.                          *)
(***************************************************************************)

Crash ==
  /\ crashed' = 1
  /\ UNCHANGED <<progress, timer, store, net, tb, history>>

EndUpdateUntold(result) ==
  /\ outcome' = result
  /\ told' = IF result = "done" THEN told + 1 ELSE told
  /\ tb_cb' = "null"
  /\ buffer' = IF change = 1 THEN previous ELSE buffer
  /\ UNCHANGED <<previous, change>>

EndUpdateLarge(result) ==
  /\ outcome' = result
  /\ told' = IF told < 2 THEN told + 1 ELSE 2
  /\ tb_cb' = "null"
  /\ UNCHANGED <<buffer, previous, change>>

(* The end callback and m_finish_callback, which is                        *)
(* Firmware_OTA_Unsubscribe: no packet is requested from here on.          *)
EndUpdate(result) ==
  /\ outcome' = result
  /\ told' = IF told < 2 THEN told + 1 ELSE 2
  /\ tb_cb' = "null"
  /\ buffer' = IF change = 1 THEN previous ELSE buffer
  /\ UNCHANGED <<previous, change>>

PublishMutant(n) ==
  LET answer == [fw |-> server, n |-> n] IN
  /\ \/ UNCHANGED <<net, timer>>
     \/ /\ net[answer] < MaxInFlight /\ net' = [net EXCEPT ![answer] = @ + 1]
        /\ timer' = "armed"
  /\ UNCHANGED <<tb, history, crashed>>

(* Publish_Chunk_Request and the watchdog; once() does nothing to a timer  *)
(* that is armed.                                                          *)
Publish(n) ==
  LET answer == [fw |-> server, n |-> n] IN
  /\ timer' = "armed"
  /\ \/ UNCHANGED net
     \/ net[answer] < MaxInFlight /\ net' = [net EXCEPT ![answer] = @ + 1]
  /\ UNCHANGED <<tb, history, crashed>>

(* Request_First_Firmware_Packet: the hash and the handle are reset, and   *)
(* so is the number of retries.  There is a first chunk to request.        *)
RequestFirst ==
  IF "null" \in {tb_cb, ota_cb, updater}
  THEN Crash
  ELSE /\ requested' = 0
       /\ retries' = ChunkRetries
       /\ hash' = << >>
       /\ handle' = "closed" /\ img' = << >>
       /\ UNCHANGED boot
       /\ Publish(0)

(* Handle_Failure(RETRY_NOTHING), and any other without a retry left.      *)
GiveUp ==
  IF ota_cb = "null"
  THEN Crash
  ELSE /\ EndUpdate("failed")
       /\ UNCHANGED <<requested, timer, net, crashed>>

(* Handle_Failure(RETRY_UPDATE) with r in m_retries.                       *)
RetryUpdate(r) ==
  \/ r > 0 /\ RequestFirst
  \/ r = 0 /\ GiveUp /\ UNCHANGED <<retries, store>>

Matches == fw # NoFirmware /\ hash = Complete(fw)

(* esp_ota_end and esp_ota_set_boot_partition, and the success reported.   *)
Commit ==
  /\ boot' = img
  /\ handle' = "closed" /\ img' = << >> /\ hash' = << >>
  /\ EndUpdate("done")
  /\ requested' = Total
  /\ UNCHANGED <<timer, net, crashed>>

FinishMutant(r) ==
  \/ updater = "null" /\ NoFault /\ Crash
  \/ /\ updater = "set"
     /\ \/ handle = "closed" /\ NoFault /\ RetryUpdate(r)
        \/ handle = "open" /\ Fault /\ RetryUpdate(r)
        \/ handle = "open" /\ NoFault /\ Commit /\ retries' = r

(* Finish_Firmware_Update.  The digest of a context is good for one use,   *)
(* and esp_ota_end only accepts a handle that is open.                     *)
Finish(r) ==
  \/ ~Matches /\ NoFault /\ RetryUpdate(r)
  \/ Matches /\ updater = "null" /\ NoFault /\ Crash
  \/ /\ Matches /\ updater = "set"
     /\ \/ handle = "closed" /\ NoFault /\ RetryUpdate(r)
        \/ handle = "open" /\ Fault /\ RetryUpdate(r)
        \/ handle = "open" /\ NoFault /\ Commit /\ retries' = r

(* Request_Next_Firmware_Packet with n in m_requested_chunks and r in      *)
(* m_retries.                                                              *)
RequestNext(n, r) ==
  \/ /\ n < Total
     /\ NoFault
     /\ IF tb_cb = "null" THEN Crash
        ELSE Publish(n) /\ requested' = n /\ retries' = r /\ UNCHANGED store
  \/ n >= Total /\ Finish(r)

-----------------------------------------------------------------------------
(* The MQTT task.  Process_Firmware_Packet up to watchdog.detach().        *)
Receive(p) ==
  /\ pc = "idle" /\ crashed = 0 /\ net[p] > 0
  /\ net' = [net EXCEPT ![p] = @ - 1]
  /\ IF p.n = requested /\ fw # NoFirmware
     THEN /\ pc' = "write" /\ packet' = p
          /\ timer' = "idle"
          /\ Handles("packet")
     ELSE UNCHANGED <<task, timer, after>>
  /\ UNCHANGED <<cloud, tb, handler, progress, fired, store, crashed, faulty,
                 history, earlier>>

(* Written and hashed.  begin() opens a handle for the first chunk, and    *)
(* refuses to while another image than the running one is set to boot.     *)
Stored ==
  /\ \/ packet.n = 0 /\ boot = << >> /\ img' = <<packet>>
     \/ packet.n > 0 /\ handle = "open" /\ img' = Append(img, packet)
  /\ handle' = "open"
  /\ hash' = Append(hash, packet)
  /\ pc' = "advance" /\ packet' = packet
  /\ UNCHANGED <<boot, progress, net, tb, timer, crashed, history>>

(* begin() or write() refuses, or fails, or the hash cannot be updated;    *)
(* what the last leaves in the partition is overwritten or abandoned.      *)
NotStored ==
  /\ pc' = "idle" /\ packet' = NoPacket
  /\ \/ /\ \/ packet.n = 0 /\ boot # << >>
           \/ packet.n > 0 /\ handle = "closed"
        /\ NoFault
     \/ Fault
  /\ RetryUpdate(retries)

Write ==
  /\ pc = "write" /\ crashed = 0
  /\ Handles("packet")
  /\ \/ updater = "set" /\ Stored /\ NoFault
     \/ updater = "set" /\ NotStored
     \/ updater = "null" /\ Crash /\ NoFault /\ UNCHANGED task
  /\ UNCHANGED <<cloud, handler, fired, earlier>>

(* The rest: progress, and the next request unless the update was stopped  *)
(* in the progress callback.                                               *)
Advance ==
  /\ pc = "advance" /\ crashed = 0
  /\ pc' = "idle" /\ packet' = NoPacket
  /\ Handles("packet")
  /\ IF ota_cb = "null"
     THEN Crash /\ NoFault
     ELSE RequestNext(packet.n + 1, ChunkRetries)
  /\ UNCHANGED <<cloud, handler, fired, earlier>>

(* Stop_Firmware_Update, in whichever task; a null callback is called      *)
(* through, and so is an updater that was never set.                       *)
Stop ==
  IF "null" \in {ota_cb, updater}
  THEN Crash /\ UNCHANGED ota_cb
  ELSE /\ timer' = "idle" /\ handle' = "closed" /\ img' = << >>
       /\ retries' = IF retries > 0 THEN retries - 1 ELSE 0
       /\ EndUpdate("failed")
       /\ ota_cb' = "null"
       /\ UNCHANGED <<hash, boot, requested, net, crashed>>

AdvanceAndStopMutant ==
  /\ pc = "advance" /\ crashed = 0 /\ ota_cb = "set"
  /\ pc' = "idle" /\ packet' = NoPacket
  /\ Handles("packet")
  /\ ota_cb' = "null"
  /\ Crash /\ NoFault
  /\ UNCHANGED <<cloud, fw, updater, fired, earlier>>

(* ... and when it was.                                                    *)
AdvanceAndStop ==
  /\ pc = "advance" /\ crashed = 0 /\ ota_cb = "set"
  /\ pc' = "idle" /\ packet' = NoPacket
  /\ Handles("packet")
  /\ timer' = "idle" /\ handle' = "closed" /\ img' = << >>
  /\ requested' = packet.n + 1
  /\ retries' = IF retries > 0 THEN retries - 1 ELSE 0
  /\ EndUpdate("failed")
  /\ ota_cb' = "null"
  /\ NoFault
  /\ UNCHANGED <<cloud, fw, updater, fired, hash, boot, net, crashed, earlier>>

StopUpdate ==
  /\ crashed = 0 /\ calls < MaxCalls
  /\ calls' = calls + 1
  /\ Handles("stop")
  /\ Stop
  /\ UNCHANGED <<server, news, fw, updater, fired, task, faulty, earlier>>

(* The watchdog: the timer goes off, and its task calls                    *)
(* Handle_Request_Timeout.                                                 *)
Fire ==
  /\ timer = "armed" /\ fired = 0 /\ crashed = 0
  /\ timer' = "idle" /\ fired' = 1
  /\ UNCHANGED <<cloud, net, tb, handler, progress, store, task, crashed, faulty,
                 history, after, earlier>>

HandleTimeoutForever ==
  /\ fired = 1 /\ crashed = 0
  /\ fired' = 0
  /\ Handles("timeout")
  /\ \/ ota_cb = "set" /\ RequestNext(requested, ChunkRetries)
     \/ ota_cb = "null" /\ Crash /\ NoFault
  /\ UNCHANGED <<cloud, handler, task, earlier>>

HandleTimeoutMutant ==
  /\ fired = 1 /\ crashed = 0
  /\ fired' = 0
  /\ Handles("timeout")
  /\ \/ ota_cb = "set" /\ RequestNext(requested, retries - 1)
     \/ ota_cb = "null" /\ Crash /\ NoFault
  /\ UNCHANGED <<cloud, handler, task, earlier>>

HandleTimeout ==
  /\ fired = 1 /\ crashed = 0
  /\ fired' = 0
  /\ Handles("timeout")
  /\ \/ retries > 0 /\ ota_cb = "set" /\ RequestNext(requested, retries - 1)
     \/ retries > 0 /\ ota_cb = "null" /\ Crash /\ NoFault
     \/ retries = 0 /\ GiveUp /\ NoFault /\ UNCHANGED <<retries, store>>
  /\ UNCHANGED <<cloud, handler, task, earlier>>

-----------------------------------------------------------------------------
(* Prepare_Firmware_Settings and the request for the firmware's attributes *)
(* or the subscription to them, which the server answers, or not.          *)
Prepare ==
  /\ crashed = 0 /\ calls < MaxCalls
  /\ calls' = calls + 1
  /\ tb_cb' = "set"
  /\ news' \in {news, server}
  /\ UNCHANGED <<server, net, buffer, previous, change, handler, progress, clock,
                 store, task, crashed, faulty, history, after, earlier>>

Assign(f) ==
  /\ crashed = 0 /\ calls < MaxCalls /\ f # server
  /\ calls' = calls + 1
  /\ server' = f
  /\ news' \in {news, f}
  /\ UNCHANGED <<net, tb, handler, progress, clock, store, task, crashed, faulty,
                 history, after, earlier>>

(* Firmware_Shared_Attribute_Received: a missing callback, a foreign or    *)
(* unknown firmware or a failed subscription ends it.                      *)
Ignore ==
  /\ pc = "idle" /\ crashed = 0 /\ news # NoFirmware
  /\ news' = NoFirmware
  /\ UNCHANGED <<server, calls, net, tb, handler, progress, clock, store, task,
                 crashed, faulty, history, after, earlier>>

(* ... or it is accepted, and the size of the buffer remembered.           *)
Accept ==
  /\ pc = "idle" /\ crashed = 0 /\ news # NoFirmware /\ tb_cb = "set"
  /\ news' = NoFirmware
  /\ previous' = buffer
  /\ change' = IF buffer = "small" THEN 1 ELSE 0
  /\ UNCHANGED <<server, calls, boot, fired, task, crashed, faulty>>

(* set_buffer_size fails: by then the configuration has the new size.      *)
NotEnoughRam ==
  /\ Accept /\ buffer = "small"
  /\ buffer' = "large"
  /\ refused' = 1
  /\ UNCHANGED <<net, tb_cb, handler, progress, timer, handle, img, hash, history,
                 after, past>>

(* A new update: the one before it, running or not, is a past one.         *)
Replace ==
  /\ past' = IF outcome = "none" THEN past
             ELSE past \union {[outcome |-> outcome, told |-> told, late |-> after # {}]}
  /\ after' = {}
  /\ UNCHANGED refused

(* Start_Firmware_Update, which leaves the timer of a running one to       *)
(* Request_First_Firmware_Packet.                                          *)
Start ==
  /\ Accept /\ Replace
  /\ buffer' = "large"
  /\ fw' = news /\ ota_cb' = "set" /\ updater' = "set"
  /\ outcome' = "running" /\ told' = 0
  /\ requested' = 0 /\ retries' = ChunkRetries
  /\ hash' = << >> /\ handle' = "closed" /\ img' = << >>
  /\ timer' = "armed"
  /\ LET answer == [fw |-> server, n |-> 0] IN
       \/ UNCHANGED net
       \/ net[answer] < MaxInFlight /\ net' = [net EXCEPT ![answer] = @ + 1]
  /\ UNCHANGED tb_cb

(* ... and which fails at once if the callback comes without an updater:   *)
(* the buffer is enlarged and gets its size back, and what is there of a   *)
(* running update, its timer included, stays.                              *)
StartWithoutUpdater ==
  /\ Accept /\ Replace
  /\ fw' = news /\ ota_cb' = "set" /\ updater' = "null"
  /\ outcome' = "failed" /\ told' = 1 /\ tb_cb' = "null"
  /\ retries' = IF retries > 0 THEN retries - 1 ELSE 0
  /\ UNCHANGED <<net, buffer, requested, timer, handle, img, hash>>

Lose(p) ==
  /\ net[p] > 0 /\ crashed = 0
  /\ net' = [net EXCEPT ![p] = @ - 1]
  /\ UNCHANGED <<cloud, tb, handler, progress, clock, store, task, crashed, faulty,
                 history, after, earlier>>

Next ==
  \/ \E p \in Packet : Receive(p) \/ Lose(p)
  \/ Write \/ Advance \/ AdvanceAndStop \/ StopUpdate
  \/ Fire \/ HandleTimeout
  \/ Prepare \/ Ignore \/ NotEnoughRam \/ Start \/ StartWithoutUpdater
  \/ \E f \in Firmware : Assign(f)

Spec == Init /\ [][Next]_vars

(* The scheduler runs a task that can run, and a timer goes off.           *)
Fairness ==
  /\ WF_vars(Write) /\ WF_vars(Advance \/ AdvanceAndStop)
  /\ WF_vars(Fire) /\ WF_vars(HandleTimeout)

FairSpec == Spec /\ Fairness

-----------------------------------------------------------------------------
(* Finish_Firmware_Update sets the other partition to boot only when it    *)
(* holds every chunk of one firmware, in order, whichever packets were     *)
(* lost, late, doubled or of another firmware -- unless a packet was taken *)
(* after the update had been given up.                                     *)
BootsWholeFirmware ==
  outcome = "done" /\ after = {} => \E f \in Firmware : boot = Complete(f)

(* The end callback gets one result of an update that has ended, unless    *)
(* something of it was handled after its end: OTA_Handler does not know    *)
(* that it has ended.  An update that is replaced while it runs gets none. *)
ToldOnce ==
  LET current == [outcome |-> outcome, told |-> told, late |-> after # {}]
  IN  \A u \in past \union {current} :
        ~u.late => u.told = (IF u.outcome \in {"failed", "done"} THEN 1 ELSE 0)

(* No call goes through a null callback as long as nothing is handled      *)
(* after an update has ended, nor stopped that never began.                *)
NullOnlyAfterEnd == crashed = 1 => after # {}

(* While an update runs and no packet is being handled, the watchdog       *)
(* watches: no order of packets, timeouts and faults leaves it waiting for *)
(* a packet that nobody will request again.                                *)
Watched ==
  outcome = "running" /\ pc = "idle" /\ crashed = 0 => timer = "armed" \/ fired = 1

Replaced == \E u \in past : u.outcome = "running"

(* Firmware_OTA_Unsubscribe gives the MQTT buffer its size back, unless a  *)
(* second firmware was announced while the first was being downloaded (the *)
(* size that one had set is then cached as the previous one), or the       *)
(* buffer could not be enlarged before.                                    *)
BufferRestored ==
  outcome # "running" /\ ~Replaced /\ refused = 0 => buffer = "small"

Kept == server = fw /\ boot = << >>

(* An update ends, however many packets are lost, unless flash or hash     *)
(* fail again and again, the server assigns another firmware than the one  *)
(* it announced, or an image waits to boot: then every attempt fails and   *)
(* starts another one, since Request_First_Firmware_Packet resets the      *)
(* retries.                                                                *)
UpdateEnds ==
  []<>faulty \/ (outcome = "running" ~> outcome # "running" \/ crashed = 1 \/ ~Kept)
=============================================================================
