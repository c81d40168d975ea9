----------------------------- MODULE BtTransport -----------------------------
(***************************************************************************)
(* The send queue of bt_main.c, from init_bt on, and the three that use    *)
(* it: the send task, the advertising task and host_rcv_pkt, which the     *)
(* Bluetooth controller calls for every packet it receives.                *)
(*                                                                         *)
(* queue_packet spins until the queue has room.  In host_rcv_pkt it spins  *)
(* inside the controller's own task, and the send task can drain the queue *)
(* only while that same controller accepts packets: a callback that found  *)
(* the queue full may wait for itself.  Against an upload the queue is     *)
(* protected by the protocol, the peer's transmit window and the           *)
(* acknowledgement of every eighth OBEX frame, so they are modelled;       *)
(* against the replies to everything else that arrives nothing is.         *)
(***************************************************************************)
EXTENDS Naturals, Sequences

CONSTANTS
  SEND_BUFFER_SIZE,  \* slots of the queue (10, bt_main.h:39)
  AckEvery,          \* OBEX frames per acknowledgement (8, bt_main.c:306)
  TxWindow,          \* frames the peer may leave unacknowledged (63, :661)
  SeqMod             \* sequence numbers of a frame (6 bits, :303)

ASSUME WindowAssumption ==
  /\ SEND_BUFFER_SIZE \in Nat \ {0}
  /\ AckEvery \in Nat \ {0} /\ SeqMod \in Nat \ {0}
  /\ SeqMod % AckEvery = 0
  /\ TxWindow \in AckEvery..(SeqMod - 1)

VARIABLES
  queue,       \* queue_handle
  sender,      \* program counter of send
  packet,      \* what send holds
  vhci,        \* what esp_vhci_host_send_packet left in the controller
  callback,    \* packets the running host_rcv_pkt has yet to queue
  advertiser,  \* program counter of btAdvtTask
  cmd_cnt,     \* commands btAdvtTask has queued
  scanning,    \* the controller has the scan mode: peers can connect
  txseq,       \* TX seq of the peer's next frame
  unacked,     \* frames the peer sent since the last acknowledgement it got
  owed,        \* other packets queued in reply and not on the air yet
  obexOwed     \* OBEX responses the peer has not got yet

task == <<sender, packet, vhci>>
advt == <<advertiser, cmd_cnt>>
peer == <<scanning, txseq, unacked, owed, obexOwed>>
vars == <<queue, callback, task, advt, peer>>

None == [kind |-> "none"]

Ack(n) == [kind |-> "ack", tx |-> n]

Reply == [kind |-> "reply"]

ObexReply(n) == [kind |-> "obex", tx |-> n]

Command == <<[kind |-> "reset"], [kind |-> "name"], [kind |-> "scan"]>>

Packet == {Command[i] : i \in 1..3} \union {Reply}
            \union {Ack(n) : n \in 1..SeqMod}
            \union {ObexReply(n) : n \in 1..SeqMod}

TypeOK ==
  /\ queue \in Seq(Packet) /\ Len(queue) <= SEND_BUFFER_SIZE
  /\ sender \in {"delay", "checked", "popped"}
  /\ packet \in Packet \union {None} /\ vhci \in Packet \union {None}
  /\ callback \in Seq(Packet)
  /\ advertiser \in {"delay", "queueing"} /\ cmd_cnt \in 0..3
  /\ scanning \in BOOLEAN
  /\ txseq \in 0..(SeqMod - 1) /\ unacked \in 0..TxWindow
  /\ owed \in Nat /\ obexOwed \in 0..1

Init ==
  /\ queue = <<>> /\ callback = <<>>
  /\ sender = "delay" /\ packet = None /\ vhci = None
  /\ advertiser = "delay" /\ cmd_cnt = 0
  /\ scanning = FALSE
  /\ txseq = 0 /\ unacked = 0 /\ owed = 0 /\ obexOwed = 0

(* Overwrites the storage of a full queue.                                 *)
queue_packetMutantOverrun(p) == queue' = Append(queue, p)

(* Puts a packet before those that wait.                                   *)
queue_packetMutantFront(p) ==
  /\ Len(queue) < SEND_BUFFER_SIZE
  /\ queue' = <<p>> \o queue

(* One xQueueSend that found room; until then queue_packet spins.          *)
queue_packet(p) ==
  /\ Len(queue) < SEND_BUFFER_SIZE
  /\ queue' = Append(queue, p)

esp_vhci_host_check_send_available == vhci = None

-----------------------------------------------------------------------------
(* send                                                                    *)

SendCheck ==
  /\ sender = "delay" /\ esp_vhci_host_check_send_available
  /\ sender' = "checked"
  /\ UNCHANGED <<queue, packet, vhci, callback, advt, peer>>

SendReceive ==
  /\ sender = "checked"
  /\ IF queue = <<>>
     THEN sender' = "delay" /\ UNCHANGED <<queue, packet>>
     ELSE /\ sender' = "popped"
          /\ packet' = Head(queue)
          /\ queue' = Tail(queue)
  /\ UNCHANGED <<vhci, callback, advt, peer>>

(* Asks for the controller once and sends as long as there are packets.    *)
SendPacketMutant ==
  /\ sender = "popped"
  /\ sender' = "checked"
  /\ vhci' = packet
  /\ packet' = None
  /\ UNCHANGED <<queue, callback, advt, peer>>

SendPacket ==
  /\ sender = "popped"
  /\ sender' = "delay"
  /\ vhci' = packet
  /\ packet' = None
  /\ UNCHANGED <<queue, callback, advt, peer>>

-----------------------------------------------------------------------------
(* btAdvtTask                                                              *)

(* Forgets the last command.                                               *)
AdvtCheckMutant ==
  /\ advertiser = "delay" /\ cmd_cnt < 2
  /\ esp_vhci_host_check_send_available
  /\ advertiser' = "queueing"
  /\ UNCHANGED <<queue, callback, task, cmd_cnt, peer>>

AdvtCheck ==
  /\ advertiser = "delay" /\ cmd_cnt < 3
  /\ esp_vhci_host_check_send_available
  /\ advertiser' = "queueing"
  /\ UNCHANGED <<queue, callback, task, cmd_cnt, peer>>

AdvtQueue ==
  /\ advertiser = "queueing"
  /\ queue_packet(Command[cmd_cnt + 1])
  /\ cmd_cnt' = cmd_cnt + 1
  /\ advertiser' = "delay"
  /\ UNCHANGED <<callback, task, peer>>

-----------------------------------------------------------------------------
(* The controller, one task: it forwards the packet it was given or calls  *)
(* host_rcv_pkt for one it received, never both at a time.                 *)

Forward ==
  /\ callback = <<>> /\ vhci # None
  /\ vhci' = None
  /\ scanning' = (scanning \/ vhci.kind = "scan")
  /\ unacked' = IF vhci.kind \in {"ack", "obex"}
                THEN (txseq + SeqMod - (vhci.tx % SeqMod)) % SeqMod
                ELSE unacked
  /\ owed' = IF vhci.kind = "reply" THEN owed - 1 ELSE owed
  /\ obexOwed' = IF vhci.kind = "obex" THEN obexOwed - 1 ELSE obexOwed
  /\ UNCHANGED <<queue, callback, sender, packet, advt, txseq>>

(* An HCI event, an L2CAP or an SDP request, or a frame of another device: *)
(* one packet in reply, or two (a connection request, an answered frame    *)
(* whose turn it is to be acknowledged).  They come from any number of     *)
(* devices, none of which waits for anything.                              *)
Request ==
  /\ callback = <<>> /\ scanning
  /\ \E n \in 1..2 :
       /\ callback' = [i \in 1..n |-> Reply]
       /\ owed' = owed + n
  /\ UNCHANGED <<queue, task, advt, scanning, txseq, unacked, obexOwed>>

(* Acknowledges every frame.                                               *)
AckDueMutantAlways(n) == (n + 1) % AckEvery < AckEvery

(* Acknowledges when the sequence number wraps.                            *)
AckDueMutantWrap(n) == (n + 1) % SeqMod = 0

AckDue(n) == (n + 1) % AckEvery = 0

(* An OBEX frame of the peer: acknowledged if its turn has come, and       *)
(* answered if it carries what obex_ftp answers, a CONNECT or a PUT with   *)
(* an SRM or an end-of-body header; the peer then waits for the answer.    *)
(* Other PUTs, DISCONNECT, ABORT and GET are left without one.  Both       *)
(* packets tell the peer the next frame expected, txseq + 1.               *)
Frame(answers) ==
  /\ callback = <<>> /\ scanning
  /\ unacked < TxWindow
  /\ answers => obexOwed = 0
  /\ callback' = (IF AckDue(txseq) THEN <<Ack(txseq + 1)>> ELSE <<>>)
                   \o (IF answers THEN <<ObexReply(txseq + 1)>> ELSE <<>>)
  /\ obexOwed' = IF answers THEN 1 ELSE obexOwed
  /\ txseq' = (txseq + 1) % SeqMod
  /\ unacked' = unacked + 1
  /\ UNCHANGED <<queue, task, advt, scanning, owed>>


(* The running callback gets its next packet into the queue.               *)
CallbackQueue ==
  /\ callback # <<>>
  /\ queue_packet(Head(callback))
  /\ callback' = Tail(callback)
  /\ UNCHANGED <<task, advt, peer>>

-----------------------------------------------------------------------------

Send == SendCheck \/ SendReceive \/ SendPacket

Advertise == AdvtCheck \/ AdvtQueue

Next ==
  \/ Send \/ Advertise \/ CallbackQueue \/ Forward
  \/ Request \/ \E answers \in BOOLEAN : Frame(answers)

Spec == Init /\ [][Next]_vars

(* Every task of the closet runs, and the controller forwards what it has  *)
(* as soon as no callback occupies it.  The peer owes us nothing.          *)
Fairness ==
  /\ WF_vars(Send) /\ WF_vars(Advertise)
  /\ WF_vars(CallbackQueue) /\ WF_vars(Forward)

FairSpec == Spec /\ Fairness

-----------------------------------------------------------------------------

(* The callback waits for room in the queue, and send for the controller   *)
(* that the callback occupies: neither ever goes on.                       *)
Wedged == callback # <<>> /\ Len(queue) = SEND_BUFFER_SIZE /\ vhci # None

(* Packets beside the acknowledgements of a full window and one OBEX       *)
(* response that fit into the queue and the controller: two in the code.   *)
Spare == SEND_BUFFER_SIZE - (TxWindow + AckEvery - 1) \div AckEvery

(* An upload alone never hangs the closet.  It takes a burst of replies to *)
(* other packets, more of them under way at once than Spare, to make the   *)
(* callback wait for the task that is running it; and then it does hang.   *)
WedgeTakesReplies == Wedged => owed > Spare

(* The result of esp_vhci_host_check_send_available is not stale when send *)
(* uses it: the controller is still free when the packet is handed over.   *)
HandedToFreeController == sender = "popped" => vhci = None

(* The packets between queue_packet and the air, oldest first: the one in  *)
(* the controller, the one send has taken, those in the queue.             *)
InFlight ==
  IF vhci # None THEN <<vhci>> \o queue
  ELSE IF packet # None THEN <<packet>> \o queue
  ELSE queue

Air == INSTANCE Pipe WITH pipe <- InFlight, Capacity <- SEND_BUFFER_SIZE + 1

(* No packet is lost, doubled or overtaken on its way from queue_packet to *)
(* the peer, whatever tasks and callbacks queue at the same time, and send *)
(* and the controller hold one packet between them at most.                *)
InOrder == Air!Spec

(* A peer that filled its window is acknowledged, even though the closet   *)
(* acknowledges only every eighth frame; or the closet hangs.              *)
WindowReopens == unacked = TxWindow ~> unacked < TxWindow \/ Wedged


(* The closet becomes connectable.                                         *)
Connectable == <>scanning

=============================================================================
