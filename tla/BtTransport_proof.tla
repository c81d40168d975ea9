-------------------------- MODULE BtTransport_proof --------------------------
(***************************************************************************)
(* The way of a packet to the controller and the account of what the peer  *)
(* waits for, for every size of the queue and every window.                *)
(*                                                                         *)
(* The controller is free whenever send hands a packet over, so            *)
(* BtTransport implements Pipe.  And what the peer has not got yet is on   *)
(* its way: an open reply or response is one of the packets in Transit,    *)
(* and the acknowledgements there are as many as the unacknowledged frames *)
(* make due.  So a window bounds the packets on their way, and a queue     *)
(* with room for that many never keeps a callback waiting.                 *)
(***************************************************************************)
EXTENDS BtTransport, FiniteSetTheorems, SequenceTheorems, TLAPS

(* The types this argument needs: those of the packets and where they are. *)
PacketInv ==
  /\ queue \in Seq(Packet) /\ Len(queue) <= SEND_BUFFER_SIZE
  /\ callback \in Seq(Packet)
  /\ packet \in Packet \union {None} /\ vhci \in Packet \union {None}
  /\ sender \in {"delay", "checked", "popped"}
  /\ cmd_cnt \in 0..3 /\ txseq \in 0..(SeqMod - 1)
  /\ advertiser \in {"delay", "queueing"}
  /\ advertiser = "queueing" => cmd_cnt < 3

(* Nothing but send gives the controller a packet, so what send saw of it  *)
(* still holds: the check and the use are not atomic, and need not be.     *)
FreeInv ==
  /\ sender \in {"checked", "popped"} => vhci = None
  /\ sender = "popped" <=> packet # None

IInv == PacketInv /\ FreeInv

(* What is in the packets' set, and that None is not.                      *)
LEMMA Packets ==
  /\ None \notin Packet /\ Reply \in Packet
  /\ \A i \in 1..3 : Command[i] \in Packet
  /\ \A n \in 1..SeqMod : Ack(n) \in Packet /\ ObexReply(n) \in Packet
<1>1. \A i \in 1..3 : Command[i] \in Packet /\ Command[i].kind # "none"
  <2>1. /\ Command[1].kind = "reset" /\ Command[2].kind = "name"
        /\ Command[3].kind = "scan"
    BY DEF Command
  <2>2. \A i \in 1..3 : Command[i].kind # "none"
    BY <2>1
  <2>. QED  BY <2>2 DEF Packet
<1>2. Reply \in Packet /\ Reply.kind # "none"
  BY DEF Packet, Reply
<1>3. \A n \in 1..SeqMod : /\ Ack(n) \in Packet /\ Ack(n).kind # "none"
                          /\ ObexReply(n) \in Packet /\ ObexReply(n).kind # "none"
  <2>1. \A n : Ack(n).kind # "none" /\ ObexReply(n).kind # "none"
    BY DEF Ack, ObexReply
  <2>. QED  BY <2>1 DEF Packet
<1>4. \A p \in Packet : p.kind # "none"
  BY <1>1, <1>2, <1>3 DEF Packet
<1>5. None.kind = "none"
  BY DEF None
<1>. QED  BY <1>1, <1>2, <1>3, <1>4, <1>5

(* What queue_packet does to the queue.                                    *)
LEMMA QueuePacket ==
  ASSUME queue \in Seq(Packet), NEW p \in Packet, queue_packet(p)
  PROVE  /\ Len(queue) < SEND_BUFFER_SIZE /\ queue' = Append(queue, p)
         /\ queue' \in Seq(Packet) /\ Len(queue') <= SEND_BUFFER_SIZE
<1>. USE WindowAssumption DEF WindowAssumption
<1>1. Len(queue) < SEND_BUFFER_SIZE /\ queue' = Append(queue, p)
  BY DEF queue_packet
<1>2. Append(queue, p) \in Seq(Packet) /\ Len(Append(queue, p)) = Len(queue) + 1
  OBVIOUS
<1>. QED  BY <1>1, <1>2

LEMMA InitInvariant == Init => IInv
BY WindowAssumption
   DEF WindowAssumption, Init, IInv, PacketInv, FreeInv

LEMMA StepInvariant == IInv /\ [Next]_vars => IInv'
<1>. SUFFICES ASSUME IInv, [Next]_vars
              PROVE  IInv'
  OBVIOUS
<1>. USE WindowAssumption, Packets
     DEF WindowAssumption, IInv, PacketInv, FreeInv
<1>1. CASE SendCheck
  BY <1>1 DEF SendCheck, esp_vhci_host_check_send_available, advt, peer
<1>2. CASE SendReceive
  <2>1. CASE queue = <<>>
    BY <1>2, <2>1 DEF SendReceive, advt, peer
  <2>2. CASE queue # <<>>
    <3>1. Head(queue) \in Packet /\ Tail(queue) \in Seq(Packet)
          /\ Len(Tail(queue)) = Len(queue) - 1 /\ Len(queue) \in Nat
      BY <2>2, HeadTailProperties
    <3>2. sender' = "popped" /\ packet' = Head(queue) /\ queue' = Tail(queue)
          /\ UNCHANGED <<vhci, callback, cmd_cnt, txseq, advertiser>> /\ sender = "checked"
      BY <1>2, <2>2 DEF SendReceive, advt, peer
    <3>. QED  BY <3>1, <3>2
  <2>. QED  BY <2>1, <2>2
<1>3. CASE SendPacket
  BY <1>3 DEF SendPacket, advt, peer
<1>4. CASE AdvtCheck
  BY <1>4 DEF AdvtCheck, task, peer
<1>5. CASE AdvtQueue
  <2>1. Command[cmd_cnt + 1] \in Packet
    BY <1>5 DEF AdvtQueue
  <2>2. queue' \in Seq(Packet) /\ Len(queue') <= SEND_BUFFER_SIZE
    BY <1>5, <2>1, QueuePacket DEF AdvtQueue
  <2>. QED  BY <1>5, <2>2 DEF AdvtQueue, task, peer
<1>6. CASE CallbackQueue
  <2>1. Head(callback) \in Packet /\ Tail(callback) \in Seq(Packet)
    BY <1>6, HeadTailProperties DEF CallbackQueue
  <2>2. queue' \in Seq(Packet) /\ Len(queue') <= SEND_BUFFER_SIZE
    BY <1>6, <2>1, QueuePacket DEF CallbackQueue
  <2>. QED  BY <1>6, <2>1, <2>2 DEF CallbackQueue, task, advt, peer
<1>7. CASE Forward
  BY <1>7 DEF Forward, advt
<1>8. CASE Request
  <2>1. PICK n \in 1..2 : callback' = [i \in 1..n |-> Reply]
    BY <1>8 DEF Request
  <2>2. callback' \in Seq(Packet)
    BY <2>1
  <2>. QED  BY <1>8, <2>2 DEF Request, task, advt
<1>9. CASE \E answers \in BOOLEAN : Frame(answers)
  <2>1. PICK answers \in BOOLEAN : Frame(answers)
    BY <1>9
  <2>2. txseq + 1 \in 1..SeqMod
    OBVIOUS
  <2>3. <<Ack(txseq + 1)>> \in Seq(Packet) /\ <<ObexReply(txseq + 1)>> \in Seq(Packet)
    BY <2>2
  <2>4. callback' \in Seq(Packet)
    BY <2>1, <2>3, ConcatProperties, EmptySeq DEF Frame
  <2>5. txseq' \in 0..(SeqMod - 1)
    BY <2>1 DEF Frame
  <2>. QED  BY <2>1, <2>4, <2>5 DEF Frame, task, advt
<1>10. CASE UNCHANGED vars
  BY <1>10 DEF vars, task, advt, peer
<1>. QED
  BY <1>1, <1>2, <1>3, <1>4, <1>5, <1>6, <1>7, <1>8, <1>9, <1>10
     DEF Next, Send, Advertise

LEMMA Invariant == Spec => []IInv
BY InitInvariant, StepInvariant, PTL DEF Spec

(* The controller is free whenever send hands it a packet.                 *)
THEOREM ControllerFree == Spec => []HandedToFreeController
<1>1. IInv => HandedToFreeController
  BY DEF IInv, FreeInv, HandedToFreeController
<1>. QED  BY <1>1, Invariant, PTL

-----------------------------------------------------------------------------
(* The refinement.                                                         *)

(* Concatenation of packets is associative.                                *)
LEMMA PacketsAssociate ==
  ASSUME NEW s \in Seq(Packet), NEW t \in Seq(Packet), NEW u \in Seq(Packet)
  PROVE  (s \o t) \o u = s \o (t \o u)
BY ConcatAssociative

(* A packet before the queue, seen from the pipe.                          *)
LEMMA Ahead ==
  ASSUME NEW p \in Packet, NEW q \in Seq(Packet)
  PROVE  /\ <<p>> \o q # <<>> /\ Tail(<<p>> \o q) = q
         /\ Len(<<p>> \o q) = Len(q) + 1
         /\ \A r \in Packet : <<p>> \o Append(q, r) = Append(<<p>> \o q, r)
<1>1. /\ <<p>> \in Seq(Packet) /\ <<p>> \o q \in Seq(Packet)
      /\ Len(<<p>> \o q) = Len(q) + 1 /\ Len(<<p>>) = 1
      /\ \A i \in 1..(Len(q) + 1) : (<<p>> \o q)[i] = IF i <= 1 THEN p ELSE q[i - 1]
  BY ConcatProperties
<1>2. <<p>> \o q # <<>>
  BY <1>1, LenProperties
<1>3. Tail(<<p>> \o q) = q
  <2>1. /\ Tail(<<p>> \o q) \in Seq(Packet) /\ Len(Tail(<<p>> \o q)) = Len(q)
        /\ \A i \in 1..Len(q) : Tail(<<p>> \o q)[i] = (<<p>> \o q)[i + 1]
    BY <1>1, <1>2, HeadTailProperties, LenProperties
  <2>2. \A i \in 1..Len(q) : Tail(<<p>> \o q)[i] = q[i]
    BY <1>1, <2>1, LenProperties
  <2>. QED  BY <2>1, <2>2, SeqEqual
<1>4. ASSUME NEW r \in Packet
      PROVE  <<p>> \o Append(q, r) = Append(<<p>> \o q, r)
  <2>1. /\ <<r>> \in Seq(Packet) /\ Append(q, r) = q \o <<r>>
        /\ Append(<<p>> \o q, r) = (<<p>> \o q) \o <<r>>
    BY <1>1, AppendIsConcat
  <2>. QED  BY <1>1, <2>1, PacketsAssociate
<1>. QED  BY <1>1, <1>2, <1>3, <1>4

(* Taking the first packet out of the queue and holding it changes nothing *)
(* of the order.                                                           *)
LEMMA Apart ==
  ASSUME NEW q \in Seq(Packet), q # <<>>
  PROVE  <<Head(q)>> \o Tail(q) = q
<1>1. /\ Head(q) \in Packet /\ Head(q) = q[1] /\ Tail(q) \in Seq(Packet)
      /\ Len(Tail(q)) = Len(q) - 1 /\ Len(q) \in Nat \ {0}
      /\ \A i \in 1..(Len(q) - 1) : Tail(q)[i] = q[i + 1]
  BY HeadTailProperties, EmptySeq
<1>2. <<Head(q)>> \in Seq(Packet) /\ Len(<<Head(q)>>) = 1 /\ <<Head(q)>>[1] = q[1]
  BY <1>1
<1>3. /\ <<Head(q)>> \o Tail(q) \in Seq(Packet)
      /\ Len(<<Head(q)>> \o Tail(q)) = Len(q)
      /\ \A i \in 1..Len(q) : (<<Head(q)>> \o Tail(q))[i] =
                                IF i <= 1 THEN q[1] ELSE Tail(q)[i - 1]
  BY <1>1, <1>2, ConcatProperties
<1>4. \A i \in 1..Len(q) : (<<Head(q)>> \o Tail(q))[i] = q[i]
  BY <1>1, <1>3
<1>. QED  BY <1>3, <1>4, SeqEqual

(* Queueing a packet puts it into the pipe.                                *)
LEMMA QueueIsPut ==
  ASSUME IInv, NEW p \in Packet, queue_packet(p), UNCHANGED task
  PROVE  InFlight' = Append(InFlight, p) /\ Air!Put
<1>. USE WindowAssumption DEF WindowAssumption
<1>1. /\ Len(queue) < SEND_BUFFER_SIZE /\ queue' = Append(queue, p)
      /\ queue \in Seq(Packet) /\ UNCHANGED <<vhci, packet>>
  BY QueuePacket DEF IInv, PacketInv, task
<1>2. InFlight' = Append(InFlight, p) /\ Len(InFlight) < SEND_BUFFER_SIZE + 1
  <2>1. CASE vhci # None
    <3>1. vhci \in Packet
      BY <2>1 DEF IInv, PacketInv
    <3>2. InFlight = <<vhci>> \o queue /\ InFlight' = <<vhci>> \o Append(queue, p)
      BY <1>1, <2>1 DEF InFlight
    <3>. QED  BY <1>1, <3>1, <3>2, Ahead
  <2>2. CASE vhci = None /\ packet # None
    <3>1. packet \in Packet
      BY <2>2 DEF IInv, PacketInv
    <3>2. InFlight = <<packet>> \o queue /\ InFlight' = <<packet>> \o Append(queue, p)
      BY <1>1, <2>2 DEF InFlight
    <3>. QED  BY <1>1, <3>1, <3>2, Ahead
  <2>3. CASE vhci = None /\ packet = None
    <3>1. InFlight = queue /\ InFlight' = Append(queue, p)
      BY <1>1, <2>3 DEF InFlight
    <3>. QED  BY <1>1, <3>1
  <2>. QED  BY <2>1, <2>2, <2>3
<1>. QED  BY <1>2 DEF Air!Put

(* The send task only moves a packet along inside the pipe.                *)
LEMMA SendMoves ==
  ASSUME IInv, Send
  PROVE  InFlight' = InFlight
<1>. USE DEF IInv, PacketInv, FreeInv
<1>1. CASE SendCheck
  BY <1>1 DEF SendCheck, InFlight
<1>2. CASE SendReceive
  <2>1. CASE queue = <<>>
    BY <1>2, <2>1 DEF SendReceive, InFlight
  <2>2. CASE queue # <<>>
    <3>1. /\ vhci = None /\ vhci' = None /\ packet = None
          /\ packet' = Head(queue) /\ queue' = Tail(queue) /\ Head(queue) \in Packet
      BY <1>2, <2>2, HeadTailProperties DEF SendReceive
    <3>2. InFlight = queue /\ InFlight' = <<Head(queue)>> \o Tail(queue)
      BY <3>1, Packets DEF InFlight
    <3>3. <<Head(queue)>> \o Tail(queue) = queue
      BY <2>2, Apart
    <3>. QED  BY <3>2, <3>3
  <2>. QED  BY <2>1, <2>2
<1>3. CASE SendPacket
  BY <1>3 DEF SendPacket, InFlight
<1>. QED  BY <1>1, <1>2, <1>3 DEF Send

(* Every step of the transport is a step of the pipe, or none: the send    *)
(* task and the advertising task only move a packet along inside it.       *)
LEMMA PipeStep == IInv /\ [Next]_vars => [Air!Next]_InFlight
<1>. SUFFICES ASSUME IInv, [Next]_vars
              PROVE  Air!Put \/ Air!Get \/ UNCHANGED InFlight
  BY DEF Air!Next
<1>. USE Packets DEF IInv, PacketInv, FreeInv
<1>1. CASE Send
  BY <1>1, SendMoves
<1>4. CASE AdvtCheck
  BY <1>4 DEF AdvtCheck, task, InFlight
<1>5. CASE AdvtQueue
  <2>1. Command[cmd_cnt + 1] \in Packet
    BY <1>5 DEF AdvtQueue
  <2>. QED  BY <1>5, <2>1, QueueIsPut DEF AdvtQueue
<1>6. CASE CallbackQueue
  <2>1. Head(callback) \in Packet
    BY <1>6, HeadTailProperties DEF CallbackQueue
  <2>. QED  BY <1>6, <2>1, QueueIsPut DEF CallbackQueue
<1>7. CASE Forward
  <2>1. /\ vhci # None /\ vhci \in Packet /\ vhci' = None
        /\ packet = None /\ packet' = None /\ queue' = queue
    BY <1>7 DEF Forward
  <2>2. InFlight = <<vhci>> \o queue /\ InFlight' = queue
    BY <2>1 DEF InFlight
  <2>. QED  BY <2>1, <2>2, Ahead DEF Air!Get
<1>8. CASE Request
  BY <1>8 DEF Request, task, InFlight
<1>9. CASE \E answers \in BOOLEAN : Frame(answers)
  BY <1>9 DEF Frame, task, InFlight
<1>10. CASE UNCHANGED vars
  BY <1>10 DEF vars, task, InFlight
<1>. QED
  BY <1>1, <1>4, <1>5, <1>6, <1>7, <1>8, <1>9, <1>10 DEF Next, Advertise

(* The transport implements the pipe: nothing is lost, doubled or          *)
(* overtaken between queue_packet and the air.                             *)
THEOREM ImplementsPipe == Spec => InOrder
<1>1. Init => Air!Init
  BY DEF Init, Air!Init, InFlight
<1>. QED  BY <1>1, PipeStep, Invariant, PTL DEF Spec, InOrder, Air!Spec

-----------------------------------------------------------------------------
(* Division, from which modular counting follows.                          *)

LEMMA Division ==
  ASSUME NEW m \in Nat \ {0}, NEW q \in Nat, NEW r \in 0..(m - 1)
  PROVE  (m * q + r) % m = r /\ (m * q + r) \div m = q
OBVIOUS

LEMMA Quotient ==
  ASSUME NEW m \in Nat \ {0}, NEW n \in Nat
  PROVE  /\ n \div m \in Nat /\ n % m \in 0..(m - 1)
         /\ n = m * (n \div m) + (n % m)
OBVIOUS

(* Numbers below the modulus, and up to twice as large.                    *)
LEMMA Low ==
  ASSUME NEW m \in Nat \ {0}, NEW n \in Nat
  PROVE  /\ n < m => n % m = n
         /\ m <= n /\ n < m + m => n % m = n - m
         /\ n = m => n % m = 0
OBVIOUS

LEMMA ModNext ==
  ASSUME NEW m \in Nat \ {0}, NEW n \in Nat
  PROVE  (n + 1) % m = IF n % m = m - 1 THEN 0 ELSE (n % m) + 1
<1>. DEFINE q == n \div m
            r == n % m
<1>1. q \in Nat /\ r \in 0..(m - 1) /\ n = m * q + r
  BY Quotient
<1>. HIDE DEF q, r
<1>2. CASE r = m - 1
  <2>1. n + 1 = m * (q + 1) + 0 /\ q + 1 \in Nat /\ 0 \in 0..(m - 1)
    BY <1>1, <1>2
  <2>2. (n + 1) % m = 0
    BY <2>1, Division
  <2>. QED  BY <1>2, <2>2 DEF r
<1>3. CASE r # m - 1
  <2>1. n + 1 = m * q + (r + 1) /\ r + 1 \in 0..(m - 1)
    BY <1>1, <1>3
  <2>2. (n + 1) % m = r + 1
    BY <1>1, <2>1, Division
  <2>. QED  BY <1>3, <2>2 DEF r
<1>. QED  BY <1>2, <1>3

LEMMA DivNext ==
  ASSUME NEW m \in Nat \ {0}, NEW n \in Nat
  PROVE  (n + m) \div m = n \div m + 1
OBVIOUS

LEMMA DivGrows ==
  ASSUME NEW m \in Nat \ {0}, NEW a \in Nat, NEW b \in Nat, a <= b
  PROVE  a \div m <= b \div m
OBVIOUS

-----------------------------------------------------------------------------
(* Counting the packets of a kind in a sequence.                           *)

(* The packets of kind k behind the first i of s.                          *)
After(k, s, i) == Cardinality({j \in (i + 1)..Len(s) : s[j].kind = k})

LEMMA AfterCounts ==
  ASSUME NEW s \in Seq(Packet), NEW k, NEW i \in Nat
  PROVE  /\ IsFiniteSet({j \in (i + 1)..Len(s) : s[j].kind = k})
         /\ After(k, s, i) \in Nat
         /\ i >= Len(s) => After(k, s, i) = 0
<1>1. Len(s) \in Nat /\ IsFiniteSet((i + 1)..Len(s))
  BY LenProperties, FS_Interval
<1>2. IsFiniteSet({j \in (i + 1)..Len(s) : s[j].kind = k})
  BY <1>1, FS_Subset
<1>3. ASSUME i >= Len(s) PROVE {j \in (i + 1)..Len(s) : s[j].kind = k} = {}
  BY <1>1, <1>3
<1>. QED  BY <1>2, <1>3, FS_CardinalityType, FS_EmptySet DEF After

LEMMA AfterStep ==
  ASSUME NEW s \in Seq(Packet), NEW k, NEW i \in Nat, i < Len(s)
  PROVE  After(k, s, i) = After(k, s, i + 1) + (IF s[i + 1].kind = k THEN 1 ELSE 0)
<1>. DEFINE A == {j \in (i + 1)..Len(s) : s[j].kind = k}
            B == {j \in (i + 2)..Len(s) : s[j].kind = k}
<1>1. Len(s) \in Nat /\ i + 1 + 1 = i + 2 /\ i + 1 \in Nat
  BY LenProperties
<1>2. IsFiniteSet(B) /\ Cardinality(B) \in Nat /\ After(k, s, i + 1) = Cardinality(B)
  BY <1>1, AfterCounts DEF After
<1>3. i + 1 \notin B
  BY <1>1
<1>6. After(k, s, i) = Cardinality(A)
  BY DEF After
<1>4. CASE s[i + 1].kind = k
  <2>1. A = B \union {i + 1}
    BY <1>1, <1>4
  <2>. HIDE DEF A, B
  <2>2. Cardinality(B \union {i + 1}) = Cardinality(B) + 1
    BY <1>2, <1>3, FS_AddElement
  <2>. QED  BY <1>2, <1>4, <1>6, <2>1, <2>2
<1>5. CASE s[i + 1].kind # k
  <2>1. A = B
    BY <1>1, <1>5
  <2>. HIDE DEF A, B
  <2>. QED  BY <1>2, <1>5, <1>6, <2>1
<1>. QED  BY <1>4, <1>5

LEMMA AfterAppend ==
  ASSUME NEW s \in Seq(Packet), NEW p \in Packet, NEW k, NEW i \in Nat, i <= Len(s)
  PROVE  After(k, Append(s, p), i) = After(k, s, i) + (IF p.kind = k THEN 1 ELSE 0)
<1>. DEFINE n == Len(s) + 1
            A == {j \in (i + 1)..n : Append(s, p)[j].kind = k}
            B == {j \in (i + 1)..Len(s) : s[j].kind = k}
<1>1. /\ Len(s) \in Nat /\ Len(Append(s, p)) = n /\ Append(s, p)[n] = p
      /\ \A j \in 1..Len(s) : Append(s, p)[j] = s[j]
  BY AppendProperties, LenProperties
<1>2. IsFiniteSet(B) /\ Cardinality(B) \in Nat /\ After(k, s, i) = Cardinality(B)
  BY AfterCounts DEF After
<1>3. n \notin B /\ After(k, Append(s, p), i) = Cardinality(A)
  BY <1>1 DEF After
<1>4. CASE p.kind = k
  <2>1. A = B \union {n}
    BY <1>1, <1>4
  <2>. HIDE DEF A, B, n
  <2>2. Cardinality(B \union {n}) = Cardinality(B) + 1
    BY <1>2, <1>3, FS_AddElement
  <2>. QED  BY <1>2, <1>3, <1>4, <2>1, <2>2
<1>5. CASE p.kind # k
  <2>1. A = B
    BY <1>1, <1>5
  <2>. HIDE DEF A, B
  <2>. QED  BY <1>2, <1>3, <1>5, <2>1
<1>. QED  BY <1>4, <1>5

LEMMA AfterTail ==
  ASSUME NEW s \in Seq(Packet), s # <<>>, NEW k, NEW i \in Nat
  PROVE  After(k, Tail(s), i) = After(k, s, i + 1)
<1>. DEFINE A == {j \in (i + 1 + 1)..Len(s) : s[j].kind = k}
            B == {j \in (i + 1)..Len(Tail(s)) : Tail(s)[j].kind = k}
            f == [j \in A |-> j - 1]
<1>1. /\ Len(s) \in Nat /\ Len(s) > 0 /\ Len(Tail(s)) = Len(s) - 1 /\ Tail(s) \in Seq(Packet)
      /\ \A j \in 1..(Len(s) - 1) : Tail(s)[j] = s[j + 1]
  BY HeadTailProperties, LenProperties, EmptySeq
<1>2. f \in Bijection(A, B)
  <2>1. \A j \in A : j - 1 \in B
    BY <1>1
  <2>2. f \in Injection(A, B)
    BY <1>1, <2>1 DEF Injection, IsInjective
  <2>3. \A j \in B : j + 1 \in A /\ f[j + 1] = j
    BY <1>1
  <2>4. f \in Surjection(A, B)
    BY <2>1, <2>3 DEF Surjection
  <2>. QED  BY <2>2, <2>4 DEF Bijection
<1>3. IsFiniteSet(A) /\ After(k, s, i + 1) = Cardinality(A)
  <2>1. i + 1 \in Nat
    OBVIOUS
  <2>. QED  BY <2>1, AfterCounts DEF After
<1>4. After(k, Tail(s), i) = Cardinality(B)
  BY DEF After
<1>. HIDE DEF A, B, f
<1>5. ExistsBijection(A, B)
  BY <1>2 DEF ExistsBijection
<1>. QED  BY <1>3, <1>4, <1>5, FS_Bijection

(* A sequence of answers holds acknowledgements, responses and replies.    *)
LEMMA AfterAll ==
  ASSUME NEW s \in Seq(Packet),
         \A i \in 1..Len(s) : s[i].kind \in {"ack", "obex", "reply"}
  PROVE  Len(s) = After("ack", s, 0) + After("obex", s, 0) + After("reply", s, 0)
<1>. DEFINE C(k) == {j \in 1..Len(s) : s[j].kind = k}
<1>1. ASSUME NEW k
      PROVE  IsFiniteSet(C(k)) /\ Cardinality(C(k)) = After(k, s, 0) /\ After(k, s, 0) \in Nat
  <2>1. C(k) = {j \in (0 + 1)..Len(s) : s[j].kind = k}
    OBVIOUS
  <2>. QED  BY <2>1, AfterCounts DEF After
<1>. HIDE DEF C
<1>2. /\ C("ack") \intersect C("obex") = {}
      /\ (C("ack") \union C("obex")) \intersect C("reply") = {}
      /\ 1..Len(s) = (C("ack") \union C("obex")) \union C("reply")
  BY DEF C
<1>3. ASSUME NEW S, NEW T, IsFiniteSet(S), IsFiniteSet(T), S \intersect T = {}
      PROVE  /\ IsFiniteSet(S \union T)
             /\ Cardinality(S \union T) = Cardinality(S) + Cardinality(T)
  <2>1. Cardinality(S \intersect T) = 0
    BY <1>3, FS_EmptySet, Zenon
  <2>2. /\ IsFiniteSet(S \union T)
        /\ Cardinality(S \union T) =
             Cardinality(S) + Cardinality(T) - Cardinality(S \intersect T)
    BY <1>3, FS_Union
  <2>3. Cardinality(S) \in Nat /\ Cardinality(T) \in Nat
    BY <1>3, FS_CardinalityType
  <2>. QED  BY <2>1, <2>2, <2>3
<1>4. Cardinality(1..Len(s)) = Cardinality(C("ack")) + Cardinality(C("obex")) + Cardinality(C("reply"))
  <2>1. /\ IsFiniteSet(C("ack") \union C("obex"))
        /\ Cardinality(C("ack") \union C("obex")) = Cardinality(C("ack")) + Cardinality(C("obex"))
    BY <1>1, <1>2, <1>3, Zenon
  <2>2. Cardinality((C("ack") \union C("obex")) \union C("reply")) =
          Cardinality(C("ack") \union C("obex")) + Cardinality(C("reply"))
    BY <1>1, <1>2, <1>3, <2>1, Zenon
  <2>. QED  BY <1>2, <2>1, <2>2, Zenon
<1>5. Cardinality(1..Len(s)) = Len(s)
  BY LenProperties, FS_Interval, SMTT(30)
<1>. QED  BY <1>1, <1>4, <1>5

-----------------------------------------------------------------------------
(* The account of the acknowledgements.                                    *)

(* How many frames before t the number that p tells the peer lies.         *)
Behind(t, p) == (t + SeqMod - (p.tx % SeqMod)) % SeqMod

(* The acknowledgements due among the last d frames before t.              *)
Due(t, d) == (d + (AckEvery - 1) - (t % AckEvery)) \div AckEvery

(* The packets that tell the peer the next frame expected.                 *)
Numbered(p) == p.kind \in {"ack", "obex"}

(* The account of the packets s on their way to a peer about to send frame *)
(* t with u frames unacknowledged: the acknowledgements due for these u    *)
(* frames are in s, and behind each numbered packet of s those due for the *)
(* frames it leaves open, fewer with each packet.                          *)
Acked(s, t, u) ==
  /\ After("ack", s, 0) = Due(t, u)
  /\ \A i \in 1..Len(s) : Numbered(s[i]) =>
       /\ Behind(t, s[i]) <= u
       /\ After("ack", s, i) = Due(t, Behind(t, s[i]))
       /\ \A j \in i..Len(s) : Numbered(s[j]) => Behind(t, s[j]) <= Behind(t, s[i])

LEMMA Constants ==
  /\ SeqMod \in Nat \ {0} /\ AckEvery \in Nat \ {0} /\ TxWindow \in Nat
  /\ TxWindow < SeqMod /\ SeqMod % AckEvery = 0
  /\ SEND_BUFFER_SIZE \in Nat \ {0}
BY WindowAssumption DEF WindowAssumption

LEMMA BehindIs ==
  ASSUME NEW t \in 0..(SeqMod - 1), NEW p, p.tx \in Nat
  PROVE  LET x == p.tx % SeqMod IN
           /\ x \in 0..(SeqMod - 1)
           /\ Behind(t, p) = IF x <= t THEN t - x ELSE t + SeqMod - x
           /\ Behind(t, p) \in 0..(SeqMod - 1)
<1>. DEFINE x == p.tx % SeqMod
<1>1. x \in 0..(SeqMod - 1)
  BY Constants, Quotient
<1>. HIDE DEF x
<1>2. t + SeqMod - x \in Nat /\ t + SeqMod - x < SeqMod + SeqMod
  BY <1>1, Constants
<1>3. CASE x <= t
  <2>1. (t + SeqMod - x) % SeqMod = t + SeqMod - x - SeqMod
    <3>. DEFINE n == t + SeqMod - x
    <3>1. n \in Nat /\ SeqMod \in Nat \ {0} /\ SeqMod <= n /\ n < SeqMod + SeqMod
      BY <1>1, <1>2, <1>3, Constants
    <3>. HIDE DEF n
    <3>2. n % SeqMod = n - SeqMod
      BY <3>1, Low
    <3>. QED  BY <1>1, <3>2, Constants DEF n
  <2>. QED  BY <1>1, <1>3, <2>1, Constants DEF Behind, x
<1>4. CASE ~(x <= t)
  <2>1. (t + SeqMod - x) % SeqMod = t + SeqMod - x
    <3>. DEFINE n == t + SeqMod - x
    <3>1. n \in Nat /\ SeqMod \in Nat \ {0} /\ n < SeqMod
      BY <1>1, <1>2, <1>4, Constants
    <3>. HIDE DEF n
    <3>2. n % SeqMod = n
      BY <3>1, Low
    <3>. QED  BY <1>1, <3>2, Constants DEF n
  <2>. QED  BY <1>1, <1>4, <2>1, Constants DEF Behind, x
<1>. QED  BY <1>1, <1>3, <1>4 DEF x

LEMMA NextNumber ==
  ASSUME NEW t \in 0..(SeqMod - 1)
  PROVE  /\ (t + 1) % SeqMod = IF t + 1 = SeqMod THEN 0 ELSE t + 1
         /\ (t + 1) % SeqMod \in 0..(SeqMod - 1)
         /\ ((t + 1) % SeqMod) % AckEvery = (t + 1) % AckEvery
<1>1. (t + 1) % SeqMod = IF t + 1 = SeqMod THEN 0 ELSE t + 1
  <2>. DEFINE n == t + 1
  <2>1. n \in Nat /\ SeqMod \in Nat \ {0} /\ n <= SeqMod
    BY Constants
  <2>. HIDE DEF n
  <2>2. n < SeqMod => n % SeqMod = n
    BY <2>1, Low
  <2>3. n = SeqMod => n % SeqMod = 0
    BY <2>1, Low
  <2>4. n % SeqMod = IF n = SeqMod THEN 0 ELSE n
    BY <2>1, <2>2, <2>3
  <2>. QED  BY <2>4 DEF n
<1>2. 0 % AckEvery = 0
  BY Constants, Low
<1>. QED  BY <1>1, <1>2, Constants

(* One frame more is open after the next frame, and none to a packet that  *)
(* acknowledges that frame.                                                *)
LEMMA BehindNext ==
  ASSUME NEW t \in 0..(SeqMod - 1), NEW p, p.tx \in Nat, Behind(t, p) + 1 < SeqMod
  PROVE  Behind((t + 1) % SeqMod, p) = Behind(t, p) + 1
<1>1. (t + 1) % SeqMod \in 0..(SeqMod - 1)
  BY NextNumber
<1>. QED  BY <1>1, NextNumber, BehindIs, Constants, SMTT(30)

LEMMA BehindNone ==
  ASSUME NEW t \in 0..(SeqMod - 1), NEW p, p.tx = t + 1
  PROVE  Behind((t + 1) % SeqMod, p) = 0
<1>1. (t + 1) % SeqMod \in 0..(SeqMod - 1) /\ p.tx \in Nat
  BY NextNumber
<1>2. Behind((t + 1) % SeqMod, p) = ((t + 1) % SeqMod) - (p.tx % SeqMod)
  BY <1>1, BehindIs
<1>. QED  BY <1>1, <1>2

(* The next frame makes an acknowledgement due if AckDue says so.          *)
LEMMA DueNext ==
  ASSUME NEW t \in 0..(SeqMod - 1), NEW d \in Nat
  PROVE  /\ Due(t, d) \in Nat
         /\ Due((t + 1) % SeqMod, d + 1) = Due(t, d) + (IF AckDue(t) THEN 1 ELSE 0)
         /\ Due((t + 1) % SeqMod, 0) = 0
<1>. DEFINE r == t % AckEvery
            r1 == (t + 1) % AckEvery
<1>1. /\ r \in 0..(AckEvery - 1) /\ r1 = IF r = AckEvery - 1 THEN 0 ELSE r + 1
      /\ r1 \in 0..(AckEvery - 1)
  <2>1. AckEvery \in Nat \ {0} /\ t \in Nat /\ t + 1 \in Nat
    BY Constants
  <2>. QED  BY <2>1, Quotient, ModNext
<1>2. /\ Due(t, d) = (d + (AckEvery - 1) - r) \div AckEvery
      /\ \A e : Due((t + 1) % SeqMod, e) = (e + (AckEvery - 1) - r1) \div AckEvery
      /\ AckDue(t) <=> r1 = 0
  BY NextNumber DEF Due, AckDue
<1>. HIDE DEF r, r1
<1>3. Due(t, d) \in Nat
  <2>1. d + (AckEvery - 1) - r \in Nat
    BY <1>1, Constants
  <2>. QED  BY <1>2, <2>1, Constants, Quotient
<1>6. Due((t + 1) % SeqMod, 0) = 0
  <2>1. 0 + (AckEvery - 1) - r1 \in 0..(AckEvery - 1)
    BY <1>1, Constants
  <2>2. (AckEvery * 0 + (0 + (AckEvery - 1) - r1)) \div AckEvery = 0
    BY <2>1, Constants, Division
  <2>3. AckEvery * 0 + (0 + (AckEvery - 1) - r1) = 0 + (AckEvery - 1) - r1
    BY <2>1, Constants
  <2>. QED  BY <1>2, <2>2, <2>3
<1>4. CASE r1 = 0
  <2>1. (d + 1) + (AckEvery - 1) - r1 = (d + (AckEvery - 1) - r) + AckEvery
    BY <1>1, <1>4, Constants
  <2>2. d + (AckEvery - 1) - r \in Nat
    BY <1>1, Constants
  <2>3. AckEvery \in Nat \ {0}
    BY Constants
  <2>4. ((d + 1) + (AckEvery - 1) - r1) \div AckEvery =
          ((d + (AckEvery - 1) - r) \div AckEvery) + 1
    BY <2>1, <2>2, <2>3, DivNext
  <2>. QED  BY <1>2, <1>3, <1>4, <1>6, <2>4
<1>5. CASE r1 # 0
  <2>1. (d + 1) + (AckEvery - 1) - r1 = d + (AckEvery - 1) - r
    BY <1>1, <1>5, Constants
  <2>. QED  BY <1>2, <1>3, <1>5, <1>6, <2>1
<1>. QED  BY <1>3, <1>4, <1>5, <1>6

LEMMA NumberedPacket ==
  ASSUME NEW p \in Packet, Numbered(p)
  PROVE  p.tx \in 1..SeqMod
<1>1. \A i \in 1..3 : ~Numbered(Command[i])
  <2>1. /\ Command[1].kind = "reset" /\ Command[2].kind = "name"
        /\ Command[3].kind = "scan"
    BY DEF Command
  <2>. QED  BY <2>1 DEF Numbered
<1>2. ~Numbered(Reply)
  BY DEF Reply, Numbered
<1>3. PICK n \in 1..SeqMod : p = Ack(n) \/ p = ObexReply(n)
  BY <1>1, <1>2 DEF Packet
<1>. QED  BY <1>3 DEF Ack, ObexReply

(* What an acknowledgement, or the lack of one, does to the account when   *)
(* the peer sends a frame.                                                 *)
LEMMA AckedFrame ==
  ASSUME NEW s \in Seq(Packet), NEW t \in 0..(SeqMod - 1), NEW u \in Nat,
         u + 1 < SeqMod, Acked(s, t, u)
  PROVE  Acked(IF AckDue(t) THEN Append(s, Ack(t + 1)) ELSE s, (t + 1) % SeqMod, u + 1)
<1>. DEFINE t2 == (t + 1) % SeqMod
<1>1. Len(s) \in Nat /\ t + 1 \in 1..SeqMod
  BY LenProperties, Constants
<1>2. ASSUME NEW i \in 1..Len(s), Numbered(s[i])
      PROVE  /\ s[i].tx \in Nat /\ Behind(t, s[i]) \in Nat
             /\ Behind(t2, s[i]) = Behind(t, s[i]) + 1
             /\ Behind(t2, s[i]) <= u + 1
             /\ Due(t2, Behind(t2, s[i])) = After("ack", s, i) + (IF AckDue(t) THEN 1 ELSE 0)
  <2>1. s[i] \in Packet
    BY ElementOfSeq
  <2>2. s[i].tx \in Nat
    BY <2>1, <1>2, NumberedPacket, Constants
  <2>3. Behind(t, s[i]) \in Nat /\ Behind(t, s[i]) <= u
    <3>1. Behind(t, s[i]) \in 0..(SeqMod - 1)
      BY <2>2, BehindIs
    <3>2. Behind(t, s[i]) <= u
      BY <1>2 DEF Acked
    <3>. QED  BY <3>1, <3>2, Constants
  <2>4. Behind(t2, s[i]) = Behind(t, s[i]) + 1
    BY <2>2, <2>3, BehindNext, Constants
  <2>5. Due(t2, Behind(t, s[i]) + 1) = Due(t, Behind(t, s[i])) + (IF AckDue(t) THEN 1 ELSE 0)
    BY <2>3, DueNext
  <2>. QED  BY <1>2, <2>2, <2>3, <2>4, <2>5 DEF Acked
<1>3. /\ Due(t, u) \in Nat /\ Due(t2, 0) = 0
      /\ Due(t2, u + 1) = Due(t, u) + (IF AckDue(t) THEN 1 ELSE 0)
  BY DueNext
<1>. HIDE DEF t2
<1>4. CASE ~AckDue(t)
  <2>1. After("ack", s, 0) = Due(t2, u + 1)
    BY <1>3, <1>4, AfterCounts DEF Acked
  <2>2. ASSUME NEW i \in 1..Len(s), Numbered(s[i])
        PROVE  /\ Behind(t2, s[i]) <= u + 1
               /\ After("ack", s, i) = Due(t2, Behind(t2, s[i]))
               /\ \A j \in i..Len(s) : Numbered(s[j]) => Behind(t2, s[j]) <= Behind(t2, s[i])
    <3>1. After("ack", s, i) \in Nat
      <4>1. i \in Nat
        BY <1>1
      <4>. QED  BY <4>1, AfterCounts
    <3>2. ASSUME NEW j \in i..Len(s), Numbered(s[j])
          PROVE  Behind(t2, s[j]) <= Behind(t2, s[i])
      <4>1. j \in 1..Len(s) /\ Behind(t, s[j]) <= Behind(t, s[i])
        BY <1>1, <2>2, <3>2 DEF Acked
      <4>. QED  BY <1>2, <2>2, <3>2, <4>1
    <3>. QED  BY <1>2, <1>4, <2>2, <3>1, <3>2
  <2>3. Acked(s, t2, u + 1)
    BY <2>1, <2>2 DEF Acked
  <2>. QED  BY <1>4, <2>3 DEF t2
<1>5. CASE AckDue(t)
  <2>. DEFINE p == Ack(t + 1)
              s1 == Append(s, p)
              n == Len(s) + 1
  <2>1. p \in Packet /\ p.kind = "ack" /\ p.tx = t + 1
    BY <1>1, Packets DEF Ack
  <2>2. /\ s1 \in Seq(Packet) /\ Len(s1) = n /\ s1[n] = p
        /\ \A i \in 1..Len(s) : s1[i] = s[i]
    BY <2>1, AppendProperties
  <2>3. \A i \in 0..Len(s) : After("ack", s1, i) = After("ack", s, i) + 1
    <3>1. ASSUME NEW i \in 0..Len(s)
          PROVE  After("ack", s1, i) = After("ack", s, i) + 1
      <4>1. i \in Nat /\ i <= Len(s)
        BY <1>1
      <4>. QED  BY <2>1, <4>1, AfterAppend
    <3>. QED  BY <3>1
  <2>4. After("ack", s1, n) = 0 /\ Behind(t2, p) = 0
    <3>1. n \in Nat /\ n >= Len(s1)
      BY <1>1, <2>2
    <3>2. After("ack", s1, n) = 0
      BY <2>2, <3>1, AfterCounts
    <3>3. Behind(t2, p) = 0
      BY <2>1, BehindNone DEF t2
    <3>. QED  BY <3>2, <3>3
  <2>. HIDE DEF p, s1
  <2>5. After("ack", s1, 0) = Due(t2, u + 1)
    <3>1. After("ack", s1, 0) = After("ack", s, 0) + 1
      BY <1>1, <2>3
    <3>. QED  BY <1>3, <1>5, <3>1 DEF Acked
  <2>6. ASSUME NEW i \in 1..Len(s), Numbered(s[i])
        PROVE  /\ Behind(t2, s1[i]) <= u + 1
               /\ After("ack", s1, i) = Due(t2, Behind(t2, s1[i]))
               /\ \A j \in i..n : Numbered(s1[j]) => Behind(t2, s1[j]) <= Behind(t2, s1[i])
    <3>1. After("ack", s1, i) = After("ack", s, i) + 1 /\ s1[i] = s[i]
      BY <1>1, <2>2, <2>3
    <3>2. ASSUME NEW j \in i..n, Numbered(s1[j])
          PROVE  Behind(t2, s1[j]) <= Behind(t2, s[i])
      <4>1. CASE j = n
        BY <1>2, <2>2, <2>4, <2>6, <4>1
      <4>2. CASE j # n
        <5>1. j \in 1..Len(s) /\ j \in i..Len(s) /\ s1[j] = s[j]
          BY <1>1, <2>2, <4>2
        <5>2. Behind(t, s[j]) <= Behind(t, s[i])
          BY <2>6, <3>2, <5>1 DEF Acked
        <5>. QED  BY <1>2, <2>6, <3>2, <5>1, <5>2
      <4>. QED  BY <4>1, <4>2
    <3>. QED  BY <1>2, <1>5, <2>6, <3>1, <3>2
  <2>7. /\ Behind(t2, s1[n]) <= u + 1
        /\ After("ack", s1, n) = Due(t2, Behind(t2, s1[n]))
        /\ \A j \in n..n : Numbered(s1[j]) => Behind(t2, s1[j]) <= Behind(t2, s1[n])
    BY <1>1, <1>3, <2>2, <2>4
  <2>8. ASSUME NEW i \in 1..Len(s1), Numbered(s1[i])
        PROVE  /\ Behind(t2, s1[i]) <= u + 1
               /\ After("ack", s1, i) = Due(t2, Behind(t2, s1[i]))
               /\ \A j \in i..Len(s1) : Numbered(s1[j]) => Behind(t2, s1[j]) <= Behind(t2, s1[i])
    <3>1. CASE i = n
      BY <2>2, <2>7, <3>1
    <3>2. CASE i # n
      <4>1. i \in 1..Len(s) /\ Numbered(s[i])
        BY <1>1, <2>2, <2>8, <3>2
      <4>. QED  BY <2>2, <2>6, <4>1
    <3>. QED  BY <3>1, <3>2
  <2>9. Acked(s1, t2, u + 1)
    BY <2>5, <2>8 DEF Acked
  <2>. QED  BY <1>5, <2>9 DEF t2, s1, p
<1>. QED  BY <1>4, <1>5

(* Any other packet leaves the account of the acknowledgements as it was.  *)
LEMMA AckedAppend ==
  ASSUME NEW s \in Seq(Packet), NEW t \in 0..(SeqMod - 1), NEW u \in Nat,
         NEW p \in Packet, p.kind # "ack", Acked(s, t, u),
         Numbered(p) => Behind(t, p) = 0 /\ Due(t, 0) = 0
  PROVE  Acked(Append(s, p), t, u)
<1>. DEFINE s1 == Append(s, p)
            n == Len(s) + 1
<1>1. /\ s1 \in Seq(Packet) /\ Len(s1) = n /\ s1[n] = p
      /\ \A i \in 1..Len(s) : s1[i] = s[i]
  BY AppendProperties
<1>2. Len(s) \in Nat /\ n \in Nat
  BY LenProperties
<1>3. ASSUME NEW i \in 0..Len(s)
      PROVE  After("ack", s1, i) = After("ack", s, i)
  <2>1. i \in Nat /\ i <= Len(s)
    BY <1>2
  <2>2. After("ack", s, i) \in Nat
    BY <2>1, AfterCounts
  <2>. QED  BY <2>1, <2>2, AfterAppend
<1>4. After("ack", s1, n) = 0
  <2>1. n >= Len(s1)
    BY <1>1, <1>2
  <2>. QED  BY <1>1, <1>2, <2>1, AfterCounts
<1>. HIDE DEF s1
<1>5. ASSUME NEW i \in 1..Len(s1), Numbered(s1[i])
      PROVE  /\ Behind(t, s1[i]) <= u
             /\ After("ack", s1, i) = Due(t, Behind(t, s1[i]))
             /\ \A j \in i..Len(s1) : Numbered(s1[j]) => Behind(t, s1[j]) <= Behind(t, s1[i])
  <2>1. CASE i = n
    <3>1. Behind(t, s1[i]) = 0 /\ Due(t, 0) = 0
      BY <1>1, <1>5, <2>1
    <3>2. \A j \in i..Len(s1) : j = i
      BY <1>1, <1>2, <2>1
    <3>. QED  BY <1>4, <2>1, <3>1, <3>2
  <2>2. CASE i # n
    <3>1. i \in 1..Len(s) /\ s1[i] = s[i] /\ After("ack", s1, i) = After("ack", s, i)
      BY <1>1, <1>2, <1>3, <2>2
    <3>2. Behind(t, s[i]) <= u /\ After("ack", s, i) = Due(t, Behind(t, s[i]))
      BY <1>5, <3>1 DEF Acked
    <3>3. ASSUME NEW j \in i..Len(s1), Numbered(s1[j])
          PROVE  Behind(t, s1[j]) <= Behind(t, s[i])
      <4>1. CASE j = n
        <5>1. Behind(t, p) = 0 /\ s1[j] = p
          BY <1>1, <3>3, <4>1
        <5>2. Behind(t, s[i]) \in Nat
          <6>1. s[i] \in Packet
            BY <3>1, ElementOfSeq
          <6>2. s[i].tx \in Nat
            BY <1>5, <3>1, <6>1, NumberedPacket, Constants
          <6>3. Behind(t, s[i]) \in 0..(SeqMod - 1)
            BY <6>2, BehindIs
          <6>. QED  BY <6>3, Constants
        <5>. QED  BY <5>1, <5>2
      <4>2. CASE j # n
        <5>1. j \in i..Len(s) /\ s1[j] = s[j]
          BY <1>1, <1>2, <3>1, <4>2
        <5>. QED  BY <1>5, <3>1, <3>3, <5>1 DEF Acked
      <4>. QED  BY <4>1, <4>2
    <3>. QED  BY <3>1, <3>2, <3>3
  <2>. QED  BY <2>1, <2>2
<1>6. After("ack", s1, 0) = Due(t, u)
  BY <1>2, <1>3 DEF Acked
<1>7. Acked(s1, t, u)
  BY <1>5, <1>6 DEF Acked
<1>. QED  BY <1>7 DEF s1

(* The peer learns from a numbered packet how many of its frames are still *)
(* unacknowledged, and the account goes on from there.                     *)
LEMMA AckedTail ==
  ASSUME NEW s \in Seq(Packet), s # <<>>, NEW t, NEW u, Acked(s, t, u)
  PROVE  Acked(Tail(s), t, IF Numbered(s[1]) THEN Behind(t, s[1]) ELSE u)
<1>. DEFINE u1 == IF Numbered(s[1]) THEN Behind(t, s[1]) ELSE u
<1>1. /\ Len(s) \in Nat \ {0} /\ Len(Tail(s)) = Len(s) - 1 /\ Tail(s) \in Seq(Packet)
      /\ \A i \in 1..(Len(s) - 1) : Tail(s)[i] = s[i + 1]
  BY HeadTailProperties, EmptySeq
<1>2. \A i \in Nat : After("ack", Tail(s), i) = After("ack", s, i + 1)
  BY AfterTail
<1>3. After("ack", Tail(s), 0) = Due(t, u1)
  <2>1. After("ack", Tail(s), 0) = After("ack", s, 1)
    BY <1>2
  <2>2. CASE Numbered(s[1])
    <3>1. 1 \in 1..Len(s)
      BY <1>1
    <3>. QED  BY <2>1, <2>2, <3>1 DEF Acked
  <2>3. CASE ~Numbered(s[1])
    <3>1. 0 \in Nat /\ 0 < Len(s) /\ 0 + 1 = 1 /\ 1 \in Nat
      BY <1>1
    <3>2. After("ack", s, 0) = After("ack", s, 1) + (IF s[1].kind = "ack" THEN 1 ELSE 0)
      BY <3>1, AfterStep
    <3>3. After("ack", s, 1) \in Nat
      BY AfterCounts
    <3>. QED  BY <2>1, <2>3, <3>2, <3>3 DEF Acked, Numbered
  <2>. QED  BY <2>2, <2>3
<1>4. ASSUME NEW i \in 1..Len(Tail(s)), Numbered(Tail(s)[i])
      PROVE  /\ Behind(t, Tail(s)[i]) <= u1
             /\ After("ack", Tail(s), i) = Due(t, Behind(t, Tail(s)[i]))
             /\ \A j \in i..Len(Tail(s)) : Numbered(Tail(s)[j])
                  => Behind(t, Tail(s)[j]) <= Behind(t, Tail(s)[i])
  <2>1. /\ i \in Nat /\ Tail(s)[i] = s[i + 1] /\ i + 1 \in 1..Len(s)
        /\ 1 \in 1..Len(s) /\ i + 1 \in 1..Len(s)
    BY <1>1
  <2>2. Behind(t, s[i + 1]) <= u1
    <3>1. CASE Numbered(s[1])
      BY <1>4, <2>1, <3>1 DEF Acked
    <3>2. CASE ~Numbered(s[1])
      BY <1>4, <2>1, <3>2 DEF Acked
    <3>. QED  BY <3>1, <3>2
  <2>3. After("ack", Tail(s), i) = Due(t, Behind(t, s[i + 1]))
    BY <1>2, <1>4, <2>1 DEF Acked
  <2>4. ASSUME NEW j \in i..Len(Tail(s)), Numbered(Tail(s)[j])
        PROVE  Behind(t, Tail(s)[j]) <= Behind(t, s[i + 1])
    <3>1. Tail(s)[j] = s[j + 1] /\ j + 1 \in (i + 1)..Len(s)
      BY <1>1, <2>1
    <3>. QED  BY <1>4, <2>1, <2>4, <3>1 DEF Acked
  <2>. QED  BY <2>1, <2>2, <2>3, <2>4
<1>. QED  BY <1>3, <1>4 DEF Acked

-----------------------------------------------------------------------------
(* The invariant of the account.                                           *)

(* All packets on their way to the peer, the running callback's included.  *)
Transit == InFlight \o callback

(* Until the controller scans, no peer is there to be answered: what is on *)
(* its way are the advertising commands, the scan command as the last.     *)
ScanInv ==
  /\ scanning \in BOOLEAN
  /\ scanning =>
       /\ cmd_cnt = 3
       /\ \A i \in 1..Len(Transit) : Transit[i].kind \in {"ack", "obex", "reply"}
  /\ ~scanning =>
       /\ callback = <<>>
       /\ \A i \in 1..Len(Transit) :
            /\ Transit[i].kind \in {"reset", "name", "scan"}
            /\ Transit[i].kind = "scan" => i = Len(Transit) /\ cmd_cnt = 3

(* What the peer counts is what is on its way.                             *)
CountInv ==
  /\ owed = After("reply", Transit, 0)
  /\ obexOwed = After("obex", Transit, 0) /\ obexOwed <= 1
  /\ unacked \in 0..TxWindow /\ Acked(Transit, txseq, unacked)

Account == ScanInv /\ CountInv

LEMMA TransitType ==
  ASSUME IInv
  PROVE  InFlight \in Seq(Packet) /\ Transit \in Seq(Packet)
<1>1. InFlight \in Seq(Packet)
  <2>1. \A p \in Packet : <<p>> \o queue \in Seq(Packet)
    BY Ahead, ConcatProperties DEF IInv, PacketInv
  <2>. QED  BY <2>1 DEF IInv, PacketInv, InFlight
<1>. QED  BY <1>1, ConcatProperties DEF IInv, PacketInv, Transit

LEMMA Alone ==
  ASSUME IInv, callback = <<>>
  PROVE  Transit = InFlight
BY TransitType, ConcatEmptySeq DEF Transit

(* What both parts keep to, their concatenation keeps to.                  *)
LEMMA KindsConcat ==
  ASSUME NEW K, NEW s \in Seq(Packet), NEW t \in Seq(Packet),
         \A i \in 1..Len(s) : s[i].kind \in K,
         \A i \in 1..Len(t) : t[i].kind \in K
  PROVE  \A i \in 1..Len(s \o t) : (s \o t)[i].kind \in K
<1>1. /\ Len(s) \in Nat /\ Len(t) \in Nat /\ Len(s \o t) = Len(s) + Len(t)
      /\ \A i \in 1..(Len(s) + Len(t)) : (s \o t)[i] =
           IF i <= Len(s) THEN s[i] ELSE t[i - Len(s)]
  BY ConcatProperties, LenProperties
<1>. SUFFICES ASSUME NEW i \in 1..(Len(s) + Len(t))
              PROVE  (s \o t)[i].kind \in K
  BY <1>1
<1>2. CASE i <= Len(s)
  BY <1>1, <1>2
<1>3. CASE ~(i <= Len(s))
  <2>1. i - Len(s) \in 1..Len(t)
    BY <1>1, <1>3
  <2>. QED  BY <1>1, <1>3, <2>1
<1>. QED  BY <1>2, <1>3

(* The callback's packets are on their way before they are queued.         *)
LEMMA QueuedStays ==
  ASSUME IInv, CallbackQueue
  PROVE  Transit' = Transit
<1>1. /\ Head(callback) \in Packet /\ Tail(callback) \in Seq(Packet)
      /\ callback \in Seq(Packet) /\ callback # <<>> /\ callback' = Tail(callback)
  BY HeadTailProperties DEF CallbackQueue, IInv, PacketInv
<1>2. InFlight' = Append(InFlight, Head(callback)) /\ InFlight \in Seq(Packet)
  BY <1>1, QueueIsPut, TransitType DEF CallbackQueue
<1>3. Append(InFlight, Head(callback)) = InFlight \o <<Head(callback)>>
  BY <1>1, <1>2, AppendIsConcat
<1>4. <<Head(callback)>> \in Seq(Packet) /\ <<Head(callback)>> \o Tail(callback) = callback
  BY <1>1, Apart
<1>5. (InFlight \o <<Head(callback)>>) \o Tail(callback) =
        InFlight \o (<<Head(callback)>> \o Tail(callback))
  BY <1>1, <1>2, <1>4, PacketsAssociate
<1>. QED  BY <1>1, <1>2, <1>3, <1>4, <1>5 DEF Transit

LEMMA AccountInit == Init => Account
<1>. SUFFICES ASSUME Init PROVE Account
  OBVIOUS
<1>1. Transit = <<>>
  BY DEF Init, Transit, InFlight
<1>2. Transit \in Seq(Packet) /\ Len(Transit) = 0
  BY <1>1
<1>3. ASSUME NEW k
      PROVE  After(k, Transit, 0) = 0
  <2>1. 0 \in Nat /\ 0 >= Len(Transit)
    BY <1>2
  <2>. QED  BY <1>2, <2>1, AfterCounts
<1>4. Due(0, 0) = 0
  <2>1. AckEvery \in Nat \ {0} /\ 0 % AckEvery = 0 /\ AckEvery - 1 \in 0..(AckEvery - 1)
    BY Constants, Low
  <2>2. (AckEvery * 0 + (AckEvery - 1)) \div AckEvery = 0
    BY <2>1, Division
  <2>3. 0 + (AckEvery - 1) - (0 % AckEvery) = AckEvery * 0 + (AckEvery - 1)
    BY <2>1
  <2>. QED  BY <2>2, <2>3 DEF Due
<1>5. Acked(Transit, 0, 0)
  BY <1>2, <1>3, <1>4 DEF Acked
<1>6. ScanInv
  <2>1. scanning = FALSE /\ callback = <<>>
    BY DEF Init
  <2>2. \A i \in 1..Len(Transit) : FALSE
    BY <1>2
  <2>. QED  BY <2>1, <2>2, Zenon DEF ScanInv
<1>7. CountInv
  BY <1>3, <1>5, Constants DEF Init, CountInv
<1>. QED  BY <1>6, <1>7 DEF Account

LEMMA AccountStep == IInv /\ IInv' /\ Account /\ [Next]_vars => Account'
<1>. SUFFICES ASSUME IInv, IInv', Account, [Next]_vars
              PROVE  Account'
  OBVIOUS
<1>1. Transit \in Seq(Packet) /\ InFlight \in Seq(Packet) /\ Len(Transit) \in Nat
  BY TransitType, LenProperties
<1>2. txseq \in 0..(SeqMod - 1) /\ unacked \in Nat /\ unacked \in 0..TxWindow
      /\ Acked(Transit, txseq, unacked)
  BY Constants DEF IInv, PacketInv, Account, CountInv
<1>3. ASSUME NEW k
      PROVE  After(k, Transit, 0) \in Nat
  BY <1>1, AfterCounts
<1>4. ASSUME Transit' = Transit, UNCHANGED <<scanning, cmd_cnt, txseq, unacked, owed, obexOwed>>,
             ~scanning => callback' = <<>>
      PROVE  Account'
  <2>1. ScanInv'
    BY <1>4 DEF Account, ScanInv
  <2>2. CountInv'
    BY <1>4 DEF Account, CountInv
  <2>. QED  BY <2>1, <2>2 DEF Account
<1>5. CASE Send \/ AdvtCheck \/ UNCHANGED vars
  <2>1. UNCHANGED callback /\ UNCHANGED peer /\ UNCHANGED cmd_cnt
    BY <1>5 DEF Send, SendCheck, SendReceive, SendPacket, AdvtCheck, vars, task, advt
  <2>2. UNCHANGED InFlight
    <3>1. CASE AdvtCheck \/ UNCHANGED vars
      BY <3>1 DEF AdvtCheck, vars, task, InFlight
    <3>2. CASE Send
      BY <3>2, SendMoves
    <3>. QED  BY <1>5, <3>1, <3>2
  <2>3. Transit' = Transit
    BY <2>1, <2>2 DEF Transit
  <2>. QED  BY <1>4, <2>1, <2>3 DEF Account, ScanInv, peer
<1>6. CASE CallbackQueue
  <2>1. Transit' = Transit
    BY <1>6, QueuedStays
  <2>2. scanning /\ UNCHANGED peer /\ UNCHANGED cmd_cnt
    BY <1>6 DEF CallbackQueue, advt, Account, ScanInv
  <2>. QED  BY <1>4, <2>1, <2>2 DEF peer
<1>7. CASE AdvtQueue
  <2>. DEFINE c == Command[cmd_cnt + 1]
  <2>1. cmd_cnt \in 0..2 /\ ~scanning /\ callback = <<>>
    BY <1>7 DEF AdvtQueue, IInv, PacketInv, Account, ScanInv
  <2>2. /\ c \in Packet /\ c.kind \in {"reset", "name", "scan"}
        /\ c.kind = "scan" => cmd_cnt + 1 = 3
    <3>1. /\ Command[1].kind = "reset" /\ Command[2].kind = "name"
          /\ Command[3].kind = "scan"
      BY DEF Command
    <3>2. cmd_cnt = 0 \/ cmd_cnt = 1 \/ cmd_cnt = 2
      BY <2>1
    <3>. QED  BY <3>1, <3>2, Packets
  <2>3. /\ UNCHANGED <<callback, scanning, txseq, unacked, owed, obexOwed>>
        /\ cmd_cnt' = cmd_cnt + 1 /\ queue_packet(c) /\ UNCHANGED task
    BY <1>7 DEF AdvtQueue, peer
  <2>. HIDE DEF c
  <2>4. Transit' = Append(Transit, c)
    <3>1. InFlight' = Append(InFlight, c)
      BY <2>2, <2>3, QueueIsPut
    <3>2. Transit = InFlight /\ InFlight' \in Seq(Packet)
      BY <1>1, <2>1, <2>2, <3>1, Alone, AppendProperties
    <3>3. Transit' = InFlight' \o callback
      BY <2>3 DEF Transit
    <3>. QED  BY <2>1, <3>1, <3>2, <3>3, ConcatEmptySeq
  <2>5. /\ Len(Transit') = Len(Transit) + 1 /\ Transit'[Len(Transit) + 1] = c
        /\ \A i \in 1..Len(Transit) : Transit'[i] = Transit[i]
    BY <1>1, <2>2, <2>4, AppendProperties
  <2>6. ScanInv'
    <3>1. ASSUME NEW i \in 1..Len(Transit')
          PROVE  /\ Transit'[i].kind \in {"reset", "name", "scan"}
                 /\ Transit'[i].kind = "scan" => i = Len(Transit') /\ cmd_cnt' = 3
      <4>1. CASE i = Len(Transit) + 1
        BY <2>2, <2>3, <2>5, <4>1
      <4>2. CASE i # Len(Transit) + 1
        <5>1. i \in 1..Len(Transit) /\ Transit'[i] = Transit[i]
          BY <1>1, <2>5, <4>2
        <5>2. cmd_cnt # 3
          BY <2>1
        <5>. QED  BY <2>1, <5>1, <5>2 DEF Account, ScanInv
      <4>. QED  BY <4>1, <4>2
    <3>. QED  BY <2>1, <2>3, <3>1 DEF Account, ScanInv
  <2>7. CountInv'
    <3>1. ASSUME NEW k \in {"reply", "obex"}
          PROVE  After(k, Transit', 0) = After(k, Transit, 0)
      <4>1. 0 \in Nat /\ 0 <= Len(Transit)
        BY <1>1
      <4>. QED  BY <1>1, <1>3, <2>2, <2>4, <4>1, AfterAppend
    <3>2. Acked(Transit', txseq, unacked)
      BY <1>1, <1>2, <2>2, <2>4, AckedAppend DEF Numbered
    <3>. QED  BY <2>3, <3>1, <3>2 DEF Account, CountInv
  <2>. QED  BY <2>6, <2>7 DEF Account
<1>8. CASE Forward
  <2>1. callback = <<>> /\ vhci # None /\ vhci' = None /\ packet = None
        /\ UNCHANGED <<queue, callback, packet, cmd_cnt, txseq>> /\ vhci \in Packet
    BY <1>8 DEF Forward, advt, IInv, PacketInv, FreeInv
  <2>2. Transit = <<vhci>> \o queue /\ Transit' = queue
    <3>1. InFlight = <<vhci>> \o queue /\ InFlight' = queue /\ queue \in Seq(Packet)
      BY <2>1 DEF InFlight, IInv, PacketInv
    <3>2. Transit' = queue \o <<>>
      BY <2>1, <3>1 DEF Transit
    <3>. QED  BY <2>1, <3>1, <3>2, Alone, ConcatEmptySeq
  <2>3. Transit # <<>> /\ Transit' = Tail(Transit) /\ Transit[1] = vhci
    <3>1. queue \in Seq(Packet) /\ <<vhci>> \in Seq(Packet) /\ Len(<<vhci>>) = 1
      BY <2>1 DEF IInv, PacketInv
    <3>2. Transit[1] = vhci
      BY <2>2, <3>1, ConcatProperties, LenProperties
    <3>. QED  BY <2>1, <2>2, <3>1, <3>2, Ahead
  <2>4. /\ Len(Transit') = Len(Transit) - 1 /\ Len(Transit) > 0
        /\ \A i \in 1..Len(Transit') : Transit'[i] = Transit[i + 1]
    BY <1>1, <2>3, HeadTailProperties, EmptySeq
  <2>5. ASSUME NEW k
        PROVE  After(k, Transit', 0) = After(k, Transit, 0) - (IF vhci.kind = k THEN 1 ELSE 0)
    <3>1. 0 \in Nat /\ 0 < Len(Transit) /\ 0 + 1 = 1 /\ 1 \in Nat
      BY <2>4
    <3>2. After(k, Transit, 0) = After(k, Transit, 1) + (IF vhci.kind = k THEN 1 ELSE 0)
      BY <1>1, <2>3, <3>1, AfterStep
    <3>3. After(k, Tail(Transit), 0) = After(k, Transit, 0 + 1)
      BY <1>1, <2>3, <3>1, AfterTail
    <3>4. After(k, Transit, 1) \in Nat
      BY <1>1, <3>1, AfterCounts
    <3>. QED  BY <2>3, <3>1, <3>2, <3>3, <3>4
  <2>6. ScanInv'
    <3>1. CASE scanning
      <4>1. scanning' /\ cmd_cnt' = 3
        BY <1>8, <2>1, <3>1 DEF Forward, Account, ScanInv
      <4>2. \A i \in 1..Len(Transit') : Transit'[i].kind \in {"ack", "obex", "reply"}
        BY <1>1, <2>4, <3>1 DEF Account, ScanInv
      <4>. QED  BY <4>1, <4>2 DEF ScanInv
    <3>2. CASE ~scanning /\ vhci.kind # "scan"
      <4>1. ~scanning' /\ scanning' \in BOOLEAN /\ callback' = <<>>
        BY <1>8, <2>1, <3>2 DEF Forward
      <4>2. ASSUME NEW i \in 1..Len(Transit')
            PROVE  /\ Transit'[i].kind \in {"reset", "name", "scan"}
                   /\ Transit'[i].kind = "scan" => i = Len(Transit') /\ cmd_cnt' = 3
        <5>1. i + 1 \in 1..Len(Transit) /\ Transit'[i] = Transit[i + 1]
          BY <1>1, <2>4
        <5>. QED  BY <1>1, <2>1, <2>4, <3>2, <5>1 DEF Account, ScanInv
      <4>. QED  BY <4>1, <4>2 DEF ScanInv
    <3>3. CASE ~scanning /\ vhci.kind = "scan"
      <4>1. 1 \in 1..Len(Transit)
        BY <1>1, <2>4
      <4>2. 1 = Len(Transit) /\ cmd_cnt = 3
        BY <2>3, <3>3, <4>1 DEF Account, ScanInv
      <4>3. scanning' = TRUE
        BY <1>8, <3>3, Zenon DEF Forward
      <4>4. cmd_cnt' = 3
        BY <2>1, <4>2
      <4>5. Len(Transit') = 0
        <5>1. Len(Transit') = Len(Transit) - 1
          BY <2>4
        <5>2. Len(Transit) = 1 /\ 1 - 1 = 0
          BY <4>2
        <5>. QED  BY <5>1, <5>2, Zenon
      <4>6. \A i \in 1..Len(Transit') : FALSE
        BY <4>5
      <4>. QED  BY <4>3, <4>4, <4>6, Zenon DEF ScanInv
    <3>. QED  BY <3>1, <3>2, <3>3 DEF Account, ScanInv
  <2>7. CountInv'
    <3>1. /\ owed' = After("reply", Transit', 0)
          /\ obexOwed' = After("obex", Transit', 0) /\ obexOwed' <= 1
      <4>1. owed' = After("reply", Transit', 0) /\ obexOwed' = After("obex", Transit', 0)
        BY <1>3, <1>8, <2>5 DEF Forward, Account, CountInv
      <4>2. obexOwed' <= obexOwed /\ obexOwed \in Nat /\ obexOwed' \in Int
        BY <1>3, <1>8 DEF Forward, Account, CountInv
      <4>. QED  BY <4>1, <4>2, Constants DEF Account, CountInv
    <3>2. unacked' = IF Numbered(Transit[1]) THEN Behind(txseq, Transit[1]) ELSE unacked
      BY <1>8, <2>3 DEF Forward, Numbered, Behind
    <3>3. Acked(Transit', txseq', unacked')
      BY <1>1, <1>2, <2>1, <2>3, <3>2, AckedTail
    <3>4. unacked' \in 0..TxWindow
      <4>1. CASE Numbered(vhci)
        <5>1. vhci.tx \in Nat
          BY <2>1, <4>1, NumberedPacket, Constants
        <5>2. Behind(txseq, vhci) \in 0..(SeqMod - 1)
          BY <1>2, <5>1, BehindIs
        <5>3. 1 \in 1..Len(Transit)
          BY <1>1, <2>4
        <5>4. Behind(txseq, vhci) <= unacked
          BY <1>2, <2>3, <4>1, <5>3 DEF Acked
        <5>. QED  BY <1>2, <2>3, <3>2, <4>1, <5>2, <5>4, Constants
      <4>2. CASE ~Numbered(vhci)
        BY <1>2, <2>3, <3>2, <4>2
      <4>. QED  BY <4>1, <4>2
    <3>. QED  BY <3>1, <3>3, <3>4 DEF CountInv
  <2>. QED  BY <2>6, <2>7 DEF Account
<1>9. CASE Request \/ \E answers \in BOOLEAN : Frame(answers)
  <2>1. scanning /\ callback = <<>> /\ Transit = InFlight
    BY <1>9, Alone DEF Request, Frame
  <2>2. /\ UNCHANGED <<queue, packet, vhci, cmd_cnt, scanning>>
        /\ callback' \in Seq(Packet)
    BY <1>9 DEF Request, Frame, task, advt, IInv, PacketInv
  <2>3. Transit' = Transit \o callback'
    <3>1. InFlight' = InFlight
      BY <2>2 DEF InFlight
    <3>. QED  BY <2>1, <3>1 DEF Transit
  <2>4. cmd_cnt = 3 /\ \A i \in 1..Len(Transit) : Transit[i].kind \in {"ack", "obex", "reply"}
    BY <2>1 DEF Account, ScanInv
  <2>5. ASSUME \A i \in 1..Len(callback') : callback'[i].kind \in {"ack", "obex", "reply"}
        PROVE  ScanInv'
    <3>1. \A i \in 1..Len(Transit') : Transit'[i].kind \in {"ack", "obex", "reply"}
      <4>1. /\ Len(Transit') = Len(Transit) + Len(callback') /\ Len(callback') \in Nat
            /\ \A i \in 1..(Len(Transit) + Len(callback')) : Transit'[i] =
                 IF i <= Len(Transit) THEN Transit[i] ELSE callback'[i - Len(Transit)]
        BY <1>1, <2>2, <2>3, ConcatProperties, LenProperties
      <4>. QED  BY <1>1, <2>4, <2>5, <4>1
    <3>. QED  BY <2>1, <2>2, <2>4, <3>1, Zenon DEF Account, ScanInv
  <2>6. 0 \in Nat /\ \A s \in Seq(Packet) : 0 <= Len(s)
    BY LenProperties
  <2>7. CASE Request
    <3>1. PICK n \in 1..2 : /\ owed' = owed + n
                            /\ callback' = [i \in 1..n |-> Reply]
      BY <2>7 DEF Request
    <3>2. UNCHANGED <<txseq, unacked, obexOwed>>
      BY <2>7 DEF Request
    <3>3. /\ Reply \in Packet /\ Reply.kind = "reply" /\ ~Numbered(Reply)
          /\ <<Reply>> \in Seq(Packet)
      BY Packets DEF Reply, Numbered
    <3>4. ScanInv'
      <4>1. \A i \in 1..Len(callback') : callback'[i].kind \in {"ack", "obex", "reply"}
        BY <3>1, <3>3
      <4>. QED  BY <2>5, <4>1
    <3>. DEFINE s1 == Append(Transit, Reply)
                s2 == Append(s1, Reply)
    <3>5. /\ s1 \in Seq(Packet) /\ s2 \in Seq(Packet)
          /\ s1 = Transit \o <<Reply>> /\ s2 = s1 \o <<Reply>>
      BY <1>1, <3>3, AppendProperties, AppendIsConcat
    <3>6. Transit' = IF n = 1 THEN s1 ELSE s2
      <4>1. CASE n = 1
        <5>1. callback' = <<Reply>>
          BY <3>1, <4>1
        <5>. QED  BY <2>3, <3>5, <4>1, <5>1
      <4>2. CASE n = 2
        <5>1. callback' = <<Reply>> \o <<Reply>>
          BY <3>1, <4>2
        <5>2. Transit \o (<<Reply>> \o <<Reply>>) = (Transit \o <<Reply>>) \o <<Reply>>
          BY <1>1, <3>3, PacketsAssociate
        <5>. QED  BY <2>3, <3>5, <4>2, <5>1, <5>2
      <4>. QED  BY <4>1, <4>2
    <3>. HIDE DEF s2
    <3>7. ASSUME NEW k
          PROVE  /\ After(k, s1, 0) = After(k, Transit, 0) + (IF k = "reply" THEN 1 ELSE 0)
                 /\ After(k, s2, 0) = After(k, s1, 0) + (IF k = "reply" THEN 1 ELSE 0)
      <4>1. After(k, s1, 0) = After(k, Transit, 0) + (IF k = "reply" THEN 1 ELSE 0)
        BY <1>1, <2>6, <3>3, AfterAppend
      <4>. HIDE DEF s1
      <4>2. After(k, s2, 0) = After(k, s1, 0) + (IF k = "reply" THEN 1 ELSE 0)
        <5>1. s1 \in Seq(Packet) /\ 0 \in Nat /\ 0 <= Len(s1)
          BY <2>6, <3>5
        <5>2. After(k, Append(s1, Reply), 0) =
                After(k, s1, 0) + (IF Reply.kind = k THEN 1 ELSE 0)
          BY <3>3, <5>1, AfterAppend
        <5>. QED  BY <3>3, <5>2 DEF s2
      <4>. QED  BY <4>1, <4>2
    <3>8. Acked(s1, txseq, unacked)
      BY <1>1, <1>2, <3>3, AckedAppend
    <3>. HIDE DEF s1
    <3>9. Acked(s2, txseq, unacked)
      BY <1>2, <3>3, <3>5, <3>8, AckedAppend DEF s2
    <3>10. After("reply", Transit', 0) = After("reply", Transit, 0) + n
           /\ After("obex", Transit', 0) = After("obex", Transit, 0)
      BY <1>3, <3>6, <3>7
    <3>11. CountInv'
      BY <1>2, <3>1, <3>2, <3>6, <3>8, <3>9, <3>10 DEF Account, CountInv
    <3>. QED  BY <3>4, <3>11 DEF Account
  <2>8. CASE \E answers \in BOOLEAN : Frame(answers)
    <3>1. PICK answers \in BOOLEAN : Frame(answers)
      BY <2>8
    <3>. DEFINE a == Ack(txseq + 1)
                o == ObexReply(txseq + 1)
                A == IF AckDue(txseq) THEN <<a>> ELSE <<>>
                O == IF answers THEN <<o>> ELSE <<>>
                s1 == IF AckDue(txseq) THEN Append(Transit, a) ELSE Transit
                s2 == IF answers THEN Append(s1, o) ELSE s1
                t2 == (txseq + 1) % SeqMod
    <3>2. /\ a \in Packet /\ a.kind = "ack"
          /\ o \in Packet /\ o.kind = "obex" /\ o.tx = txseq + 1
      <4>1. txseq + 1 \in 1..SeqMod
        BY <1>2, Constants
      <4>. QED  BY <4>1, Packets DEF Ack, ObexReply
    <3>3. /\ callback' = A \o O /\ unacked < TxWindow
          /\ answers => obexOwed = 0
          /\ obexOwed' = IF answers THEN 1 ELSE obexOwed
          /\ txseq' = t2 /\ unacked' = unacked + 1 /\ owed' = owed
      BY <3>1 DEF Frame
    <3>4. Acked(s1, t2, unacked + 1)
      BY <1>1, <1>2, <3>3, Constants, AckedFrame
    <3>5. Behind(t2, o) = 0 /\ Due(t2, 0) = 0 /\ t2 \in 0..(SeqMod - 1)
      BY <1>2, <3>2, BehindNone, DueNext, NextNumber
    <3>. HIDE DEF a, o, t2
    <3>6. /\ A \in Seq(Packet) /\ O \in Seq(Packet)
          /\ \A i \in 1..Len(A) : A[i].kind \in {"ack", "obex", "reply"}
          /\ \A i \in 1..Len(O) : O[i].kind \in {"ack", "obex", "reply"}
      BY <3>2
    <3>7. /\ s1 \in Seq(Packet) /\ s1 = Transit \o A
          /\ \A k : After(k, s1, 0) = After(k, Transit, 0)
                      + (IF AckDue(txseq) /\ k = "ack" THEN 1 ELSE 0)
      <4>1. CASE AckDue(txseq)
        <5>1. s1 = Append(Transit, a) /\ A = <<a>>
          BY <4>1
        <5>2. ASSUME NEW k
              PROVE  After(k, Append(Transit, a), 0) = After(k, Transit, 0)
                       + (IF a.kind = k THEN 1 ELSE 0)
          BY <1>1, <2>6, <3>2, AfterAppend
        <5>. QED  BY <1>1, <3>2, <4>1, <5>1, <5>2, AppendProperties, AppendIsConcat
      <4>2. CASE ~AckDue(txseq)
        <5>1. s1 = Transit /\ A = <<>>
          BY <4>2
        <5>. QED  BY <1>1, <1>3, <4>2, <5>1, ConcatEmptySeq
      <4>. QED  BY <4>1, <4>2
    <3>. HIDE DEF s1
    <3>8. ASSUME NEW k
          PROVE  After(k, s1, 0) \in Nat
      BY <2>6, <3>7, AfterCounts
    <3>9. /\ s2 = s1 \o O
          /\ \A k : After(k, s2, 0) = After(k, s1, 0) + (IF answers /\ k = "obex" THEN 1 ELSE 0)
          /\ Acked(s2, t2, unacked + 1)
      <4>1. CASE answers
        <5>1. s2 = Append(s1, o) /\ O = <<o>>
          BY <4>1
        <5>2. ASSUME NEW k
              PROVE  After(k, Append(s1, o), 0) = After(k, s1, 0)
                       + (IF o.kind = k THEN 1 ELSE 0)
          <6>1. s1 \in Seq(Packet) /\ 0 \in Nat /\ 0 <= Len(s1)
            BY <2>6, <3>7
          <6>. QED  BY <3>2, <6>1, AfterAppend
        <5>3. Acked(Append(s1, o), t2, unacked + 1)
          <6>1. unacked + 1 \in Nat /\ o.kind # "ack"
            BY <1>2, <3>2
          <6>. QED  BY <3>2, <3>4, <3>5, <3>7, <6>1, AckedAppend
        <5>. QED  BY <3>2, <3>7, <4>1, <5>1, <5>2, <5>3, AppendIsConcat
      <4>2. CASE ~answers
        <5>1. s2 = s1 /\ O = <<>>
          BY <4>2
        <5>2. s2 = s1 \o O
          BY <3>7, <5>1, ConcatEmptySeq
        <5>3. ASSUME NEW k
              PROVE  After(k, s2, 0) = After(k, s1, 0) + (IF answers /\ k = "obex" THEN 1 ELSE 0)
          BY <3>8, <4>2, <5>1
        <5>4. Acked(s2, t2, unacked + 1)
          BY <3>4, <5>1
        <5>. QED  BY <5>2, <5>3, <5>4
      <4>. QED  BY <4>1, <4>2
    <3>. HIDE DEF s2, A, O
    <3>10. Transit' = s2
      <4>1. Transit \o (A \o O) = (Transit \o A) \o O
        BY <1>1, <3>6, PacketsAssociate
      <4>. QED  BY <2>3, <3>3, <3>7, <3>9, <4>1
    <3>11. ScanInv'
      <4>1. \A i \in 1..Len(A \o O) : (A \o O)[i].kind \in {"ack", "obex", "reply"}
        BY <3>6, KindsConcat
      <4>2. \A i \in 1..Len(callback') : callback'[i].kind \in {"ack", "obex", "reply"}
        BY <3>3, <4>1
      <4>. QED  BY <2>5, <4>2
    <3>12. /\ After("reply", Transit', 0) = After("reply", Transit, 0)
           /\ After("obex", Transit', 0) = After("obex", Transit, 0) + (IF answers THEN 1 ELSE 0)
      <4>1. ASSUME NEW k, k # "ack"
            PROVE  After(k, s2, 0) = After(k, Transit, 0) + (IF answers /\ k = "obex" THEN 1 ELSE 0)
        <5>1. After(k, s1, 0) = After(k, Transit, 0)
          BY <1>3, <3>7, <4>1
        <5>. QED  BY <3>9, <5>1
      <4>. QED  BY <1>3, <3>10, <4>1
    <3>13. CountInv'
      <4>1. Acked(Transit', txseq', unacked')
        BY <3>3, <3>9, <3>10
      <4>2. unacked' \in 0..TxWindow
        BY <1>2, <3>3, Constants
      <4>3. owed' = After("reply", Transit', 0)
        BY <3>3, <3>12 DEF Account, CountInv
      <4>4. obexOwed' = After("obex", Transit', 0) /\ obexOwed' <= 1
        BY <1>3, <3>3, <3>12 DEF Account, CountInv
      <4>. QED  BY <4>1, <4>2, <4>3, <4>4 DEF CountInv
    <3>. QED  BY <3>11, <3>13 DEF Account
  <2>. QED  BY <1>9, <2>7, <2>8
<1>. QED  BY <1>5, <1>6, <1>7, <1>8, <1>9 DEF Next, Advertise

LEMMA AccountInvariant == Spec => []Account
BY Invariant, AccountInit, AccountStep, PTL DEF Spec

(* The types, with the numbers the peer keeps: it never has more frames    *)
(* unacknowledged, nor more OBEX responses open, than it may.              *)
THEOREM TransportTypeCorrect == Spec => []TypeOK
<1>1. IInv /\ Account => TypeOK
  <2>. SUFFICES ASSUME IInv, Account PROVE TypeOK
    OBVIOUS
  <2>1. After("reply", Transit, 0) \in Nat /\ After("obex", Transit, 0) \in Nat
    BY TransitType, AfterCounts
  <2>2. owed \in Nat /\ obexOwed \in 0..1 /\ unacked \in 0..TxWindow
    BY <2>1, Constants DEF Account, CountInv
  <2>3. scanning \in BOOLEAN /\ advertiser \in {"delay", "queueing"}
    BY DEF Account, ScanInv, IInv, PacketInv
  <2>. QED  BY <2>2, <2>3 DEF IInv, PacketInv, TypeOK
<1>. QED  BY <1>1, Invariant, AccountInvariant, PTL

(* A callback waits for the controller it occupies only when more replies  *)
(* are under way than there are slots beside an upload's own packets: the  *)
(* full queue, the controller and the callback hold SEND_BUFFER_SIZE + 2   *)
(* packets, of which a full window and one response explain the rest.      *)
THEOREM OnlyRepliesWedge == Spec => []WedgeTakesReplies
<1>1. ASSUME IInv, Account PROVE WedgeTakesReplies
  <2>. SUFFICES ASSUME callback # <<>>, Len(queue) = SEND_BUFFER_SIZE, vhci # None
                PROVE  owed > Spare
    BY DEF WedgeTakesReplies, Wedged
  <2>1. Len(Transit) >= SEND_BUFFER_SIZE + 2
    <3>1. /\ callback \in Seq(Packet) /\ Len(callback) \in Nat \ {0}
          /\ InFlight \in Seq(Packet)
      BY <1>1, TransitType, EmptySeq, LenProperties DEF IInv, PacketInv
    <3>2. Len(InFlight) = SEND_BUFFER_SIZE + 1
      <4>1. vhci \in Packet /\ queue \in Seq(Packet) /\ InFlight = <<vhci>> \o queue
        BY <1>1 DEF IInv, PacketInv, InFlight
      <4>. QED  BY <4>1, Ahead
    <3>3. Len(Transit) = Len(InFlight) + Len(callback)
      BY <3>1, ConcatProperties DEF Transit
    <3>. QED  BY <3>1, <3>2, <3>3, Constants
  <2>2. Len(Transit) = After("ack", Transit, 0) + owed + obexOwed
    <3>1. scanning
      BY <1>1 DEF Account, ScanInv
    <3>2. /\ Transit \in Seq(Packet)
          /\ \A i \in 1..Len(Transit) : Transit[i].kind \in {"ack", "obex", "reply"}
      BY <1>1, <3>1, TransitType DEF Account, ScanInv
    <3>3. Len(Transit) = After("ack", Transit, 0) + After("obex", Transit, 0)
                           + After("reply", Transit, 0)
      BY <3>2, AfterAll
    <3>4. After("ack", Transit, 0) \in Nat /\ owed \in Nat /\ obexOwed \in Nat
          /\ owed = After("reply", Transit, 0) /\ obexOwed = After("obex", Transit, 0)
      BY <1>1, <3>2, AfterCounts DEF Account, CountInv
    <3>. QED  BY <3>3, <3>4
  <2>3. After("ack", Transit, 0) <= (TxWindow + AckEvery - 1) \div AckEvery
    <3>. DEFINE n == unacked + (AckEvery - 1) - (txseq % AckEvery)
                m == TxWindow + AckEvery - 1
    <3>1. After("ack", Transit, 0) = n \div AckEvery
      BY <1>1 DEF Account, CountInv, Acked, Due
    <3>2. AckEvery \in Nat \ {0} /\ txseq \in Nat /\ unacked \in 0..TxWindow
      BY <1>1, Constants DEF IInv, PacketInv, Account, CountInv
    <3>3. txseq % AckEvery \in 0..(AckEvery - 1)
      BY <3>2, Quotient
    <3>4. n \in Nat /\ m \in Nat /\ n <= m
      BY <3>2, <3>3, Constants
    <3>. HIDE DEF n, m
    <3>5. n \div AckEvery <= m \div AckEvery
      BY <3>2, <3>4, DivGrows
    <3>. QED  BY <3>1, <3>5 DEF m
  <2>4. obexOwed <= 1 /\ owed \in Nat /\ obexOwed \in Nat
        /\ After("ack", Transit, 0) \in Nat
    BY <1>1, TransitType, AfterCounts DEF Account, CountInv
  <2>5. (TxWindow + AckEvery - 1) \div AckEvery \in Nat
    BY Constants
  <2>. QED  BY <2>1, <2>2, <2>3, <2>4, <2>5, Constants DEF Spare
<1>. QED  BY <1>1, Invariant, AccountInvariant, PTL

=============================================================================
