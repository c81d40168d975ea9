---------------------------- MODULE L2capMux_proof ----------------------------
(* Theorems of L2capMux, for any devices, ids and widths.                  *)
EXTENDS L2capMux, TLAPS

(* Ids are handed out in order while they fit obex_cid.                    *)
CidInv ==
  /\ opened < ByteMod - FirstCid => dest_cid = FirstCid + opened
  /\ opened <= ByteMod - FirstCid =>
       /\ \A c \in channels : c.cid = FirstCid + c.n - 1
       /\ lastObex = 0 => obex_cid = 0
       /\ lastObex # 0 => obex_cid = FirstCid + lastObex - 1

(* Channels are numbered in the order they were opened; src_cid is the     *)
(* newest one's.                                                           *)
OrderInv ==
  /\ lastObex <= opened
  /\ \A c \in channels :
       /\ c.n <= opened
       /\ c.service = "sdp" => c.n # lastObex
       /\ c.n = opened => src_cid = c.peer

IInv == TypeOK /\ CidInv /\ OrderInv

LEMMA SmallMod == ASSUME NEW x \in Nat, NEW m \in Nat, x < m PROVE x % m = x
  BY SMT

LEMMA InitInv == Init => IInv /\ AnswersArrive
  <1> SUFFICES ASSUME Init PROVE IInv /\ AnswersArrive
    OBVIOUS
  <1>1. TypeOK
    BY CidAssumption DEF Init, TypeOK
  <1>2. CidInv /\ OrderInv /\ AnswersArrive
    BY CidAssumption DEF Init, CidInv, OrderInv, AnswersArrive
  <1> QED BY <1>1, <1>2 DEF IInv

LEMMA ReplyOf ==
  ASSUME NEW r, NEW s, NEW t \in {<< >>, <<r>>, <<r, s>>}, r \in Reply, s \in Reply
  PROVE  t \in Seq(Reply) /\ Range(t) \subseteq {r, s}
  <1>1. CASE t = << >>
    BY <1>1 DEF Range
  <1>2. CASE t = <<r>>
    <2>1. DOMAIN t = {1} /\ t[1] = r
      BY <1>2
    <2> QED BY <1>2, <2>1 DEF Range
  <1>3. CASE t = <<r, s>>
    <2>1. DOMAIN t = {1, 2} /\ t[1] = r /\ t[2] = s
      BY <1>3
    <2> QED BY <1>3, <2>1 DEF Range
  <1> QED BY <1>1, <1>2, <1>3

LEMMA ReplyRepeated ==
  ASSUME NEW r \in Reply, NEW t \in {<< >>, <<r>>, <<r, r>>}
  PROVE  t \in Seq(Reply) /\ Range(t) \subseteq {r}
  <1>1. CASE t = << >>
    BY <1>1 DEF Range
  <1>2. CASE t = <<r>>
    <2>1. DOMAIN t = {1} /\ t[1] = r
      BY <1>2
    <2> QED BY <1>2, <2>1 DEF Range
  <1>3. CASE t = <<r, r>>
    <2>1. DOMAIN t = {1, 2} /\ t[1] = r /\ t[2] = r
      BY <1>3
    <2> QED BY <1>3, <2>1 DEF Range
  <1> QED BY <1>1, <1>2, <1>3

(* The steps that only answer, on the channel c.                           *)
LEMMA AnswerStep ==
  ASSUME IInv, NEW c \in channels, NEW kind, NEW to,
         To(kind, to) \in Reply,
         to \in {0, c.peer, src_cid},
         replies' \in {<< >>, <<To(kind, to)>>, <<To(kind, to), To(kind, to)>>}, asked' = c,
         UNCHANGED <<connected, dest_cid, src_cid, obex_cid, peers>>,
         mtu' \in {"none", "asked", "1024"}
  PROVE  IInv' /\ AnswersArrive'
  <1>1. replies' \in Seq(Reply) /\ Range(replies') \subseteq {To(kind, to)}
    BY ReplyRepeated
  <1>2. TypeOK'
    BY <1>1 DEF IInv, TypeOK, peers
  <1>3. CidInv' /\ OrderInv'
    BY DEF IInv, CidInv, OrderInv, peers
  <1>4. c \in Channel /\ opened \in Nat /\ c.n \in Nat /\ c.n <= opened
    BY DEF IInv, TypeOK, OrderInv, Channel
  <1>5. ASSUME c.n = opened PROVE to \in {0, c.peer}
    BY <1>5 DEF IInv, OrderInv
  <1>6. AnswersArrive'
    BY <1>1, <1>4, <1>5 DEF AnswersArrive, To, peers
  <1> QED BY <1>2, <1>3, <1>6 DEF IInv

(* The steps that are about no channel.                                    *)
LEMMA LinkStep ==
  ASSUME IInv, NEW kind, To(kind, 0) \in Reply,
         replies' \in {<< >>, <<To(kind, 0)>>}, asked' = NoChannel,
         links' \subseteq Device, channels' \subseteq channels,
         UNCHANGED <<numbers, opened, lastObex>>
  PROVE  IInv' /\ AnswersArrive'
  <1>1. replies' \in Seq(Reply)
    BY ReplyOf
  <1>2. TypeOK'
    BY <1>1 DEF IInv, TypeOK, numbers
  <1>3. CidInv' /\ OrderInv' /\ AnswersArrive'
    BY DEF IInv, CidInv, OrderInv, AnswersArrive, numbers
  <1> QED BY <1>2, <1>3 DEF IInv

LEMMA ConnReqStep ==
  ASSUME IInv, NEW d \in Device, NEW service \in Service, NEW peer \in PeerCid,
         ConnReq(d, service, peer)
  PROVE  IInv' /\ AnswersArrive'
  <1> DEFINE c == [device |-> d, service |-> service, cid |-> dest_cid,
                   peer |-> peer, n |-> opened + 1]
             first == To("conn_res", peer)
             second == To(IF service = "obex" THEN "conf_req_ertm" ELSE "conf_req_basic", peer)
  <1> USE CidAssumption
  <1>0. /\ opened \in Nat /\ opened < MaxOpens /\ opened' = opened + 1
        /\ dest_cid \in Nat /\ dest_cid < CidMod
        /\ lastObex \in Nat /\ lastObex <= opened
        /\ channels' = channels \union {c} /\ asked' = c
        /\ replies' = <<first, second>> /\ src_cid' = peer
        /\ channels \subseteq Channel
    BY DEF IInv, TypeOK, OrderInv, ConnReq
  <1>1. first \in Reply /\ second \in Reply /\ first.to = peer /\ second.to = peer
    BY DEF To, Reply
  <1>2. replies' \in Seq(Reply) /\ Range(replies') \subseteq {first, second}
    BY <1>0, <1>1, ReplyOf
  <1>3. c \in Channel
    BY <1>0 DEF Channel
  <1>4. dest_cid' \in 0..(CidMod - 1) /\ dest_cid % ByteMod \in 0..(ByteMod - 1)
    BY <1>0 DEF ConnReq, NextCid
  <1>5. TypeOK'
    BY <1>0, <1>2, <1>3, <1>4 DEF IInv, TypeOK, ConnReq
  <1>6. lastObex' = IF service = "obex" THEN opened + 1 ELSE lastObex
    BY DEF ConnReq
  <1>7. OrderInv'
    <2>1. lastObex' <= opened'
      BY <1>0, <1>6
    <2>2. ASSUME NEW e \in channels
          PROVE  e.n \in Nat /\ e.n <= opened /\ (e.service = "sdp" => e.n # lastObex)
      BY <1>0 DEF IInv, OrderInv, Channel
    <2>3. ASSUME NEW e \in channels
          PROVE  e.n <= opened' /\ (e.service = "sdp" => e.n # lastObex') /\ e.n # opened'
      BY <1>0, <1>6, <2>2
    <2>4. c.n = opened + 1 /\ c.service = service /\ c.peer = peer
      OBVIOUS
    <2>5. c.service = "sdp" => c.n # lastObex'
      BY <1>0, <1>6, <2>4
    <2> HIDE DEF c
    <2> QED BY <1>0, <2>1, <2>3, <2>4, <2>5 DEF OrderInv
  <1>8. CidInv'
    <2>1. ASSUME opened' < ByteMod - FirstCid PROVE dest_cid' = FirstCid + opened'
      <3>1. dest_cid = FirstCid + opened
        BY <1>0, <2>1 DEF IInv, CidInv
      <3>2. dest_cid + 1 \in Nat /\ dest_cid + 1 < CidMod
        BY <1>0, <2>1, <3>1
      <3>3. dest_cid' = dest_cid + 1
        BY <3>2, SmallMod DEF ConnReq, NextCid
      <3> QED BY <1>0, <3>1, <3>3
    <2>2. ASSUME opened' <= ByteMod - FirstCid
          PROVE  /\ \A e \in channels' : e.cid = FirstCid + e.n - 1
                 /\ lastObex' = 0 => obex_cid' = 0
                 /\ lastObex' # 0 => obex_cid' = FirstCid + lastObex' - 1
      <3>1. dest_cid = FirstCid + opened /\ dest_cid < ByteMod /\ opened <= ByteMod - FirstCid
        BY <1>0, <2>2 DEF IInv, CidInv
      <3>2. dest_cid % ByteMod = dest_cid
        BY <1>0, <3>1, SmallMod
      <3>3. obex_cid' = IF service = "obex" THEN dest_cid ELSE obex_cid
        BY <3>2 DEF ConnReq
      <3>4. \A e \in channels : e.cid = FirstCid + e.n - 1
        BY <3>1 DEF IInv, CidInv
      <3>5. c.cid = FirstCid + c.n - 1
        BY <1>0, <3>1
      <3>6. /\ lastObex = 0 => obex_cid = 0
            /\ lastObex # 0 => obex_cid = FirstCid + lastObex - 1
        BY <3>1 DEF IInv, CidInv
      <3>7. \A e \in channels' : e.cid = FirstCid + e.n - 1
        <4> HIDE DEF c
        <4> QED BY <1>0, <3>4, <3>5
      <3>8. CASE service = "obex"
        BY <1>0, <1>6, <3>1, <3>3, <3>7, <3>8
      <3>9. CASE service # "obex"
        BY <1>6, <3>3, <3>6, <3>7, <3>9
      <3> QED BY <3>8, <3>9
    <2> QED BY <2>1, <2>2 DEF CidInv
  <1>9. AnswersArrive'
    <2>1. c.peer = peer
      OBVIOUS
    <2> QED BY <1>0, <1>1, <1>2, <2>1 DEF AnswersArrive
  <1> QED BY <1>5, <1>7, <1>8, <1>9 DEF IInv

LEMMA DisconnReqStep ==
  ASSUME IInv, NEW c \in channels, DisconnReq(c)
  PROVE  IInv' /\ AnswersArrive'
  <1>1. c \in Channel /\ To("disconn_res", c.peer) \in Reply
    BY DEF IInv, TypeOK, Channel, To, Reply
  <1>2. replies' \in Seq(Reply) /\ Range(replies') \subseteq {To("disconn_res", c.peer)}
    BY <1>1, ReplyOf DEF DisconnReq
  <1>3. TypeOK'
    BY <1>1, <1>2 DEF IInv, TypeOK, DisconnReq, numbers
  <1>4. CidInv' /\ OrderInv'
    BY DEF IInv, CidInv, OrderInv, DisconnReq, numbers
  <1>5. AnswersArrive'
    BY <1>2 DEF AnswersArrive, DisconnReq, To
  <1> QED BY <1>3, <1>4, <1>5 DEF IInv

LEMMA StepInv == IInv /\ AnswersArrive /\ [Next]_vars => IInv' /\ AnswersArrive'
  <1> SUFFICES ASSUME IInv, AnswersArrive, [Next]_vars PROVE IInv' /\ AnswersArrive'
    OBVIOUS
  <1> DEFINE Kinds == {"accept_link", "reject_link", "pin", "info_res"}
  <1>1. \A kind \in Kinds : To(kind, 0) \in Reply
    BY DEF To, Reply
  <1>2. links \subseteq Device /\ src_cid \in PeerCid \union {0} /\ connected = 0
        /\ mtu \in {"none", "asked", "1024"} /\ channels \subseteq Channel
    BY DEF IInv, TypeOK
  <1>3. ASSUME NEW d \in Device, LinkRequest(d) PROVE IInv' /\ AnswersArrive'
    <2>1. replies' = <<To("accept_link", 0)>> /\ links' \subseteq Device
      BY <1>2, <1>3 DEF LinkRequest
    <2> QED BY <1>1, <1>2, <1>3, <2>1, LinkStep DEF LinkRequest
  <1>4. ASSUME NEW d \in Device, PinCodeRequest(d) PROVE IInv' /\ AnswersArrive'
    BY <1>1, <1>2, <1>4, LinkStep DEF PinCodeRequest, peers
  <1>5. ASSUME NEW d \in Device, LinkLost(d) PROVE IInv' /\ AnswersArrive'
    <2>1. links' \subseteq Device /\ channels' \subseteq channels
      BY <1>2, <1>5 DEF LinkLost
    <2> QED BY <1>1, <1>5, <2>1, LinkStep DEF LinkLost
  <1>6. ASSUME NEW d \in Device, InfoReq(d) PROVE IInv' /\ AnswersArrive'
    BY <1>1, <1>2, <1>6, LinkStep DEF InfoReq, peers
  <1>7. ASSUME NEW c \in channels, ConfRes(c) PROVE IInv' /\ AnswersArrive'
    <2>1. To("conf_res", src_cid) \in Reply
      BY <1>2 DEF To, Reply
    <2> QED BY <1>2, <1>7, <2>1, AnswerStep DEF ConfRes, numbers
  <1>8. ASSUME NEW c \in channels, NEW options, ConfReq(c, options) PROVE IInv' /\ AnswersArrive'
    <2>1. To("conf_res", src_cid) \in Reply /\ To("empty", 0) \in Reply
      BY <1>2 DEF To, Reply
    <2>2. CASE options = "other"
      BY <1>2, <1>8, <2>1, <2>2, AnswerStep DEF ConfReq
    <2>3. CASE options # "other"
      BY <1>2, <1>8, <2>1, <2>3, AnswerStep DEF ConfReq
    <2> QED BY <2>2, <2>3
  <1>9. ASSUME NEW c \in channels, Frame(c) PROVE IInv' /\ AnswersArrive'
    <2> DEFINE reply == To(HandlerOf(c.cid), src_cid)
    <2>1. HandlerOf(c.cid) \in {"obex", "sdp"}
      BY <1>9 DEF Frame, HandlerOf
    <2>2. reply \in Reply
      BY <1>2, <2>1 DEF To, Reply
    <2>3. replies' \in {<< >>, <<reply>>, <<reply, reply>>}
      BY <1>9 DEF Frame
    <2> QED BY <1>2, <1>9, <2>2, <2>3, AnswerStep DEF Frame, numbers
  <1>10. CASE UNCHANGED vars
    BY <1>10 DEF vars, numbers, peers, IInv, TypeOK, CidInv, OrderInv, AnswersArrive
  <1> QED BY <1>3, <1>4, <1>5, <1>6, <1>7, <1>8, <1>9, <1>10, ConnReqStep,
             DisconnReqStep DEF Next

(* Frames reach the service of their channel as long as the ids fit: from  *)
(* CidInv, ids of different channels differ and none is Signalling.        *)
THEOREM FramesReachService == Spec => []ToItsService
  <1>1. IInv => ToItsService
    <2> SUFFICES ASSUME IInv, opened <= ByteMod - FirstCid, NEW c \in channels,
                        c.service = "sdp" \/ c.n = lastObex
                 PROVE  HandlerOf(c.cid) = c.service
      BY DEF ToItsService
    <2>1. c \in Channel /\ c.n \in Nat /\ c.n > 0 /\ c.service \in Service
          /\ lastObex \in Nat /\ opened \in Nat
      BY DEF IInv, TypeOK, Channel
    <2>2. c.cid = FirstCid + c.n - 1 /\ c.cid # Signalling
      BY <2>1, CidAssumption DEF IInv, CidInv, Signalling
    <2>3. CASE c.service = "sdp"
      BY <2>1, <2>2, <2>3, CidAssumption DEF IInv, CidInv, OrderInv, HandlerOf
    <2>4. CASE c.service # "sdp"
      BY <2>1, <2>2, <2>4, CidAssumption DEF IInv, CidInv, HandlerOf, Service
    <2> QED BY <2>3, <2>4
  <1> QED BY <1>1, InitInv, StepInv, PTL DEF Spec

(* An answer on the channel opened last names that channel's end; the      *)
(* theorem says nothing of answers on channels opened before it.           *)
THEOREM NewestChannelAnswered == Spec => []AnswersArrive
  BY InitInv, StepInv, PTL DEF Spec

(* All four numbers keep their widths.                                     *)
THEOREM MuxTypeCorrect == Spec => []TypeOK
  <1>1. IInv => TypeOK
    BY DEF IInv
  <1> QED BY <1>1, InitInv, StepInv, PTL DEF Spec
=============================================================================
