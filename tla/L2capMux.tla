------------------------------ MODULE L2capMux ------------------------------
(***************************************************************************)
(* hci_event_handler and l2cap_cmd_handler of bt_main.c: links, channels   *)
(* and which service gets a channel's frames.                              *)
(*                                                                         *)
(* The code keeps four numbers for all peers together: the next channel's  *)
(* id, its peer's id, the OBEX channel's id (in a byte) and the MTU.  It   *)
(* does not follow disconnections.  The channels themselves are the peers' *)
(* knowledge (channels, external); peers use them as the protocol allows,  *)
(* more than one at a time.  Each action is one host_rcv_pkt.              *)
(***************************************************************************)
EXTENDS Naturals, Sequences, SequencesExt

CONSTANTS
  Device,
  PeerCid,    \* ids peers give their ends of channels
  FirstCid,   \* 0x41, the first value of dest_cid
  ByteMod,    \* values of obex_cid, a uint8_t
  CidMod,     \* values of dest_cid, a uint16_t
  NoChannel,
  MaxOpens    \* bound: channels opened since power-on

ASSUME CidAssumption ==
  /\ FirstCid \in Nat /\ ByteMod \in Nat /\ CidMod \in Nat
  /\ 1 < FirstCid /\ FirstCid < ByteMod /\ ByteMod <= CidMod
  /\ 0 \notin PeerCid
  /\ MaxOpens \in Nat

Signalling == 1

Service == {"obex", "sdp"}

VARIABLES
  connected,   \* never assigned by the code
  dest_cid, src_cid, obex_cid, mtu,
  links,       \* devices with a link
  channels,    \* channels the peers hold open
  opened,      \* channels opened since power-on
  lastObex,    \* the number of the OBEX channel opened last, or 0
  asked,       \* channel of the last packet received
  replies      \* packets its handling has queued

numbers == <<connected, dest_cid, src_cid, obex_cid, mtu>>
peers == <<links, channels, opened, lastObex>>
vars == <<numbers, peers, asked, replies>>

Channel == [device : Device, service : Service, cid : 0..(CidMod - 1),
            peer : PeerCid, n : 1..MaxOpens]

(* What a reply names of a channel: the peer's end of it (to), or neither. *)
Reply == [kind : {"accept_link", "reject_link", "pin", "info_res", "conn_res",
                  "conf_req_ertm", "conf_req_basic", "conf_res", "disconn_res",
                  "obex", "sdp", "empty"},
          to : PeerCid \union {0}]

TypeOK ==
  /\ connected = 0
  /\ dest_cid \in 0..(CidMod - 1) /\ obex_cid \in 0..(ByteMod - 1)
  /\ src_cid \in PeerCid \union {0}
  /\ mtu \in {"none", "asked", "1024"}
  /\ links \subseteq Device /\ channels \subseteq Channel
  /\ opened \in 0..MaxOpens /\ lastObex \in 0..MaxOpens
  /\ asked \in Channel \union {NoChannel}
  /\ replies \in Seq(Reply)

Init ==
  /\ connected = 0 /\ dest_cid = FirstCid
  /\ src_cid = 0 /\ obex_cid = 0 /\ mtu = "none"
  /\ links = {} /\ channels = {} /\ opened = 0 /\ lastObex = 0
  /\ asked = NoChannel /\ replies = << >>

To(kind, cid) == [kind |-> kind, to |-> cid]

-----------------------------------------------------------------------------
(* hci_event_handler.  connected is looked at and never set: a second      *)
(* device is accepted like the first.                                      *)
LinkRequest(d) ==
  /\ d \notin links
  /\ links' = IF connected = 0 THEN links \union {d} ELSE links
  /\ asked' = NoChannel
  /\ replies' = <<To(IF connected = 0 THEN "accept_link" ELSE "reject_link", 0)>>
  /\ UNCHANGED <<numbers, channels, opened, lastObex>>

PinCodeRequest(d) ==
  /\ d \in links
  /\ asked' = NoChannel /\ replies' = <<To("pin", 0)>>
  /\ UNCHANGED <<numbers, peers>>

(* A link ends, and its channels; the event has no branch.                 *)
LinkLost(d) ==
  /\ d \in links
  /\ links' = links \ {d}
  /\ channels' = {c \in channels : c.device # d}
  /\ asked' = NoChannel /\ replies' = << >>
  /\ UNCHANGED <<numbers, opened, lastObex>>

-----------------------------------------------------------------------------
(* l2cap_cmd_handler, signalling channel.                                  *)

(* L2CAP_CMD_INFO_REQ, of the two kinds it knows.                          *)
InfoReq(d) ==
  /\ d \in links
  /\ asked' = NoChannel /\ replies' = <<To("info_res", 0)>>
  /\ UNCHANGED <<numbers, peers>>

NextCidMutant(cid) == cid

NextCidMutantWide(cid) == cid + 1

(* dest_cid++                                                              *)
NextCid(cid) == (cid + 1) % CidMod

(* L2CAP_CMD_CONN_REQ: every channel is accepted, and its configuration    *)
(* requested at once, in the mode of its service.                          *)
ConnReq(d, service, peer) ==
  /\ d \in links /\ opened < MaxOpens
  /\ \A c \in channels : c.device = d => c.peer # peer
  /\ LET c == [device |-> d, service |-> service, cid |-> dest_cid,
               peer |-> peer, n |-> opened + 1]
     IN  channels' = channels \union {c} /\ asked' = c
  /\ opened' = opened + 1
  /\ dest_cid' = NextCid(dest_cid)
  /\ src_cid' = peer
  /\ obex_cid' = IF service = "obex" THEN dest_cid % ByteMod ELSE obex_cid
  /\ lastObex' = IF service = "obex" THEN opened + 1 ELSE lastObex
  /\ replies' = <<To("conn_res", peer),
                  To(IF service = "obex" THEN "conf_req_ertm" ELSE "conf_req_basic", peer)>>
  /\ UNCHANGED <<connected, mtu, links>>

(* conf_req, by the options asked for: an MTU, or none, with a mode, or    *)
(* none.  Others leave the buffer zeroed, and that is what is queued.      *)
ConfReq(c, options) ==
  /\ c \in channels
  /\ asked' = c
  /\ IF options = "other"
     THEN replies' = <<To("empty", 0)>> /\ UNCHANGED mtu
     ELSE /\ replies' = <<To("conf_res", src_cid)>>
          /\ mtu' = IF options \in {"mtu", "mtu_mode"} THEN "asked" ELSE "1024"
  /\ UNCHANGED <<connected, dest_cid, src_cid, obex_cid, peers>>

(* L2CAP_CMD_CONF_RES: a response is answered by a response.               *)
ConfRes(c) ==
  /\ c \in channels
  /\ asked' = c /\ replies' = <<To("conf_res", src_cid)>>
  /\ UNCHANGED <<numbers, peers>>

(* Takes the peer's id of the closed channel for the current one.          *)
DisconnReqMutant(c) ==
  /\ c \in channels
  /\ channels' = channels \ {c}
  /\ src_cid' = c.peer
  /\ asked' = c /\ replies' = <<To("disconn_res", c.peer)>>
  /\ UNCHANGED <<connected, dest_cid, obex_cid, mtu, links, opened, lastObex>>

(* L2CAP_CMD_DISCONN_REQ: its two ids are echoed, and that is all.         *)
DisconnReq(c) ==
  /\ c \in channels
  /\ channels' = channels \ {c}
  /\ asked' = c /\ replies' = <<To("disconn_res", c.peer)>>
  /\ UNCHANGED <<numbers, links, opened, lastObex>>

-----------------------------------------------------------------------------
(* l2cap_cmd_handler, the other channels.                                  *)

(* Who handles the frames sent to a channel id.                            *)
HandlerOf(cid) ==
  IF cid = Signalling THEN "l2cap" ELSE IF cid = obex_cid THEN "obex" ELSE "sdp"

(* A frame: obex_ftp and the SDP branch answer some kinds of frames and    *)
(* ignore others.  They tell them by a byte or two, which a frame of the   *)
(* other service may have as well: the handler that gets it answers it in  *)
(* its own way then.  obex_ftp may acknowledge a frame before it answers.  *)
Frame(c) ==
  LET handler == HandlerOf(c.cid)
      reply == To(handler, src_cid)
  IN  /\ c \in channels
      /\ handler # "l2cap"
      /\ asked' = c
      /\ \/ replies' \in {<< >>, <<reply>>}
         \/ handler = "obex" /\ replies' = <<reply, reply>>
      /\ UNCHANGED <<numbers, peers>>

Next ==
  \/ \E d \in Device :
       \/ LinkRequest(d) \/ PinCodeRequest(d) \/ LinkLost(d) \/ InfoReq(d)
       \/ \E service \in Service, peer \in PeerCid : ConnReq(d, service, peer)
  \/ \E c \in channels :
       \/ ConfRes(c) \/ DisconnReq(c) \/ Frame(c)
       \/ \E options \in {"mtu", "mtu_mode", "basic", "ertm", "other"} : ConfReq(c, options)

Spec == Init /\ [][Next]_vars

-----------------------------------------------------------------------------
(* In the first ByteMod - FirstCid (191) channels since power-on, frames   *)
(* reach the service their channel was opened for, whatever was opened,    *)
(* closed or cut off before, on one link or several: an SDP channel's      *)
(* never obex_ftp, an OBEX channel's always, unless another OBEX channel   *)
(* was opened after it.  (The 192nd and later do not fit obex_cid.)        *)
ToItsService ==
  opened <= ByteMod - FirstCid =>
    \A c \in channels :
      c.service = "sdp" \/ c.n = lastObex => HandlerOf(c.cid) = c.service

(* An answer on the channel opened last names that channel's end, whatever *)
(* else is open.  One on any channel opened before may name another's end, *)
(* of another device even, and does so though the newer one has closed.    *)
AnswersArrive ==
  asked # NoChannel =>
    \A r \in Range(replies) : r.to \notin {0, asked.peer} => asked.n < opened
=============================================================================
