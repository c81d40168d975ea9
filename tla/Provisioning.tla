---------------------------- MODULE Provisioning ----------------------------
(***************************************************************************)
(* How the closet gets its Wi-Fi credentials: a peer uploads wifi.config   *)
(* by OBEX; obex_ftp, in the controller's task, copies the name and the    *)
(* body of a PUT to two buffers; app_main polls the buffers, parses them   *)
(* and, if it found nothing, empties them.  There is no lock.              *)
(*                                                                         *)
(* The controller's task and app_main are pinned to the same core by       *)
(* default and the former has the higher priority: a callback interrupts   *)
(* app_main between any two accesses and completes before app_main goes    *)
(* on.  So obex_ftp is one action and strcmp and sscanf one per symbol.    *)
(*                                                                         *)
(* A symbol stands for a run of characters that is always compared as one: *)
(* "wifi.", "SSID:", a word.  A buffer keeps what an earlier and longer    *)
(* string left behind its terminator.                                      *)
(***************************************************************************)
EXTENDS Naturals, Sequences, Functions

CONSTANTS
  Symbol,        \* what strings are made of, NUL included
  File,          \* what peers upload: sequences of PUT packets
  MaxFiles,      \* bound: uploads begun
  FiSize,        \* symbols fi has room for (main.cpp:58)
  ContentSize    \* symbols content has room for (main.cpp:57)

Wanted == <<"wifi.", "config">>

NUL == "NUL"

(* The headers of a PUT packet: 0x01, 0x48, 0x97, 0x49, and every header   *)
(* the loop of obex_ftp has no branch for.  0x49 is skipped as if it were  *)
(* empty: one that carries data is an EndHeader and then an OtherHeader.   *)
NameHeader(v) == [kind |-> "name", value |-> v]
BodyHeader(v) == [kind |-> "body", value |-> v]
SrmHeader == [kind |-> "srm", value |-> <<>>]
EndHeader == [kind |-> "end", value |-> <<>>]
OtherHeader == [kind |-> "other", value |-> <<>>]

Headers ==
  [kind : {"name", "body", "srm", "end", "other"}, value : Seq(Symbol)]

Packets == UNION {Range(f) : f \in File}

(* The values that peers send in headers of a kind.                        *)
Sent(kind) ==
  {h.value : h \in {x \in UNION {Range(p) : p \in Packets} : x.kind = kind}}

(* What is sent fits its buffer: obex_ftp does not look.                   *)
ASSUME FileAssumption ==
  /\ MaxFiles \in Nat /\ NUL \in Symbol
  /\ \A f \in File : f \in Seq(Seq(Headers))
  /\ FiSize \in Nat /\ Len(Wanted) < FiSize
  /\ ContentSize \in Nat \ {0}
  /\ \A v \in Sent("name") : Len(v) < FiSize
  /\ \A v \in Sent("body") : Len(v) < ContentSize

VARIABLES
  fi, content,           \* the buffers
  main,                  \* what app_main is at
  at,                    \* symbol that strcmp or sscanf looks at next
  until,                 \* strlen(content) as sscanf took it on its start
  ssid, pass,            \* the credentials
  credentials_recived,
  controller,            \* "enabled", "disabled", "stuck" in a callback
  sending,               \* packets the peer has yet to send of a file
  files,                 \* uploads begun
  reply,                 \* what obex_ftp queued and the peer waits for
  upload,                \* the file as sent so far
  under,                 \* the name of the upload that content is of
  acknowledged,          \* files obex_ftp called "recieved successfully"
  disturbed              \* a PUT changed what this look at the buffers read

buffers == <<fi, content>>
poll == <<main, at, until, ssid, pass, credentials_recived>>
peer == <<sending, files, upload, under>>
vars == <<buffers, poll, controller, peer, reply, acknowledged, disturbed>>

(* What a string function sees of a buffer that nobody changes.            *)
Str(buf) ==
  LET end == CHOOSE n \in DOMAIN buf :
               buf[n] = NUL /\ \A m \in 1..(n - 1) : buf[m] # NUL
  IN  [i \in 1..(end - 1) |-> buf[i]]

(* What a string function sees of a value once obex_ftp has terminated it. *)
(* The name that a peer sends has a terminator of its own.                 *)
Text(v) == Str(Append(v, NUL))

Texts(kind) == {Text(v) : v \in Sent(kind)} \union {<<>>}

(* The format of sscanf: a word after "SSID:" and a word after "PASS:".    *)
Valid(body) == Len(body) >= 4 /\ body[1] = "SSID:" /\ body[3] = "PASS:"

Upload == [name : Seq(Symbol), body : Seq(Symbol)]

TypeOK ==
  /\ fi \in [1..FiSize -> Symbol] /\ content \in [1..ContentSize -> Symbol]
  /\ \A buf \in {fi, content} : \E n \in DOMAIN buf : buf[n] = NUL
  /\ main \in {"strcmp", "sscanf", "disable", "clearContent", "clearFi", "delay", "done"}
  /\ at \in 1..4 /\ until \in 0..(ContentSize - 1)
  /\ ssid \in Symbol /\ pass \in Symbol
  /\ credentials_recived \in {0, 1}
  /\ controller \in {"enabled", "disabled", "stuck"}
  /\ sending \in Seq(Packets) /\ files \in 0..MaxFiles
  /\ upload \in Upload /\ under \in Seq(Symbol) /\ acknowledged \subseteq Upload
  /\ reply \in {"none", "continue", "success"}
  /\ disturbed \in BOOLEAN

(* Leaves the buffers as the memory happened to be.                        *)
InitMutant ==
  /\ fi = [i \in 1..FiSize |-> "?"]
  /\ content = [i \in 1..ContentSize |-> "?"]
  /\ main = "strcmp" /\ at = 1 /\ until = 0
  /\ ssid = NUL /\ pass = NUL /\ credentials_recived = 0
  /\ controller = "enabled"
  /\ sending = <<>> /\ files = 0
  /\ upload = [name |-> <<>>, body |-> <<>>] /\ under = <<>>
  /\ reply = "none" /\ acknowledged = {}
  /\ disturbed = FALSE

(* app_main enters its polling loop; the buffers are zeroed globals.       *)
Init ==
  /\ fi = [i \in 1..FiSize |-> NUL]
  /\ content = [i \in 1..ContentSize |-> NUL]
  /\ main = "strcmp" /\ at = 1 /\ until = 0
  /\ ssid = NUL /\ pass = NUL /\ credentials_recived = 0
  /\ controller = "enabled"
  /\ sending = <<>> /\ files = 0
  /\ upload = [name |-> <<>>, body |-> <<>>] /\ under = <<>>
  /\ reply = "none" /\ acknowledged = {}
  /\ disturbed = FALSE

-----------------------------------------------------------------------------
(* obex_ftp                                                                *)

(* Leaves the terminator out.                                              *)
StoreMutant(buf, v) == [i \in DOMAIN buf |-> IF i <= Len(v) THEN v[i] ELSE buf[i]]

(* A header's value is copied to the start of its buffer, then terminated. *)
Store(buf, v) ==
  [i \in DOMAIN buf |-> CASE i <= Len(v) -> v[i]
                          [] i = Len(v) + 1 -> NUL
                          [] OTHER -> buf[i]]

(* One turn of the loop over the headers.  A header it has no branch for   *)
(* does not advance the loop's index: the callback never returns.          *)
Header(s, h) ==
  IF s.stuck THEN s ELSE
  CASE h.kind = "name"   -> [s EXCEPT !.fi = Store(@, h.value),
                                      !.upload = [name |-> h.value, body |-> <<>>]]
    [] h.kind = "body"   -> [s EXCEPT !.content = Store(@, h.value),
                                      !.upload.body = @ \o h.value,
                                      !.under = s.upload.name]
    [] h.kind = "end"    -> [s EXCEPT !.acknowledged = @ \union {s.upload}]
    [] h.kind = "other"  -> [s EXCEPT !.stuck = TRUE]
    [] OTHER             -> s

(* The loop: what the first n headers leave.                               *)
Parsed(base, packet) ==
  LET after[n \in 0..Len(packet)] ==
        IF n = 0 THEN base ELSE Header(after[n - 1], packet[n])
  IN  after[Len(packet)]

(* Both answers are written to cmd_buf one behind the other, and the first *)
(* of them has set the length.                                             *)
Answer(packet) ==
  LET At(kind) == {i \in DOMAIN packet : packet[i].kind = kind}
  IN  CASE At("srm") = {} /\ At("end") = {}                      -> "none"
        [] \E i \in At("srm") : \A j \in At("end") : i < j     -> "continue"
        [] OTHER                                                -> "success"

obex_ftp(packet) ==
  LET s == Parsed([fi |-> fi, content |-> content, upload |-> upload,
                   under |-> under, acknowledged |-> acknowledged, stuck |-> FALSE],
                  packet)
  IN  /\ fi' = s.fi /\ content' = s.content
      /\ upload' = s.upload /\ under' = s.under /\ acknowledged' = s.acknowledged
      /\ controller' = IF s.stuck THEN "stuck" ELSE controller
      /\ reply' = IF s.stuck THEN reply ELSE Answer(packet)
      /\ disturbed' = \/ disturbed
                      \/ s.fi # fi
                      \/ main # "strcmp" /\ s.content # content

-----------------------------------------------------------------------------
(* The peer.  It may give a file up and begin another at any time.         *)

Begin ==
  /\ controller = "enabled" /\ files < MaxFiles
  /\ files' = files + 1
  /\ sending' \in File
  /\ reply' = "none"
  /\ UNCHANGED <<buffers, poll, controller, upload, under, acknowledged, disturbed>>

(* The next packet reaches host_rcv_pkt, l2cap_cmd_handler and obex_ftp.   *)
Put ==
  /\ controller = "enabled" /\ sending # <<>> /\ reply = "none"
  /\ obex_ftp(Head(sending))
  /\ sending' = Tail(sending)
  /\ UNCHANGED <<poll, files>>

(* The send task hands the answer to the controller.                       *)
Answered ==
  /\ controller = "enabled" /\ reply # "none"
  /\ reply' = "none"
  /\ UNCHANGED <<buffers, poll, controller, peer, acknowledged, disturbed>>

-----------------------------------------------------------------------------
(* app_main                                                                *)

(* A callback that never returns never gives the core back.                *)
Runs(pc) == main = pc /\ controller # "stuck"

(* Compares as strncmp would, without the terminator.                      *)
StrcmpMutant ==
  /\ Runs("strcmp")
  /\ disturbed' = (disturbed /\ at > 1)
  /\ IF fi[at] # Wanted[at]
     THEN main' = "clearContent" /\ UNCHANGED <<at, until>>
     ELSE IF at < Len(Wanted) - 1
          THEN at' = at + 1 /\ UNCHANGED <<main, until>>
          ELSE main' = "sscanf" /\ at' = 1 /\ until' = Len(Str(content))
  /\ UNCHANGED <<buffers, ssid, pass, credentials_recived, controller, peer,
                 reply, acknowledged>>

(* One symbol of strcmp, the terminator included.  At the last one sscanf  *)
(* is called, and takes the length of its input.                           *)
Strcmp ==
  /\ Runs("strcmp")
  /\ disturbed' = (disturbed /\ at > 1)
  /\ IF fi[at] # Append(Wanted, NUL)[at]
     THEN main' = "clearContent" /\ UNCHANGED <<at, until>>
     ELSE IF at <= Len(Wanted)
          THEN at' = at + 1 /\ UNCHANGED <<main, until>>
          ELSE main' = "sscanf" /\ at' = 1 /\ until' = Len(Str(content))
  /\ UNCHANGED <<buffers, ssid, pass, credentials_recived, controller, peer,
                 reply, acknowledged>>

(* One symbol of sscanf: a literal that must match, or a word.  A word is  *)
(* stored when it is read, even if the rest then does not match.           *)
Sscanf ==
  /\ Runs("sscanf")
  /\ LET matches == /\ at <= until
                    /\ at = 1 => content[1] = "SSID:"
                    /\ at = 3 => content[3] = "PASS:"
     IN  /\ main' = CASE ~matches -> "clearContent"
                      [] matches /\ at = 4 -> "disable"
                      [] OTHER -> "sscanf"
         /\ at' = IF main' = "sscanf" THEN at + 1 ELSE at
         /\ ssid' = IF matches /\ at = 2 THEN content[2] ELSE ssid
         /\ pass' = IF matches /\ at = 4 THEN content[4] ELSE pass
  /\ UNCHANGED <<buffers, until, credentials_recived, controller, peer, reply,
                 acknowledged, disturbed>>

(* Found: credentials_recived = 1, the controller is switched off and what *)
(* was queued for the peer stays in the queue.                             *)
Disable ==
  /\ Runs("disable")
  /\ credentials_recived' = 1
  /\ controller' = "disabled"
  /\ main' = "clearContent"
  /\ UNCHANGED <<buffers, at, until, ssid, pass, peer, reply, acknowledged, disturbed>>

(* *fi = *content = '\0', content first.                                   *)
ClearContent ==
  /\ Runs("clearContent")
  /\ content' = [content EXCEPT ![1] = NUL]
  /\ main' = "clearFi"
  /\ UNCHANGED <<fi, at, until, ssid, pass, credentials_recived, controller, peer,
                 reply, acknowledged, disturbed>>

ClearFi ==
  /\ Runs("clearFi")
  /\ fi' = [fi EXCEPT ![1] = NUL]
  /\ main' = "delay"
  /\ UNCHANGED <<content, at, until, ssid, pass, credentials_recived, controller,
                 peer, reply, acknowledged, disturbed>>

(* Ends the polling after the first look.                                  *)
DelayMutant ==
  /\ Runs("delay")
  /\ main' = "done"
  /\ at' = 1
  /\ UNCHANGED <<buffers, until, ssid, pass, credentials_recived, controller,
                 peer, reply, acknowledged, disturbed>>

(* vTaskDelay(200), and the next look unless salir is 0.                   *)
Delay ==
  /\ Runs("delay")
  /\ IF credentials_recived = 1
     THEN main' = "done" /\ at' = at
     ELSE main' = "strcmp" /\ at' = 1
  /\ UNCHANGED <<buffers, until, ssid, pass, credentials_recived, controller,
                 peer, reply, acknowledged, disturbed>>

AppMain == Strcmp \/ Sscanf \/ Disable \/ ClearContent \/ ClearFi \/ Delay

Next == Begin \/ Put \/ Answered \/ AppMain

Spec == Init /\ [][Next]_vars

(* app_main and the send task are scheduled; a peer may stop at any time.  *)
FairSpec == Spec /\ WF_vars(AppMain) /\ WF_vars(Answered)

-----------------------------------------------------------------------------

(* The string functions never see the remains of an earlier, longer value: *)
(* what a buffer holds is empty or one header's value, whole.              *)
NoRemains ==
  Str(fi) \in Texts("name") /\ Str(content) \in Texts("body")

(* What app_main takes while no PUT changes what it reads is an SSID and a *)
(* password that were sent together in one body header, and in the file of *)
(* the wanted name, with one exception: of the file that the name is of    *)
(* nothing has come yet but the name, and the body is an earlier file's.   *)
TakenWhole ==
  main = "disable" /\ ~disturbed =>
    LET body == Str(content)
    IN  /\ Str(fi) = Wanted
        /\ Valid(body) /\ <<ssid, pass>> = <<body[2], body[4]>>
        /\ Text(under) = Wanted \/ upload.body = <<>>

(* A wanted file that is complete in the buffers when a poll begins, and   *)
(* that no peer disturbs, ends the wait.                                   *)
PresentIsTaken ==
  ( /\ main = "delay" /\ controller = "enabled"
    /\ Str(fi) = Wanted /\ Valid(Str(content))
    /\ sending = <<>> /\ files = MaxFiles ) ~> credentials_recived = 1

(* What app_main takes and logs as the content of wifi.config is: there is *)
(* a file of that name, with one body that has this SSID and this          *)
(* password.  VIOLATED: a PUT between the SSID and the password mixes two  *)
(* bodies; and even if nothing changes while app_main reads, a packet with *)
(* the wanted name leaves the body of the file before it in its buffer,    *)
(* and a poll can find the two together.                                   *)
ContentOfWifiConfig ==
  main = "disable" =>
    \E f \in File :
      LET headers == UNION {Range(p) : p \in Range(f)}
      IN  /\ \E h \in headers : h.kind = "name" /\ Text(h.value) = Wanted
          /\ \E h \in headers :
               /\ h.kind = "body" /\ Valid(Text(h.value))
               /\ <<ssid, pass>> = <<Text(h.value)[2], Text(h.value)[4]>>

(* A file that was acknowledged is used.  VIOLATED: app_main may empty the *)
(* buffers between two packets of the file, or between its look at them    *)
(* and their emptying, and nothing makes the peer send it again.           *)
AcknowledgedIsUsed ==
  (\E u \in acknowledged : Text(u.name) = Wanted /\ Valid(Text(u.body))) ~> credentials_recived = 1

=============================================================================
