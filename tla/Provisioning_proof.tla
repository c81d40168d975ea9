------------------------- MODULE Provisioning_proof -------------------------
(***************************************************************************)
(* Provisioning, for all files, names and sizes of the buffers: a buffer   *)
(* always holds a value that was sent or nothing, behind its terminator    *)
(* whatever was there before; the name is that of the last upload and a    *)
(* body that it has sent has replaced the one before; and what strcmp and  *)
(* sscanf have read undisturbed is a prefix of what the buffers hold.      *)
(***************************************************************************)
EXTENDS Provisioning, SequenceTheorems, WellFoundedInduction, TLAPS

(* The buffer shows a value: from the first symbol on, and terminated.     *)
Shows(buf, v) ==
  /\ Len(v) + 1 \in DOMAIN buf /\ buf[Len(v) + 1] = NUL
  /\ \A i \in 1..Len(v) : buf[i] = v[i]

(* The string in the buffer is a value sent in a header of a kind, or none *)
(* of them.                                                                *)
Holds(buf, kind) == \E v \in Sent(kind) \union {<<>>} : Shows(buf, v)

-----------------------------------------------------------------------------
(* Strings.                                                                *)

(* A set of numbers has a least one: the form induction takes below.       *)
LEMMA Least ==
  ASSUME NEW S, S \subseteq Nat, S # {}
  PROVE  \E m \in S : \A k \in S : m <= k
<1>1. PICK m \in S : \A k \in S : ~(<<k, m>> \in OpToRel(<, Nat))
  BY NatLessThanWellFounded, WFMin
<1>2. \A k \in S : ~(k < m)
  BY <1>1 DEF OpToRel
<1>. QED  BY <1>2

(* A string ends at its first terminator; and it has one, if there is any. *)
LEMMA StrIs ==
  ASSUME NEW size \in Nat, NEW buf \in [1..size -> Symbol], NEW n \in 1..size,
         buf[n] = NUL, \A m \in 1..(n - 1) : buf[m] # NUL
  PROVE  /\ Str(buf) = [i \in 1..(n - 1) |-> buf[i]]
         /\ Str(buf) \in Seq(Symbol) /\ Len(Str(buf)) = n - 1
         /\ \A i \in 1..(n - 1) : Str(buf)[i] = buf[i]
<1>. DEFINE end == CHOOSE e \in DOMAIN buf :
                     buf[e] = NUL /\ \A m \in 1..(e - 1) : buf[m] # NUL
<1>1. DOMAIN buf = 1..size
  OBVIOUS
<1>2. end \in 1..size /\ buf[end] = NUL /\ \A m \in 1..(end - 1) : buf[m] # NUL
  BY <1>1
<1>3. Str(buf) = [i \in 1..(end - 1) |-> buf[i]]
  BY DEF Str
<1>. HIDE DEF end
<1>4. end = n
  BY <1>2
<1>. QED  BY <1>3, <1>4

LEMMA StrOf ==
  ASSUME NEW size \in Nat, NEW buf \in [1..size -> Symbol],
         \E n \in DOMAIN buf : buf[n] = NUL
  PROVE  \E n \in 1..size :
           /\ buf[n] = NUL /\ \A m \in 1..(n - 1) : buf[m] # NUL
           /\ Str(buf) = [i \in 1..(n - 1) |-> buf[i]]
           /\ Str(buf) \in Seq(Symbol) /\ Len(Str(buf)) = n - 1
           /\ \A i \in 1..(n - 1) : Str(buf)[i] = buf[i]
<1>. DEFINE S == {n \in 1..size : buf[n] = NUL}
<1>1. PICK n \in S : \A k \in S : n <= k
  <2>1. S \subseteq Nat /\ S # {}
    OBVIOUS
  <2>. HIDE DEF S
  <2>. QED  BY <2>1, Least
<1>2. n \in 1..size /\ buf[n] = NUL /\ \A m \in 1..(n - 1) : buf[m] # NUL
  BY <1>1
<1>. QED  BY <1>2, StrIs

(* What the files say of packets, headers and values.                      *)
LEMMA SentTypes ==
  /\ \A p \in Packets : p \in Seq(Headers) /\ \A i \in 1..Len(p) :
       /\ p[i] \in Headers
       /\ p[i].kind \in {"name", "body"} => p[i].value \in Sent(p[i].kind)
  /\ \A kind : Sent(kind) \subseteq Seq(Symbol)
  /\ File \subseteq Seq(Packets)
<1>1. \A p \in Packets : p \in Seq(Headers)
  BY FileAssumption DEF FileAssumption, Packets, Range
<1>2. ASSUME NEW p \in Packets, NEW i \in 1..Len(p)
      PROVE  p[i] \in Headers /\ p[i].value \in Sent(p[i].kind)
  <2>1. p[i] \in Headers /\ p[i] \in Range(p)
    BY <1>1 DEF Range
  <2>2. p[i] \in UNION {Range(q) : q \in Packets}
    BY <2>1
  <2>. QED  BY <2>1, <2>2 DEF Sent
<1>3. ASSUME NEW kind, NEW v \in Sent(kind)
      PROVE  v \in Seq(Symbol)
  <2>1. PICK h \in UNION {Range(p) : p \in Packets} : v = h.value
    BY <1>3 DEF Sent
  <2>2. h \in Headers
    BY <1>1, <2>1 DEF Range
  <2>. QED  BY <2>1, <2>2 DEF Headers
<1>4. ASSUME NEW f \in File
      PROVE  f \in Seq(Packets)
  <2>1. f \in Seq(Seq(Headers))
    BY FileAssumption DEF FileAssumption
  <2>2. f \in [1..Len(f) -> Seq(Headers)] /\ Len(f) \in Nat
    BY <2>1, LenProperties
  <2>3. \A i \in 1..Len(f) : f[i] \in Packets
    BY <2>2 DEF Packets, Range
  <2>4. f \in [1..Len(f) -> Packets]
    BY <2>2, <2>3
  <2>. QED  BY <2>2, <2>4, SeqDef
<1>. QED  BY <1>1, <1>2, <1>3, <1>4

(* Whatever lies behind the terminator is not seen.                        *)
LEMMA ShowsText ==
  ASSUME NEW size \in Nat, NEW buf \in [1..size -> Symbol], NEW v \in Seq(Symbol),
         Shows(buf, v)
  PROVE  /\ \E n \in DOMAIN buf : buf[n] = NUL
         /\ Str(buf) = Text(v)
         /\ v = <<>> => Str(buf) = <<>>
<1>1. /\ Len(v) + 1 \in DOMAIN buf /\ buf[Len(v) + 1] = NUL
      /\ \A i \in 1..Len(v) : buf[i] = v[i]
  BY DEF Shows
<1>2. Len(v) \in Nat /\ Len(v) + 1 \in 1..size
  <2>1. DOMAIN buf = 1..size
    OBVIOUS
  <2>. QED  BY <1>1, <2>1, LenProperties
<1>. DEFINE w == Append(v, NUL)
            k == Len(v) + 1
<1>3. NUL \in Symbol
  BY FileAssumption DEF FileAssumption
<1>4. w \in [1..k -> Symbol] /\ \A i \in 1..k : w[i] = buf[i]
  <2>1. /\ w \in Seq(Symbol) /\ Len(w) = k /\ w[k] = NUL
        /\ \A i \in 1..Len(v) : w[i] = v[i]
    BY <1>3, AppendProperties
  <2>2. w \in [1..k -> Symbol]
    BY <2>1, LenProperties
  <2>. HIDE DEF w
  <2>. QED  BY <1>1, <1>2, <2>1, <2>2
<1>5. PICK n \in 1..k :
        /\ w[n] = NUL /\ \A m \in 1..(n - 1) : w[m] # NUL
        /\ Str(w) = [i \in 1..(n - 1) |-> w[i]]
  <2>1. w[k] = NUL /\ k \in Nat /\ k \in DOMAIN w
    BY <1>1, <1>2, <1>4
  <2>. HIDE DEF w, k
  <2>. QED  BY <1>4, <2>1, StrOf
<1>. HIDE DEF w
<1>6. n \in 1..size /\ buf[n] = NUL /\ \A m \in 1..(n - 1) : buf[m] # NUL
  BY <1>2, <1>4, <1>5
<1>7. Str(buf) = [i \in 1..(n - 1) |-> buf[i]]
  BY <1>6, StrIs
<1>8. Str(buf) = Str(w)
  BY <1>2, <1>4, <1>5, <1>7
<1>9. v = <<>> => Str(buf) = <<>>
  <2>. SUFFICES ASSUME v = <<>> PROVE Str(buf) = <<>>
    OBVIOUS
  <2>1. k = 1 /\ n = 1
    BY <1>5
  <2>. QED  BY <1>7, <2>1
<1>. QED  BY <1>1, <1>8, <1>9 DEF Text, w

LEMMA HoldsText ==
  ASSUME NEW size \in Nat, NEW buf \in [1..size -> Symbol], NEW kind, Holds(buf, kind)
  PROVE  Str(buf) \in Texts(kind) /\ \E n \in DOMAIN buf : buf[n] = NUL
<1>1. PICK v \in Sent(kind) \union {<<>>} : Shows(buf, v)
  BY DEF Holds
<1>2. v \in Seq(Symbol)
  BY SentTypes, EmptySeq
<1>. QED  BY <1>1, <1>2, ShowsText DEF Texts

-----------------------------------------------------------------------------
(* The loop of obex_ftp.                                                   *)

(* The buffers as obex_ftp keeps them, whatever else it has done.          *)
Kept(s) ==
  /\ s \in [fi : [1..FiSize -> Symbol], content : [1..ContentSize -> Symbol],
            upload : Upload, under : Seq(Symbol), acknowledged : SUBSET Upload,
            stuck : BOOLEAN]
  /\ Holds(s.fi, "name") /\ Holds(s.content, "body")
  /\ Shows(s.fi, s.upload.name) \/ Shows(s.fi, <<>>)
  /\ s.upload.body = <<>> \/ s.under = s.upload.name

LEMMA StoreHolds ==
  ASSUME NEW size \in Nat, NEW buf \in [1..size -> Symbol], NEW kind,
         NEW v \in Sent(kind), Len(v) < size
  PROVE  /\ Store(buf, v) \in [1..size -> Symbol]
         /\ Holds(Store(buf, v), kind) /\ Shows(Store(buf, v), v)
<1>1. /\ v \in Seq(Symbol) /\ Len(v) \in Nat /\ NUL \in Symbol
      /\ \A i \in 1..Len(v) : v[i] \in Symbol
  BY SentTypes, LenProperties, ElementOfSeq, FileAssumption DEF FileAssumption
<1>2. DOMAIN buf = 1..size
  OBVIOUS
<1>3. Store(buf, v) \in [1..size -> Symbol]
  BY <1>1, <1>2 DEF Store
<1>4. /\ Len(v) + 1 \in DOMAIN Store(buf, v) /\ Store(buf, v)[Len(v) + 1] = NUL
      /\ \A i \in 1..Len(v) : Store(buf, v)[i] = v[i]
  BY <1>1, <1>2 DEF Store
<1>. QED  BY <1>3, <1>4 DEF Holds, Shows

(* One turn of the loop, and then the whole of it.                         *)
LEMMA HeaderKeeps ==
  ASSUME NEW s, Kept(s), NEW p \in Packets, NEW i \in 1..Len(p)
  PROVE  Kept(Header(s, p[i]))
<1>. DEFINE h == p[i]
            v == p[i].value
            t == Header(s, h)
<1>1. h \in Headers /\ (h.kind \in {"name", "body"} => v \in Sent(h.kind))
  BY SentTypes
<1>2. /\ s.fi \in [1..FiSize -> Symbol] /\ s.content \in [1..ContentSize -> Symbol]
      /\ s.upload \in Upload /\ s.acknowledged \subseteq Upload
  BY DEF Kept
<1>3. /\ FiSize \in Nat /\ ContentSize \in Nat
      /\ \A x \in Sent("name") : Len(x) < FiSize
      /\ \A x \in Sent("body") : Len(x) < ContentSize
  BY FileAssumption DEF FileAssumption
<1>4. v \in Seq(Symbol) /\ <<>> \in Seq(Symbol)
  BY <1>1, EmptySeq DEF Headers
<1>. HIDE DEF h, v
<1>5. CASE s.stuck
  <2>1. t = s
    BY <1>5 DEF Header
  <2>. QED  BY <2>1 DEF h
<1>10. CASE ~s.stuck /\ h.kind = "srm"
  <2>1. t = s
    BY <1>10 DEF Header
  <2>. QED  BY <2>1 DEF h
<1>6. CASE ~s.stuck /\ h.kind = "name"
  <2>1. t = [s EXCEPT !.fi = Store(s.fi, v), !.upload = [name |-> v, body |-> <<>>]]
    BY <1>6 DEF Header, h, v
  <2>2. /\ Store(s.fi, v) \in [1..FiSize -> Symbol]
        /\ Holds(Store(s.fi, v), "name") /\ Shows(Store(s.fi, v), v)
    BY <1>1, <1>2, <1>3, <1>6, StoreHolds
  <2>3. [name |-> v, body |-> <<>>] \in Upload
    BY <1>4 DEF Upload
  <2>. HIDE DEF t
  <2>4. Kept(t)
    BY <2>1, <2>2, <2>3 DEF Kept
  <2>. QED  BY <2>4 DEF t, h
<1>7. CASE ~s.stuck /\ h.kind = "body"
  <2>. DEFINE u == [s.upload EXCEPT !.body = s.upload.body \o v]
  <2>1. t = [s EXCEPT !.content = Store(s.content, v), !.upload = u,
                      !.under = s.upload.name]
    BY <1>7 DEF Header, h, v, Kept
  <2>2. Store(s.content, v) \in [1..ContentSize -> Symbol] /\ Holds(Store(s.content, v), "body")
    BY <1>1, <1>2, <1>3, <1>7, StoreHolds
  <2>3. u \in Upload /\ u.name = s.upload.name /\ s.upload.name \in Seq(Symbol)
    <3>1. s.upload.body \in Seq(Symbol) /\ s.upload.name \in Seq(Symbol)
      BY <1>2 DEF Upload
    <3>2. s.upload.body \o v \in Seq(Symbol)
      BY <1>4, <3>1, ConcatProperties
    <3>. QED  BY <1>2, <3>1, <3>2 DEF Upload
  <2>. HIDE DEF t, u
  <2>4. Kept(t)
    BY <2>1, <2>2, <2>3 DEF Kept
  <2>. QED  BY <2>4 DEF t, h
<1>8. CASE ~s.stuck /\ h.kind = "end"
  <2>1. t = [s EXCEPT !.acknowledged = s.acknowledged \union {s.upload}]
    BY <1>8 DEF Header
  <2>2. s.acknowledged \union {s.upload} \in SUBSET Upload
    BY <1>2
  <2>. HIDE DEF t
  <2>3. Kept(t)
    BY <2>1, <2>2 DEF Kept
  <2>. QED  BY <2>3 DEF t, h
<1>9. CASE ~s.stuck /\ h.kind = "other"
  <2>1. t = [s EXCEPT !.stuck = TRUE]
    BY <1>9 DEF Header
  <2>. HIDE DEF t
  <2>2. Kept(t)
    BY <2>1 DEF Kept
  <2>. QED  BY <2>2 DEF t, h
<1>. QED  BY <1>1, <1>5, <1>6, <1>7, <1>8, <1>9, <1>10 DEF Headers

(* The recursion over the headers has a solution: a shortest prefix that   *)
(* had none would have one a header shorter.                               *)
LEMMA LoopDefined ==
  ASSUME NEW base, NEW packet, NEW len \in Nat
  PROVE  \E f : f = [n \in 0..len |-> IF n = 0 THEN base
                                      ELSE Header(f[n - 1], packet[n])]
<1>. DEFINE Solves(f, k) == f = [n \in 0..k |-> IF n = 0 THEN base
                                               ELSE Header(f[n - 1], packet[n])]
            S == {k \in 0..len : ~\E f : Solves(f, k)}
<1>1. S = {}
  <2>. SUFFICES ASSUME S # {} PROVE FALSE
    OBVIOUS
  <2>1. PICK k \in S : \A l \in S : k <= l
    <3>1. S \subseteq Nat
      OBVIOUS
    <3>. HIDE DEF S
    <3>. QED  BY <3>1, Least
  <2>2. k # 0
    <3>. SUFFICES ASSUME k = 0 PROVE FALSE
      OBVIOUS
    <3>. DEFINE g == [n \in 0..0 |-> base]
    <3>1. Solves(g, 0)
      OBVIOUS
    <3>. QED  BY <2>1, <3>1
  <2>3. PICK f : Solves(f, k - 1)
    <3>1. k - 1 \in 0..len /\ k - 1 \notin S
      BY <2>1, <2>2
    <3>. QED  BY <3>1
  <2>. DEFINE g == [n \in 0..k |-> IF n < k THEN f[n] ELSE Header(f[k - 1], packet[k])]
  <2>4. k \in Nat \ {0}
    BY <2>1, <2>2
  <2>5. Solves(g, k)
    <3>1. \A n \in 0..k : g[n] = IF n = 0 THEN base ELSE Header(g[n - 1], packet[n])
      BY <2>3, <2>4
    <3>. QED  BY <3>1
  <2>. QED  BY <2>1, <2>5
<1>. QED  BY <1>1

LEMMA ParsedKeeps ==
  ASSUME NEW base, Kept(base), NEW packet \in Packets
  PROVE  Kept(Parsed(base, packet))
<1>. DEFINE after == CHOOSE f : f = [n \in 0..Len(packet) |->
                       IF n = 0 THEN base ELSE Header(f[n - 1], packet[n])]
<1>1. Parsed(base, packet) = after[Len(packet)]
  BY DEF Parsed
<1>2. Len(packet) \in Nat
  BY SentTypes, LenProperties
<1>3. after = [n \in 0..Len(packet) |->
                 IF n = 0 THEN base ELSE Header(after[n - 1], packet[n])]
  BY <1>2, LoopDefined, SMTT(30)
<1>. HIDE DEF after
<1>. DEFINE S == {n \in 0..Len(packet) : ~Kept(after[n])}
<1>4. S = {}
  <2>. SUFFICES ASSUME S # {} PROVE FALSE
    OBVIOUS
  <2>1. PICK k \in S : \A l \in S : k <= l
    <3>1. S \subseteq Nat
      OBVIOUS
    <3>. HIDE DEF S
    <3>. QED  BY <3>1, Least
  <2>2. k \in 0..Len(packet) /\ ~Kept(after[k])
    BY <2>1
  <2>3. k # 0
    BY <1>2, <1>3, <2>2
  <2>4. k \in 1..Len(packet) /\ k - 1 \in 0..Len(packet) /\ Kept(after[k - 1])
    BY <1>2, <2>1, <2>2, <2>3
  <2>5. after[k] = Header(after[k - 1], packet[k])
    BY <1>2, <1>3, <2>4
  <2>. QED  BY <2>2, <2>4, <2>5, HeaderKeeps
<1>. QED  BY <1>1, <1>2, <1>4

-----------------------------------------------------------------------------
(* The invariant.                                                          *)

(* Each buffer holds a value that was sent, or nothing: obex_ftp stores it *)
(* whole, in the controller's task, and app_main only empties it.          *)
BuffersInv == Holds(fi, "name") /\ Holds(content, "body")

(* The name in its buffer is that of the last upload, or it was emptied;   *)
(* and if that upload has sent a body, the content is of that upload.      *)
OwnerInv ==
  /\ Shows(fi, upload.name) \/ Shows(fi, <<>>)
  /\ upload.body = <<>> \/ under = upload.name

(* What strcmp has matched undisturbed is a prefix of the name.            *)
NameInv ==
  /\ main = "strcmp" => at \in 1..3
  /\ main = "strcmp" /\ ~disturbed => \A i \in 1..(at - 1) : fi[i] = Wanted[i]
  /\ main \in {"sscanf", "disable"} /\ ~disturbed => Str(fi) = Wanted

(* What sscanf has read undisturbed is of the body in the buffer, and of   *)
(* the length that it took when it began.                                  *)
BodyInv ==
  LET body == Str(content)
  IN  /\ main = "sscanf" /\ ~disturbed =>
           /\ until = Len(body) /\ at - 1 <= until
           /\ at >= 2 => body[1] = "SSID:"
           /\ at >= 3 => ssid = body[2]
           /\ at >= 4 => body[3] = "PASS:"
      /\ main = "disable" /\ ~disturbed =>
           Valid(body) /\ <<ssid, pass>> = <<body[2], body[4]>>

IInv == TypeOK /\ BuffersInv /\ OwnerInv /\ NameInv /\ BodyInv

LEMMA Sizes ==
  /\ FiSize \in Nat /\ 2 < FiSize /\ ContentSize \in Nat \ {0}
  /\ NUL \in Symbol /\ MaxFiles \in Nat
  /\ Wanted[1] = "wifi." /\ Wanted[2] = "config" /\ Len(Wanted) = 2
  /\ Append(Wanted, NUL)[1] = "wifi." /\ Append(Wanted, NUL)[2] = "config"
  /\ Append(Wanted, NUL)[3] = NUL
  /\ NUL # "wifi." /\ NUL # "config"
BY FileAssumption DEF FileAssumption, Wanted, NUL

LEMMA EmptyHolds ==
  ASSUME NEW size \in Nat \ {0}, NEW buf \in [1..size -> Symbol], NEW kind,
         buf[1] = NUL
  PROVE  Holds(buf, kind) /\ Shows(buf, <<>>)
<1>1. Len(<<>>) = 0 /\ <<>> \in Sent(kind) \union {<<>>} /\ 1 \in DOMAIN buf
  OBVIOUS
<1>. QED  BY <1>1 DEF Holds, Shows

(* The strings in the buffers, symbol by symbol.                           *)
LEMMA Strings ==
  ASSUME TypeOK
  PROVE  /\ \E e \in 1..FiSize :
              /\ fi[e] = NUL /\ \A m \in 1..(e - 1) : fi[m] # NUL
              /\ Len(Str(fi)) = e - 1 /\ Str(fi) \in Seq(Symbol)
              /\ \A i \in 1..(e - 1) : Str(fi)[i] = fi[i]
         /\ \E e \in 1..ContentSize :
              /\ content[e] = NUL /\ \A m \in 1..(e - 1) : content[m] # NUL
              /\ Len(Str(content)) = e - 1 /\ Str(content) \in Seq(Symbol)
              /\ \A i \in 1..(e - 1) : Str(content)[i] = content[i]
<1>1. /\ fi \in [1..FiSize -> Symbol] /\ content \in [1..ContentSize -> Symbol]
      /\ \E n \in DOMAIN fi : fi[n] = NUL
      /\ \E n \in DOMAIN content : content[n] = NUL
      /\ FiSize \in Nat /\ ContentSize \in Nat
  BY Sizes DEF TypeOK
<1>2. \E e \in 1..FiSize :
        /\ fi[e] = NUL /\ \A m \in 1..(e - 1) : fi[m] # NUL
        /\ Len(Str(fi)) = e - 1 /\ Str(fi) \in Seq(Symbol)
        /\ \A i \in 1..(e - 1) : Str(fi)[i] = fi[i]
  BY <1>1, StrOf
<1>3. \E e \in 1..ContentSize :
        /\ content[e] = NUL /\ \A m \in 1..(e - 1) : content[m] # NUL
        /\ Len(Str(content)) = e - 1 /\ Str(content) \in Seq(Symbol)
        /\ \A i \in 1..(e - 1) : Str(content)[i] = content[i]
  BY <1>1, StrOf
<1>. QED  BY <1>2, <1>3

(* What the buffers hold are texts.                                        *)
LEMMA BufferTexts ==
  ASSUME TypeOK, BuffersInv
  PROVE  Str(fi) \in Texts("name") /\ Str(content) \in Texts("body")
<1>1. /\ fi \in [1..FiSize -> Symbol] /\ content \in [1..ContentSize -> Symbol]
      /\ FiSize \in Nat /\ ContentSize \in Nat
  BY Sizes DEF TypeOK
<1>. QED  BY <1>1, HoldsText DEF BuffersInv

LEMMA InitInvariant == Init => IInv
<1>. SUFFICES ASSUME Init PROVE IInv
  OBVIOUS
<1>1. /\ fi \in [1..FiSize -> Symbol] /\ content \in [1..ContentSize -> Symbol]
      /\ fi[1] = NUL /\ content[1] = NUL /\ 1 \in DOMAIN fi /\ 1 \in DOMAIN content
  BY Sizes DEF Init
<1>2. BuffersInv
  BY <1>1, EmptyHolds, Sizes DEF BuffersInv
<1>3. /\ upload \in Upload /\ sending \in Seq(Packets) /\ under \in Seq(Symbol)
      /\ upload.name = <<>> /\ upload.body = <<>>
  BY EmptySeq DEF Init, Upload
<1>4. TypeOK
  <2>1. /\ main = "strcmp" /\ at = 1 /\ until = 0 /\ ssid = NUL /\ pass = NUL
        /\ credentials_recived = 0 /\ controller = "enabled" /\ files = 0
        /\ reply = "none" /\ acknowledged = {}
    BY DEF Init
  <2>2. disturbed \in BOOLEAN
    BY DEF Init
  <2>3. \A buf \in {fi, content} : \E n \in DOMAIN buf : buf[n] = NUL
    BY <1>1
  <2>. QED  BY <1>1, <1>3, <2>1, <2>2, <2>3, Sizes DEF TypeOK
<1>5. NameInv /\ BodyInv
  BY DEF Init, NameInv, BodyInv
<1>6. OwnerInv
  BY <1>1, <1>3, EmptyHolds, Sizes DEF OwnerInv
<1>. QED  BY <1>2, <1>4, <1>5, <1>6 DEF IInv

(* The step that handles a packet.                                         *)
LEMMA PutInvariant ==
  ASSUME IInv, Put
  PROVE  IInv'
<1>. DEFINE base == [fi |-> fi, content |-> content, upload |-> upload,
                     under |-> under, acknowledged |-> acknowledged, stuck |-> FALSE]
            packet == Head(sending)
            s == Parsed(base, packet)
<1>1. /\ sending \in Seq(Packets) /\ sending # <<>>
      /\ packet \in Packets /\ Tail(sending) \in Seq(Packets)
  BY HeadTailProperties DEF Put, IInv, TypeOK
<1>2. Kept(base)
  BY DEF IInv, TypeOK, BuffersInv, OwnerInv, Kept
<1>3. Kept(s)
  BY <1>1, <1>2, ParsedKeeps
<1>4. /\ fi' = s.fi /\ content' = s.content
      /\ upload' = s.upload /\ under' = s.under /\ acknowledged' = s.acknowledged
      /\ controller' = IF s.stuck THEN "stuck" ELSE controller
      /\ reply' = IF s.stuck THEN reply ELSE Answer(packet)
      /\ disturbed' = \/ disturbed
                      \/ s.fi # fi
                      \/ main # "strcmp" /\ s.content # content
      /\ sending' = Tail(sending) /\ files' = files
      /\ UNCHANGED <<main, at, until, ssid, pass, credentials_recived>>
  BY Zenon DEF Put, obex_ftp, poll
<1>5. Answer(packet) \in {"none", "continue", "success"}
  BY DEF Answer
<1>. HIDE DEF base, packet, s
<1>6. BuffersInv' /\ OwnerInv'
  BY <1>3, <1>4 DEF BuffersInv, OwnerInv, Kept
<1>7. /\ fi' \in [1..FiSize -> Symbol] /\ content' \in [1..ContentSize -> Symbol]
      /\ upload' \in Upload /\ under' \in Seq(Symbol) /\ acknowledged' \subseteq Upload
  BY <1>3, <1>4 DEF Kept
<1>8. /\ \E n \in DOMAIN fi' : fi'[n] = NUL
      /\ \E n \in DOMAIN content' : content'[n] = NUL
  <2>1. Holds(fi', "name") /\ Holds(content', "body")
    BY <1>6 DEF BuffersInv
  <2>. QED  BY <1>7, <2>1, Sizes, HoldsText
<1>9. /\ controller' \in {"enabled", "disabled", "stuck"}
      /\ reply' \in {"none", "continue", "success"} /\ disturbed' \in BOOLEAN
  BY <1>4, <1>5 DEF IInv, TypeOK
<1>10. TypeOK'
  BY <1>1, <1>4, <1>7, <1>8, <1>9 DEF IInv, TypeOK
(* What strcmp and sscanf are reading has changed only if it disturbs them. *)
<1>11. ~disturbed' => /\ ~disturbed /\ fi' = fi
                      /\ main # "strcmp" => content' = content
  BY <1>4
<1>12. NameInv'
  BY <1>4, <1>11 DEF IInv, NameInv
<1>13. BodyInv'
  <2>. SUFFICES ASSUME ~disturbed', main' \in {"sscanf", "disable"}
                PROVE  BodyInv'
    BY DEF BodyInv
  <2>1. Str(content') = Str(content) /\ ~disturbed /\ main' = main
    BY <1>4, <1>11
  <2>. QED  BY <1>4, <2>1 DEF IInv, BodyInv
<1>. QED  BY <1>6, <1>10, <1>12, <1>13 DEF IInv

(* A step that leaves the buffers and the poll's reading alone.            *)
LEMMA Elsewhere ==
  ASSUME IInv, UNCHANGED <<fi, content, at, until, ssid, pass, disturbed, upload, under>>,
         main' = main \/ main' \in {"clearContent", "clearFi", "delay", "done"},
         TypeOK'
  PROVE  IInv'
<1>1. BuffersInv' /\ OwnerInv'
  BY DEF IInv, BuffersInv, OwnerInv
<1>2. CASE main' = main
  <2>1. NameInv'
    BY <1>2 DEF IInv, NameInv
  <2>2. BodyInv'
    BY <1>2 DEF IInv, BodyInv
  <2>. QED  BY <1>1, <2>1, <2>2 DEF IInv
<1>3. CASE main' \in {"clearContent", "clearFi", "delay", "done"}
  <2>1. NameInv' /\ BodyInv'
    BY <1>3 DEF NameInv, BodyInv
  <2>. QED  BY <1>1, <2>1 DEF IInv
<1>. QED  BY <1>2, <1>3

LEMMA PairOf ==
  ASSUME NEW s \in Seq(Symbol), Len(s) = 2
  PROVE  s = <<s[1], s[2]>>
OBVIOUS

LEMMA StrcmpInvariant ==
  ASSUME IInv, Strcmp
  PROVE  IInv'
<1>1. /\ main = "strcmp" /\ at \in 1..3 /\ disturbed' = (disturbed /\ at > 1)
      /\ UNCHANGED <<fi, content, ssid, pass, credentials_recived, controller,
                     sending, files, upload, under, reply, acknowledged>>
  BY DEF Strcmp, Runs, IInv, NameInv, buffers, peer
<1>2. PICK e \in 1..FiSize :
        /\ fi[e] = NUL /\ \A m \in 1..(e - 1) : fi[m] # NUL
        /\ Len(Str(fi)) = e - 1 /\ Str(fi) \in Seq(Symbol)
        /\ \A i \in 1..(e - 1) : Str(fi)[i] = fi[i]
  BY Strings DEF IInv
<1>3. BuffersInv' /\ OwnerInv' /\ Str(fi)' = Str(fi) /\ Str(content)' = Str(content)
  BY <1>1 DEF IInv, BuffersInv, OwnerInv
<1>4. disturbed' \in BOOLEAN
  BY <1>1 DEF IInv, TypeOK
(* A look that starts here has matched nothing yet.                        *)
<1>5. ~disturbed' => \A i \in 1..(at - 1) : fi[i] = Wanted[i]
  <2>1. CASE at = 1
    BY <2>1
  <2>2. CASE at > 1
    <3>1. ~disturbed' => ~disturbed
      BY <1>1, <2>2, Zenon
    <3>. QED  BY <1>1, <3>1 DEF IInv, NameInv
  <2>. QED  BY <1>1, <2>1, <2>2
<1>6. CASE fi[at] # Append(Wanted, NUL)[at]
  <2>1. main' = "clearContent" /\ UNCHANGED <<at, until>>
    BY <1>6 DEF Strcmp
  <2>2. TypeOK'
    BY <1>1, <1>4, <2>1 DEF IInv, TypeOK
  <2>3. NameInv' /\ BodyInv'
    BY <2>1 DEF NameInv, BodyInv
  <2>. QED  BY <1>3, <2>2, <2>3 DEF IInv
<1>7. CASE fi[at] = Append(Wanted, NUL)[at] /\ at <= 2
  <2>1. main' = main /\ at' = at + 1 /\ UNCHANGED until
    BY <1>7, Sizes DEF Strcmp
  <2>2. TypeOK'
    BY <1>1, <1>4, <1>7, <2>1 DEF IInv, TypeOK
  <2>3. fi[at] = Wanted[at] /\ at \in 1..2
    BY <1>1, <1>7, Sizes
  <2>4. ASSUME ~disturbed', NEW i \in 1..(at' - 1)
        PROVE  fi'[i] = Wanted[i]
    <3>1. i \in 1..(at - 1) \/ i = at
      BY <2>1, <2>3
    <3>. QED  BY <1>1, <1>5, <2>3, <2>4, <3>1
  <2>5. NameInv' /\ BodyInv'
    BY <1>1, <2>1, <2>3, <2>4 DEF NameInv, BodyInv
  <2>. QED  BY <1>3, <2>2, <2>5 DEF IInv
<1>8. CASE fi[at] = Append(Wanted, NUL)[at] /\ at = 3
  <2>1. main' = "sscanf" /\ at' = 1 /\ until' = Len(Str(content))
    BY <1>8, Sizes DEF Strcmp
  <2>2. until' \in 0..(ContentSize - 1)
    BY <2>1, Strings, Sizes DEF IInv
  <2>3. TypeOK'
    BY <1>1, <1>4, <2>1, <2>2 DEF IInv, TypeOK
  <2>4. ~disturbed' => Str(fi) = Wanted
    <3>. SUFFICES ASSUME ~disturbed' PROVE Str(fi) = Wanted
      OBVIOUS
    <3>1. fi[1] = "wifi." /\ fi[2] = "config" /\ fi[3] = NUL
      BY <1>5, <1>8, Sizes
    <3>2. e = 3
      <4>1. e # 1 /\ e # 2
        BY <1>2, <3>1, Sizes
      <4>2. ~(3 \in 1..(e - 1))
        BY <1>2, <3>1
      <4>. QED  BY <4>1, <4>2
    <3>3. Len(Str(fi)) = 2 /\ Str(fi)[1] = "wifi." /\ Str(fi)[2] = "config"
      BY <1>2, <3>1, <3>2
    <3>. QED  BY <1>2, <3>3, PairOf DEF Wanted
  <2>5. NameInv'
    BY <1>3, <2>1, <2>4 DEF NameInv
  <2>6. until' \in Nat
    BY <2>2, Sizes
  <2>7. BodyInv'
    BY <1>3, <2>1, <2>6 DEF BodyInv
  <2>. QED  BY <1>3, <2>3, <2>5, <2>7 DEF IInv
<1>9. at <= 2 \/ at = 3
  BY <1>1
<1>. QED  BY <1>6, <1>7, <1>8, <1>9

LEMMA SscanfInvariant ==
  ASSUME IInv, Sscanf
  PROVE  IInv'
<1>. DEFINE body == Str(content)
            matches == /\ at <= until
                       /\ at = 1 => content[1] = "SSID:"
                       /\ at = 3 => content[3] = "PASS:"
<1>1. /\ main = "sscanf" /\ at \in 1..4 /\ until \in 0..(ContentSize - 1)
      /\ UNCHANGED <<fi, content, until, credentials_recived, controller, sending,
                     files, upload, under, reply, acknowledged, disturbed>>
  BY DEF Sscanf, Runs, IInv, TypeOK, buffers, peer
<1>2. /\ main' = CASE ~matches -> "clearContent"
                   [] matches /\ at = 4 -> "disable"
                   [] OTHER -> "sscanf"
      /\ at' = IF main' = "sscanf" THEN at + 1 ELSE at
      /\ ssid' = IF matches /\ at = 2 THEN content[2] ELSE ssid
      /\ pass' = IF matches /\ at = 4 THEN content[4] ELSE pass
  BY DEF Sscanf
<1>3. PICK e \in 1..ContentSize :
        /\ Len(body) = e - 1
        /\ \A i \in 1..(e - 1) : body[i] = content[i]
  BY Strings DEF IInv
<1>4. /\ BuffersInv' /\ OwnerInv' /\ Str(content)' = body /\ Str(fi)' = Str(fi)
      /\ ~disturbed => Str(fi) = Wanted
  BY <1>1 DEF IInv, BuffersInv, OwnerInv, NameInv
<1>5. at <= until => content[at] \in Symbol
  BY <1>1, Sizes DEF IInv, TypeOK
<1>6. ASSUME ~disturbed, matches
      PROVE  /\ body[at] = content[at] /\ at <= Len(body) /\ until = Len(body)
             /\ at >= 2 => body[1] = "SSID:"
             /\ at >= 3 => ssid = body[2]
             /\ at >= 4 => body[3] = "PASS:"
  <2>1. until = Len(body) /\ at <= until
    BY <1>1, <1>6 DEF IInv, BodyInv
  <2>2. body[at] = content[at]
    BY <1>1, <1>3, <2>1
  <2>. QED  BY <1>1, <1>6, <2>1, <2>2 DEF IInv, BodyInv
<1>. HIDE DEF body
<1>7. CASE ~matches
  <2>1. main' = "clearContent" /\ at' = at /\ ssid' = ssid /\ pass' = pass
    BY <1>2, <1>7
  <2>2. TypeOK'
    BY <1>1, <2>1 DEF IInv, TypeOK
  <2>3. NameInv' /\ BodyInv'
    BY <2>1 DEF NameInv, BodyInv
  <2>. QED  BY <1>4, <2>2, <2>3 DEF IInv
<1>8. CASE matches /\ at = 4
  <2>1. main' = "disable" /\ at' = at /\ ssid' = ssid /\ pass' = content[4]
    BY <1>2, <1>8
  <2>2. TypeOK'
    BY <1>1, <1>5, <1>8, <2>1 DEF IInv, TypeOK
  <2>3. NameInv'
    BY <1>1, <1>4, <2>1 DEF NameInv
  <2>4. ~disturbed => Valid(body) /\ ssid = body[2] /\ content[4] = body[4]
    BY <1>6, <1>8 DEF Valid
  <2>5. BodyInv'
    BY <1>1, <1>4, <2>1, <2>4 DEF BodyInv
  <2>. QED  BY <1>4, <2>2, <2>3, <2>5 DEF IInv
<1>9. CASE matches /\ at # 4
  <2>1. /\ main' = "sscanf" /\ at' = at + 1 /\ at' \in 2..4 /\ pass' = pass
        /\ ssid' = IF at = 2 THEN content[2] ELSE ssid
    BY <1>1, <1>2, <1>9
  <2>2. TypeOK'
    BY <1>1, <1>5, <1>9, <2>1 DEF IInv, TypeOK
  <2>3. NameInv'
    BY <1>1, <1>4, <2>1 DEF NameInv
  <2>4. ASSUME ~disturbed
        PROVE  /\ until = Len(body) /\ at' - 1 <= until
               /\ at' >= 2 => body[1] = "SSID:"
               /\ at' >= 3 => ssid' = body[2]
               /\ at' >= 4 => body[3] = "PASS:"
    <3>1. /\ body[at] = content[at] /\ at <= Len(body) /\ until = Len(body)
          /\ at >= 2 => body[1] = "SSID:"
          /\ at >= 3 => ssid = body[2]
      BY <1>6, <1>9, <2>4
    <3>2. CASE at = 1
      BY <1>9, <2>1, <3>1, <3>2
    <3>3. CASE at = 2
      BY <2>1, <3>1, <3>3
    <3>4. CASE at = 3
      BY <1>9, <2>1, <3>1, <3>4
    <3>. QED  BY <1>1, <1>9, <3>2, <3>3, <3>4
  <2>5. BodyInv'
    BY <1>1, <1>4, <2>1, <2>4 DEF BodyInv
  <2>. QED  BY <1>4, <2>2, <2>3, <2>5 DEF IInv
<1>. QED  BY <1>7, <1>8, <1>9

LEMMA ClearInvariant ==
  ASSUME IInv, ClearContent \/ ClearFi
  PROVE  IInv'
<1>1. fi \in [1..FiSize -> Symbol] /\ content \in [1..ContentSize -> Symbol]
  BY DEF IInv, TypeOK
<1>2. /\ main' \in {"clearFi", "delay"}
      /\ fi' = fi \/ fi' = [fi EXCEPT ![1] = NUL]
      /\ content' = content \/ content' = [content EXCEPT ![1] = NUL]
      /\ UNCHANGED <<at, until, ssid, pass, credentials_recived, controller, sending,
                     files, upload, under, reply, acknowledged, disturbed>>
  BY DEF ClearContent, ClearFi, peer
<1>3. /\ [fi EXCEPT ![1] = NUL] \in [1..FiSize -> Symbol]
      /\ [fi EXCEPT ![1] = NUL][1] = NUL
      /\ [content EXCEPT ![1] = NUL] \in [1..ContentSize -> Symbol]
      /\ [content EXCEPT ![1] = NUL][1] = NUL
      /\ FiSize \in Nat \ {0} /\ ContentSize \in Nat \ {0}
  BY <1>1, Sizes
<1>4. /\ Holds([fi EXCEPT ![1] = NUL], "name") /\ Shows([fi EXCEPT ![1] = NUL], <<>>)
      /\ Holds([content EXCEPT ![1] = NUL], "body")
  BY <1>3, EmptyHolds
<1>5. BuffersInv' /\ OwnerInv'
  BY <1>2, <1>4 DEF IInv, BuffersInv, OwnerInv
<1>6. fi' \in [1..FiSize -> Symbol] /\ content' \in [1..ContentSize -> Symbol]
  BY <1>1, <1>2, <1>3
<1>7. /\ \E n \in DOMAIN fi' : fi'[n] = NUL
      /\ \E n \in DOMAIN content' : content'[n] = NUL
  BY <1>5, <1>6, Sizes, HoldsText DEF BuffersInv
<1>8. TypeOK'
  BY <1>2, <1>6, <1>7 DEF IInv, TypeOK
<1>9. NameInv' /\ BodyInv'
  BY <1>2 DEF NameInv, BodyInv
<1>. QED  BY <1>5, <1>8, <1>9 DEF IInv

LEMMA StepInvariant == IInv /\ [Next]_vars => IInv'
<1>. SUFFICES ASSUME IInv, [Next]_vars
              PROVE  IInv'
  OBVIOUS
<1>1. CASE Begin
  <2>1. /\ UNCHANGED <<fi, content, at, until, ssid, pass, disturbed, upload, under>>
        /\ main' = main
        /\ UNCHANGED <<credentials_recived, controller, acknowledged>>
        /\ sending' \in File /\ files' = files + 1 /\ files < MaxFiles /\ reply' = "none"
    BY <1>1 DEF Begin, poll, buffers
  <2>2. sending' \in Seq(Packets)
    BY <2>1, SentTypes
  <2>3. TypeOK'
    BY <2>1, <2>2, Sizes DEF IInv, TypeOK
  <2>. QED  BY <2>1, <2>3, Elsewhere
<1>2. CASE Put
  BY <1>2, PutInvariant
<1>3. CASE Answered
  <2>1. /\ UNCHANGED <<fi, content, at, until, ssid, pass, disturbed, upload, under>>
        /\ main' = main
        /\ UNCHANGED <<credentials_recived, controller, acknowledged, sending, files>>
        /\ reply' = "none"
    BY <1>3 DEF Answered, poll, peer, buffers
  <2>2. TypeOK'
    BY <2>1 DEF IInv, TypeOK
  <2>. QED  BY <2>1, <2>2, Elsewhere
<1>4. CASE Strcmp
  BY <1>4, StrcmpInvariant
<1>5. CASE Sscanf
  BY <1>5, SscanfInvariant
<1>6. CASE Disable
  <2>1. /\ UNCHANGED <<fi, content, at, until, ssid, pass, disturbed, upload, under>>
        /\ main' = "clearContent"
        /\ UNCHANGED <<acknowledged, sending, files, reply>>
        /\ credentials_recived' = 1 /\ controller' = "disabled"
    BY <1>6 DEF Disable, peer, buffers
  <2>2. TypeOK'
    BY <2>1 DEF IInv, TypeOK
  <2>. QED  BY <2>1, <2>2, Elsewhere
<1>7. CASE ClearContent \/ ClearFi
  BY <1>7, ClearInvariant
<1>8. CASE Delay
  <2>1. /\ UNCHANGED <<fi, content, until, ssid, pass, credentials_recived, controller,
                       sending, files, upload, under, reply, acknowledged, disturbed>>
        /\ \/ main' = "done" /\ at' = at
           \/ main' = "strcmp" /\ at' = 1
    BY <1>8 DEF Delay, buffers, peer
  <2>2. TypeOK'
    BY <2>1 DEF IInv, TypeOK
  <2>3. BuffersInv' /\ OwnerInv'
    BY <2>1 DEF IInv, BuffersInv, OwnerInv
  <2>4. NameInv' /\ BodyInv'
    BY <2>1 DEF NameInv, BodyInv
  <2>. QED  BY <2>2, <2>3, <2>4 DEF IInv
<1>9. CASE UNCHANGED vars
  <2>1. /\ UNCHANGED <<fi, content, at, until, ssid, pass, disturbed, upload, under>>
        /\ main' = main
        /\ UNCHANGED <<credentials_recived, controller, acknowledged, sending, files, reply>>
    BY <1>9 DEF vars, poll, peer, buffers
  <2>2. TypeOK'
    BY <2>1 DEF IInv, TypeOK
  <2>. QED  BY <2>1, <2>2, Elsewhere
<1>. QED
  BY <1>1, <1>2, <1>3, <1>4, <1>5, <1>6, <1>7, <1>8, <1>9 DEF Next, AppMain

LEMMA Invariant == Spec => []IInv
BY InitInvariant, StepInvariant, PTL DEF Spec

(* The types; what the string functions see is always a terminated text.   *)
THEOREM ProvisioningTypeCorrect == Spec => []TypeOK
<1>1. IInv => TypeOK
  BY DEF IInv
<1>. QED  BY <1>1, Invariant, PTL

(* No reader sees the remains of an earlier, longer value.                 *)
THEOREM BuffersClean == Spec => []NoRemains
<1>1. IInv => NoRemains
  BY BufferTexts DEF IInv, NoRemains
<1>. QED  BY <1>1, Invariant, PTL

(* What app_main takes undisturbed is one whole body, valid, and of the    *)
(* wanted file, unless of that file nothing has come yet but its name.     *)
THEOREM CredentialsWhole == Spec => []TakenWhole
<1>1. IInv => TakenWhole
  <2>. SUFFICES ASSUME IInv, main = "disable", ~disturbed
                PROVE  /\ Str(fi) = Wanted
                       /\ Valid(Str(content))
                       /\ <<ssid, pass>> = <<Str(content)[2], Str(content)[4]>>
                       /\ Text(under) = Wanted \/ upload.body = <<>>
    BY DEF TakenWhole
  <2>1. Str(fi) = Wanted
    BY DEF IInv, NameInv
  <2>2. Valid(Str(content)) /\ <<ssid, pass>> = <<Str(content)[2], Str(content)[4]>>
    BY DEF IInv, BodyInv
  <2>3. fi \in [1..FiSize -> Symbol] /\ upload.name \in Seq(Symbol) /\ FiSize \in Nat
    BY Sizes DEF IInv, TypeOK, Upload
  <2>4. Str(fi) # <<>>
    BY <2>1 DEF Wanted
  <2>5. Shows(fi, upload.name)
    BY <2>3, <2>4, ShowsText, EmptySeq DEF IInv, OwnerInv
  <2>6. Text(upload.name) = Wanted
    BY <2>1, <2>3, <2>5, ShowsText
  <2>. QED  BY <2>1, <2>2, <2>6 DEF IInv, OwnerInv
<1>. QED  BY <1>1, Invariant, PTL
=============================================================================
