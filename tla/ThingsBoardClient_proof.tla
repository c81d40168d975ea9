----------------------- MODULE ThingsBoardClient_proof -----------------------
(***************************************************************************)
(* The safety properties of ThingsBoardClient, for lists of any length and *)
(* any number of requests, subscriptions and lost connections.             *)
(***************************************************************************)
EXTENDS ThingsBoardClient, SequenceTheorems,
        WellFoundedInduction, TLAPS

-----------------------------------------------------------------------------
(* The inductive invariant                                                 *)

(* The application is between Request and Send.                            *)
Busy == app \in {"subscribed", "pushed", "numbered"}

Entries(k) == Range(list[k])

(* How far the request of the application is.  Nobody else makes a list    *)
(* longer, so what registeredCallback points to is its own entry or past   *)
(* the end.                                                                *)
AppInv ==
  /\ Busy => req = made /\ made > 0
  /\ m_request_id = IF app \in {"subscribed", "pushed"} THEN made - 1 ELSE made
  /\ app = "subscribed" => Len(list[kind]) < Capacity
  /\ app = "pushed" =>
       /\ slot > 0 /\ Len(list[kind]) <= slot
       /\ slot = Len(list[kind]) => list[kind][slot] = [id |-> 0, req |-> req]
  /\ app = "clearing" => list[kind] = << >>

(* A number stands for one request, on the wire and in the lists.          *)
IdInv ==
  /\ \A m \in wire :
       /\ m.id > 0 /\ m.id <= m_request_id /\ m.req <= made
       /\ Busy => m.req # req
  /\ \A k \in Kind : \A e \in Entries(k) :
       /\ e.id <= m_request_id /\ e.req <= made
       /\ app = "numbered" /\ e.id = m_request_id => e.req = req
       /\ \A m \in wire : e.id = m.id => e.req = m.req

(* A request under way that met no handler is at the end of its list, with *)
(* its topic subscribed to unless the connection was lost.                 *)
OwnInv ==
  Busy /\ req \notin raced =>
    /\ handler = "idle" \/ hkind # kind
    /\ state[req] = "registering" => kind \in subs
    /\ app = "pushed" => slot = Len(list[kind])
    /\ app = "numbered" => [id |-> m_request_id, req |-> req] \in Entries(kind)

(* Without a connection nothing is awaited, nor thought to be subscribed;  *)
(* without a client there is no connection.                                *)
ConnInv ==
  /\ m_mqtt_client = "null" => esp = "none"
  /\ esp # "connected" =>
       /\ held = {}
       /\ \A r \in Req : state[r] \notin {"registering", "awaited"}

(* What the handler is about to erase is nobody's who waits: it is the     *)
(* request that was answered, or one that came while it was answered.      *)
HandlerInv ==
  /\ handler = "called" =>
       /\ index > 0
       /\ index <= Len(list[hkind]) \/ 0 \in raced
       /\ index <= Len(list[hkind]) =>
            LET r == list[hkind][index].req IN
              \/ r \in raced
              \/ /\ state[r] \notin {"registering", "awaited"}
                 /\ Busy => r # req
  /\ handler = "emptied" => \A e \in Entries(hkind) : e.req \in raced

(* Heard, whose set of one entry follows from IdInv.                       *)
WaitInv ==
  /\ esp = "connected" => held \subseteq subs
  /\ \A r \in Req : state[r] # "foreign"
  /\ \A r \in Req \ raced : state[r] = "awaited" =>
       \E m \in wire : /\ m.req = r /\ m.kind \in subs
                      /\ [id |-> m.id, req |-> r] \in Entries(m.kind)

IInv ==
  TypeOK /\ AppInv /\ IdInv /\ OwnInv /\ ConnInv /\ HandlerInv /\ WaitInv /\ EraseInBounds

-----------------------------------------------------------------------------
(* Lists                                                                   *)

LEMMA RangeOf ==
  ASSUME NEW S, NEW s \in Seq(S)
  PROVE  /\ Range(s) \subseteq S
         /\ \A i \in 1..Len(s) : s[i] \in S /\ s[i] \in Range(s)
         /\ \A e \in Range(s) : \E i \in 1..Len(s) : e = s[i]
  <1>1. DOMAIN s = 1..Len(s) /\ \A i \in 1..Len(s) : s[i] \in S
    BY LenProperties, ElementOfSeq
  <1> QED BY <1>1 DEF Range

LEMMA RangeAppend ==
  ASSUME NEW S, NEW s \in Seq(S), NEW x \in S
  PROVE  /\ Append(s, x) \in Seq(S) /\ Len(Append(s, x)) = Len(s) + 1
         /\ \A i \in 1..Len(s) : Append(s, x)[i] = s[i]
         /\ Append(s, x)[Len(s) + 1] = x
         /\ Range(Append(s, x)) = Range(s) \union {x}
  <1>1. /\ Append(s, x) \in Seq(S) /\ Len(Append(s, x)) = Len(s) + 1
        /\ \A i \in 1..Len(s) : Append(s, x)[i] = s[i]
        /\ Append(s, x)[Len(s) + 1] = x /\ Len(s) \in Nat
    BY AppendProperties, LenProperties
  <1>2. DOMAIN Append(s, x) = 1..(Len(s) + 1) /\ DOMAIN s = 1..Len(s)
    BY <1>1, LenProperties
  <1>3. Range(Append(s, x)) \subseteq Range(s) \union {x}
    BY <1>1, <1>2 DEF Range
  <1>4. Range(s) \union {x} \subseteq Range(Append(s, x))
    BY <1>1, <1>2 DEF Range
  <1> QED BY <1>1, <1>3, <1>4

LEMMA RangeRemove ==
  ASSUME NEW S, NEW s \in Seq(S), NEW i \in 1..Len(s)
  PROVE  /\ RemoveAt(s, i) \in Seq(S) /\ Len(RemoveAt(s, i)) = Len(s) - 1
         /\ Range(RemoveAt(s, i)) \subseteq Range(s)
         /\ \A e \in Range(s) : e # s[i] => e \in Range(RemoveAt(s, i))
  <1> DEFINE a == SubSeq(s, 1, i - 1)
             b == SubSeq(s, i + 1, Len(s))
  <1>0. Len(s) \in Nat /\ \A j \in 1..Len(s) : s[j] \in S
    BY LenProperties, ElementOfSeq
  <1>1. /\ a \in Seq(S) /\ Len(a) = i - 1
        /\ \A j \in 1..(i - 1) : a[j] = s[j]
    BY <1>0, SubSeqProperties
  <1>2. /\ b \in Seq(S) /\ Len(b) = Len(s) - i
        /\ \A j \in 1..(Len(s) - i) : b[j] = s[i + j]
    BY <1>0, SubSeqProperties
  <1>3. /\ a \o b \in Seq(S) /\ Len(a \o b) = Len(s) - 1
        /\ \A j \in 1..(Len(s) - 1) : (a \o b)[j] = IF j < i THEN s[j] ELSE s[j + 1]
    <2> HIDE DEF a, b
    <2>1. /\ a \o b \in Seq(S) /\ Len(a \o b) = Len(a) + Len(b)
          /\ \A j \in 1..(Len(a) + Len(b)) :
               (a \o b)[j] = IF j <= Len(a) THEN a[j] ELSE b[j - Len(a)]
      BY <1>1, <1>2, ConcatProperties
    <2>2. ASSUME NEW j \in 1..(Len(s) - 1)
          PROVE  (a \o b)[j] = IF j < i THEN s[j] ELSE s[j + 1]
      <3>1. j \in 1..(Len(a) + Len(b)) /\ i \in Nat /\ j \in Nat
        BY <1>0, <1>1, <1>2
      <3>2. CASE j < i
        BY <1>0, <1>1, <2>1, <3>1, <3>2
      <3>3. CASE j >= i
        <4>1. j - Len(a) \in 1..(Len(s) - i) /\ i + (j - Len(a)) = j + 1
          BY <1>0, <1>1, <3>1, <3>3
        <4>2. (a \o b)[j] = b[j - Len(a)]
          BY <1>1, <2>1, <3>1, <3>3
        <4> QED BY <1>2, <3>1, <3>3, <4>1, <4>2
      <3> QED BY <3>1, <3>2, <3>3
    <2> QED BY <1>0, <1>1, <1>2, <2>1, <2>2
  <1>4. RemoveAt(s, i) = a \o b
    BY DEF RemoveAt
  <1>5. DOMAIN RemoveAt(s, i) = 1..(Len(s) - 1) /\ DOMAIN s = 1..Len(s)
    BY <1>3, <1>4, LenProperties
  <1> HIDE DEF a, b
  <1>6. Range(RemoveAt(s, i)) \subseteq Range(s)
    <2>1. ASSUME NEW j \in 1..(Len(s) - 1)
          PROVE  RemoveAt(s, i)[j] \in Range(s)
      <3>1. j \in 1..Len(s) /\ j + 1 \in 1..Len(s)
        BY <1>0
      <3>2. s[j] \in Range(s) /\ s[j + 1] \in Range(s)
        BY <3>1, RangeOf
      <3> QED BY <1>3, <1>4, <3>2
    <2> QED BY <1>5, <2>1 DEF Range
  <1>7. ASSUME NEW e \in Range(s), e # s[i] PROVE e \in Range(RemoveAt(s, i))
    <2>1. PICK j \in 1..Len(s) : e = s[j]
      BY <1>5 DEF Range
    <2>2. CASE j < i
      <3>1. j \in 1..(Len(s) - 1) /\ RemoveAt(s, i)[j] = e
        BY <1>0, <1>3, <1>4, <2>1, <2>2
      <3> QED BY <1>5, <3>1 DEF Range
    <2>3. CASE j > i
      <3>1. j - 1 \in 1..(Len(s) - 1) /\ ~(j - 1 < i) /\ (j - 1) + 1 = j
        BY <1>0, <2>3
      <3>2. RemoveAt(s, i)[j - 1] = e
        BY <1>3, <1>4, <2>1, <3>1
      <3> QED BY <1>5, <3>1, <3>2 DEF Range
    <2> QED BY <1>0, <1>7, <2>1, <2>2, <2>3
  <1> QED BY <1>3, <1>4, <1>6, <1>7

(* The first entry with a number, as the handler looks for it.             *)
LEMMA Found ==
  ASSUME NEW S, NEW s \in Seq(S), NEW n
  PROVE  LET at == SelectInSeq(s, LAMBDA e : e.id = n) IN
           /\ at \in 0..Len(s)
           /\ at # 0 => s[at].id = n
           /\ at = 0 => \A e \in Range(s) : e.id # n
  <1> DEFINE I == {i \in 1..Len(s) : s[i].id = n}
  <1>0. Len(s) \in Nat /\ I \subseteq Nat
    BY LenProperties
  <1>1. SelectInSeq(s, LAMBDA e : e.id = n) = IF I # {} THEN Min(I) ELSE 0
    BY DEF SelectInSeq
  <1>2. CASE I # {}
    <2>1. PICK k \in I : TRUE
      BY <1>2
    <2>2. \E x \in I : \A y \in I : x <= y
      <3>1. PICK x \in I : \A y \in I : <<y, x>> \notin OpToRel(<, Nat)
        BY <1>0, <2>1, NatLessThanWellFounded, WFMin
      <3>2. \A y \in I : x \in Nat /\ y \in Nat /\ ~(y < x)
        BY <1>0, <3>1 DEF OpToRel
      <3> QED BY <3>2
    <2>3. Min(I) \in I
      BY <2>2 DEF Min
    <2> QED BY <1>0, <1>1, <1>2, <2>3
  <1>3. CASE I = {}
    BY <1>0, <1>1, <1>3, RangeOf
  <1> QED BY <1>2, <1>3

-----------------------------------------------------------------------------
(* What the properties say, and the beginning                              *)

LEMMA ListsOf ==
  ASSUME TypeOK, NEW k \in Kind
  PROVE  /\ list[k] \in Seq(Entry) /\ Len(list[k]) \in Nat /\ Len(list[k]) <= Capacity
         /\ Entries(k) \subseteq Entry
         /\ \A i \in 1..Len(list[k]) : list[k][i] \in Entry /\ list[k][i] \in Entries(k)
         /\ \A e \in Entries(k) : \E i \in 1..Len(list[k]) : e = list[k][i]
  <1>1. list[k] \in Seq(Entry) /\ Len(list[k]) <= Capacity
    BY DEF TypeOK
  <1> QED BY <1>1, RangeOf, LenProperties DEF Entries

LEMMA Numbers ==
  ASSUME TypeOK
  PROVE  /\ m_request_id \in Nat /\ made \in Nat /\ req \in Nat /\ slot \in Nat
         /\ index \in Nat /\ Capacity \in Nat /\ MaxRequests \in Nat
         /\ kind \in Kind /\ hkind \in Kind
         /\ \A m \in wire : m.kind \in Kind /\ m.id \in Nat /\ m.req \in Req
         /\ \A k \in Kind : \A e \in Entries(k) : e.id \in Nat /\ e.req \in Req
  <1>1. \A k \in Kind : \A e \in Entries(k) : e \in Entry
    BY ListsOf
  <1> QED BY <1>1, TbAssumption DEF TypeOK, Entry, Message, Req

LEMMA InvHeard == IInv => Heard
  <1> SUFFICES ASSUME IInv PROVE Heard
    OBVIOUS
  <1>1. ASSUME NEW r \in Req \ raced, state[r] = "awaited"
        PROVE  \E m \in wire :
                 /\ m.req = r /\ m.kind \in subs
                 /\ {e \in Range(list[m.kind]) : e.id = m.id} = {[id |-> m.id, req |-> r]}
    <2>1. PICK m \in wire : /\ m.req = r /\ m.kind \in subs
                            /\ [id |-> m.id, req |-> r] \in Entries(m.kind)
      BY <1>1 DEF IInv, WaitInv
    <2>2. m.kind \in Kind
      BY Numbers DEF IInv
    <2>3. \A e \in Entries(m.kind) : e.id = m.id => e = [id |-> m.id, req |-> r]
      BY <2>1, <2>2, ListsOf DEF IInv, IdInv, Entry
    <2> QED BY <2>1, <2>3 DEF Entries
  <1> QED BY <1>1 DEF IInv, WaitInv, Heard

LEMMA InitInv == Init => IInv
  <1> SUFFICES ASSUME Init PROVE IInv
    OBVIOUS
  <1>1. TypeOK
    BY TbAssumption, MqttAssumption, TopicAssumption
       DEF Init, MqttInit, TypeOK, MqttTypeOK, Kind
  <1>2. \A k \in Kind : Entries(k) = {} /\ Len(list[k]) = 0
    BY DEF Init, Entries, Range
  <1> QED BY <1>1, <1>2
          DEF Init, MqttInit, IInv, AppInv, IdInv, OwnInv, ConnInv, HandlerInv,
              WaitInv, EraseInBounds, Busy

-----------------------------------------------------------------------------
(* The connection                                                          *)

(* A step that leaves lists, requests and handler alone, and the topics of *)
(* the requests too unless there is no connection to lose them on.         *)
LEMMA StillThere ==
  ASSUME IInv, TypeOK',
         UNCHANGED <<lists, requester, receiver, wire, made, state, raced, broken>>,
         esp # "connected" \/ \A k \in Kind : k \in subs => k \in subs',
         esp' # "connected" => esp # "connected" /\ held' = held,
         esp' = "connected" => held' \subseteq subs',
         m_mqtt_client' = "null" => esp' = "none"
  PROVE  IInv'
  <1> USE DEF lists, requester, receiver
  <1>1. \A k \in Kind : Entries(k)' = Entries(k) /\ list'[k] = list[k]
    BY DEF Entries
  <1>2. AppInv' /\ IdInv'
    BY <1>1, Numbers DEF IInv, AppInv, IdInv, Busy
  <1>3. ConnInv' /\ HandlerInv' /\ EraseInBounds'
    BY <1>1, Numbers DEF IInv, ConnInv, HandlerInv, EraseInBounds, Busy
  <1>4. OwnInv'
    <2>1. Busy => req \in Req
      BY Numbers DEF IInv, TypeOK, AppInv, Req
    <2> QED BY <1>1, <2>1, Numbers DEF IInv, OwnInv, ConnInv, Busy
  <1>5. WaitInv'
    BY <1>1, Numbers DEF IInv, WaitInv, ConnInv
  <1> QED BY <1>2, <1>3, <1>4, <1>5 DEF IInv

(* The connection goes, and with it all that was awaited.                  *)
LEMMA Gone ==
  ASSUME IInv, TypeOK',
         UNCHANGED <<lists, requester, receiver, made, raced, broken>>,
         esp' = "wait", state' = Cut, wire' = {}, held' = {}, m_mqtt_client' = "set"
  PROVE  IInv'
  <1> USE DEF lists, requester, receiver
  <1>1. \A k \in Kind : Entries(k)' = Entries(k) /\ list'[k] = list[k]
    BY DEF Entries
  <1>2. \A r \in Req : /\ state'[r] \notin {"registering", "awaited"}
                       /\ state[r] # "foreign" => state'[r] # "foreign"
    BY DEF Cut
  <1>3. AppInv' /\ IdInv'
    BY <1>1, Numbers DEF IInv, AppInv, IdInv, Busy
  <1>4. ConnInv' /\ WaitInv' /\ EraseInBounds'
    BY <1>2 DEF IInv, ConnInv, WaitInv, EraseInBounds
  <1>5. OwnInv'
    <2>1. Busy => req \in Req
      BY Numbers DEF IInv, TypeOK, AppInv, Req
    <2> QED BY <1>1, <1>2, <2>1, Numbers DEF IInv, OwnInv, Busy
  <1>6. HandlerInv'
    <2>1. \A i \in 1..Len(list[hkind]) : list[hkind][i].req \in Req
      BY Numbers, ListsOf DEF IInv
    <2> QED BY <1>1, <1>2, <2>1, Numbers, ListsOf DEF IInv, HandlerInv, Busy
  <1> QED BY <1>3, <1>4, <1>5, <1>6 DEF IInv

LEMMA CheckInv ==
  ASSUME IInv, Check
  PROVE  IInv'
  <1>1. UNCHANGED <<permanent, lists, requester, receiver, wire, made, calls, state,
                    raced, held, broken>>
    BY DEF Check, ghosts
  <1>2. CASE UNCHANGED mqttVars /\ lap' = "temperature"
    <2>1. TypeOK'
      BY <1>1, <1>2 DEF IInv, TypeOK, MqttTypeOK, mqttVars, lists, requester, receiver
    <2> QED BY <1>1, <1>2, <2>1, StillThere DEF IInv, WaitInv, ConnInv, mqttVars
  <1>3. ASSUME NEW ok \in BOOLEAN, Connect(ok),
               lap' = IF ok THEN "resubscribe" ELSE "temperature"
        PROVE  IInv'
    <2>1. /\ MqttTypeOK' /\ subs' = subs
          /\ esp' = "connected" <=> esp = "connected"
          /\ m_mqtt_client' = "null" => esp' = "none"
      BY <1>3, MqttAssumption DEF Connect, IInv, TypeOK, MqttTypeOK, ConnInv
    <2>2. TypeOK'
      BY <1>1, <1>3, <2>1 DEF IInv, TypeOK, lists, requester, receiver
    <2> QED BY <1>1, <2>1, <2>2, StillThere DEF IInv, WaitInv
  <1> QED BY <1>2, <1>3 DEF Check

LEMMA ResubscribeInv ==
  ASSUME IInv, Resubscribe
  PROVE  IInv'
  <1>1. /\ UNCHANGED <<m_mqtt_client, esp, lists, requester, receiver, wire, made, state,
                       raced, broken>>
        /\ subs' = IF esp = "connected" THEN subs \union permanent ELSE subs
        /\ held' = IF esp = "connected" THEN held \union permanent ELSE held
    BY DEF Resubscribe
  <1>2. TypeOK'
    BY <1>1, TopicAssumption
       DEF Resubscribe, IInv, TypeOK, MqttTypeOK, lists, requester, receiver
  <1> QED BY <1>1, <1>2, StillThere DEF IInv, WaitInv, ConnInv

(* What a failed write or a broken connection does.                        *)
LEMMA AbortInv ==
  ASSUME IInv, Abort, LostConnection, esp \in {"connecting", "connected"},
         lap' \in {"check", "resubscribe", "temperature", "humidity"},
         UNCHANGED <<permanent, lists, requester, receiver, made, calls, raced, broken>>
  PROVE  IInv'
  <1>1. /\ esp' = "wait" /\ state' = Cut /\ wire' = {} /\ held' = {}
        /\ m_mqtt_client' = "set"
    BY DEF Abort, LostConnection, IInv, TypeOK, MqttTypeOK, ConnInv
  <1>2. MqttTypeOK'
    BY MqttAssumption DEF Abort, IInv, TypeOK, MqttTypeOK
  <1>3. TypeOK'
    BY <1>1, <1>2 DEF Cut, IInv, TypeOK, lists, requester, receiver
  <1> QED BY <1>1, <1>3, Gone

LEMMA TelemetryInv ==
  ASSUME IInv, SendTemperature \/ SendHumidity
  PROVE  IInv'
  <1>1. /\ UNCHANGED <<permanent, lists, requester, receiver, made, calls, raced, broken>>
        /\ lap' \in {"humidity", "check"} /\ LostConnection
        /\ \E ok \in BOOLEAN : Publish(ok)
    BY DEF SendTemperature, SendHumidity, Telemetry
  <1>2. CASE UNCHANGED mqttVars
    <2>1. UNCHANGED <<state, wire, held>>
      BY <1>1, <1>2 DEF LostConnection, mqttVars
    <2>2. TypeOK'
      BY <1>1, <1>2, <2>1 DEF IInv, TypeOK, MqttTypeOK, mqttVars, lists, requester, receiver
    <2> QED BY <1>1, <1>2, <2>1, <2>2, StillThere DEF IInv, WaitInv, ConnInv, mqttVars
  <1>3. CASE esp = "connected" /\ Abort
    BY <1>1, <1>3, AbortInv
  <1> QED BY <1>1, <1>2, <1>3 DEF Publish

LEMMA LinkInv ==
  ASSUME IInv, Link
  PROVE  IInv'
  <1>1. /\ UNCHANGED <<lap, permanent, lists, requester, receiver, made, calls, raced, broken>>
        /\ LostConnection
    BY DEF Link
  <1>2. CASE Established \/ TryAgain
    <2>1. /\ UNCHANGED <<state, wire, held>> /\ m_mqtt_client' = m_mqtt_client
          /\ esp \in {"connecting", "wait"} /\ esp' \in {"connected", "connecting"}
      BY <1>1, <1>2 DEF Established, TryAgain, LostConnection
    <2>2. TypeOK'
      BY <1>1, <1>2, <2>1
         DEF Established, TryAgain, IInv, TypeOK, MqttTypeOK, lists, requester, receiver
    <2>3. held = {} /\ m_mqtt_client # "null"
      BY <2>1 DEF IInv, ConnInv
    <2> QED BY <1>1, <2>1, <2>2, <2>3, StillThere
  <1>3. CASE Dropped
    BY <1>1, <1>3, AbortInv DEF Dropped, IInv, TypeOK
  <1> QED BY <1>2, <1>3 DEF Link

LEMMA PermanentInv ==
  ASSUME IInv, NEW t \in Permanent, SubscribePermanent(t) \/ UnsubscribePermanent(t)
  PROVE  IInv'
  <1>1. UNCHANGED <<lap, lists, requester, receiver, wire, made, state, raced, broken,
                    m_mqtt_client, m_connected, esp, drops, noMemory>>
    BY DEF SubscribePermanent, UnsubscribePermanent, Subscribe, Unsubscribe
  <1>2. /\ held' \subseteq Permanent /\ permanent' \subseteq Permanent
        /\ subs' \subseteq Topic
        /\ \A k \in Kind : k \in subs => k \in subs'
        /\ esp # "connected" => held' = held
        /\ esp = "connected" => held' \subseteq subs'
    <2>1. CASE SubscribePermanent(t)
      BY <2>1, TopicAssumption
         DEF SubscribePermanent, Subscribe, IInv, TypeOK, MqttTypeOK, WaitInv
    <2>2. CASE UnsubscribePermanent(t)
      BY <2>2, TopicAssumption
         DEF UnsubscribePermanent, Unsubscribe, IInv, TypeOK, MqttTypeOK, WaitInv, ConnInv,
             Kind, Permanent
    <2> QED BY <2>1, <2>2
  <1>3. calls' \in 0..MaxSubscribes
    <2>1. calls < MaxSubscribes /\ calls' = calls + 1
      BY DEF SubscribePermanent, UnsubscribePermanent
    <2>2. calls \in 0..MaxSubscribes
      BY DEF IInv, TypeOK
    <2> QED BY <2>1, <2>2, TbAssumption
  <1>4. TypeOK'
    BY <1>1, <1>2, <1>3 DEF IInv, TypeOK, MqttTypeOK, lists, requester, receiver
  <1> QED BY <1>1, <1>2, <1>4, StillThere DEF IInv, ConnInv
-----------------------------------------------------------------------------
(* The requests                                                            *)

LEMMA RequestInv ==
  ASSUME IInv, NEW k \in Kind, Request(k)
  PROVE  IInv'
  <1>1. /\ app = "idle" /\ handler = "idle" /\ made < MaxRequests
        /\ Len(list[k]) + 1 <= Capacity
        /\ app' = "subscribed" /\ kind' = k /\ slot' = 0
        /\ made' = made + 1 /\ req' = made + 1
        /\ state' = [state EXCEPT ![made + 1] = "registering"]
        /\ UNCHANGED <<lap, permanent, list, m_request_id, handler, hkind, index, wire,
                       calls, raced, held, broken, m_mqtt_client, m_connected, esp, drops,
                       noMemory>>
        /\ esp = "connected" /\ subs' = subs \union {k}
    BY DEF Request, Subscribe, lists, receiver
  <1>2. made + 1 \in Req /\ made + 1 \in 1..MaxRequests
    BY <1>1, Numbers DEF IInv, Req
  <1>3. TypeOK'
    <2>1. subs' \subseteq Topic
      BY <1>1, TopicAssumption DEF IInv, TypeOK, MqttTypeOK
    <2>2. MqttTypeOK'
      BY <1>1, <2>1 DEF IInv, TypeOK, MqttTypeOK
    <2>3. /\ slot' \in 0..Capacity /\ req' \in 0..MaxRequests
          /\ made' \in 0..MaxRequests
          /\ state' \in [Req -> {"none", "registering", "awaited", "answered",
                                 "unsent", "cut", "cleared", "foreign"}]
      BY <1>1, <1>2, Numbers DEF IInv, TypeOK
    <2> QED BY <1>1, <2>2, <2>3 DEF IInv, TypeOK
  <1>4. \A j \in Kind : Entries(j)' = Entries(j) /\ list'[j] = list[j]
    BY <1>1 DEF Entries
  <1>5. AppInv'
    BY <1>1, <1>4, Numbers, ListsOf DEF IInv, AppInv, Busy
  <1>6. IdInv'
    <2>1. \A m \in wire : /\ m.id > 0 /\ m.id <= m_request_id
                          /\ m.req <= made + 1 /\ m.req # made + 1
      BY Numbers DEF IInv, IdInv, Req
    <2>2. \A j \in Kind : \A e \in Entries(j) :
             /\ e.id <= m_request_id /\ e.req <= made + 1
             /\ \A m \in wire : e.id = m.id => e.req = m.req
      BY Numbers DEF IInv, IdInv, Req
    <2> QED BY <1>1, <1>4, <2>1, <2>2 DEF IdInv
  <1>7. OwnInv' /\ ConnInv' /\ HandlerInv' /\ EraseInBounds'
    BY <1>1, <1>4 DEF IInv, OwnInv, ConnInv, HandlerInv, EraseInBounds, Busy
  <1>8. WaitInv'
    <2>1. \A r \in Req : /\ state'[r] = "awaited" => state[r] = "awaited"
                         /\ state'[r] # "foreign" \/ state[r] = "foreign"
      BY <1>1, <1>2 DEF IInv, TypeOK
    <2>2. ASSUME NEW r \in Req \ raced, state[r] = "awaited"
          PROVE  \E m \in wire : /\ m.req = r /\ m.kind \in subs'
                               /\ [id |-> m.id, req |-> r] \in Entries(m.kind)'
      BY <1>1, <1>4, <2>2, Numbers DEF IInv, WaitInv
    <2> QED BY <1>1, <2>1, <2>2 DEF IInv, WaitInv
  <1> QED BY <1>3, <1>5, <1>6, <1>7, <1>8 DEF IInv
(* A step that changes one list.                                           *)
LEMMA OneList ==
  ASSUME TypeOK, NEW k \in Kind, NEW s \in Seq(Entry), Len(s) <= Capacity,
         list' = [list EXCEPT ![k] = s]
  PROVE  /\ list' \in [Kind -> Seq(Entry)] /\ \A j \in Kind : Len(list'[j]) <= Capacity
         /\ list'[k] = s /\ Entries(k)' = Range(s)
         /\ \A j \in Kind : j # k => list'[j] = list[j] /\ Entries(j)' = Entries(j)
  <1>1. list \in [Kind -> Seq(Entry)] /\ \A j \in Kind : Len(list[j]) <= Capacity
    BY DEF TypeOK
  <1>2. list'[k] = s /\ \A j \in Kind : j # k => list'[j] = list[j]
    BY <1>1
  <1>3. list' \in [Kind -> Seq(Entry)]
    BY <1>1
  <1> QED BY <1>1, <1>2, <1>3 DEF Entries

LEMMA PushInv ==
  ASSUME IInv, Push
  PROVE  IInv'
  <1> DEFINE own == [id |-> 0, req |-> req]
             s == Append(list[kind], own)
  <1>1. /\ app = "subscribed"
        /\ list' = [list EXCEPT ![kind] = s]
        /\ slot' = Len(list[kind]) + 1
        /\ app' = "pushed"
        /\ raced' = IF handler # "idle" /\ hkind = kind THEN raced \union {req} ELSE raced
        /\ UNCHANGED <<mqttVars, lap, permanent, m_request_id, kind, req, handler, hkind,
                       index, wire, made, calls, state, held, broken>>
    BY DEF Push, Meets, receiver
  <1>2. /\ kind \in Kind /\ req \in Req /\ req = made /\ made > 0
        /\ m_request_id = made - 1 /\ made \in Nat /\ Len(list[kind]) < Capacity
    BY <1>1, Numbers DEF IInv, AppInv, Busy, TypeOK, Req
  <1>3. own \in Entry
    BY <1>2, TbAssumption DEF Entry
  <1>4. /\ s \in Seq(Entry) /\ Len(s) = Len(list[kind]) + 1
        /\ \A i \in 1..Len(list[kind]) : s[i] = list[kind][i]
        /\ s[Len(list[kind]) + 1] = own
        /\ Range(s) = Entries(kind) \union {own}
    BY <1>2, <1>3, ListsOf, RangeAppend DEF IInv, Entries
  <1> HIDE DEF s
  <1>5. /\ list' \in [Kind -> Seq(Entry)] /\ \A j \in Kind : Len(list'[j]) <= Capacity
        /\ list'[kind] = s /\ Entries(kind)' = Range(s)
        /\ \A j \in Kind : j # kind => list'[j] = list[j] /\ Entries(j)' = Entries(j)
    <2>1. Len(s) <= Capacity
      BY <1>2, <1>4, ListsOf, Numbers DEF IInv
    <2> QED BY <1>1, <1>2, <1>4, <2>1, OneList DEF IInv
  <1>6. TypeOK'
    <2>1. slot' \in 0..Capacity
      BY <1>1, <1>2, ListsOf, Numbers DEF IInv
    <2>2. raced' \subseteq 0..MaxRequests
      BY <1>1, <1>2, Numbers DEF IInv, TypeOK, Req
    <2>3. MqttTypeOK'
      BY <1>1 DEF IInv, TypeOK, MqttTypeOK, mqttVars
    <2> QED BY <1>1, <1>5, <2>1, <2>2, <2>3 DEF IInv, TypeOK
  <1>7. AppInv'
    BY <1>1, <1>2, <1>4, <1>5, ListsOf DEF IInv, AppInv, Busy
  <1>8. IdInv'
    <2>1. \A m \in wire : /\ m.id > 0 /\ m.id <= m_request_id
                          /\ m.req <= made /\ m.req # req
      BY <1>1 DEF IInv, IdInv, Busy
    <2>2. \A j \in Kind : \A e \in Entries(j) :
             /\ e.id <= m_request_id /\ e.req <= made
             /\ \A m \in wire : e.id = m.id => e.req = m.req
      BY DEF IInv, IdInv
    <2>3. /\ own.id <= m_request_id /\ own.req <= made
          /\ \A m \in wire : own.id # m.id
      BY <1>2, <2>1, Numbers DEF IInv
    <2> QED BY <1>1, <1>4, <1>5, <2>1, <2>2, <2>3 DEF IdInv
  <1>9. OwnInv'
    <2>1. UNCHANGED <<state, subs>> /\ slot' = Len(list'[kind])
      BY <1>1, <1>4, <1>5 DEF mqttVars
    <2> QED BY <1>1, <2>1 DEF IInv, OwnInv, Busy
  <1>10. ConnInv' /\ EraseInBounds'
    BY <1>1 DEF IInv, ConnInv, EraseInBounds, mqttVars
  <1>11. HandlerInv'
    <2>1. CASE hkind # kind
      BY <1>1, <1>5, <2>1, Numbers DEF IInv, HandlerInv, Busy
    <2>2. CASE hkind = kind /\ handler = "called"
      <3>1. index > 0 /\ index' = index /\ index \in Nat /\ Len(list[kind]) \in Nat
        BY <1>1, <1>2, <2>2, ListsOf, Numbers DEF IInv, HandlerInv
      <3>2. index <= Len(list[kind]) => s[index] = list[kind][index]
        BY <1>4, <3>1
      <3>3. index <= Len(s) /\ ~(index <= Len(list[kind])) => s[index].req \in raced'
        BY <1>1, <1>4, <2>2, <3>1
      <3> QED BY <1>1, <1>4, <1>5, <2>2, <3>1, <3>2, <3>3 DEF IInv, HandlerInv, Busy
    <2>3. CASE hkind = kind /\ handler = "emptied"
      BY <1>1, <1>4, <1>5, <2>3 DEF IInv, HandlerInv
    <2> QED BY <1>1, <2>1, <2>2, <2>3 DEF HandlerInv, IInv, TypeOK
  <1>12. WaitInv'
    <2>1. ASSUME NEW j \in Kind PROVE Entries(j) \subseteq Entries(j)'
      <3>1. CASE j = kind
        BY <1>4, <1>5, <3>1 DEF Entries
      <3>2. CASE j # kind
        BY <1>5, <3>2
      <3> QED BY <3>1, <3>2
    <2> QED BY <1>1, <2>1, Numbers DEF IInv, WaitInv, mqttVars
  <1> QED BY <1>6, <1>7, <1>8, <1>9, <1>10, <1>11, <1>12 DEF IInv
LEMMA NumberInv ==
  ASSUME IInv, Number
  PROVE  IInv'
  <1> DEFINE own == [id |-> 0, req |-> req]
             new == [id |-> m_request_id + 1, req |-> req]
             s == list'[kind]
  <1>1. /\ app = "pushed" /\ app' = "numbered"
        /\ m_request_id' = m_request_id + 1
        /\ list' = IF slot <= Len(list[kind])
                   THEN [list EXCEPT ![kind][slot].id = m_request_id + 1]
                   ELSE list
        /\ raced' = IF handler # "idle" /\ hkind = kind THEN raced \union {req} ELSE raced
        /\ UNCHANGED <<mqttVars, lap, permanent, kind, slot, req, handler, hkind,
                       index, wire, made, calls, state, held, broken>>
    BY DEF Number, Meets, receiver
  <1>2. /\ kind \in Kind /\ req \in Req /\ req = made /\ made > 0
        /\ m_request_id = made - 1 /\ made \in Nat /\ slot > 0 /\ slot \in Nat
        /\ Len(list[kind]) <= slot
        /\ slot = Len(list[kind]) => list[kind][slot] = own
    BY <1>1, Numbers DEF IInv, AppInv, Busy, TypeOK, Req
  <1>3. new \in Entry /\ m_request_id + 1 = made /\ made \in 0..MaxRequests
    BY <1>2 DEF Entry, IInv, TypeOK, Req
  <1>4. /\ s \in Seq(Entry) /\ Len(s) = Len(list[kind])
        /\ \A i \in 1..Len(list[kind]) : i # slot => s[i] = list[kind][i]
        /\ slot = Len(list[kind]) => s[slot] = new
        /\ \A j \in Kind : j # kind => list'[j] = list[j]
        /\ list' \in [Kind -> Seq(Entry)]
    <2>1. CASE slot <= Len(list[kind])
      <3>1. slot = Len(list[kind]) /\ slot \in 1..Len(list[kind]) /\ list[kind] \in Seq(Entry)
        BY <1>2, <2>1, ListsOf DEF IInv
      <3>2. [own EXCEPT !.id = m_request_id + 1] = new
        OBVIOUS
      <3>3. list' = [list EXCEPT ![kind] = [list[kind] EXCEPT ![slot] = new]]
        BY <1>1, <1>2, <2>1, <3>1, <3>2
      <3>4. list \in [Kind -> Seq(Entry)]
        BY DEF IInv, TypeOK
      <3>5. s = [list[kind] EXCEPT ![slot] = new]
        BY <1>2, <3>3, <3>4
      <3>6. /\ s \in Seq(Entry) /\ Len(s) = Len(list[kind]) /\ s[slot] = new
            /\ \A i \in 1..Len(list[kind]) : i # slot => s[i] = list[kind][i]
        BY <1>3, <3>1, <3>5, ExceptSeq
      <3>7. \A j \in Kind : j # kind => list'[j] = list[j]
        BY <3>3, <3>4
      <3>8. list' \in [Kind -> Seq(Entry)]
        BY <3>3, <3>4, <3>5, <3>6
      <3> QED BY <3>6, <3>7, <3>8
    <2>2. CASE ~(slot <= Len(list[kind]))
      BY <1>1, <1>2, <2>2, ListsOf DEF IInv, TypeOK
    <2> QED BY <2>1, <2>2
  <1> HIDE DEF s
  <1>5. /\ \A e \in Range(s) : e = new \/ e \in Entries(kind)
        /\ \A e \in Entries(kind) : e = own \/ e \in Range(s)
        /\ slot = Len(list[kind]) => new \in Range(s)
    <2>1. \A i \in 1..Len(list[kind]) :
             i = slot => slot = Len(list[kind]) /\ s[i] = new /\ list[kind][i] = own
      BY <1>2, <1>4, ListsOf DEF IInv
    <2>2. /\ \A e \in Range(s) : \E i \in 1..Len(list[kind]) : e = s[i]
          /\ \A i \in 1..Len(list[kind]) : s[i] \in Range(s)
      BY <1>4, RangeOf
    <2>3. /\ \A e \in Entries(kind) : \E i \in 1..Len(list[kind]) : e = list[kind][i]
          /\ \A i \in 1..Len(list[kind]) : list[kind][i] \in Entries(kind)
      BY <1>2, ListsOf DEF IInv
    <2>4. slot = Len(list[kind]) => slot \in 1..Len(list[kind])
      BY <1>2
    <2>5. \A e \in Range(s) : e = new \/ e \in Entries(kind)
      <3> SUFFICES ASSUME NEW e \in Range(s) PROVE e = new \/ e \in Entries(kind)
        OBVIOUS
      <3>1. PICK i \in 1..Len(list[kind]) : e = s[i]
        BY <2>2
      <3> QED BY <1>4, <2>1, <2>3, <3>1
    <2>6. \A e \in Entries(kind) : e = own \/ e \in Range(s)
      <3> SUFFICES ASSUME NEW e \in Entries(kind) PROVE e = own \/ e \in Range(s)
        OBVIOUS
      <3>1. PICK i \in 1..Len(list[kind]) : e = list[kind][i]
        BY <2>3
      <3> QED BY <1>4, <2>1, <2>2, <3>1
    <2>7. slot = Len(list[kind]) => new \in Range(s)
      BY <1>4, <2>2, <2>4
    <2> QED BY <2>5, <2>6, <2>7
  <1>6. /\ \A j \in Kind : j = kind => Entries(j)' = Range(s) /\ list'[j] = s
        /\ \A j \in Kind : j # kind => Entries(j)' = Entries(j)
    BY <1>4 DEF Entries, s
  <1>7. TypeOK'
    <2>1. \A j \in Kind : Len(list'[j]) <= Capacity
      BY <1>4, <1>6 DEF IInv, TypeOK
    <2>2. raced' \subseteq 0..MaxRequests
      BY <1>1, <1>2, Numbers DEF IInv, TypeOK, Req
    <2>3. MqttTypeOK'
      BY <1>1 DEF IInv, TypeOK, MqttTypeOK, mqttVars
    <2> QED BY <1>1, <1>3, <1>4, <2>1, <2>2, <2>3 DEF IInv, TypeOK
  <1>8. AppInv'
    BY <1>1, <1>2, <1>3 DEF AppInv, Busy
  <1>9. IdInv'
    <2>1. \A m \in wire : /\ m.id > 0 /\ m.id <= m_request_id /\ m.id \in Nat
                          /\ m.req <= made /\ m.req # req
      BY <1>1, Numbers DEF IInv, IdInv, Busy
    <2>2. \A j \in Kind : \A e \in Entries(j) :
             /\ e.id <= m_request_id /\ e.req <= made /\ e.id \in Nat
             /\ \A m \in wire : e.id = m.id => e.req = m.req
      BY Numbers DEF IInv, IdInv
    <2>3. ASSUME NEW j \in Kind, NEW e \in Entries(j)'
          PROVE  e = new \/ e \in Entries(j)
      BY <1>5, <1>6
    <2>4. /\ new.id = m_request_id + 1 /\ new.req = req /\ m_request_id \in Nat
      BY Numbers DEF IInv
    <2>5. ASSUME NEW j \in Kind, NEW e \in Entries(j)'
          PROVE  /\ e.id <= m_request_id' /\ e.req <= made
                 /\ e.id = m_request_id' => e.req = req
                 /\ \A m \in wire : e.id = m.id => e.req = m.req
      <3>1. CASE e = new
        BY <1>1, <1>2, <2>1, <2>4, <3>1
      <3>2. CASE e \in Entries(j)
        BY <1>1, <2>2, <2>4, <3>2
      <3> QED BY <2>3, <3>1, <3>2
    <2>6. \A m \in wire : m.id <= m_request_id'
      BY <1>1, <2>1, <2>4
    <2> QED BY <1>1, <2>1, <2>5, <2>6 DEF IdInv, Busy
  <1>10. OwnInv'
    <2>1. ASSUME req \notin raced'
          PROVE  /\ handler = "idle" \/ hkind # kind
                 /\ state[req] = "registering" => kind \in subs
                 /\ slot = Len(list[kind])
      BY <1>1, <2>1 DEF IInv, OwnInv, Busy
    <2>2. ASSUME req \notin raced' PROVE [id |-> m_request_id', req |-> req] \in Entries(kind)'
      BY <1>1, <1>2, <1>5, <1>6, <2>1, <2>2
    <2>3. UNCHANGED <<state, subs>>
      BY <1>1 DEF mqttVars
    <2> QED BY <1>1, <2>1, <2>2, <2>3 DEF OwnInv
  <1>11. ConnInv' /\ EraseInBounds'
    BY <1>1 DEF IInv, ConnInv, EraseInBounds, mqttVars
  <1>12. HandlerInv'
    <2>1. CASE hkind # kind
      BY <1>1, <1>4, <1>6, <2>1, Numbers DEF IInv, HandlerInv, Busy
    <2>2. CASE hkind = kind /\ handler = "called"
      <3>1. index > 0 /\ index' = index /\ index \in Nat /\ Len(list[kind]) \in Nat
        BY <1>1, <1>2, <2>2, ListsOf, Numbers DEF IInv, HandlerInv
      <3>2. index <= Len(list[kind]) /\ index # slot => s[index] = list[kind][index]
        BY <1>4, <3>1
      <3>3. index <= Len(list[kind]) /\ index = slot => s[index].req \in raced'
        BY <1>1, <1>2, <1>4, <2>2, <3>1
      <3>4. list'[hkind'] = s
        BY <1>1, <1>2, <1>6, <2>2
      <3> QED BY <1>1, <1>4, <2>2, <3>1, <3>2, <3>3, <3>4 DEF IInv, HandlerInv, Busy
    <2>3. CASE hkind = kind /\ handler = "emptied"
      BY <1>1, <1>2, <1>5, <1>6, <2>3 DEF IInv, HandlerInv
    <2> QED BY <1>1, <2>1, <2>2, <2>3 DEF HandlerInv, IInv, TypeOK
  <1>13. WaitInv'
    <2>1. ASSUME NEW j \in Kind, NEW m \in wire, NEW r,
                 [id |-> m.id, req |-> r] \in Entries(j)
          PROVE  [id |-> m.id, req |-> r] \in Entries(j)'
      <3>1. m.id > 0
        BY DEF IInv, IdInv
      <3>2. [id |-> m.id, req |-> r] # own
        BY <3>1
      <3> QED BY <1>5, <1>6, <2>1, <3>2
    <2> QED BY <1>1, <2>1, Numbers DEF IInv, WaitInv, mqttVars
  <1> QED BY <1>7, <1>8, <1>9, <1>10, <1>11, <1>12, <1>13 DEF IInv
LEMMA SendInv ==
  ASSUME IInv, Send
  PROVE  IInv'
  <1>1. /\ app = "numbered" /\ handler = "idle" /\ app' = "idle"
        /\ UNCHANGED <<lap, permanent, list, m_request_id, kind, slot, req, handler,
                       hkind, index, made, calls, raced, broken>>
    BY DEF Send, lists, receiver
  <1>2. /\ kind \in Kind /\ req \in Req /\ req = made /\ made > 0 /\ made \in Nat
        /\ m_request_id = made /\ \A m \in wire : m.req # req
    BY <1>1, Numbers DEF IInv, AppInv, IdInv, Busy, TypeOK, Req
  <1>3. \A j \in Kind : Entries(j)' = Entries(j) /\ list'[j] = list[j]
    BY <1>1 DEF Entries
  <1>4. AppInv' /\ OwnInv' /\ HandlerInv' /\ EraseInBounds'
    BY <1>1, <1>2 DEF AppInv, OwnInv, HandlerInv, EraseInBounds, Busy, IInv
  <1>5. \A r \in Req : state[r] \in {"none", "registering", "awaited", "answered",
                                     "unsent", "cut", "cleared", "foreign"}
    BY DEF IInv, TypeOK
  <1>6. CASE /\ esp = "connected" /\ UNCHANGED mqttVars /\ held' = held
             /\ wire' = wire \union {[kind |-> kind, id |-> m_request_id, req |-> req]}
             /\ state' = [state EXCEPT ![req] = IF @ = "registering" THEN "awaited" ELSE @]
    <2> DEFINE n == [kind |-> kind, id |-> m_request_id, req |-> req]
    <2>1. /\ n \in Message /\ n.kind = kind /\ n.id = m_request_id /\ n.req = req
          /\ wire' = wire \union {n}
      BY <1>2, <1>6 DEF Message, IInv, TypeOK
    <2> HIDE DEF n
    <2>2. TypeOK'
      <3>1. MqttTypeOK'
        BY <1>6 DEF IInv, TypeOK, MqttTypeOK, mqttVars
      <3>2. state' \in [Req -> {"none", "registering", "awaited", "answered",
                                "unsent", "cut", "cleared", "foreign"}]
        BY <1>2, <1>6 DEF IInv, TypeOK
      <3> QED BY <1>1, <1>6, <2>1, <3>1, <3>2 DEF IInv, TypeOK
    <2>3. IdInv'
      <3>1. \A m \in wire : m.id > 0 /\ m.id <= m_request_id /\ m.req <= made
        BY DEF IInv, IdInv
      <3>2. \A j \in Kind : \A e \in Entries(j) :
               /\ e.id <= m_request_id /\ e.req <= made
               /\ e.id = m_request_id => e.req = req
               /\ \A m \in wire : e.id = m.id => e.req = m.req
        BY <1>1 DEF IInv, IdInv
      <3> QED BY <1>1, <1>2, <1>3, <2>1, <3>1, <3>2 DEF IdInv, Busy
    <2>4. ConnInv'
      BY <1>6 DEF IInv, ConnInv, mqttVars
    <2>5. WaitInv'
      <3>1. \A r \in Req : /\ state'[r] # "foreign"
                           /\ r # req => state'[r] = state[r]
                           /\ state'[req] = "awaited" => state[req] \in {"registering", "awaited"}
        BY <1>2, <1>6 DEF IInv, TypeOK, WaitInv
      <3>2. ASSUME NEW r \in Req \ raced, state'[r] = "awaited"
            PROVE  \E m \in wire' : /\ m.req = r /\ m.kind \in subs
                                    /\ [id |-> m.id, req |-> r] \in Entries(m.kind)
        <4>1. CASE state[r] = "awaited"
          BY <1>6, <4>1 DEF IInv, WaitInv
        <4>2. CASE r = req /\ state[req] = "registering"
          <5>1. kind \in subs /\ [id |-> m_request_id, req |-> req] \in Entries(kind)
            BY <1>1, <3>2, <4>2 DEF IInv, OwnInv, Busy
          <5> QED BY <2>1, <4>2, <5>1
        <4> QED BY <3>1, <3>2, <4>1, <4>2
      <3>3. \A m \in wire' : m.kind \in Kind
        BY <1>2, <2>1, Numbers DEF IInv
      <3>4. subs' = subs /\ esp' = esp
        BY <1>6 DEF mqttVars
      <3> QED BY <1>1, <1>3, <1>6, <3>1, <3>2, <3>3, <3>4 DEF IInv, WaitInv
    <2> QED BY <1>4, <2>2, <2>3, <2>4, <2>5 DEF IInv
  <1>7. CASE /\ esp # "connected" /\ UNCHANGED mqttVars /\ held' = held /\ wire' = wire
             /\ state' = [state EXCEPT ![req] = IF @ = "registering" THEN "unsent" ELSE @]
    <2>1. TypeOK'
      <3>1. MqttTypeOK'
        BY <1>7 DEF IInv, TypeOK, MqttTypeOK, mqttVars
      <3>2. state' \in [Req -> {"none", "registering", "awaited", "answered",
                                "unsent", "cut", "cleared", "foreign"}]
        BY <1>2, <1>7 DEF IInv, TypeOK
      <3> QED BY <1>1, <1>7, <3>1, <3>2 DEF IInv, TypeOK
    <2>2. state' = state
      <3>1. state[req] # "registering" /\ state \in [Req -> {"none", "registering",
                 "awaited", "answered", "unsent", "cut", "cleared", "foreign"}]
        BY <1>2, <1>7 DEF IInv, ConnInv, TypeOK
      <3> QED BY <1>2, <1>7, <3>1
    <2>3. IdInv'
      BY <1>1, <1>3, <1>7 DEF IInv, IdInv, Busy
    <2>4. ConnInv' /\ WaitInv'
      BY <1>7, <2>2 DEF IInv, ConnInv, WaitInv, mqttVars
    <2> QED BY <1>4, <2>1, <2>3, <2>4 DEF IInv
  <1>8. CASE /\ esp = "connected" /\ Abort /\ held' = {} /\ wire' = {}
             /\ state' = [Cut EXCEPT ![req] = IF @ = "registering" THEN "unsent" ELSE @]
    <2>1. /\ Cut \in [Req -> {"none", "registering", "awaited", "answered",
                              "unsent", "cut", "cleared", "foreign"}]
          /\ \A r \in Req : Cut[r] \notin {"registering", "awaited", "foreign"}
      BY DEF Cut, IInv, TypeOK, WaitInv
    <2>2. state' = Cut
      BY <1>2, <1>8, <2>1
    <2>3. /\ esp' = "wait" /\ m_mqtt_client' = "set"
      BY <1>8 DEF Abort, IInv, TypeOK, MqttTypeOK, ConnInv
    <2>4. TypeOK'
      <3>1. MqttTypeOK'
        BY <1>8, MqttAssumption DEF Abort, IInv, TypeOK, MqttTypeOK
      <3> QED BY <1>1, <1>8, <2>1, <2>2, <3>1 DEF IInv, TypeOK
    <2>5. IdInv'
      BY <1>1, <1>3, <1>8 DEF IInv, IdInv, Busy
    <2>6. ConnInv' /\ WaitInv'
      BY <1>8, <2>1, <2>2, <2>3 DEF ConnInv, WaitInv
    <2> QED BY <1>4, <2>4, <2>5, <2>6 DEF IInv
  <1> QED
    <2>1. PICK ok \in BOOLEAN :
       /\ Publish(ok)
       /\ \/ /\ ok
             /\ wire' = wire \union {[kind |-> kind, id |-> m_request_id, req |-> req]}
             /\ state' = [state EXCEPT ![req] = IF @ = "registering" THEN "awaited" ELSE @]
             /\ UNCHANGED held
          \/ /\ ~ok
             /\ state' = [(IF esp' = esp THEN state ELSE Cut) EXCEPT
                             ![req] = IF @ = "registering" THEN "unsent" ELSE @]
             /\ wire' = IF esp' = esp THEN wire ELSE {}
             /\ held' = IF esp' = esp THEN held ELSE {}
      BY DEF Send
    <2>2. CASE ok
      BY <1>6, <2>1, <2>2 DEF Publish
    <2>3. CASE ~ok /\ UNCHANGED mqttVars /\ esp # "connected"
      BY <1>7, <2>1, <2>3 DEF mqttVars
    <2>4. CASE ~ok /\ esp = "connected" /\ Abort
      <3>1. esp' # esp
        BY <2>4 DEF Abort
      <3> QED BY <1>8, <2>1, <2>4, <3>1
    <2> QED BY <2>1, <2>2, <2>3, <2>4 DEF Publish
LEMMA ClearInv ==
  ASSUME IInv, NEW k \in Kind, Clear(k)
  PROVE  IInv'
  <1>1. /\ app = "idle" /\ app' = "clearing" /\ kind' = k
        /\ calls < MaxSubscribes /\ calls' = calls + 1
        /\ list' = [list EXCEPT ![k] = << >>]
        /\ state' = [r \in Req |->
                       IF \E m \in wire : m.kind = k /\ m.req = r THEN "cleared" ELSE state[r]]
        /\ raced' = IF handler # "idle" /\ hkind = k THEN raced \union {0} ELSE raced
        /\ UNCHANGED <<mqttVars, lap, permanent, m_request_id, slot, req, handler, hkind,
                       index, wire, made, held, broken>>
    BY DEF Clear, receiver
  <1>2. /\ << >> \in Seq(Entry) /\ Len(<< >>) = 0 /\ Range(<< >>) = {}
        /\ 0 <= Capacity
    BY Numbers DEF IInv, Range
  <1>3. /\ list' \in [Kind -> Seq(Entry)] /\ \A j \in Kind : Len(list'[j]) <= Capacity
        /\ list'[k] = << >> /\ Entries(k)' = {}
        /\ \A j \in Kind : j # k => list'[j] = list[j] /\ Entries(j)' = Entries(j)
    <2>1. Len(<< >>) <= Capacity
      BY <1>2
    <2>2. TypeOK
      BY DEF IInv
    <2> QED BY <1>1, <1>2, <2>1, <2>2, OneList
  <1>4. TypeOK'
    <2>1. calls' \in 0..MaxSubscribes
      <3>1. calls \in 0..MaxSubscribes
        BY DEF IInv, TypeOK
      <3> QED BY <1>1, <3>1, TbAssumption
    <2>2. MqttTypeOK'
      BY <1>1 DEF IInv, TypeOK, MqttTypeOK, mqttVars
    <2>3. state' \in [Req -> {"none", "registering", "awaited", "answered",
                              "unsent", "cut", "cleared", "foreign"}]
      BY <1>1 DEF IInv, TypeOK
    <2>4. raced' \subseteq 0..MaxRequests
      BY <1>1, TbAssumption DEF IInv, TypeOK
    <2> QED BY <1>1, <1>3, <2>1, <2>2, <2>3, <2>4 DEF IInv, TypeOK
  <1>5. \A j \in Kind : Entries(j)' \subseteq Entries(j)
    BY <1>3
  <1>6. AppInv' /\ OwnInv' /\ EraseInBounds'
    BY <1>1, <1>3 DEF IInv, AppInv, OwnInv, EraseInBounds, Busy
  <1>7. IdInv'
    BY <1>1, <1>5 DEF IInv, IdInv, Busy
  <1>8. /\ \A r \in Req : state'[r] = state[r] \/ state'[r] = "cleared"
        /\ \A m \in wire : m.kind = k => state'[m.req] = "cleared"
    BY <1>1, Numbers DEF IInv
  <1>9. ConnInv'
    BY <1>1, <1>8 DEF IInv, ConnInv, mqttVars
  <1>10. HandlerInv'
    <2>1. CASE hkind = k
      <3>1. handler = "called" => index > 0 /\ index \in Nat /\ 0 \in raced'
        BY <1>1, <2>1, Numbers DEF IInv, HandlerInv
      <3>2. list'[hkind'] = << >> /\ Entries(hkind)' = {}
        BY <1>1, <1>3, <2>1 DEF Entries
      <3> QED BY <1>1, <1>2, <3>1, <3>2 DEF HandlerInv
    <2>2. CASE hkind # k
      <3>1. list'[hkind'] = list[hkind] /\ Entries(hkind)' = Entries(hkind)
        BY <1>1, <1>3, <2>2, Numbers DEF IInv, Entries
      <3>2. ASSUME handler = "called", index <= Len(list[hkind])
            PROVE  list[hkind][index].req \in Req
        <4>1. index \in 1..Len(list[hkind]) /\ hkind \in Kind
          BY <3>2, Numbers, ListsOf DEF IInv, HandlerInv
        <4> QED BY <4>1, Numbers, ListsOf DEF IInv
      <3> QED BY <1>1, <1>8, <3>1, <3>2 DEF IInv, HandlerInv, Busy
    <2> QED BY <2>1, <2>2
  <1>11. WaitInv'
    <2>1. ASSUME NEW r \in Req \ raced, state'[r] = "awaited"
          PROVE  \E m \in wire : /\ m.req = r /\ m.kind \in subs
                                 /\ [id |-> m.id, req |-> r] \in Entries(m.kind)'
      <3>1. state[r] = "awaited"
        BY <1>8, <2>1
      <3>2. PICK m \in wire : /\ m.req = r /\ m.kind \in subs
                              /\ [id |-> m.id, req |-> r] \in Entries(m.kind)
        BY <3>1 DEF IInv, WaitInv
      <3>3. m.kind # k /\ m.kind \in Kind
        BY <1>8, <2>1, <3>2, Numbers DEF IInv
      <3>4. [id |-> m.id, req |-> r] \in Entries(m.kind)'
        BY <1>3, <3>2, <3>3
      <3> QED BY <3>2, <3>4
    <2>2. raced \subseteq raced' /\ subs' = subs /\ esp' = esp
      BY <1>1 DEF mqttVars
    <2> QED BY <1>1, <1>8, <2>1, <2>2 DEF IInv, WaitInv
  <1> QED BY <1>4, <1>6, <1>7, <1>9, <1>10, <1>11 DEF IInv

LEMMA ClearedInv ==
  ASSUME IInv, Cleared
  PROVE  IInv'
  <1>1. /\ app = "clearing" /\ handler = "idle" /\ app' = "idle"
        /\ subs' = IF esp = "connected" THEN subs \ {kind} ELSE subs
        /\ UNCHANGED <<lap, permanent, list, m_request_id, kind, slot, req, handler,
                       hkind, index, wire, made, calls, state, raced, held, broken,
                       m_mqtt_client, m_connected, esp, drops, noMemory>>
    BY DEF Cleared, Unsubscribe, lists, receiver, ghosts
  <1>2. TypeOK'
    BY <1>1 DEF IInv, TypeOK, MqttTypeOK
  <1>3. \A j \in Kind : Entries(j)' = Entries(j)
    BY <1>1 DEF Entries
  <1>4. AppInv' /\ IdInv' /\ OwnInv' /\ ConnInv' /\ HandlerInv' /\ EraseInBounds'
    BY <1>1, <1>3 DEF IInv, AppInv, IdInv, OwnInv, ConnInv, HandlerInv, EraseInBounds, Busy
  <1>5. WaitInv'
    <2>1. Entries(kind) = {}
      BY <1>1 DEF IInv, AppInv, Entries, Range
    <2>2. esp = "connected" => held \subseteq subs'
      BY <1>1, Numbers DEF IInv, WaitInv, TypeOK, Kind, Permanent
    <2> QED BY <1>1, <1>3, <2>1, <2>2, Numbers DEF IInv, WaitInv
  <1> QED BY <1>2, <1>4, <1>5 DEF IInv

-----------------------------------------------------------------------------
(* The responses                                                           *)

LEMMA LostInv ==
  ASSUME IInv, NEW m \in wire, Lost(m)
  PROVE  IInv'
  <1>1. /\ wire' = wire \ {m}
        /\ state' = [state EXCEPT ![m.req] = IF @ = "awaited" THEN "cut" ELSE @]
        /\ UNCHANGED <<mqttVars, lap, permanent, list, m_request_id, app, kind, slot, req,
                       handler, hkind, index, made, calls, raced, held, broken>>
    BY DEF Lost, lists, requester, receiver
  <1>2. m.req \in Req /\ state \in [Req -> {"none", "registering", "awaited", "answered",
                                            "unsent", "cut", "cleared", "foreign"}]
    BY Numbers DEF IInv, TypeOK
  <1>3. /\ state' \in [Req -> {"none", "registering", "awaited", "answered",
                               "unsent", "cut", "cleared", "foreign"}]
        /\ \A r \in Req : \/ state'[r] = state[r] /\ (r = m.req => state[r] # "awaited")
                          \/ r = m.req /\ state[r] = "awaited" /\ state'[r] = "cut"
    BY <1>1, <1>2
  <1>4. TypeOK'
    <2>1. MqttTypeOK'
      BY <1>1 DEF IInv, TypeOK, MqttTypeOK, mqttVars
    <2> QED BY <1>1, <1>3, <2>1 DEF IInv, TypeOK
  <1>5. \A j \in Kind : Entries(j)' = Entries(j) /\ list'[j] = list[j]
    BY <1>1 DEF Entries
  <1>6. AppInv' /\ IdInv' /\ EraseInBounds'
    BY <1>1, <1>5 DEF IInv, AppInv, IdInv, EraseInBounds, Busy
  <1>7. ConnInv'
    BY <1>1, <1>3 DEF IInv, ConnInv, mqttVars
  <1>8. OwnInv'
    <2>1. Busy => req \in Req
      BY Numbers DEF IInv, AppInv, Req, TypeOK
    <2>2. UNCHANGED subs
      BY <1>1 DEF mqttVars
    <2> QED BY <1>1, <1>3, <1>5, <2>1, <2>2, Numbers DEF IInv, OwnInv, Busy
  <1>9. HandlerInv'
    <2>1. ASSUME handler = "called", index <= Len(list[hkind])
          PROVE  list[hkind][index].req \in Req
      <3>1. index \in 1..Len(list[hkind]) /\ hkind \in Kind
        BY <2>1, Numbers, ListsOf DEF IInv, HandlerInv
      <3> QED BY <3>1, Numbers, ListsOf DEF IInv
    <2> QED BY <1>1, <1>3, <1>5, <2>1, Numbers DEF IInv, HandlerInv, Busy
  <1>10. WaitInv'
    <2>1. ASSUME NEW r \in Req \ raced, state'[r] = "awaited"
          PROVE  \E n \in wire' : /\ n.req = r /\ n.kind \in subs
                                  /\ [id |-> n.id, req |-> r] \in Entries(n.kind)'
      <3>1. state[r] = "awaited" /\ r # m.req
        BY <1>3, <2>1
      <3>2. PICK n \in wire : /\ n.req = r /\ n.kind \in subs
                              /\ [id |-> n.id, req |-> r] \in Entries(n.kind)
        BY <3>1 DEF IInv, WaitInv
      <3> QED BY <1>1, <1>5, <3>1, <3>2, Numbers DEF IInv
    <2> QED BY <1>1, <1>3, <2>1 DEF IInv, WaitInv, mqttVars
  <1> QED BY <1>4, <1>6, <1>7, <1>8, <1>9, <1>10 DEF IInv
LEMMA ReceiveInv ==
  ASSUME IInv, NEW m \in wire, Receive(m)
  PROVE  IInv'
  <1> DEFINE at == SelectInSeq(list[m.kind], LAMBDA e : e.id = m.id)
             r0 == list[m.kind][at].req
  <1>1. /\ handler = "idle" /\ esp = "connected"
        /\ wire' = wire \ {m} /\ hkind' = m.kind
        /\ \/ /\ at = 0
              /\ handler' = IF list[m.kind] = << >> THEN "emptied" ELSE "idle"
              /\ UNCHANGED <<index, state>>
           \/ /\ at # 0
              /\ handler' = "called" /\ index' = at
              /\ state' = [state EXCEPT ![r0] = IF r0 = m.req THEN "answered" ELSE "foreign"]
        /\ raced' = IF Busy /\ kind = m.kind THEN raced \union {req} ELSE raced
        /\ UNCHANGED <<mqttVars, lap, permanent, list, m_request_id, app, kind, slot, req,
                       made, calls, held, broken>>
    BY DEF Receive, MeetsRequest, Busy, lists, requester
  <1>2. /\ m.kind \in Kind /\ m.req \in Req
        /\ state \in [Req -> {"none", "registering", "awaited", "answered",
                              "unsent", "cut", "cleared", "foreign"}]
    BY Numbers DEF IInv, TypeOK
  <1>3. /\ at \in 0..Len(list[m.kind])
        /\ at # 0 => list[m.kind][at].id = m.id
        /\ at = 0 => \A e \in Entries(m.kind) : e.id # m.id
    BY <1>2, ListsOf, Found DEF IInv, Entries
  <1>4. at # 0 => at \in 1..Len(list[m.kind]) /\ r0 = m.req
    <2>1. ASSUME at # 0 PROVE at \in 1..Len(list[m.kind]) /\ r0 = m.req
      <3>1. at \in 1..Len(list[m.kind])
        BY <1>2, <1>3, <2>1, ListsOf DEF IInv
      <3>2. list[m.kind][at] \in Entries(m.kind)
        BY <1>2, <3>1, ListsOf DEF IInv
      <3> QED BY <1>2, <1>3, <2>1, <3>1, <3>2 DEF IInv, IdInv
    <2> QED BY <2>1
  <1> HIDE DEF at
  <1>5. \/ /\ at = 0 /\ state' = state /\ index' = index
           /\ handler' = IF list[m.kind] = << >> THEN "emptied" ELSE "idle"
        \/ /\ at # 0 /\ handler' = "called" /\ index' = at
           /\ state' = [state EXCEPT ![m.req] = "answered"]
    BY <1>1, <1>4
  <1>6. /\ state' \in [Req -> {"none", "registering", "awaited", "answered",
                               "unsent", "cut", "cleared", "foreign"}]
        /\ \A r \in Req : state'[r] = state[r] \/ state'[r] = "answered"
        /\ at # 0 => state'[m.req] = "answered"
    BY <1>2, <1>5
  <1>7. \A j \in Kind : Entries(j)' = Entries(j) /\ list'[j] = list[j]
    BY <1>1 DEF Entries
  <1>8. Busy => req \in Req
    BY Numbers DEF IInv, AppInv, Req, TypeOK
  <1>9. TypeOK'
    <2>1. MqttTypeOK'
      BY <1>1 DEF IInv, TypeOK, MqttTypeOK, mqttVars
    <2>2. handler' \in {"idle", "called", "emptied"} /\ index' \in 0..Capacity
      BY <1>2, <1>3, <1>5, ListsOf, Numbers DEF IInv, TypeOK
    <2>3. raced' \subseteq 0..MaxRequests
      BY <1>1, Numbers DEF IInv, TypeOK
    <2> QED BY <1>1, <1>2, <1>6, <2>1, <2>2, <2>3 DEF IInv, TypeOK
  <1>10. AppInv' /\ IdInv' /\ EraseInBounds'
    BY <1>1, <1>7 DEF IInv, AppInv, IdInv, EraseInBounds, Busy
  <1>11. ConnInv'
    BY <1>1, <1>6 DEF IInv, ConnInv, mqttVars
  <1>12. OwnInv'
    <2>1. UNCHANGED subs
      BY <1>1 DEF mqttVars
    <2> QED BY <1>1, <1>6, <1>7, <1>8, <2>1, Numbers DEF IInv, OwnInv, Busy
  <1>13. HandlerInv'
    <2>1. CASE at # 0
      <3>1. Busy => m.req # req
        BY DEF IInv, IdInv
      <3>2. index' > 0 /\ index' <= Len(list'[hkind']) /\ list'[hkind'][index'].req = m.req
        BY <1>1, <1>4, <1>5, <2>1
      <3> QED BY <1>1, <1>5, <1>6, <2>1, <3>1, <3>2 DEF HandlerInv, Busy
    <2>2. CASE at = 0
      <3>1. list[m.kind] = << >> => Entries(m.kind) = {}
        BY DEF Entries, Range
      <3>2. Entries(hkind)' = Entries(m.kind)
        BY <1>1 DEF Entries
      <3> QED BY <1>1, <1>5, <2>2, <3>1, <3>2 DEF HandlerInv
    <2> QED BY <2>1, <2>2
  <1>14. WaitInv'
    <2>1. ASSUME NEW r \in Req \ raced, state'[r] = "awaited"
          PROVE  \E n \in wire' : /\ n.req = r /\ n.kind \in subs
                                  /\ [id |-> n.id, req |-> r] \in Entries(n.kind)'
      <3>1. state[r] = "awaited" /\ (at # 0 => r # m.req)
        BY <1>6, <2>1
      <3>2. PICK n \in wire : /\ n.req = r /\ n.kind \in subs
                              /\ [id |-> n.id, req |-> r] \in Entries(n.kind)
        BY <3>1 DEF IInv, WaitInv
      <3>3. n # m
        BY <1>3, <3>1, <3>2
      <3> QED BY <1>1, <1>7, <3>2, <3>3, Numbers DEF IInv
    <2>2. raced \subseteq raced' /\ subs' = subs /\ esp' = esp /\ held' = held
      BY <1>1 DEF mqttVars
    <2> QED BY <1>6, <2>1, <2>2 DEF IInv, WaitInv
  <1> QED BY <1>9, <1>10, <1>11, <1>12, <1>13, <1>14 DEF IInv

LEMMA EraseInv ==
  ASSUME IInv, Erase
  PROVE  IInv'
  <1>1. /\ handler = "called"
        /\ raced' = IF Busy /\ kind = hkind THEN raced \union {req} ELSE raced
        /\ UNCHANGED <<mqttVars, lap, permanent, m_request_id, app, kind, slot, req, hkind,
                       index, wire, made, calls, state, held>>
    BY DEF Erase, MeetsRequest, Busy, requester
  <1>2. Busy => req \in Req
    BY Numbers DEF IInv, AppInv, Req, TypeOK
  <1>3. MqttTypeOK' /\ raced' \subseteq 0..MaxRequests /\ raced \subseteq raced'
    BY <1>1, Numbers DEF IInv, TypeOK, MqttTypeOK, mqttVars
  <1>4. CASE ~(index <= Len(list[hkind]))
    <2>1. broken' = 1 /\ list' = list /\ handler' = handler
      BY <1>4 DEF Erase
    <2>2. TypeOK'
      BY <1>1, <1>3, <2>1 DEF IInv, TypeOK
    <2>3. \A j \in Kind : Entries(j)' = Entries(j) /\ list'[j] = list[j]
      BY <2>1 DEF Entries
    <2>4. 0 \in raced'
      BY <1>1, <1>3, <1>4 DEF IInv, HandlerInv
    <2>5. AppInv' /\ IdInv' /\ EraseInBounds'
      BY <1>1, <2>1, <2>3, <2>4 DEF IInv, AppInv, IdInv, EraseInBounds, Busy
    <2>6. ConnInv' /\ HandlerInv'
      BY <1>1, <1>4, <2>1, <2>4, Numbers DEF IInv, ConnInv, HandlerInv, mqttVars
    <2>7. OwnInv'
      BY <1>1, <2>1, <2>3, Numbers DEF IInv, OwnInv, Busy, mqttVars
    <2>8. WaitInv'
      BY <1>1, <1>3, <2>3, Numbers DEF IInv, WaitInv, mqttVars
    <2> QED BY <2>2, <2>5, <2>6, <2>7, <2>8 DEF IInv
  <1>5. CASE index <= Len(list[hkind])
    <2> DEFINE gone == list[hkind][index]
               s == RemoveAt(list[hkind], index)
    <2>1. /\ list' = [list EXCEPT ![hkind] = s] /\ broken' = broken
          /\ handler' = IF Len(list[hkind]) = 1 THEN "emptied" ELSE "idle"
      BY <1>5 DEF Erase
    <2>2. /\ hkind \in Kind /\ index \in 1..Len(list[hkind]) /\ Len(list[hkind]) \in Nat
          /\ gone \in Entries(hkind)
      BY <1>1, <1>5, Numbers, ListsOf DEF IInv, HandlerInv
    <2>3. /\ s \in Seq(Entry) /\ Len(s) = Len(list[hkind]) - 1
          /\ Range(s) \subseteq Entries(hkind)
          /\ \A e \in Entries(hkind) : e # gone => e \in Range(s)
      BY <2>2, ListsOf, RangeRemove DEF IInv, Entries
    <2>4. \/ gone.req \in raced
          \/ /\ state[gone.req] \notin {"registering", "awaited"}
             /\ Busy => gone.req # req
      BY <1>1, <1>5 DEF IInv, HandlerInv
    <2> HIDE DEF s, gone
    <2>5. /\ list' \in [Kind -> Seq(Entry)] /\ \A j \in Kind : Len(list'[j]) <= Capacity
          /\ \A j \in Kind : j = hkind => list'[j] = s /\ Entries(j)' = Range(s)
          /\ \A j \in Kind : j # hkind => list'[j] = list[j] /\ Entries(j)' = Entries(j)
      <3>1. Len(s) <= Capacity
        BY <2>2, <2>3, ListsOf, Numbers DEF IInv
      <3>2. TypeOK
        BY DEF IInv
      <3>3. PICK k \in Kind : k = hkind
        BY <2>2
      <3> QED BY <2>1, <2>3, <3>1, <3>2, <3>3, OneList
    <2>6. TypeOK'
      BY <1>1, <1>3, <2>1, <2>5 DEF IInv, TypeOK
    <2>7. \A j \in Kind : Entries(j)' \subseteq Entries(j)
      BY <2>3, <2>5
    <2>8. AppInv'
      <3>1. CASE kind # hkind
        BY <1>1, <2>5, <3>1, Numbers DEF IInv, AppInv, Busy
      <3>2. CASE kind = hkind
        <4>1. /\ list'[kind'] = s /\ Len(s) \in Nat /\ Len(s) < Len(list[kind])
              /\ list[kind] # << >>
          BY <1>1, <2>2, <2>3, <2>5, <3>2
        <4>2. Len(list[kind]) \in Nat /\ slot \in Nat /\ Capacity \in Nat
          BY Numbers, ListsOf DEF IInv
        <4> QED BY <1>1, <4>1, <4>2 DEF IInv, AppInv, Busy
      <3> QED BY <3>1, <3>2
    <2>9. IdInv'
      BY <1>1, <2>7 DEF IInv, IdInv, Busy
    <2>10. ConnInv' /\ EraseInBounds'
      BY <1>1, <1>3, <2>1 DEF IInv, ConnInv, EraseInBounds, mqttVars
    <2>11. OwnInv'
      BY <1>1, <2>1, <2>5, Numbers DEF IInv, OwnInv, Busy, mqttVars
    <2>12. HandlerInv'
      <3>1. Len(s) = 0 => Range(s) = {}
        <4>1. \A e \in Range(s) : \E i \in 1..Len(s) : e = s[i]
          BY <2>3, RangeOf
        <4>2. Len(s) = 0 => 1..Len(s) = {}
          OBVIOUS
        <4> QED BY <4>1, <4>2
      <3>2. Entries(hkind)' = Range(s)
        BY <1>1, <2>2, <2>5 DEF Entries
      <3> QED BY <2>1, <2>3, <3>1, <3>2 DEF HandlerInv
    <2>13. WaitInv'
      <3>1. ASSUME NEW r \in Req \ raced, state[r] = "awaited"
            PROVE  \E n \in wire : /\ n.req = r /\ n.kind \in subs
                                   /\ [id |-> n.id, req |-> r] \in Entries(n.kind)'
        <4>1. PICK n \in wire : /\ n.req = r /\ n.kind \in subs
                                /\ [id |-> n.id, req |-> r] \in Entries(n.kind)
          BY <3>1 DEF IInv, WaitInv
        <4>2. [id |-> n.id, req |-> r] # gone
          BY <2>4, <3>1
        <4>3. [id |-> n.id, req |-> r] \in Entries(n.kind)'
          BY <2>3, <2>5, <4>1, <4>2, Numbers DEF IInv
        <4> QED BY <4>1, <4>3
      <3> QED BY <1>1, <1>3, <3>1 DEF IInv, WaitInv, mqttVars
    <2> QED BY <2>6, <2>8, <2>9, <2>10, <2>11, <2>12, <2>13 DEF IInv
  <1> QED BY <1>4, <1>5
LEMMA UnsubInv ==
  ASSUME IInv, Unsub
  PROVE  IInv'
  <1>1. /\ handler = "emptied" /\ handler' = "idle"
        /\ list' = [list EXCEPT ![hkind] = << >>]
        /\ subs' = IF esp = "connected" THEN subs \ {hkind} ELSE subs
        /\ raced' = IF Busy /\ kind = hkind THEN raced \union {req} ELSE raced
        /\ UNCHANGED <<m_mqtt_client, m_connected, esp, drops, noMemory, lap, permanent,
                       m_request_id, app, kind, slot, req, hkind, index, wire, made, calls,
                       state, held, broken>>
    BY DEF Unsub, Unsubscribe, MeetsRequest, Busy, requester
  <1>2. /\ << >> \in Seq(Entry) /\ Len(<< >>) = 0 /\ Range(<< >>) = {}
        /\ 0 <= Capacity /\ Capacity > 0
    BY Numbers, TbAssumption DEF IInv, Range
  <1>3. PICK k \in Kind : k = hkind
    BY Numbers DEF IInv
  <1>4. /\ list' \in [Kind -> Seq(Entry)] /\ \A j \in Kind : Len(list'[j]) <= Capacity
        /\ list'[k] = << >> /\ Entries(k)' = {}
        /\ \A j \in Kind : j # k => list'[j] = list[j] /\ Entries(j)' = Entries(j)
    <2>1. Len(<< >>) <= Capacity
      BY <1>2
    <2>2. TypeOK
      BY DEF IInv
    <2> QED BY <1>1, <1>2, <1>3, <2>1, <2>2, OneList
  <1>5. \A j \in Kind : Entries(j)' \subseteq Entries(j)
    BY <1>4
  <1>6. TypeOK'
    <2>1. MqttTypeOK'
      BY <1>1 DEF IInv, TypeOK, MqttTypeOK
    <2>2. raced' \subseteq 0..MaxRequests
      BY <1>1, Numbers DEF IInv, TypeOK
    <2> QED BY <1>1, <1>4, <2>1, <2>2 DEF IInv, TypeOK
  <1>7. AppInv'
    <2>1. CASE kind = hkind
      <3>1. list'[kind'] = << >>
        BY <1>1, <1>3, <1>4, <2>1
      <3> QED BY <1>1, <1>2, <2>1, <3>1, Numbers DEF IInv, AppInv, Busy
    <2>2. CASE kind # hkind
      <3>1. list'[kind'] = list[kind]
        BY <1>1, <1>3, <1>4, <2>2, Numbers DEF IInv
      <3> QED BY <1>1, <3>1 DEF IInv, AppInv, Busy
    <2> QED BY <2>1, <2>2
  <1>8. IdInv'
    BY <1>1, <1>5 DEF IInv, IdInv, Busy
  <1>9. ConnInv' /\ HandlerInv' /\ EraseInBounds'
    BY <1>1 DEF IInv, ConnInv, HandlerInv, EraseInBounds
  <1>10. OwnInv'
    <2>1. ASSUME Busy, req \notin raced'
          PROVE  /\ req \notin raced /\ kind # hkind
                 /\ list'[kind] = list[kind] /\ Entries(kind)' = Entries(kind)
                 /\ kind \in subs => kind \in subs'
      <3>1. req \notin raced /\ kind # hkind
        BY <1>1, <2>1
      <3>2. list'[kind] = list[kind]
        BY <1>3, <1>4, <3>1, Numbers DEF IInv
      <3> QED BY <1>1, <3>1, <3>2 DEF Entries
    <2> QED BY <1>1, <2>1 DEF IInv, OwnInv, Busy
  <1>11. WaitInv'
    <2>1. ASSUME NEW r \in Req \ raced, state[r] = "awaited"
          PROVE  \E n \in wire : /\ n.req = r /\ n.kind \in subs'
                                 /\ [id |-> n.id, req |-> r] \in Entries(n.kind)'
      <3>1. PICK n \in wire : /\ n.req = r /\ n.kind \in subs
                              /\ [id |-> n.id, req |-> r] \in Entries(n.kind)
        BY <2>1 DEF IInv, WaitInv
      <3>2. n.kind # hkind
        BY <1>1, <3>1 DEF IInv, HandlerInv
      <3>3. [id |-> n.id, req |-> r] \in Entries(n.kind)'
        BY <1>3, <1>4, <3>1, <3>2, Numbers DEF IInv
      <3> QED BY <1>1, <3>1, <3>2, <3>3
    <2>2. esp = "connected" => held \subseteq subs'
      BY <1>1, Numbers DEF IInv, WaitInv, TypeOK, Kind, Permanent
    <2>3. raced \subseteq raced'
      BY <1>1
    <2> QED BY <1>1, <2>1, <2>2, <2>3 DEF IInv, WaitInv
  <1> QED BY <1>6, <1>7, <1>8, <1>9, <1>10, <1>11 DEF IInv

LEMMA IdleInv ==
  ASSUME IInv, UNCHANGED vars
  PROVE  IInv'
  <1>1. /\ UNCHANGED <<mqttVars, lap, permanent, lists, requester, receiver, wire, made,
                       calls, state, raced, held, broken>>
    BY DEF vars, ghosts
  <1>2. TypeOK'
    BY <1>1 DEF IInv, TypeOK, MqttTypeOK, mqttVars, lists, requester, receiver
  <1> QED BY <1>1, <1>2, StillThere DEF IInv, WaitInv, ConnInv, mqttVars

-----------------------------------------------------------------------------
(* The theorems                                                            *)

LEMMA StepInv == IInv /\ [Next]_vars => IInv'
  <1> SUFFICES ASSUME IInv, [Next]_vars PROVE IInv'
    OBVIOUS
  <1>1. CASE AppMain
    BY <1>1, CheckInv, ResubscribeInv, TelemetryInv DEF AppMain
  <1>2. CASE Application
    BY <1>2, PushInv, NumberInv, SendInv, ClearedInv, RequestInv, ClearInv, PermanentInv
       DEF Application
  <1>3. CASE MqttTask
    BY <1>3, EraseInv, UnsubInv, LinkInv, ReceiveInv DEF MqttTask
  <1>4. CASE \E m \in wire : Lost(m)
    BY <1>4, LostInv
  <1>5. CASE UNCHANGED vars
    BY <1>5, IdleInv
  <1> QED BY <1>1, <1>2, <1>3, <1>4, <1>5 DEF Next

LEMMA AlwaysIInv == Spec => []IInv
  BY InitInv, StepInv, PTL DEF Spec

(* The indices and numbers of the lists stay within the lists' capacity    *)
(* and the requests made (ThingsBoard.h:1567, Attributes_Request).         *)
THEOREM ClientTypeCorrect == Spec => []TypeOK
  <1>1. IInv => TypeOK
    BY DEF IInv
  <1> QED BY <1>1, AlwaysIInv, PTL

(* An awaited request that was registered while no response of its kind    *)
(* was handled can be answered, by its own callback only; a permanent      *)
(* topic stays subscribed to until the connection it was subscribed on is  *)
(* lost, whatever responses and clean-ups come between.                    *)
THEOREM RequestsHeard == Spec => []Heard
  BY InvHeard, AlwaysIInv, PTL

(* The handler erases within its list unless the list was cleared under    *)
(* it: requests registered meanwhile do not move what it found.            *)
THEOREM ErasedInBounds == Spec => []EraseInBounds
  <1>1. IInv => EraseInBounds
    BY DEF IInv
  <1> QED BY <1>1, AlwaysIInv, PTL

=============================================================================
