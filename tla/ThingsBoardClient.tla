------------------------- MODULE ThingsBoardClient --------------------------
(***************************************************************************)
(* ThingsBoard over MqttClient: the telemetry loop of app_main, permanent  *)
(* subscriptions (server-side RPC, shared attributes) and requests that    *)
(* await one response (attributes, client-side RPC), which are registered  *)
(* in a list per kind.                                                     *)
(*                                                                         *)
(* Three tasks: app_main, the application that makes requests, and the     *)
(* MQTT task that handles responses.  esp-mqtt holds its lock while a      *)
(* message is handled, so subscribe and publish of the others wait for     *)
(* it; the lists and m_request_id are not under any lock.                  *)
(*                                                                         *)
(* app_main of this program makes no requests: Request is what the class   *)
(* offers.  Any message may be lost.                                       *)
(***************************************************************************)
EXTENDS MqttClient, Sequences, FiniteSets, SequencesExt

CONSTANTS
  Capacity,        \* of each list: Default_Fields_Amt
  MaxRequests,     \* bound: requests made
  MaxSubscribes    \* bound: permanent subscriptions made, and clearings

ASSUME TbAssumption ==
  Capacity \in Nat \ {0} /\ MaxRequests \in Nat /\ MaxSubscribes \in Nat

Kind == {"attribute", "rpc"}

Permanent == {"rpc_request", "shared"}

(* The response topic of a kind goes by the kind's name.                   *)
ASSUME TopicAssumption == Topic = Kind \union Permanent

Req == 1..MaxRequests

VARIABLES
  lap,                 \* app_main: "check", "resubscribe", "temperature", "humidity"
  permanent,           \* topics with a callback in m_rpc_callbacks, m_shared_...
  list,                \* m_attribute_request_callbacks, m_rpc_request_callbacks
  m_request_id,
  app, kind, slot, req,  \* the application inside Attributes_Request
  handler, hkind, index, \* the MQTT task inside process_..._message
  wire,                \* requests at the server and responses of it
  made, calls,
  state,               \* of a request, for the properties
  raced,               \* requests registered while a response was handled
  held,                \* permanent topics subscribed to on this connection
  broken               \* 1: erased past the end

main == <<lap>>
lists == <<list, m_request_id>>
requester == <<app, kind, slot, req>>
receiver == <<handler, hkind, index>>
ghosts == <<state, raced, held>>
vars == <<mqttVars, lap, permanent, lists, requester, receiver, wire, made,
          calls, ghosts, broken>>

Entry == [id : 0..MaxRequests, req : Req]

Message == [kind : Kind, id : 0..MaxRequests, req : Req]

TypeOK ==
  /\ MqttTypeOK
  /\ lap \in {"check", "resubscribe", "temperature", "humidity"}
  /\ permanent \subseteq Permanent /\ held \subseteq Permanent
  /\ list \in [Kind -> Seq(Entry)]
  /\ \A k \in Kind : Len(list[k]) <= Capacity
  /\ m_request_id \in 0..MaxRequests
  /\ app \in {"idle", "subscribed", "pushed", "numbered", "clearing"}
  /\ kind \in Kind /\ slot \in 0..Capacity /\ req \in 0..MaxRequests
  /\ handler \in {"idle", "called", "emptied"} /\ hkind \in Kind
  /\ index \in 0..Capacity
  /\ wire \subseteq Message
  /\ made \in 0..MaxRequests /\ calls \in 0..MaxSubscribes
  /\ state \in [Req -> {"none", "registering", "awaited", "answered",
                        "unsent", "cut", "cleared", "foreign"}]
  /\ raced \subseteq 0..MaxRequests
  /\ broken \in {0, 1}

Init ==
  /\ MqttInit
  /\ lap = "check" /\ permanent = {} /\ held = {}
  /\ list = [k \in Kind |-> << >>] /\ m_request_id = 0
  /\ app = "idle" /\ kind = "rpc" /\ slot = 0 /\ req = 0
  /\ handler = "idle" /\ hkind = "rpc" /\ index = 0
  /\ wire = {} /\ made = 0 /\ calls = 0
  /\ state = [r \in Req |-> "none"] /\ raced = {} /\ broken = 0

(* The connection went: what was awaited on it, or subscribed for, will    *)
(* not be answered, and nothing is subscribed to.                          *)
Cut == [r \in Req |->
          IF state[r] \in {"registering", "awaited"} THEN "cut" ELSE state[r]]

LostConnection ==
  IF esp' = "wait" /\ esp # "wait"
  THEN state' = Cut /\ wire' = {} /\ held' = {}
  ELSE UNCHANGED <<state, wire, held>>

-----------------------------------------------------------------------------
(* app_main.  connect_to_host and its Resubscribe_Topics, whose result     *)
(* nobody looks at; sendTelemetryData twice.                               *)
Check ==
  /\ lap = "check" /\ broken = 0
  /\ IF m_connected = 1
     THEN lap' = "temperature" /\ UNCHANGED mqttVars
     ELSE \E ok \in BOOLEAN :
            Connect(ok) /\ lap' = IF ok THEN "resubscribe" ELSE "temperature"
  /\ UNCHANGED <<permanent, lists, requester, receiver, wire, made, calls,
                 ghosts, broken>>

Resubscribe ==
  /\ lap = "resubscribe" /\ handler = "idle" /\ broken = 0
  /\ lap' = "temperature"
  /\ subs' = IF esp = "connected" THEN subs \union permanent ELSE subs
  /\ held' = IF esp = "connected" THEN held \union permanent ELSE held
  /\ UNCHANGED <<m_mqtt_client, m_connected, esp, drops, noMemory, permanent,
                 lists, requester, receiver, wire, made, calls, state, raced,
                 broken>>

Telemetry(here, next) ==
  /\ lap = here /\ handler = "idle" /\ broken = 0
  /\ lap' = next
  /\ \E ok \in BOOLEAN : Publish(ok)
  /\ LostConnection
  /\ UNCHANGED <<permanent, lists, requester, receiver, made, calls, raced, broken>>

SendTemperature == Telemetry("temperature", "humidity")

SendHumidity == Telemetry("humidity", "check")

-----------------------------------------------------------------------------
RequestMutant(k) ==
  /\ app = "idle" /\ handler = "idle" /\ broken = 0
  /\ made < MaxRequests /\ Len(list[k]) <= Capacity
  /\ Subscribe(k, TRUE)
  /\ app' = "subscribed" /\ kind' = k /\ slot' = 0
  /\ made' = made + 1 /\ req' = made + 1
  /\ state' = [state EXCEPT ![made + 1] = "registering"]
  /\ UNCHANGED <<lap, permanent, lists, receiver, wire, calls, raced, held, broken>>

(* Attributes_Request and RPC_Request: room in the list and the response   *)
(* topic subscribed, ...                                                   *)
Request(k) ==
  /\ app = "idle" /\ handler = "idle" /\ broken = 0
  /\ made < MaxRequests /\ Len(list[k]) + 1 <= Capacity
  /\ Subscribe(k, TRUE)
  /\ app' = "subscribed" /\ kind' = k /\ slot' = 0
  /\ made' = made + 1 /\ req' = made + 1
  /\ state' = [state EXCEPT ![made + 1] = "registering"]
  /\ UNCHANGED <<lap, permanent, lists, receiver, wire, calls, raced, held, broken>>

(* The registration of r meets the handling of a response of its kind.     *)
Meets == IF handler # "idle" /\ hkind = kind THEN raced \union {req} ELSE raced

(* ... the callback copied to the end of the list, its place kept in       *)
(* registeredCallback, ...                                                 *)
Push ==
  /\ app = "subscribed" /\ broken = 0
  /\ list' = [list EXCEPT ![kind] = Append(@, [id |-> 0, req |-> req])]
  /\ slot' = Len(list[kind]) + 1
  /\ app' = "pushed"
  /\ raced' = Meets
  /\ UNCHANGED <<mqttVars, lap, permanent, m_request_id, kind, req, receiver,
                 wire, made, calls, state, held, broken>>

(* ... the next number set through registeredCallback, which may by now    *)
(* point past the end, ...                                                 *)
Number ==
  /\ app = "pushed" /\ broken = 0
  /\ m_request_id' = m_request_id + 1
  /\ list' = IF slot <= Len(list[kind])
             THEN [list EXCEPT ![kind][slot].id = m_request_id + 1]
             ELSE list
  /\ app' = "numbered"
  /\ raced' = Meets
  /\ UNCHANGED <<mqttVars, lap, permanent, kind, slot, req, receiver, wire,
                 made, calls, state, held, broken>>

(* ... and the request sent; the callback stays in the list if it is not.  *)
Send ==
  /\ app = "numbered" /\ handler = "idle" /\ broken = 0
  /\ app' = "idle"
  /\ \E ok \in BOOLEAN :
       /\ Publish(ok)
       /\ \/ /\ ok
             /\ wire' = wire \union {[kind |-> kind, id |-> m_request_id, req |-> req]}
             /\ state' = [state EXCEPT ![req] = IF @ = "registering" THEN "awaited" ELSE @]
             /\ UNCHANGED held
          \/ /\ ~ok
             /\ state' = [(IF esp' = esp THEN state ELSE Cut) EXCEPT
                             ![req] = IF @ = "registering" THEN "unsent" ELSE @]
             /\ wire' = IF esp' = esp THEN wire ELSE {}
             /\ held' = IF esp' = esp THEN held ELSE {}
  /\ UNCHANGED <<lap, permanent, lists, kind, slot, req, receiver, made, calls,
                 raced, broken>>

(* RPC_Subscribe, Shared_Attributes_Subscribe.                             *)
SubscribePermanent(t) ==
  /\ app = "idle" /\ handler = "idle" /\ broken = 0 /\ calls < MaxSubscribes
  /\ calls' = calls + 1
  /\ Subscribe(t, TRUE)
  /\ permanent' = permanent \union {t} /\ held' = held \union {t}
  /\ UNCHANGED <<lap, lists, requester, receiver, wire, made, state, raced, broken>>

(* RPC_Unsubscribe, Shared_Attributes_Unsubscribe.                         *)
UnsubscribePermanent(t) ==
  /\ app = "idle" /\ handler = "idle" /\ broken = 0 /\ calls < MaxSubscribes
  /\ calls' = calls + 1
  /\ Unsubscribe(t)
  /\ permanent' = permanent \ {t} /\ held' = held \ {t}
  /\ UNCHANGED <<lap, lists, requester, receiver, wire, made, state, raced, broken>>

(* Cleanup_Subscriptions, the part of one list: it is emptied at once, and *)
(* the topic unsubscribed when the lock is free.                           *)
Clear(k) ==
  /\ app = "idle" /\ broken = 0 /\ calls < MaxSubscribes
  /\ calls' = calls + 1
  /\ app' = "clearing" /\ kind' = k
  /\ list' = [list EXCEPT ![k] = << >>]
  /\ state' = [r \in Req |->
                 IF \E m \in wire : m.kind = k /\ m.req = r THEN "cleared" ELSE state[r]]
  /\ raced' = IF handler # "idle" /\ hkind = k THEN raced \union {0} ELSE raced
  /\ UNCHANGED <<mqttVars, lap, permanent, m_request_id, slot, req, receiver,
                 wire, made, held, broken>>

Cleared ==
  /\ app = "clearing" /\ handler = "idle" /\ broken = 0
  /\ app' = "idle"
  /\ Unsubscribe(kind)
  /\ UNCHANGED <<lap, permanent, lists, kind, slot, req, receiver, wire, made,
                 calls, ghosts, broken>>

-----------------------------------------------------------------------------
(* The MQTT task, at a time when the application registers a request of    *)
(* the same kind.                                                          *)
MeetsRequest(k) ==
  IF app \in {"subscribed", "pushed", "numbered"} /\ kind = k
  THEN raced \union {req} ELSE raced

ReceiveMutant(m) ==
  /\ handler = "idle" /\ broken = 0
  /\ m \in wire /\ esp = "connected" /\ m.kind \in subs
  /\ wire' = wire \ {m} /\ hkind' = m.kind
  /\ IF list[m.kind] = << >>
     THEN handler' = "emptied" /\ UNCHANGED <<index, state>>
     ELSE /\ handler' = "called" /\ index' = 1
          /\ LET r == list[m.kind][1].req
             IN  state' = [state EXCEPT ![r] = IF r = m.req THEN "answered" ELSE "foreign"]
  /\ raced' = MeetsRequest(m.kind)
  /\ UNCHANGED <<mqttVars, lap, permanent, lists, requester, made, calls, held, broken>>

(* process_attribute_request_message and process_rpc_request_message: the  *)
(* callback with the number of the response is called, ...                 *)
Receive(m) ==
  /\ handler = "idle" /\ broken = 0
  /\ m \in wire /\ esp = "connected" /\ m.kind \in subs
  /\ wire' = wire \ {m} /\ hkind' = m.kind
  /\ LET at == SelectInSeq(list[m.kind], LAMBDA e : e.id = m.id)
     IN  IF at = 0
         THEN /\ handler' = IF list[m.kind] = << >> THEN "emptied" ELSE "idle"
              /\ UNCHANGED <<index, state>>
         ELSE /\ handler' = "called" /\ index' = at
              /\ LET r == list[m.kind][at].req
                 IN  state' = [state EXCEPT ![r] = IF r = m.req THEN "answered" ELSE "foreign"]
  /\ raced' = MeetsRequest(m.kind)
  /\ UNCHANGED <<mqttVars, lap, permanent, lists, requester, made, calls, held, broken>>

EraseMutant ==
  /\ handler = "called" /\ broken = 0
  /\ IF index < Len(list[hkind])
     THEN /\ list' = [list EXCEPT ![hkind] = RemoveAt(@, index)]
          /\ handler' = "idle"
          /\ UNCHANGED broken
     ELSE broken' = 1 /\ UNCHANGED <<list, handler>>
  /\ raced' = MeetsRequest(hkind)
  /\ UNCHANGED <<mqttVars, lap, permanent, m_request_id, requester, hkind,
                 index, wire, made, calls, state, held>>

(* ... erased by the index it was found at, ...                            *)
Erase ==
  /\ handler = "called" /\ broken = 0
  /\ IF index <= Len(list[hkind])
     THEN /\ list' = [list EXCEPT ![hkind] = RemoveAt(@, index)]
          /\ handler' = IF Len(list[hkind]) = 1 THEN "emptied" ELSE "idle"
          /\ UNCHANGED broken
     ELSE broken' = 1 /\ UNCHANGED <<list, handler>>
  /\ raced' = MeetsRequest(hkind)
  /\ UNCHANGED <<mqttVars, lap, permanent, m_request_id, requester, hkind,
                 index, wire, made, calls, state, held>>

(* ... and the topic unsubscribed when the list was found empty, which is  *)
(* cleared once more (..._Request_Unsubscribe).                            *)
Unsub ==
  /\ handler = "emptied" /\ broken = 0
  /\ handler' = "idle"
  /\ list' = [list EXCEPT ![hkind] = << >>]
  /\ Unsubscribe(hkind)
  /\ raced' = MeetsRequest(hkind)
  /\ UNCHANGED <<lap, permanent, m_request_id, requester, hkind, index, wire,
                 made, calls, state, held, broken>>

(* A request or its response is lost.                                      *)
Lost(m) ==
  /\ m \in wire /\ broken = 0
  /\ wire' = wire \ {m}
  /\ state' = [state EXCEPT ![m.req] = IF @ = "awaited" THEN "cut" ELSE @]
  /\ UNCHANGED <<mqttVars, lap, permanent, lists, requester, receiver, made,
                 calls, raced, held, broken>>

(* esp-mqtt's own steps are of the task that handles messages.             *)
Link ==
  /\ handler = "idle" /\ broken = 0
  /\ Established \/ Dropped \/ TryAgain
  /\ LostConnection
  /\ UNCHANGED <<lap, permanent, lists, requester, receiver, made, calls, raced, broken>>

-----------------------------------------------------------------------------
AppMain == Check \/ Resubscribe \/ SendTemperature \/ SendHumidity

Application ==
  \/ Push \/ Number \/ Send \/ Cleared
  \/ \E k \in Kind : Request(k) \/ Clear(k)
  \/ \E t \in Permanent : SubscribePermanent(t) \/ UnsubscribePermanent(t)

MqttTask == Erase \/ Unsub \/ Link \/ \E m \in wire : Receive(m)

Next == AppMain \/ Application \/ MqttTask \/ \E m \in wire : Lost(m)

Spec == Init /\ [][Next]_vars

(* Every task runs; the application need not call anything.                *)
FairSpec ==
  /\ Spec
  /\ WF_vars(AppMain) /\ WF_vars(MqttTask)

-----------------------------------------------------------------------------
(* Who waits for a message can still be called.  A request that is on its  *)
(* way, and was not registered while the MQTT task handled a response of   *)
(* the same kind: its topic is subscribed to and exactly its own callback  *)
(* has its number; no callback ever gets another request's response.  (One *)
(* registered meanwhile may lose its topic, its number or its callback to  *)
(* the handler's clean-up: ThingsBoard.h:1592, :1869.)  A permanent topic  *)
(* that was subscribed to on this connection: it still is, whatever the    *)
(* requests' clean-up unsubscribes.                                        *)
Heard ==
  /\ esp = "connected" => held \subseteq subs
  /\ \A r \in Req : state[r] # "foreign"
  /\ \A r \in Req \ raced : state[r] = "awaited" =>
        \E m \in wire :
          /\ m.req = r /\ m.kind \in subs
          /\ {e \in Range(list[m.kind]) : e.id = m.id} = {[id |-> m.id, req |-> r]}

(* The handler erases past the end of its list (Helper::remove) only when  *)
(* the application cleared that list between the call and the erasure.     *)
EraseInBounds == broken = 1 => 0 \in raced

(* Telemetry has a connection again and again, without any callback of the *)
(* wrapper's doing more than note it, unless the client could not be       *)
(* started, which is never tried again (Espressif_MQTT_Client.cpp:192), or *)
(* a list was broken.                                                      *)
Reconnects == []<>(m_connected = 1) \/ <>(esp = "init") \/ <>(broken = 1)
=============================================================================
