----------------------------- MODULE MqttClient -----------------------------
(***************************************************************************)
(* Espressif_MQTT_Client, the wrapper, over esp-mqtt and a broker, which   *)
(* are not in the repository (esp, subs).                                  *)
(*                                                                         *)
(* esp-mqtt connects in a task of its own: start and reconnect only ask    *)
(* for it.  It tries again by itself after a while.  A broker forgets the  *)
(* subscriptions of a connection that ends.  Without a connection          *)
(* subscribe and publish (QoS 0) fail at once.                             *)
(***************************************************************************)
EXTENDS Naturals

CONSTANTS
  Topic,
  MaxDrops,      \* bound: connections refused or lost
  MaxNoMemory    \* bound: failures of init and start

ASSUME MqttAssumption == MaxDrops \in Nat /\ MaxNoMemory \in Nat

VARIABLES
  m_mqtt_client,   \* "null", "set"
  m_connected,
  esp,             \* "none", "init", "connecting", "connected", "wait"
  subs,            \* topics the broker forwards on this connection
  drops, noMemory

mqttVars == <<m_mqtt_client, m_connected, esp, subs, drops, noMemory>>

MqttTypeOK ==
  /\ m_mqtt_client \in {"null", "set"} /\ m_connected \in {0, 1}
  /\ esp \in {"none", "init", "connecting", "connected", "wait"}
  /\ subs \subseteq Topic
  /\ drops \in 0..MaxDrops /\ noMemory \in 0..MaxNoMemory

MqttInit ==
  /\ m_mqtt_client = "null" /\ m_connected = 0
  /\ esp = "none" /\ subs = {} /\ drops = 0 /\ noMemory = 0

ConnectMutant(ok) ==
  \/ /\ m_mqtt_client = "set"
     /\ ok = (esp = "wait")
     /\ esp' = IF ok THEN "connecting" ELSE esp
     /\ UNCHANGED <<m_mqtt_client, m_connected, subs, drops, noMemory>>
  \/ /\ m_mqtt_client = "null" /\ ok
     /\ m_mqtt_client' = "set" /\ esp' = "connecting"
     /\ UNCHANGED <<m_connected, subs, drops, noMemory>>
  \/ /\ m_mqtt_client = "null" /\ ~ok
     /\ noMemory < MaxNoMemory /\ noMemory' = noMemory + 1
     /\ m_mqtt_client' = "set"
     /\ UNCHANGED <<m_connected, esp, subs, drops>>

(* connect() and what it returns: reconnect for a client that exists,      *)
(* which esp-mqtt only does while it waits to try again; otherwise init    *)
(* and start.  A client that could not be started is kept.                 *)
Connect(ok) ==
  \/ /\ m_mqtt_client = "set"
     /\ ok = (esp = "wait")
     /\ esp' = IF ok THEN "connecting" ELSE esp
     /\ UNCHANGED <<m_mqtt_client, m_connected, subs, drops, noMemory>>
  \/ /\ m_mqtt_client = "null" /\ ok
     /\ m_mqtt_client' = "set" /\ esp' = "connecting"
     /\ UNCHANGED <<m_connected, subs, drops, noMemory>>
  \/ /\ m_mqtt_client = "null" /\ ~ok
     /\ noMemory < MaxNoMemory /\ noMemory' = noMemory + 1
     /\ \/ UNCHANGED <<m_mqtt_client, esp>>
        \/ m_mqtt_client' = "set" /\ esp' = "init"
     /\ UNCHANGED <<m_connected, subs, drops>>

(* MQTT_EVENT_DISCONNECTED, in the task that met the failure.              *)
Abort ==
  /\ drops < MaxDrops /\ drops' = drops + 1
  /\ esp' = "wait" /\ m_connected' = 0 /\ subs' = {}
  /\ UNCHANGED <<m_mqtt_client, noMemory>>

(* publish() and what it returns; a failed write ends the connection.      *)
Publish(ok) ==
  \/ ok = (esp = "connected") /\ UNCHANGED mqttVars
  \/ ~ok /\ esp = "connected" /\ Abort

(* subscribe() and what it returns.                                        *)
Subscribe(t, ok) ==
  /\ ok = (esp = "connected")
  /\ subs' = IF ok THEN subs \union {t} ELSE subs
  /\ UNCHANGED <<m_mqtt_client, m_connected, esp, drops, noMemory>>

Unsubscribe(t) ==
  /\ subs' = IF esp = "connected" THEN subs \ {t} ELSE subs
  /\ UNCHANGED <<m_mqtt_client, m_connected, esp, drops, noMemory>>

-----------------------------------------------------------------------------
(* esp-mqtt's task: a connection is up, or refused or lost, or tried again *)
(* after reconnect_timeout.                                                *)
Established ==
  /\ esp = "connecting"
  /\ esp' = "connected" /\ m_connected' = 1 /\ subs' = {}
  /\ UNCHANGED <<m_mqtt_client, drops, noMemory>>

Dropped ==
  /\ esp \in {"connecting", "connected"}
  /\ Abort

TryAgain ==
  /\ esp = "wait"
  /\ esp' = "connecting"
  /\ UNCHANGED <<m_mqtt_client, m_connected, subs, drops, noMemory>>
=============================================================================
