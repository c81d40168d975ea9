----------------------------- MODULE WifiStation -----------------------------
(***************************************************************************)
(* The station of wifi_def.c and the part of app_main that drives it.      *)
(*                                                                         *)
(* Two tasks share s_retry_num, *wifi_ok and the event group: app_main,    *)
(* which runs wifi_init_sta and waits for a bit, and the event loop's task *)
(* which runs wifi_sta_event_handler, one event at a time and in order.    *)
(* The Wi-Fi driver and the access point are the environment: they answer  *)
(* each esp_wifi_connect, drop the link when they like and post events.    *)
(***************************************************************************)
EXTENDS Naturals, Sequences, FiniteSets

CONSTANT EXAMPLE_ESP_MAXIMUM_RETRY

ASSUME RetryAssumption == EXAMPLE_ESP_MAXIMUM_RETRY \in Nat

VARIABLES
  main,          \* where app_main is
  netif,         \* the default station netif, once created
  bits,          \* s_wifi_event_group
  seen,          \* what xEventGroupWaitBits returned
  wifi_ok,
  s_retry_num,
  link,          \* the driver's station
  events,        \* the default event loop's queue
  attempts,      \* history: esp_wifi_connect calls since boot or GOT_IP
  reset          \* history: why this boot began

app     == <<main, netif, seen, wifi_ok>>
handler == <<s_retry_num, attempts>>
vars    == <<app, bits, handler, link, events, reset>>

Bit == {"CONNECTED", "FAIL"}

Event == {"STA_START", "STA_DISCONNECTED", "STA_GOT_IP"}

(* "prov": no credentials yet; "init": about to call wifi_init_sta;        *)
(* "started": esp_wifi_start returned; "blocked": in xEventGroupWaitBits;  *)
(* "awake": it returned; "loop": the telemetry loop.                       *)
MainPc == {"prov", "init", "started", "blocked", "awake", "loop"}

TypeOK ==
  /\ main \in MainPc
  /\ netif \in {"none", "sta"}
  /\ bits \subseteq Bit /\ seen \subseteq Bit
  /\ wifi_ok \in {0, 1}
  /\ s_retry_num \in 0..EXAMPLE_ESP_MAXIMUM_RETRY
  /\ link \in {"off", "idle", "joining", "assoc", "up"}
  /\ events \in Seq(Event)
  /\ attempts \in Nat
  /\ reset \in {"power_on", "abort", "exhausted"}

Init ==
  /\ main = "prov" /\ netif = "none"
  /\ bits = {} /\ seen = {} /\ wifi_ok = 0
  /\ s_retry_num = 0 /\ link = "off" /\ events = <<>>
  /\ attempts = 0 /\ reset = "power_on"

(* Every static is back at its initial value, credentials_recived too.     *)
Reboot(why) ==
  /\ main' = "prov" /\ netif' = "none"
  /\ bits' = {} /\ seen' = {} /\ wifi_ok' = 0
  /\ s_retry_num' = 0 /\ link' = "off" /\ events' = <<>>
  /\ attempts' = 0 /\ reset' = why

-----------------------------------------------------------------------------
(* app_main                                                                *)

(* credentials_recived becomes 1, over Bluetooth.                          *)
Provision ==
  /\ main = "prov"
  /\ main' = "init"
  /\ UNCHANGED <<netif, seen, wifi_ok, bits, handler, link, events, reset>>

(* wifi_init_sta up to the wait: a new event group, the default netif, the *)
(* handlers, and esp_wifi_start, which posts STA_START.                    *)
WifiInitSta ==
  /\ main = "init" /\ netif = "none"
  /\ main' = "started" /\ netif' = "sta"
  /\ bits' = {}
  /\ link' = "idle"
  /\ events' = Append(events, "STA_START")
  /\ UNCHANGED <<seen, wifi_ok, handler, reset>>

(* Called again after a failure: the default netif's key is taken, and     *)
(* ESP-IDF aborts.                                                         *)
WifiInitStaAgain ==
  /\ main = "init" /\ netif = "sta"
  /\ Reboot("abort")

(* xEventGroupWaitBits on a group that has a bit, or that has none yet.    *)
WaitBits ==
  /\ main = "started"
  /\ main' = IF bits = {} THEN "blocked" ELSE "awake"
  /\ seen' = bits
  /\ UNCHANGED <<netif, wifi_ok, bits, handler, link, events, reset>>

BitsConnected ==
  /\ main = "awake" /\ "CONNECTED" \in seen
  /\ wifi_ok' = 1
  /\ main' = "loop"
  /\ UNCHANGED <<netif, seen, bits, handler, link, events, reset>>

(* wifi_ok is still 0 and the credentials are kept: the while(1) of        *)
(* app_main calls wifi_init_sta again.                                     *)
BitsFail ==
  /\ main = "awake" /\ "CONNECTED" \notin seen
  /\ main' = "init"
  /\ UNCHANGED <<netif, seen, wifi_ok, bits, handler, link, events, reset>>

-----------------------------------------------------------------------------
(* wifi_sta_event_handler                                                  *)

(* Sets the bit and wakes nobody.                                          *)
xEventGroupSetBitsMutant(b) ==
  /\ bits' = bits \union {b}
  /\ UNCHANGED <<main, seen>>

(* A blocked task gets the group's value as of the call that wakes it.     *)
xEventGroupSetBits(b) ==
  /\ bits' = bits \union {b}
  /\ IF main = "blocked"
     THEN main' = "awake" /\ seen' = bits \union {b}
     ELSE UNCHANGED <<main, seen>>

Receive(e) ==
  /\ events # <<>> /\ Head(events) = e
  /\ events' = Tail(events)

esp_wifi_connect ==
  /\ link' = "joining"
  /\ attempts' = attempts + 1

StaStart ==
  /\ Receive("STA_START")
  /\ esp_wifi_connect
  /\ UNCHANGED <<app, bits, s_retry_num, reset>>

(* One reconnection too many.                                              *)
RetryMutantBound ==
  /\ Receive("STA_DISCONNECTED")
  /\ s_retry_num <= EXAMPLE_ESP_MAXIMUM_RETRY
  /\ esp_wifi_connect
  /\ s_retry_num' = s_retry_num + 1
  /\ UNCHANGED <<app, bits, reset>>

(* Reconnects without counting.                                            *)
RetryMutantCount ==
  /\ Receive("STA_DISCONNECTED")
  /\ s_retry_num < EXAMPLE_ESP_MAXIMUM_RETRY
  /\ esp_wifi_connect
  /\ UNCHANGED <<app, bits, s_retry_num, reset>>

(* Counts without reconnecting.                                            *)
RetryMutantConnect ==
  /\ Receive("STA_DISCONNECTED")
  /\ s_retry_num < EXAMPLE_ESP_MAXIMUM_RETRY
  /\ s_retry_num' = s_retry_num + 1
  /\ UNCHANGED <<app, bits, attempts, link, reset>>

Retry ==
  /\ Receive("STA_DISCONNECTED")
  /\ s_retry_num < EXAMPLE_ESP_MAXIMUM_RETRY
  /\ esp_wifi_connect
  /\ s_retry_num' = s_retry_num + 1
  /\ UNCHANGED <<app, bits, reset>>

(* Logs the failure and sets no bit.                                       *)
GiveUpMutant ==
  /\ wifi_ok = 0
  /\ Receive("STA_DISCONNECTED")
  /\ s_retry_num >= EXAMPLE_ESP_MAXIMUM_RETRY
  /\ UNCHANGED <<app, bits, handler, link, reset>>

GiveUp ==
  /\ wifi_ok = 0
  /\ Receive("STA_DISCONNECTED")
  /\ s_retry_num >= EXAMPLE_ESP_MAXIMUM_RETRY
  /\ xEventGroupSetBits("FAIL")
  /\ UNCHANGED <<netif, wifi_ok, handler, link, reset>>

(* Sets the bit, and leaves the restart out.                               *)
GiveUpAndRestartMutant ==
  /\ wifi_ok = 1
  /\ Receive("STA_DISCONNECTED")
  /\ s_retry_num >= EXAMPLE_ESP_MAXIMUM_RETRY
  /\ xEventGroupSetBits("FAIL")
  /\ UNCHANGED <<netif, wifi_ok, handler, link, reset>>

GiveUpAndRestart ==
  /\ wifi_ok = 1
  /\ events # <<>> /\ Head(events) = "STA_DISCONNECTED"
  /\ s_retry_num >= EXAMPLE_ESP_MAXIMUM_RETRY
  /\ Reboot("exhausted")

(* Keeps the failures of earlier connections in the count.                 *)
GotIpMutant ==
  /\ Receive("STA_GOT_IP")
  /\ attempts' = 0
  /\ xEventGroupSetBits("CONNECTED")
  /\ UNCHANGED <<netif, wifi_ok, s_retry_num, link, reset>>

GotIp ==
  /\ Receive("STA_GOT_IP")
  /\ s_retry_num' = 0
  /\ attempts' = 0
  /\ xEventGroupSetBits("CONNECTED")
  /\ UNCHANGED <<netif, wifi_ok, link, reset>>

-----------------------------------------------------------------------------
(* The driver and the access point                                         *)

Associate ==
  /\ link = "joining"
  /\ link' = "assoc"
  /\ UNCHANGED <<app, bits, handler, events, reset>>

Drop(from) ==
  /\ link \in from
  /\ link' = "idle"
  /\ events' = Append(events, "STA_DISCONNECTED")
  /\ UNCHANGED <<app, bits, handler, reset>>

JoinFails == Drop({"joining"})

LinkLost == Drop({"assoc", "up"})

(* DHCP answers, or never does.                                            *)
GetAddress ==
  /\ link = "assoc"
  /\ link' = "up"
  /\ events' = Append(events, "STA_GOT_IP")
  /\ UNCHANGED <<app, bits, handler, reset>>

-----------------------------------------------------------------------------

AppMain == \/ WifiInitSta \/ WifiInitStaAgain \/ WaitBits
           \/ BitsConnected \/ BitsFail

EventTask == StaStart \/ Retry \/ GiveUp \/ GiveUpAndRestart \/ GotIp

Driver == Associate \/ JoinFails \/ GetAddress \/ LinkLost

Next == Provision \/ AppMain \/ EventTask \/ Driver

Spec == Init /\ [][Next]_vars

(* Both tasks are scheduled while they have something to do, and the       *)
(* driver answers every connect.  Nothing obliges DHCP to answer, nor      *)
(* anybody to bring credentials.                                           *)
Fairness ==
  /\ WF_vars(AppMain)
  /\ WF_vars(EventTask)
  /\ WF_vars(Associate \/ JoinFails)

FairSpec == Spec /\ Fairness

-----------------------------------------------------------------------------

(* Somebody will still act on the link: it is up or coming up, or an event *)
(* about it is queued.                                                     *)
Tended == link # "idle" \/ events # <<>>

(* Each success buys EXAMPLE_ESP_MAXIMUM_RETRY reconnections and the boot  *)
(* one more, its first connect: the handler never asks for others.         *)
AttemptsBounded ==
  /\ attempts <= EXAMPLE_ESP_MAXIMUM_RETRY + 1
  /\ wifi_ok = 1 => attempts <= EXAMPLE_ESP_MAXIMUM_RETRY

(* No lost wake-up: while app_main is blocked in xEventGroupWaitBits no    *)
(* bit is set that it missed, and something can still set one.             *)
WaitAnswered == main = "blocked" => bits = {} /\ Tended

(* The telemetry loop runs on a link nobody tends only if the handler gave *)
(* up before app_main published wifi_ok: the handler then reads *wifi_ok   *)
(* as 0 and does not restart, and nothing connects again.                  *)
StrandedOnlyByLateFlag == main = "loop" /\ ~Tended => "FAIL" \in bits

(* esp_restart out of the telemetry loop is a last resort: the link is     *)
(* down and every reconnection since the last address has failed.          *)
RestartIsLastResort ==
  [][main = "loop" /\ main' = "prov"
       => link = "idle" /\ attempts = EXAMPLE_ESP_MAXIMUM_RETRY]_vars

(* wifi_init_sta returns, unless an access point lets the closet associate *)
(* and never gives it an address: only that wait has no end.               *)
WaitEnds == main = "blocked" ~> main # "blocked" \/ link = "assoc"

(* A link lost in the telemetry loop comes back or restarts the closet,    *)
(* unless the handler had already given up.                                *)
LinkComesBack ==
  main = "loop" /\ link = "idle" /\ "FAIL" \notin bits
    ~> link \in {"assoc", "up"} \/ main = "prov"

(* The comment of wifi_def.c:87-88: the bits xEventGroupWaitBits returns   *)
(* tell which event happened, hence exactly one of them is set.            *)
EitherConnectedOrFailed == main = "awake" => Cardinality(seen) = 1

=============================================================================
