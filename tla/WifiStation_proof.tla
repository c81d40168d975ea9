-------------------------- MODULE WifiStation_proof --------------------------
(***************************************************************************)
(* Safety of WifiStation for every number of retries.  The inductive       *)
(* invariant lists which events can be queued in each state of the link    *)
(* and ties the attempts made to s_retry_num and to the group's bits.      *)
(***************************************************************************)
EXTENDS WifiStation, SequenceTheorems, TLAPS

(* A queued event says how the link came to be what it is.                 *)
EventInv ==
  /\ link \in {"off", "joining", "assoc"} => events = <<>>
  /\ link = "up" => events \in {<<>>, <<"STA_GOT_IP">>}
  /\ link = "idle" =>
       events \in {<<>>, <<"STA_START">>, <<"STA_DISCONNECTED">>,
                   <<"STA_GOT_IP", "STA_DISCONNECTED">>}
  /\ link = "idle" /\ events = <<>> => "FAIL" \in bits

(* The station exists from the first wifi_init_sta on.                     *)
MainInv ==
  /\ link = "off" <=> netif = "none"
  /\ main = "prov" => netif = "none"
  /\ main \in {"started", "blocked", "awake", "loop"} => netif = "sta"
  /\ netif = "none" => bits = {} /\ s_retry_num = 0 /\ attempts = 0
  /\ wifi_ok = 1 <=> main = "loop"
  /\ main = "blocked" => bits = {}
  /\ main = "awake" => seen \subseteq bits
  /\ main = "loop" => "CONNECTED" \in bits

(* Every attempt but the boot's first is counted by s_retry_num.           *)
RetryInv ==
  /\ events = <<"STA_START">> => bits = {} /\ s_retry_num = 0 /\ attempts = 0
  /\ "CONNECTED" \in bits => attempts = s_retry_num
  /\ attempts <= s_retry_num + 1

IInv == TypeOK /\ EventInv /\ MainInv /\ RetryInv

(* Reading and appending to the short queues EventInv lists.               *)
LEMMA ShortQueues ==
  ASSUME NEW a, NEW b
  PROVE  /\ <<a>> # <<>> /\ <<a, b>> # <<>>
         /\ Head(<<a>>) = a /\ Head(<<a, b>>) = a
         /\ Tail(<<a>>) = <<>> /\ Tail(<<a, b>>) = <<b>>
         /\ Append(<<>>, a) = <<a>> /\ Append(<<a>>, b) = <<a, b>>
<1>. DEFINE S == {a, b}
<1>1. /\ <<a>> # <<>> /\ <<a, b>> # <<>>
      /\ Head(<<a>>) = a /\ Head(<<a, b>>) = a
  OBVIOUS
<1>2. Tail(<<a>>) = <<>>
  OBVIOUS
<1>3. Tail(<<a, b>>) = <<b>>
  OBVIOUS
<1>4. Append(<<>>, a) = <<a>>
  OBVIOUS
<1>5. Append(<<a>>, b) = <<a, b>>
  <2>1. <<a>> \in Seq(S) /\ <<a, b>> \in Seq(S)
    OBVIOUS
  <2>2. Append(<<a>>, b) \in Seq(S) /\ Len(Append(<<a>>, b)) = 2
    BY <2>1
  <2>3. Append(<<a>>, b)[1] = a /\ Append(<<a>>, b)[2] = b
    BY <2>1
  <2>4. Len(<<a, b>>) = 2 /\ <<a, b>>[1] = a /\ <<a, b>>[2] = b
    OBVIOUS
  <2>5. \A i \in 1..2 : Append(<<a>>, b)[i] = <<a, b>>[i]
    BY <2>3, <2>4
  <2>. QED
    BY <2>1, <2>2, <2>4, <2>5, SeqEqual
<1>. QED
  BY <1>1, <1>2, <1>3, <1>4, <1>5

LEMMA InitInvariant == Init => IInv
BY RetryAssumption
   DEF RetryAssumption, Init, IInv, TypeOK, Bit, MainPc, EventInv, MainInv,
       RetryInv

LEMMA StepInvariant == IInv /\ [Next]_vars => IInv'
<1>. SUFFICES ASSUME IInv, [Next]_vars PROVE IInv'
  OBVIOUS
<1>. USE RetryAssumption DEF RetryAssumption
<1>. USE DEF IInv, TypeOK, Bit, Event, MainPc, EventInv, MainInv, RetryInv
<1>. USE DEF app, handler
<1>1. CASE Provision
  BY <1>1 DEF Provision
<1>2. CASE WifiInitSta
  BY <1>2, ShortQueues DEF WifiInitSta
<1>3. CASE WifiInitStaAgain
  BY <1>3 DEF WifiInitStaAgain, Reboot
<1>4. CASE WaitBits
  BY <1>4 DEF WaitBits
<1>5. CASE BitsConnected
  BY <1>5 DEF BitsConnected
<1>6. CASE BitsFail
  BY <1>6 DEF BitsFail
<1>7. CASE StaStart
  BY <1>7, ShortQueues DEF StaStart, Receive, esp_wifi_connect
<1>8. CASE Retry
  BY <1>8, ShortQueues DEF Retry, Receive, esp_wifi_connect
<1>9. CASE GiveUp
  <2>1. /\ link = "idle" /\ events = <<"STA_DISCONNECTED">>
        /\ events' = <<>>
    BY <1>9, ShortQueues DEF GiveUp, Receive, xEventGroupSetBits
  <2>2. TypeOK'
    <3>1. main' \in MainPc /\ bits' \subseteq Bit /\ seen' \subseteq Bit
      BY <1>9 DEF GiveUp, xEventGroupSetBits
    <3>2. events' \in Seq(Event)
      BY <1>9, HeadTailProperties DEF GiveUp, Receive
    <3>. QED
      BY <1>9, <3>1, <3>2 DEF GiveUp
  <2>3. EventInv'
    BY <1>9, <2>1, ShortQueues DEF GiveUp, Receive, xEventGroupSetBits
  <2>4. MainInv'
    BY <1>9, <2>1 DEF GiveUp, Receive, xEventGroupSetBits
  <2>5. RetryInv'
    BY <1>9, <2>1 DEF GiveUp, Receive, xEventGroupSetBits
  <2>. QED
    BY <2>2, <2>3, <2>4, <2>5
<1>10. CASE GiveUpAndRestart
  BY <1>10 DEF GiveUpAndRestart, Reboot
<1>11. CASE GotIp
  <2>1. \/ link = "up" /\ events' = <<>>
        \/ link = "idle" /\ events' = <<"STA_DISCONNECTED">>
    <3>1. events # <<>> /\ Head(events) = "STA_GOT_IP"
      BY <1>11 DEF GotIp, Receive
    <3>2. \/ link = "up" /\ events = <<"STA_GOT_IP">>
          \/ link = "idle" /\ events = <<"STA_GOT_IP", "STA_DISCONNECTED">>
      BY <3>1, ShortQueues
    <3>3. events' = Tail(events) /\ link' = link
      BY <1>11 DEF GotIp, Receive
    <3>4. /\ Tail(<<"STA_GOT_IP">>) = <<>>
          /\ Tail(<<"STA_GOT_IP", "STA_DISCONNECTED">>)
               = <<"STA_DISCONNECTED">>
      BY ShortQueues
    <3>. QED
      BY <3>2, <3>3, <3>4
  <2>2. TypeOK'
    <3>1. main' \in MainPc /\ bits' \subseteq Bit /\ seen' \subseteq Bit
      BY <1>11 DEF GotIp, xEventGroupSetBits
    <3>2. events' \in Seq(Event)
      BY <1>11, HeadTailProperties DEF GotIp, Receive
    <3>. QED
      BY <1>11, <3>1, <3>2 DEF GotIp
  <2>3. EventInv'
    BY <1>11, <2>1, ShortQueues DEF GotIp, Receive, xEventGroupSetBits
  <2>4. MainInv'
    BY <1>11, <2>1 DEF GotIp, Receive, xEventGroupSetBits
  <2>5. RetryInv'
    BY <1>11, <2>1 DEF GotIp, Receive, xEventGroupSetBits
  <2>. QED
    BY <2>2, <2>3, <2>4, <2>5
<1>12. CASE Associate
  BY <1>12 DEF Associate
<1>13. CASE JoinFails
  BY <1>13, ShortQueues DEF JoinFails, Drop
<1>14. CASE GetAddress
  BY <1>14, ShortQueues DEF GetAddress
<1>15. CASE LinkLost
  <2>1. events' \in {<<"STA_DISCONNECTED">>,
                     <<"STA_GOT_IP", "STA_DISCONNECTED">>}
    <3>1. /\ Append(<<>>, "STA_DISCONNECTED") = <<"STA_DISCONNECTED">>
          /\ Append(<<"STA_GOT_IP">>, "STA_DISCONNECTED")
               = <<"STA_GOT_IP", "STA_DISCONNECTED">>
      BY ShortQueues
    <3>2. events \in {<<>>, <<"STA_GOT_IP">>}
      BY <1>15 DEF LinkLost, Drop
    <3>. QED
      BY <1>15, <3>1, <3>2 DEF LinkLost, Drop
  <2>2. TypeOK'
    BY <1>15, <2>1 DEF LinkLost, Drop
  <2>3. EventInv'
    BY <1>15, <2>1, ShortQueues DEF LinkLost, Drop
  <2>4. MainInv'
    BY <1>15, <2>1 DEF LinkLost, Drop
  <2>5. RetryInv'
    BY <1>15, <2>1 DEF LinkLost, Drop
  <2>. QED
    BY <2>2, <2>3, <2>4, <2>5
<1>16. CASE UNCHANGED vars
  BY <1>16 DEF vars
<1>. QED
  BY <1>1, <1>2, <1>3, <1>4, <1>5, <1>6, <1>7, <1>8, <1>9, <1>10, <1>11,
     <1>12, <1>13, <1>14, <1>15, <1>16 DEF Next, AppMain, EventTask, Driver

LEMMA Invariant == Spec => []IInv
BY InitInvariant, StepInvariant, PTL DEF Spec

(* The type invariant, for every number of retries.                        *)
THEOREM TypeCorrect == Spec => []TypeOK
<1>1. IInv => TypeOK
  BY DEF IInv
<1>. QED
  BY <1>1, Invariant, PTL

(* The handler never connects more often than the retries allow.           *)
THEOREM RetriesBounded == Spec => []AttemptsBounded
<1>1. IInv => AttemptsBounded
  BY RetryAssumption
     DEF RetryAssumption, IInv, TypeOK, MainInv, RetryInv, AttemptsBounded
<1>. QED
  BY <1>1, Invariant, PTL

(* app_main never sleeps on a bit that is set, nor on a dead station.      *)
THEOREM NoLostWakeup == Spec => []WaitAnswered
<1>1. IInv => WaitAnswered
  BY DEF IInv, TypeOK, EventInv, MainInv, WaitAnswered, Tended
<1>. QED
  BY <1>1, Invariant, PTL

(* Only a FAIL bit set before wifi_ok strands the telemetry loop.          *)
THEOREM StrandedByLateFlag == Spec => []StrandedOnlyByLateFlag
<1>1. IInv => StrandedOnlyByLateFlag
  BY DEF IInv, EventInv, StrandedOnlyByLateFlag, Tended
<1>. QED
  BY <1>1, Invariant, PTL

(* The closet restarts only when every reconnection has failed.            *)
THEOREM LastResort == Spec => RestartIsLastResort
<1>1. IInv /\ [Next]_vars
        => [main = "loop" /\ main' = "prov"
              => link = "idle" /\ attempts = EXAMPLE_ESP_MAXIMUM_RETRY]_vars
  <2>. SUFFICES ASSUME IInv, Next, main = "loop", main' = "prov"
                PROVE  link = "idle" /\ attempts = EXAMPLE_ESP_MAXIMUM_RETRY
    OBVIOUS
  <2>1. GiveUpAndRestart
    BY DEF Next, AppMain, EventTask, Driver, Provision, WifiInitSta,
           WifiInitStaAgain, WaitBits, BitsConnected, BitsFail, StaStart,
           Retry, GiveUp, GotIp, xEventGroupSetBits, Associate, JoinFails,
           LinkLost, Drop, GetAddress, app
  <2>2. link = "idle"
    BY <2>1, ShortQueues DEF GiveUpAndRestart, IInv, TypeOK, EventInv
  <2>3. attempts = s_retry_num
    BY DEF IInv, MainInv, RetryInv
  <2>. QED
    BY <2>1, <2>2, <2>3, RetryAssumption
       DEF RetryAssumption, GiveUpAndRestart, IInv, TypeOK
<1>. QED
  BY <1>1, Invariant, PTL DEF Spec, RestartIsLastResort

=============================================================================
