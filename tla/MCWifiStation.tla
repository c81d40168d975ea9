---------------------------- MODULE MCWifiStation ----------------------------
(* The station with the code's own number of retries; nothing else needs a *)
(* bound, the state space is finite as it is.                              *)
EXTENDS WifiStation
=============================================================================
