---------------------------- MODULE MCBtTransport ----------------------------
(* The transport with a smaller window than the code's and a queue that    *)
(* has the code's two slots beside its acknowledgements.                   *)
EXTENDS BtTransport
=============================================================================
