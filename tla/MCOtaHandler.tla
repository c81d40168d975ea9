---------------------------- MODULE MCOtaHandler ----------------------------
(* OtaHandler with two firmwares of two chunks each, the second one empty. *)
EXTENDS OtaHandler

CONSTANTS f1, f2

(* Which firmware is assigned first does not matter: they are told apart   *)
(* by nothing else.                                                        *)
MCInit == Init /\ server = f1

MCFairSpec == MCInit /\ [][Next]_vars /\ Fairness
=============================================================================
