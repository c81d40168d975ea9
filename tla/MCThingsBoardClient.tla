------------------------ MODULE MCThingsBoardClient -------------------------
(* ThingsBoardClient with lists of two, three requests, a connection lost  *)
(* or refused once, and one failure of init or start.                      *)
EXTENDS ThingsBoardClient

MCTopic == {"attribute", "rpc", "rpc_request", "shared"}
=============================================================================
