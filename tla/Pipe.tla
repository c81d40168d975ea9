-------------------------------- MODULE Pipe --------------------------------
(***************************************************************************)
(* What the Bluetooth code needs of its way to the controller: a pipe that *)
(* holds a limited number of packets and gives out every packet put into   *)
(* it, once and in the order they were put.                                *)
(***************************************************************************)
EXTENDS Naturals, Sequences

CONSTANTS
  Packet,
  Capacity

VARIABLE pipe

Init == pipe = <<>>

Put ==
  /\ Len(pipe) < Capacity
  /\ \E p \in Packet : pipe' = Append(pipe, p)

Get ==
  /\ pipe # <<>>
  /\ pipe' = Tail(pipe)

Next == Put \/ Get

Spec == Init /\ [][Next]_pipe

=============================================================================
