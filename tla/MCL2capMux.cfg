SPECIFICATION Spec
CONSTANTS
  d1 = d1
  d2 = d2
  Device = {d1, d2}
  PeerCid = {1, 2}
  FirstCid = 3
  ByteMod = 6
  CidMod = 8
  NoChannel = NoChannel
  MaxOpens = 6
SYMMETRY MCSymmetry
INVARIANTS
  TypeOK
  ToItsService
  AnswersArrive
