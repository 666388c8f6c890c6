SPECIFICATION Spec
CONSTANTS
  Peer = {p1}
  NoPeer = NoPeer
  Caller = {c1, c2}
  Reloader = Reloader
  MaxRegs = 6
  MaxAsked = 3
  MaxFaults = 1
  MaxDrops = 1
  MaxChanges = 0
  NonceLruCap = 2
  FreshNonces = FALSE
CHECK_DEADLOCK FALSE
SYMMETRY Symmetry
INVARIANTS  NonceIsSingleUse
