SPECIFICATION Spec
CONSTANTS
  Peer = {p1, p2}
  NoPeer = NoPeer
  Caller = {c1}
  Reloader = Reloader
  MaxRegs = 8
  MaxAsked = 1
  MaxFaults = 1
  MaxDrops = 0
  MaxChanges = 2
  NonceLruCap = 1
  FreshNonces = TRUE
CHECK_DEADLOCK FALSE
SYMMETRY Symmetry
INVARIANTS
  MapsAgree
  RevokedIsNotAdvertised
