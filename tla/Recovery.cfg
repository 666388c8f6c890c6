CONSTANTS
  Peer = {p1, p2}
  Attempt = {1, 2}
  Process = {"daemon", "reconcile"}
  PhoneServesStatus = TRUE
  MaxFaults = 2
  MaxRevoke = 2
  First = 1
  Only = p1
SPECIFICATION SceneSpec
INVARIANTS ServedBondHasKey 
 
