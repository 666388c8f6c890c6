CONSTANTS
  Peer = {p1}
  Phone = p1
  Attempt = {1}
  Process = {"daemon"}
  Faults = {"timeout"}
  MaxFaults = 0
  MaxRun = 1
SPECIFICATION Spec
INVARIANT NoSilentRollback
