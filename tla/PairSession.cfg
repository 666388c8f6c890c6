CONSTANTS
  Peer = {p1}
  Phone = p1
  Attempt = {1,2}
  Process = {"daemon"}
  Faults = {"timeout", "refuse", "link", "io", "crash"}
  MaxFaults = 2
  MaxRun = 2
SPECIFICATION FairSpec
INVARIANTS ActiveTrustIsBilateral DecisionIsJournaledFirst PhoneSuccessIsKept
PROPERTIES ImplementsProtocol EveryWriteIsTaken PhoneAlwaysReturns
