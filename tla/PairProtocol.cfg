CONSTANTS
  Attempt = {a1}
  Sendable = {"Capability", "Confirm", "Prepared", "Commit", "CommitAck", "Committed", "Error"}
SPECIFICATION Spec
INVARIANTS  NoSplitOutcome BondedIsMutual
PROPERTY CommitIsNeverUndone
