SPECIFICATION DialogSpec
CONSTANTS
    Dialog = {d1, d2, d3}
    NoDialog = none
    Retries = 2
    MaxBusy = 3
    MaxUnread = 3
    MaxRefused = 2
    Comparison = {n1, n2}
    Attempt = {a1}
    Client = {c1, c2}
    None = none
    MaxCancels = 1
INVARIANTS
    NoAgentOutsideSession PairableIsRestored
    AcceptedWasConfirmed AssociatedIsTrusted SlotIsOwned
PROPERTY EveryRequestEnds
CHECK_DEADLOCK FALSE
