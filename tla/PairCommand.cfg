SPECIFICATION PairSpec
CONSTANTS
    Process = {p1, p2}
    Peer = {x}
    Old = old
    None = none
    MaxRevokes = 1
    Phone = {f1, f2}
    MaxInbox = 2
INVARIANTS
    AcceptIsOwn  BondHasKeyOrJournal
PROPERTY EveryWaitEnds
CHECK_DEADLOCK FALSE
