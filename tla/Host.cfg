SPECIFICATION HostSpec
CONSTANTS
    Process = {p1}
    Bodies <- MCBodies
    Line = "syauth"
    Bundled = {"unit", "idle"}
    MaxEdits = 2
    None = none
    Pam = {1, 2}
    Request = {3}
    Peer = {1}
    Backlog = 3
    MaxRead = 4
    Tail10 = 2
INVARIANTS
      EnabledHasBinary
    SuccessIsReported
PROPERTIES RestoresClean 
CHECK_DEADLOCK FALSE
