SPECIFICATION SmoothSpec
CONSTANTS
    Phone = {f1}
    Handler = "waybar"
    MaxInbox = 2
    None = none
PROPERTY AcceptedIsBonded
CHECK_DEADLOCK FALSE
