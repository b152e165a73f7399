SPECIFICATION Spec
CONSTANTS
    Node = {1, 2, 3}
    Me = 1
    Lists <- MCLists
    MaxFaults = 3
    None = None
    Hairpin = FALSE
INVARIANT TypeOK
PROPERTIES
    RetargetsToPrimary
    FollowsPrimary
    ViewSettles
