SPECIFICATION UpdatesFairSpec
CONSTANTS
    u1 = u1  u2 = u2  u3 = u3  n1 = n1  n2 = n2
    Subs <- ThreeSubs
    Passes <- TwoPasses
    Free = Free
    MaxArrays = 4
    ChanCap = 1
INVARIANTS SliceListsOpenChannels QuietPassReachesAll
CHECK_DEADLOCK FALSE
PROPERTY PassEnds
