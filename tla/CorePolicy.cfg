\* A peer, the daemon's own calls and anonymous requests, two at a time.
SPECIFICATION Spec
CONSTANTS
    h1 = h1  h2 = h2  a = a  own = own  didA = didA  k1 = k1
    Handlers <- MCHandlers
    Peers <- MCPeers
    Own = own
    DidOf <- MCDidOf
    Anonymous = Anonymous
    Skills <- MCSkills
    NoSkill = NoSkill
    Rules <- MCRules
    Burst = 2
    Refill = 1
    Idle = 3
    Stall = 1
    PolicySet = FALSE
SYMMETRY Symmetry
INVARIANTS EvictionIsInvisible
PROPERTY VerdictAudited
