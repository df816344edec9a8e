CONSTANTS
    Setups <- MCSetups
    AllocStart = 0
SPECIFICATION FairSpec
INVARIANTS DevExtentsDisjoint TreesAgree SystemChunksMapped
PROPERTY AllocReturns
CHECK_DEADLOCK FALSE
