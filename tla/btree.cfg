SPECIFICATION Spec
CONSTANTS
    Setups <- MCSetups
    MaxLevel = 5
INVARIANTS TreeSound WalksMeet
 
CHECK_DEADLOCK FALSE
