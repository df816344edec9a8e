CONSTANTS
    Devs = {1, 2}
    Setups <- MCSetups
    Inodes = {1, 2, 3, 4}
SPECIFICATION Spec
INVARIANTS FileWhole ReadersNeverHalf
CHECK_DEADLOCK FALSE
