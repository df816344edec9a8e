SPECIFICATION FairSpec
CHECK_DEADLOCK FALSE
INVARIANTS
   RootsAreJudged ExtentsVerdictIsRight ExtentsRepairIsComplete
  SpaceVerdictIsRight ChunksVerdictIsRight  
  BuffersAreTheBlocks SuperOpenSeesNewest SuperRecoverComplete
PROPERTY ScrubDevicesEnd
