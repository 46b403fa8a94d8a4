\* The layers of a volume published on two target paths.
CONSTANTS
  t1 = t1
  t2 = t2
  Targets <- TwoTargets
  Staging = Staging
  Bare = Bare
  MaxMounts = 3
  MaxLost = 1
  MaxTargetLayers = 2
SPECIFICATION FairSpec
INVARIANTS TypeOK UnpublishedMeansUnbound LayersBounded
PROPERTIES FirstContainerKept Repaired
CHECK_DEADLOCK FALSE
