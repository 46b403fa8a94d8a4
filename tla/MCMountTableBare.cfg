\* A publish beside the replacement of the mount pod.
CONSTANTS
  t1 = t1
  t2 = t2
  Targets <- OneTarget
  Staging = Staging
  Bare = Bare
  MaxMounts = 2
  MaxLost = 1
  MaxTargetLayers = 2
SPECIFICATION Spec
INVARIANTS PublishedIsBound
CHECK_DEADLOCK FALSE
