\* Safety of the mount pod of a volume: failed requests, a crash, two configurations.
CONSTANTS
  h1 = h1
  h2 = h2
  u1 = u1
  u2 = u2
  u3 = u3
  u4 = u4
  Hashes <- TwoHashes
  Uids <- ThreeUids
  NoHash = NoHash
  NoUid = NoUid
  MaxFatalExits = 3
  MaxFaults = 2
  MaxCrashes = 1
  LostResponses = FALSE
  HungKubelet = FALSE
SPECIFICATION Spec
SYMMETRY UidSymmetry
INVARIANTS SpoolKept PodKeepsSecret DeleteMeansGone DeleteLeavesNoSecret GiveUpBound CountedOnce
PROPERTIES ImplementsMountSlot
