\* A creation whose response is lost: the pod shows up, its Secret is deleted.
CONSTANTS
  h1 = h1
  h2 = h2
  u1 = u1
  u2 = u2
  u3 = u3
  u4 = u4
  Hashes <- OneHash
  Uids <- TwoUids
  NoHash = NoHash
  NoUid = NoUid
  MaxFatalExits = 2
  MaxFaults = 1
  MaxCrashes = 0
  LostResponses = TRUE
  HungKubelet = FALSE
SPECIFICATION Spec
INVARIANTS PodKeepsSecret
