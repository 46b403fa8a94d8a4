\* What Delete and Ensure, called until they are done, bring about; the kubelet may hang.
CONSTANTS
  h1 = h1
  h2 = h2
  u1 = u1
  u2 = u2
  u3 = u3
  u4 = u4
  Hashes <- OneHash
  Uids <- TwoUids
  NoHash = NoHash
  NoUid = NoUid
  MaxFatalExits = 2
  MaxFaults = 1
  MaxCrashes = 1
  LostResponses = FALSE
  HungKubelet = TRUE
SPECIFICATION FairSpec
PROPERTIES DeleteTerminates EnsureProgress
