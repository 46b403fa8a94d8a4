\* Requests that take effect although they failed, or later.
CONSTANTS
  h1 = h1
  h2 = h2
  u1 = u1
  u2 = u2
  u3 = u3
  u4 = u4
  Hashes <- OneHash
  Uids <- FourUids
  NoHash = NoHash
  NoUid = NoUid
  MaxFatalExits = 2
  MaxFaults = 2
  MaxCrashes = 1
  LostResponses = TRUE
  HungKubelet = FALSE
SPECIFICATION Spec
SYMMETRY FourUidSymmetry
INVARIANTS OneMountProcess
