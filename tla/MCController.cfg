\* One volume, from its claim to its deletion.
CONSTANTS
  v1 = v1
  v2 = v2
  s1 = s1
  s2 = s2
  Volumes <- OneVolume
  Servers <- TwoServers
  FirstLeader = s1
  Ask <- AskOfOne
  Goals = {3, 4}
  MinDataroomCapacity = 2
  Kibi = 2
  MaxDatarooms = 2
  MaxRooms = 3
  MaxFaults = 2
  MaxFailovers = 1
  MaxChanges = 1
  OldCLI = TRUE
  NoRoom = NoRoom
SPECIFICATION FairSpec
INVARIANTS OneDataroom AppliedMeansSet
PROPERTIES ImplementsPromise ClaimServed DeleteEnds ExpandEnds
CHECK_DEADLOCK FALSE
