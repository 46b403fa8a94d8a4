\* A repair with one failed request.
CONSTANTS
  c1 = c1
  c2 = c2
  Configs <- OneConfig
  NoConfig = NoConfig
  Invalid = Invalid
  Deletions = FALSE
  MaxFaults = 1
  MaxCrashes = 0
SPECIFICATION FairSpec
PROPERTIES ConsumerServed
