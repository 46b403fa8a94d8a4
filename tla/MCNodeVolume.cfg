\* Staging, unstaging and recovery with one failed request and one restart.
CONSTANTS
  c1 = c1
  c2 = c2
  Configs <- TwoConfigs
  NoConfig = NoConfig
  Invalid = Invalid
  Deletions = TRUE
  MaxFaults = 1
  MaxCrashes = 1
SPECIFICATION Spec
INVARIANTS TypeOK UnstagedMeansGone
PROPERTIES RecoverySparesStaged NoLoginAfterGiveUp
