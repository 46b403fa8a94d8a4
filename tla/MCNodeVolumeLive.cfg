\* What is told on the claim, and what comes in the end, when every request succeeds.
CONSTANTS
  c1 = c1
  c2 = c2
  Configs <- OneConfig
  NoConfig = NoConfig
  Invalid = Invalid
  Deletions = TRUE
  MaxFaults = 0
  MaxCrashes = 0
SPECIFICATION FairSpec
INVARIANTS LossReportedAtDelete LossToldOnce GiveUpToldOnce
PROPERTIES UnstageLeftAlone UnstageEnds ConsumerServed
