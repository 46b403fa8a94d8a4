\* What the watch, the queue and the rounds bring a volume.
CONSTANTS
  v1 = v1
  v2 = v2
  w1 = w1
  w2 = w2
  Volumes <- OneVolume
  Workers <- OneWorker
  MaxFaults = 1
  MaxEvents = 2
SPECIFICATION FairSpec
INVARIANTS TypeOK RestartPlanned RebindPlanned
PROPERTIES QueueRestarts RoundsRestart
CHECK_DEADLOCK FALSE
