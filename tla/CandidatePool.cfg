SPECIFICATION FairSpec
CONSTANTS
  Runners = {r1, r2}
  LastSeed = 4
  Gate = 2
  MaxStops = 3
INVARIANTS PublishedIsRecorded ResumeNeverStuck
PROPERTIES SeedRunsOnce KeepsPopulation Finishes
CHECK_DEADLOCK FALSE
