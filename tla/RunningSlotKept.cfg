CONSTANTS
  v1 = v1
  v2 = v2
  notAnApp = notAnApp
  Torn = Torn
  Apps <- TwoApps
  Uploads <- AnyFile
  SECTOR = 2
  Sizes <- OneToFive
  MaxSeq = 7
SPECIFICATION FairSpec
INVARIANT RunningSlotKept
