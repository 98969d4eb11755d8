SPECIFICATION FairSpec
CONSTANTS
  Top = 2
  Allowance <- Revised
  Floor <- Seconds
  Lease = {1, 4}
  ProfileWall = {1}
  CorrectnessPro = TRUE
  MaxStarts = 3
CHECK_DEADLOCK FALSE
INVARIANTS RecordsTell ChampionIsEarned LimitsHold RequestKnowsRecords
PROPERTIES
  RecordsStand VerdictRepeats RunReports
