SPECIFICATION FairSpec
CONSTANTS
  Runs = {r1, r2}
  Percents <- MCPercents
  MaxFaults = 2
INVARIANTS
  QuotaTypeOK
  FlagFollowsMeasures
PROPERTIES
  FlagClears
