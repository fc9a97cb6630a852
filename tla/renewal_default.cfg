SPECIFICATION Spec
CONSTANTS
  k1 = k1
  k2 = k2
  Keys <- MCKeys
  StagingKeys <- MCStaging
  Life = 3
  Skew = 1
  MaxWindow = 1
  Drift = 1
  Volumes = 1
  Budgets <- MCRenewals
PROPERTY DefaultFollowsKey
CHECK_DEADLOCK FALSE
