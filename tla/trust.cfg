SPECIFICATION Spec
CONSTANTS
  k1 = k1
  k2 = k2
  Keys <- MCKeys
  StagingKeys <- MCStaging
  Life = 3
  Skew = 1
  MaxWindow = 1
  Drift = 1
  Volumes = 2
  Budgets <- MCBudgets
INVARIANTS VerifiedIsRecent VerdictIsFair 
CHECK_DEADLOCK FALSE
