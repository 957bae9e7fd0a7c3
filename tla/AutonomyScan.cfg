SPECIFICATION Spec
CONSTANTS
  m1 = m1 m2 = m2 m3 = m3 s1 = s1 s2 = s2
  Events <- MCEvents TypeOf <- MCTypeOf TrustOf <- MCTrustOf TextOf <- MCTextOf
  Statements <- MCStatements KindOf <- MCKindOf ValidFrom <- MCValidFrom Limits <- MCLimits
  Outputs = {} Derivable = {} Seeds <- MCSeeds
  MaxClaims = 2 MaxCommits = 5 MaxNow = 1 MaxAttempts = 2
  SelectedLimit = 2 PromptIncludedLimit = 1 MaxPerTarget = 3 MaxPerSourceClaim = 2
PROPERTIES IdleReached
CHECK_DEADLOCK FALSE
