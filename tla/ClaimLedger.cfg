SPECIFICATION Spec
CONSTANTS
  m1 = m1 m2 = m2 m3 = m3 m4 = m4 r1 = r1 s1 = s1 i1 = i1
  Events <- MCEvents TypeOf <- MCTypeOf TrustOf <- MCTrustOf TextOf <- MCTextOf
  Statements <- MCStatements KindOf <- MCKindOf ValidFrom <- MCValidFrom Limits <- MCLimits
  GapBefore <- MCGapBefore Relevant <- MCRelevant
  Outputs <- MCOutputs Derivable <- MCDerivable Seeds <- MCSeeds
  MaxClaims = 4 MaxCommits = 3 MaxNow = 2 MaxAttempts = 2
  SelectedLimit = 2 PromptIncludedLimit = 1 MaxPerTarget = 3 MaxPerSourceClaim = 2
  LiveLimit = 2 MaxInputs = 3 Rendered <- MCRendered
INVARIANTS ReplaySound CopiesErased
PROPERTIES ErasureReviewed SupportKept ParentsPresent SettlesGrounded SpeaksInTurn
CHECK_DEADLOCK FALSE
