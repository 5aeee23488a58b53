CONSTANTS
  N = 2
  DelimSets <- NoDelims
  Spells <- Mixed
  Keys <- Completions
  enable_completion = TRUE
SPECIFICATION FairSpec
PROPERTIES
  Returns
