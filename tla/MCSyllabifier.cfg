CONSTANTS
  N = 4
  DelimSets <- FewDelims
  Spells <- Plain
  Keys <- Completions
  enable_completion = TRUE
SPECIFICATION FairSpec
INVARIANTS
  GraphIsExact
  VerticesAreRated
PROPERTIES
  ReturnsUnlessStuck
