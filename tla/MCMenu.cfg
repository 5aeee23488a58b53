CONSTANTS
  kInitialSearchLimit = 2
  kExpandingFactor = 2
  Extended = {"rare"}
  Recipes <- SomeRecipes
  Forms <- SomeForms
  page_size = 2
  RIME_MAX_NUM_CANDIDATES = 2
  NoPage = NoPage
SPECIFICATION FairSpec
INVARIANTS
  NoDuplicates
  NothingLost
  MenuIsInOrder
  HighlightIsShown
PROPERTIES
  KeysAreAnswered
