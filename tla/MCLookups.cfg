SPECIFICATION Spec
CONSTANTS
  Entities <- MCEntities
  Blank = "blank"
  Normal <- MCNormal
  PagesOf <- MCPagesOf
  Rank <- MCRank
  MaxPages = 2
  BreachesOf <- MCBreachesOf
  MaxNames = 3
  Listings <- MCListings
  MinRecords = 2
  Companies <- MCCompanies
  Ratings <- MCRatings
  MaxLookups = 3
INVARIANTS
  TypeOK
  AnswersAreWhole
  MatchesAreDisclosed
PROPERTIES
  ImplementsLookup
