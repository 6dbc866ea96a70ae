SPECIFICATION ResolverSpec
CONSTANTS
  large = large
  huge = huge
  osLarge = osLarge
  ghost = ghost
  osGhost = osGhost
  Vendors = {large, huge, osLarge, ghost, osGhost}
  Products = {"verify", "gateway", "mobile", "-"}
  Wildcards = {"-"}
  Malformed = Malformed
  NoItem = NoItem
  Rows <- MCRows
  Matching = {"gateway"}
  Replies <- MCReplies
  Selections <- MCSelections
  MaxVendorCandidates = 2
  MaxSelectedProducts = 1
  PageSize = 2
INVARIANTS
  ResolverTypeOK
  KeepsItsPromise
  NothingIsLostSilently
