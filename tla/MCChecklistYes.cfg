SPECIFICATION Spec
CONSTANTS
  Blank = "blank"
  Replies <- MCReplies
  Searches <- MCSearches
  Page <- MCPage
  MaxCitations = 2
  MaxShown = 3
  ManualSources = {"soc2"}
  DetailCap = 2
  Others <- MCOthers
INVARIANT EveryYesIsReported
