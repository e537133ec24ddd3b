SPECIFICATION Spec
CONSTANTS
  Feeds <- MCFeeds
  RunPod = "runpod"
  Catalogues <- MCCatalogues
  Lambda = "lambda_labs"
  CoreWeave = "coreweave"
  FixtureRows <- MCFixtureRows
  Bookable = {"runpod", "lambda_labs"}
  CacheTTL = 3
  Ages = {0, 3}
  RankRequests <- MCRankRequests
  QuoteRequests <- MCQuoteRequests
  Unset = Unset
INVARIANTS
  TypeOK
  RankingIsComplete
  NothingAboveABetterOffer
  PreferenceIsHonoured
  NothingFromABadFeed
  QuotesKeepTheLimit
