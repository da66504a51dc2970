SPECIFICATION FairSpec
CONSTANTS
  s = s
  a = a
  b = b
  c = c
  d = d
  Urls <- MCUrls
  Start = s
  Links <- MCLinks
  Content <- MCContent
  Canonical <- MCCanonical
  Excluded <- MCExcluded
  Sitemap <- MCSitemap
  LowValue <- MCLowValue
  Limits <- MCLimits
  MaxDepth = 2
  Concurrency = 2
  NoHash = none
INVARIANTS FetchesBounded SettledOnce Accounted LateFetchesBounded
PROPERTIES CrawlEnds
