\* Every site of two pages, circles included, with two deliveries of the crawl
\* and one of the analysis; any get may be redirected.
SPECIFICATION FairSpec
CONSTANTS
  Page = {p1, p2}
  NoPage = NoPage
  Start = p1
  Listings <- MCListings
  MaxPages = 3
  Analysis = {a1}
  Crawl = {c1, c2}
INVARIANTS TypeOK RecordsFollowLinks EachKeepsPace
PROPERTY EveryCallEnds
