SPECIFICATION CacheSpec
CONSTANTS
  Edits = {w1, w2, d1}
  Forgetful = {d1}
  Readers = {r1, r2}
  Crawls = {c1, c2}
  Queries = {q1}
  NoEntry = NoEntry
INVARIANTS
  StaleForAReason
  CrawlTimeReadsAreFresh
CHECK_DEADLOCK FALSE
