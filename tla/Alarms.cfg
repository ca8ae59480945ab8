SPECIFICATION FairSpec
CONSTANTS
  low = low
  high = high
  src = src
  ip = ip
  lan = lan
  off = off
  None = None
  Upserts = {low, high}
  Checked = {low, high}
  Risks <- MCRisks
  Time <- MCTime
  Terms <- MCTerms
  Sources <- MCSources
  Usable = {src}
INVARIANTS TypeOK OneResultPerTerm ResultsWritten StoreNewest
CHECK_DEADLOCK FALSE
PROPERTIES GoroutinesEnd
