SPECIFICATION KSpec
CONSTANTS
  t1 = t1
  t2 = t2
  t3 = t3
  NoPid = NoPid
  Threads = {t1, t2, t3}
  Leader = t1
  Parent = TRUE
  Ops = {"clone", "leaderexit"}
  Racy = {}
  MaxSignals = 1
  Pages = 2
  Values = {0, 1}
  Clean = 0
INVARIANT SnapshotCurrent
