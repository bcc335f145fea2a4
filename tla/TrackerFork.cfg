SPECIFICATION FairSpec
CONSTANTS
  t1 = t1
  t2 = t2
  t3 = t3
  NoPid = NoPid
  Threads = {t1, t2, t3}
  Leader = t1
  Parent = TRUE
  Ops = {"fork"}
  Racy = {}
  MaxSignals = 1
PROPERTY Progress
