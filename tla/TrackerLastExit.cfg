SPECIFICATION Spec
CONSTANTS
  t1 = t1
  t2 = t2
  t3 = t3
  NoPid = NoPid
  Threads = {t1, t2, t3}
  Leader = t1
  Parent = TRUE
  Ops = {"exit"}
  Racy = {"exit"}
  MaxSignals = 1
INVARIANT WaitSucceeds
