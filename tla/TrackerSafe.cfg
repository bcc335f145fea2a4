SPECIFICATION Spec
CONSTANTS
  t1 = t1
  t2 = t2
  t3 = t3
  NoPid = NoPid
  Threads = {t1, t2, t3}
  Leader = t1
  Parent = FALSE
  Ops = {"clone", "fork", "exec", "exit", "leaderexit", "exitgroup", "sigkill", "signal"}
  Racy = {"clone", "fork", "exec", "exit", "leaderexit", "exitgroup"}
  MaxSignals = 1
SYMMETRY Symmetry
INVARIANTS TypeOK TracedStopped Adopted TableInjective
PROPERTY ReadsStoppedWorld
