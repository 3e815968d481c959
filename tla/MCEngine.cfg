CONSTANTS
  lan = lan
  ip1 = ip1
  t1 = t1
  t2 = t2
  pass = pass
  Threads = {t1, t2}
  IPs = {lan, ip1}
  Exempt = {lan}
  Verdicts = {pass}
  TTL = 1
  MaxTime = 3
SPECIFICATION LiveSpec
INVARIANTS
  NeededLookup
  NoLostWaiter
  CleanMeansSaved
  FreshAnswers
PROPERTIES
  SavedStaysSaved
  LookupPromise
