SPECIFICATION FairSpec
CONSTANTS
  t1 = t1
  t2 = t2
  t3 = t3
  m1 = m1
  m2 = m2
  b = b
  Threads = {t1, t2, t3}
  Queues = {b}
  Values = {m1, m2}
  NoVal = NoVal
  Free = Free
  MaxLen = 3
INVARIANT MonitorSafe
PROPERTIES Linearizable ReadersServed
