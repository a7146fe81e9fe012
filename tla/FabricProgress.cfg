SPECIFICATION FairSpec
CONSTANTS
  v = v
  m = m
  Keys = {v, m}
  Txs = {t1, t2, t3}
  Peers = {p1, p2}
  Ops <- MCOps
  Absent = Absent
  BatchSize = 2
PROPERTY OrderedIsWritten
