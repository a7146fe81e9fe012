SPECIFICATION Spec
CONSTANTS
  v = v
  m = m
  Keys = {v, m}
  Calls = {c1, c2, c3, c4}
  Peers = {p1, p2}
  Ops <- MCOps
  None = None
SYMMETRY Interchangeable
INVARIANTS TypeOK ReplayIsRecorded ContractUsable CallsReachOpen NoLeak GaugeTracksOpen
PROPERTY ReadYourWrites
