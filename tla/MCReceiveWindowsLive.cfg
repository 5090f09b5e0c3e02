\* Liveness: no symmetry, timers no shorter than the step into Wait.
SPECIFICATION FairSpec
CONSTANTS
  d1 = d1
  d2 = d2
  g1 = g1
  g2 = g2
  m1 = m1
  m2 = m2
  here = here
  there = there
  f1 = f1
  f2 = f2
  Dev = {d1}
  Gw = {g1}
  Msg = {m1, m2}
  Freq = {f1}
  Place = {here, there}
  NoMsg = NoMsg
  ZeroMAC = ZeroMAC
  Nowhere = Nowhere
  Near <- SamePlace
  MaxStale = 1
  EarlyTimer = FALSE
INVARIANTS SleeperHasTimer
PROPERTIES WindowCloses AcceptedLeaves
