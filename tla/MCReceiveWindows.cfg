\* One device between two gateways.
SPECIFICATION Spec
CONSTANTS
  d1 = d1
  d2 = d2
  g1 = g1
  g2 = g2
  m1 = m1
  m2 = m2
  here = here
  there = there
  f1 = f1
  f2 = f2
  Dev = {d1}
  Gw = {g1, g2}
  Msg = {m1, m2}
  Freq = {f1, f2}
  Place = {here, there}
  NoMsg = NoMsg
  ZeroMAC = ZeroMAC
  Nowhere = Nowhere
  Near <- SamePlace
  MaxStale = 1
  EarlyTimer = TRUE
SYMMETRY Symmetry
INVARIANTS TypeOK WindowScoped NoSleepOnFull LinksCoverRange HeldIsFresh
PROPERTIES AcceptedInWindow ImplementsDelivery
