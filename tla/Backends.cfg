CONSTANTS
  NoJob = NoJob
  NoPanic = NoPanic
  Nothing = Nothing
  c1 = c1
  c2 = c2
  a = a
  b = b
  o = o
  d1 = d1
  d2 = d2
  Conns = {c1, c2}
  Messages <- MCMessages
  Setups <- MCSetups
  MaxSubs = 2
  MaxFaults = 1
  MaxCalls = 2
  Policies = 2
  Values <- MCValues
  Parts = 2
  Nodes = {n1, n2}
  Readers = {r1, r2, r3}
  Servers = {s1, s2}
SPECIFICATION Spec
INVARIANTS  OneHandler AllOrNothing  CompleteWhenReturned
PROPERTIES SubjectsKept DeliveredOrEnded NotificationSettles ResolverCatchesUp
CHECK_DEADLOCK FALSE
