CONSTANTS
  c1 = c1  c2 = c2  s1 = s1  s2 = s2  u1 = u1  None = None
  Clients <- TwoClients
  Sessions = {s1, s2}
  SessionOf <- TwoSessions
  Users = {u1}
  UserOf <- SameUser
  SendCap = 1
SPECIFICATION FairSpec
INVARIANTS Accounted AllKicked
PROPERTIES ShutdownCloses NobodyIsStranded NoDeadClients
