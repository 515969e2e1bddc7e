CONSTANTS
  t1 = t1
  t2 = t2
  t3 = t3
  c1 = c1
  c2 = c2
  c3 = c3
  k1 = k1
  n1 = n1
  n2 = n2
  m1 = m1
  m2 = m2
  s1 = s1
  x1 = x1
  g1 = g1
  Thread = {t1, t2}
  ClientId = {c1, c2, c3}
  InitialClients = {c1}
  OtherKey = {k1}
  REVOKED = REVOKED
  Nobody = Nobody
  Name = {n1}
  MsgType = {m1}
  Skill = {s1}
  Intent = {}
  Tag = {g1}
  Requests <- MixedRequests
SPECIFICATION FairSpec
INVARIANTS MutualExclusion StaleOnlyByRevocation
PROPERTY LockIsReleased
