CONSTANTS
  t1 = t1
  t2 = t2
  t3 = t3
  c1 = c1
  c2 = c2
  c3 = c3
  s1 = s1
  s2 = s2
  s3 = s3
  s4 = s4
  s5 = s5
  Thread = {t1, t2}
  Owner = {c1, c2, c3}
  Sid = {s1, s2, s3, s4}
  Max = 2
  Nobody = Nobody
SPECIFICATION FairSpec
INVARIANTS TypeOK ConnectionsAreAccounted EachConnectionHasOneKeeper SessionsAreBounded FailedSessionsGo
PROPERTY StartsAreAnswered
