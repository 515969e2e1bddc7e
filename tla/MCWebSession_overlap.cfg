\* Two calls under way, two passwords, three keys: a login, a password change
\* and any other call overlap, with a change by somebody else or an expiry.
CONSTANTS
  p0 = p0  p1 = p1  c1 = c1  c2 = c2
  None = None
  Password = {p0, p1}
  Default = p0
  Slot = {c1, c2}
  LastKey = 3
SPECIFICATION FairSpec
INVARIANTS
  TypeOK
  ResumeIsTheSession
  PasswordGoesWithSession
PROPERTIES
  GateIsKept
  EntryArrives
