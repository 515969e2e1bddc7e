\* The persona editor with two personas and two solvers, one of them with JSON
\* settings; the forms with two clients and three requests under way; two
\* database profiles, two changes of them and two tests; three clients on
\* pages of two.
CONSTANTS
  a = a  b = b  s1 = s1  s2 = s2  x = x  y = y
  None = None  Empty = Empty  Broken = Broken
  Persona = {a, b}
  Solver = {s1, s2}
  Json = {s2}
  Setting = {x}
  Initial <- TwoPersonas
  Saves = 1
  Busy = FALSE
  c1 = c1  c2 = c2  r1 = r1  r2 = r2  r3 = r3
  Item = {c1, c2}
  Slot = {r1, r2, r3}
  Opening = {1, 2, 3, 4}
  Hasty = {"policy", "pairing"}
  p1 = p1  p2 = p2  t = t  kept = kept
  Default = Default  Redacted = Redacted
  Profile = {p1, p2}
  First = p1
  Text = {t, kept}
  Typed = {t}
  Kept <- KeptProfiles
  Changes = 2
  Tests = 2
  Most = 3
  PerPage = 2
  Searches <- TwoSearches
  NoOne = NoOne
SPECIFICATION EditorsSpec
INVARIANTS
  EditorsTypeOK
  TypedIsKept
  UsableFormBelongs
  SecretsAreShown
  PageHasRows
PROPERTIES
  SaveMixesNothing
  TestedBeforeSaved
  SavesItsOwn
  UntouchedPasswordStays
