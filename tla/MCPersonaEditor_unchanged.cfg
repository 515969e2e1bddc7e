\* One stored persona is opened and saved.
CONSTANTS
  a = a  b = b  s1 = s1  s2 = s2  x = x  y = y
  None = None  Empty = Empty  Broken = Broken
  Persona = {a, b}
  Solver = {s1, s2}
  Json = {s2}
  Setting = {x, y}
  Initial <- TwoPersonas
  Saves = 1
  Busy = TRUE
SPECIFICATION Spec
PROPERTY EditKeepsSettings
