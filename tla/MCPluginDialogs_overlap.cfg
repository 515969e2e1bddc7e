\* Two operations under way on two packages: two installs, an install and an
\* uninstall, a form confirmed twice, a restart beside any of them.
CONSTANTS
  g1 = g1  g2 = g2  o1 = o1  o2 = o2
  None = None
  Package = {g1, g2}
  Slot = {o1, o2}
SPECIFICATION FairSpec
INVARIANTS
  TypeOK
  ChangesPromptARestart
  SuccessIsThePanels
PROPERTY
  InstallsAreReported
