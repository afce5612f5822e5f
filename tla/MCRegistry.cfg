SPECIFICATION Spec
CONSTANTS
  Threads = {t1, t2, t3}
  Instances = {i1, i2}
  Keys = {k1, k2}
  PhysDevs = {p1, p2}
  Devices = {v1}
  Customs = {c1, c2}
  None = None
SYMMETRY Symmetry
INVARIANTS
  NoPanic
  HandlesResolve
  NoStaleEntry
  NothingLost
  TriviallyDestructible
  InfoIsOwn
  NoWaitCycle
  IInv
