SPECIFICATION FairSpec
CONSTANTS
  Threads = {t1, t2}
  Instances = {i1, i2}
  Keys = {k1, k2}
  PhysDevs = {p1}
  Devices = {v1}
  Customs = {c1, c2}
  None = None
PROPERTIES
  EveryCallReturns
  ImplementsContract
