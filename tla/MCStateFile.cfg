SPECIFICATION Spec
CONSTANTS
  Procs = {p1}
  Keys = {vpc, nat}
  Values = {old, new}
  None = None
  Inodes = {i1, i2}
  MaxSteps = 2
  MaxFaults = 1
PROPERTIES
  AtomicSave
  ErrorKeepsFile
