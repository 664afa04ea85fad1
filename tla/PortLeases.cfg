\* Two ports for three boots, two of them in one process.
CONSTANTS
  pid1 = pid1
  pid2 = pid2
  b1 = b1
  b2 = b2
  b3 = b3
  None = None
  Port = {p1, p2}
  Proc = {pid1, pid2}
  Boot = {b1, b2, b3}
  ProcOf <- MC_ProcOf
  Need = 1
  Host = host
  slime = slime
  Layouts <- MC_Layouts
SPECIFICATION Spec
INVARIANTS
  PortsExclusive
  LeaseKept
  NoPortLeaks
\* Every process may die.
CHECK_DEADLOCK FALSE
SYMMETRY MC_Symmetry
