\* Two racing calls on one instance and a bulk close: while the router restarts
\* and its roster changes, and while servers crash and requests are dropped.
CONSTANTS
  A = A
  B = B
  a1 = a1
  b1 = b1
  None = None
  Inst = {i1}
  Server = {A, B}
  NodeObj = {a1, b1}
  NameOf <- MC_NameOf
  Rank <- MC_Rank
  Call = {c1, c2}
  Surroundings <- MC_Surroundings
SPECIFICATION FairSpec
INVARIANTS
  EntriesPointHome
  OutstandingCountsEntries
  DeletedStayUnmapped
  LiveStaysRouted
PROPERTIES
  NoFalseGone
  ServersComeBack
