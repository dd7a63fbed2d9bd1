\* Two threads, two connections, two filters, one key, values of 1 or 2 bytes.
CONSTANTS
  t1 = t1
  t2 = t2
  c1 = c1
  c2 = c2
  n1 = n1
  n2 = n2
  k1 = k1
  Threads = {t1, t2}
  Conns = {c1, c2}
  Filters = {n1, n2}
  UserKeys = {k1}
  Sizes = {1, 2}
  Ttl = 1
  MaxEntry = 2
  MaxConnection = 2
  MaxFilter = 3
  MaxTotal = 4
  MaxTime = 2
  Idle = Idle
SPECIFICATION Spec
INVARIANTS
  TypeOK
  CountersCover
  WithinLimits
PROPERTY SweepIsThorough
SYMMETRY Symmetry
