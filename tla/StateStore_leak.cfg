\* One thread, one key: does a put that fits succeed?
CONSTANTS
  t1 = t1
  t2 = t2
  c1 = c1
  c2 = c2
  n1 = n1
  n2 = n2
  k1 = k1
  Threads = {t1}
  Conns = {c1}
  Filters = {n1}
  UserKeys = {k1}
  Sizes = {1, 2}
  Ttl = 1
  MaxEntry = 2
  MaxConnection = 2
  MaxFilter = 3
  MaxTotal = 4
  MaxTime = 1
  Idle = Idle
SPECIFICATION Spec
PROPERTY RejectedOnlyWhenFull
