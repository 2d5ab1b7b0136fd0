SPECIFICATION Spec
CONSTANTS
  Null = Null
  a = a
  b = b
  c = c
  e = e
  f = f
  t1 = t1
  t2 = t2
  t3 = t3
  t4 = t4
  d1 = d1
  d2 = d2
  r1 = r1
  r2 = r2
  r3 = r3
  Txs = {t1, t2, t3, t4}
  Addrs = {a, b, c, e, f}
  Databases <- MCDatabases
  Requests <- MCRequests
  Limits <- MCLimits
CHECK_DEADLOCK FALSE
INVARIANT ExportIsSound
INVARIANT WalkIsSound
