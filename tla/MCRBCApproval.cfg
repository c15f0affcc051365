SPECIFICATION Spec
CONSTANTS
  Nil = Nil
  s1 = s1  s2 = s2  s3 = s3  c4 = c4
  n1 = n1  n2 = n2  n3 = n3  n4 = n4
  k1 = k1  k2 = k2  k3 = k3  k4 = k4
  a1 = a1  a2 = a2  p1 = p1  p2 = p2
  cc = cc  v1 = v1  v2 = v2  x = x  y = y
  Customers = {s1, s2, s3, c4}
  Numbers = {n1, n2, n3, n4}
  Certs = {k1, k2, k3, k4}
  Approvals = {a1, a2}
  Peers = {p1, p2}
  Chaincodes = {cc}
  Versions = {v1, v2}
  Codes = {x, y}
  PageSize = 2
  Workloads <- MCWorkloads
INVARIANTS
  CustomersIndexed
PROPERTIES
  VerdictFinal
  CountNotTooHigh
  
CHECK_DEADLOCK FALSE
