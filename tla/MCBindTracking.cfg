SPECIFICATION Spec
CONSTANTS
  t1 = t1
  t2 = t2
  a = a
  b = b
  c = c
  d = d
  None = None
  Threads = {t1, t2}
  Objects = {a, b, c, d}
  Addresses = {1, 2, 3}
  Owner <- TwoOwners
  Careful = TRUE
INVARIANTS
  TypeOK
  
  
