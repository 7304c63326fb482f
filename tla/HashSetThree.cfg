CONSTANTS
  n1 = n1
  n2 = n2
  s1 = s1
  s2 = s2
  s3 = s3
  v1 = v1
  v2 = v2
  Handle = {s1, s2, s3}
  Name = {n1, n2}
  Value = {v1, v2}
  Hash <- HashDef
  Primes = {1, 2, 3, 5}
  Hints = {0}
SYMMETRY Interchangeable
SPECIFICATION Spec
INVARIANTS TypeOK Placed Distinct Counted CursorInBounds
PROPERTIES ImplementsMap
