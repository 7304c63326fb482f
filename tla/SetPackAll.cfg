CONSTANTS
  n1 = n1
  n2 = n2
  s1 = s1
  s2 = s2
  v1 = v1
  Null = Null
  Handle = {s1, s2}
  Name = {n1, n2}
  Value = {Null, v1}
  Hash <- HashDef
  Bytes <- BytesDef
  Primes = {1, 2, 3, 5, 7}
  Hints = {0}
SPECIFICATION PackSpec
INVARIANTS LoadBounded RehashExact RoundTrip
PROPERTIES PackReturns
