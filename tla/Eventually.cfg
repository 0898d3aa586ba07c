SPECIFICATION Spec
CONSTANTS
  l1 = l1
  l2 = l2
  c1 = c1
  c2 = c2
  r1 = r1
  t1 = t1
  a1 = a1
  a2 = a2
  u1 = u1
  u2 = u2
  None = None
PROPERTIES EveryLoanNumbered CallsEnd
