SPECIFICATION Spec
CONSTANTS
  l1 = l1
  l2 = l2
  l3 = l3
  c1 = c1
  c2 = c2
  r1 = r1
  r2 = r2
  None = None
  Loans = {l1, l2, l3}
  Customers = {c1, c2}
  CustomerOf <- TwoOfOne
  Identified = {c1, c2}
  Banked = {c1}
  Repaired = TRUE
  MaxNumbers = 2
  Pursued = {}
  Requests = {r1, r2}
INVARIANTS OwnedUnlessStrayed CodeGoesWithNumber DetailsReachOwner
CONSTRAINT RepairedEarly
SYMMETRY Interchangeable
