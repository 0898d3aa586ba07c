SPECIFICATION MCSpec
CONSTANTS
  l1 = l1
  l2 = l2
  p1 = p1
  p2 = p2
  r1 = r1
  r2 = r2
  None = None
  Loans = {l1}
  Due <- Schedules
  Transfers = {p1, p2}
  AmountOf <- MCAmountOf
  TargetOf <- ToFirstLoan
  ManualAmounts = {1, 2}
  Requests = {r1}
  Failures = FALSE
  MaxByHand = 2
INVARIANT ReconciledOrQueued
