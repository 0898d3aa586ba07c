SPECIFICATION Spec
CONSTANTS
  None = None
  Requests = {r1, r2}
  Payments = {1, 2}
  Amounts = {1, 2}
  Openings <- Balances
  MaxExpenses = 2
  Trips = {t1}
  Loans = {l1}
  Officers = {o1, o2}
  Customers = {c1, c2}
  Phones = {1, 2}
  Bvns = {1, 2}
  MaxApps = 1
  Base = 2
  Width = 2
  Tries = 2
  MaxRows = 6
  Clocks = {9}
  Roles = {x1}
  Permissions = {1}
  Branches = {b1, b2}
  Departments = {d1, d2, d3}
  Limits = {1, 2, 3}
  DocTypes = {1}
  Scores = {299, 300, 399, 400, 499, 500, 549, 550, 649, 650, 749, 750}
  Counts = {0, 1, 2}
  Actives = {3, 4, 6}
  Debts = {5, 6}
  Templates = {t1, t2}
  Filled = t1
  Sections = {s1}
  Fields = {f1, f2}
  Codes = {1, 2}
  MaxSubmissions = 2
  Users = {"officer", "compliance", "control", "admin"}
  RoleOf <- Staff
  Assigned = "officer"
  Principals = {1000, 1001, 1002}
  Rates = {0, 10, 15}
  Tenures = {20, 90, 120}
  Period = 30
CONSTRAINTS RecoveryBound CustomersBound FormsBound OrganisationBound ScreensBound
SYMMETRY Interchangeable
INVARIANTS RecoveryBooks PaidWasApproved AloneRemovedIsBare LoneCreationsSucceed AloneOneForm ResolvedWasHeld HeadOfficeStands AloneOrganised DecidedAsShown SomeoneCanAct ClosesNearQuote
PROPERTIES StatusIsPicked WorseIsNeverSafer
CHECK_DEADLOCK FALSE
