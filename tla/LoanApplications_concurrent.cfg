SPECIFICATION Spec
CONSTANTS
  a1 = a1
  a2 = a2
  c1 = c1
  officer = officer
  compliance = compliance
  control = control
  admin = admin
  d1 = d1
  d2 = d2
  r1 = r1
  r2 = r2
  g1 = g1
  None = None
  Apps = {a1}
  Customers = {c1}
  Users = {compliance, admin}
  Requests = {r1, r2}
  Guarantors = {g1}
  Documents = {d1}
  CustomerOf <- MCCustomerOf
  Needs <- NeedsNothing
  TypeOf <- MCTypeOf
  RequiredTypes = {"identity"}
  Granted <- GrantedByRole
  Decisions = {"APPROVE", "REQUEST_CHANGES", "REJECT"}
  StatusEdits = {}
  Edits = {"profile", "documents"}
  MaxSerial = 4
INVARIANTS TypeOK TwoStageApproval DisbursedHasLoan StageHasOpenTask
PROPERTY ImplementsPolicy
CONSTRAINTS DocumentsWhereRead ProfilesWhereRead GuarantorsOfDrafts
SYMMETRY Interchangeable
CHECK_DEADLOCK FALSE
