------------------------------ MODULE Organisation ------------------------------
(***************************************************************************)
(* The tables loans and staff hang on: branches with one head office among   *)
(* them, departments in a hierarchy, the branch and the department of a user, *)
(* and loan products with their limits and required documents. Nothing is    *)
(* written under a lock: a handler looks, and writes in a later call.        *)
(***************************************************************************)
EXTENDS Integers, FiniteSets

CONSTANTS
  Branches,     \* branches, each with a code of its own
  Departments,  \* departments
  Limits,       \* amounts a product may start or end at
  DocTypes,     \* document types a product may require
  Requests,     \* request slots: how many handlers may be in flight at once
  None          \* no branch, no department

VARIABLES
  branch,     \* [Branches -> none, live or deleted]
  head,       \* the branches with isHeadOffice, deleted ones too
  dept,       \* [Departments -> none, live or deleted]
  parent,     \* [Departments -> parentId]
  seat,       \* branchId and departmentId of a user
  product,    \* a loan product
  sold,       \* how many applications ask for it, up to one
  handler     \* [Requests -> handler in flight]

vars == <<branch, head, dept, parent, seat, product, sold, handler>>

\* What a handler holds: the row it is about, the parent it writes, how far it
\* has climbed, and the product as it will be.
Idle == [op |-> "none", step |-> 0, on |-> None, to |-> None, at |-> None, seen |-> {},
         limits |-> <<0, 0>>, docs |-> {}]

Init ==
  /\ branch = [b \in Branches |-> "none"] /\ head = {}
  /\ dept = [d \in Departments |-> "none"] /\ parent = [d \in Departments |-> None]
  /\ seat = [branch |-> None, dept |-> None]
  /\ product = [state |-> "none", limits |-> <<0, 0>>, docs |-> {}] /\ sold = 0
  /\ handler = [r \in Requests |-> Idle]

Start(r, h) == handler[r] = Idle /\ handler' = [handler EXCEPT ![r] = h]
At(r, op, step) == handler[r].op = op /\ handler[r].step = step
Finish(r) == handler' = [handler EXCEPT ![r] = Idle]

office == <<branch, head>>
tree == <<dept, parent>>
catalogue == <<product, sold>>

-----------------------------------------------------------------------------
(* Branches *)

\* The code is free among those not deleted. A new head office takes the flag
\* from every other branch first.
OthersHead == {}

CreateBranch(r, b, first) ==
  /\ branch[b] # "live"
  /\ Start(r, [Idle EXCEPT !.op = IF first THEN "headOffice" ELSE "branch", !.on = b])
  /\ UNCHANGED <<office, tree, seat, catalogue>>

ClearHead(r) ==
  /\ At(r, "headOffice", 0) /\ handler' = [handler EXCEPT ![r].step = 1]
  /\ head' = OthersHead
  /\ UNCHANGED <<branch, tree, seat, catalogue>>

\* The unique key knows deleted codes too: the insertion fails on one.
InsertBranch(r) ==
  /\ At(r, "branch", 0) \/ At(r, "headOffice", 1)
  /\ Finish(r)
  /\ LET b == handler[r].on IN
       IF branch[b] = "none"
       THEN /\ branch' = [branch EXCEPT ![b] = "live"]
            /\ head' = IF handler[r].op = "headOffice" THEN head \cup {b} ELSE head
       ELSE UNCHANGED office
  /\ UNCHANGED <<tree, seat, catalogue>>

NotHeadUnasked(b) == TRUE                       \* mutant: the head office is deleted like any other
NotHead(b) == b \notin head

\* The branch is read, then its users are counted, then the row is marked.
RemoveBranch(r, b) ==
  /\ branch[b] = "live" /\ NotHead(b)
  /\ Start(r, [Idle EXCEPT !.op = "closeBranch", !.on = b])
  /\ UNCHANGED <<office, tree, seat, catalogue>>

CountStaff(r) ==
  /\ At(r, "closeBranch", 0)
  /\ handler' = [handler EXCEPT ![r] = IF seat.branch = @.on THEN Idle ELSE [@ EXCEPT !.step = 1]]
  /\ UNCHANGED <<office, tree, seat, catalogue>>

CloseBranch(r) ==
  /\ At(r, "closeBranch", 1) /\ Finish(r)
  /\ branch' = [branch EXCEPT ![handler[r].on] = "deleted"]
  /\ UNCHANGED <<head, tree, seat, catalogue>>

\* users.create and update write whatever they are asked: a foreign key is all
\* that is checked.
SeatUser(b, d) ==
  /\ b # None => branch[b] # "none"
  /\ d # None => dept[d] # "none"
  /\ seat' = [branch |-> b, dept |-> d]
  /\ UNCHANGED <<office, tree, catalogue, handler>>

-----------------------------------------------------------------------------
(* Departments *)

CreateDept(r, d, p) ==
  /\ dept[d] # "live"
  /\ p # None => dept[p] = "live"
  /\ Start(r, [Idle EXCEPT !.op = "dept", !.on = d, !.to = p])
  /\ UNCHANGED <<office, tree, seat, catalogue>>

InsertDept(r) ==
  /\ At(r, "dept", 0) /\ Finish(r)
  /\ LET d == handler[r].on IN
       IF dept[d] = "none"
       THEN /\ dept' = [dept EXCEPT ![d] = "live"]
            /\ parent' = [parent EXCEPT ![d] = handler[r].to]
       ELSE UNCHANGED tree
  /\ UNCHANGED <<office, seat, catalogue>>

\* A new parent: not the department itself, nor one below it. checkCircularParent
\* climbs from the new parent, one query a level. A parent that is deleted will do.
MoveDept(r, d, p) ==
  /\ dept[d] = "live" /\ p # d
  /\ p # None => dept[p] # "none"
  /\ Start(r, [Idle EXCEPT !.op = "move", !.on = d, !.to = p, !.at = p, !.seen = {p}])
  /\ UNCHANGED <<office, tree, seat, catalogue>>

AboveUnseen(d) == None                          \* mutant: only the new parent is compared
Above(d) == parent[d]

\* One department a call: at the moved one the request is refused, at the top or
\* where the climb has been it is done.
Climb(r) ==
  /\ At(r, "move", 0) /\ handler[r].at # None
  /\ LET h == handler[r]
         next == Above(h.at)
     IN handler' = [handler EXCEPT ![r] =
          IF next = h.on THEN Idle
          ELSE [h EXCEPT !.at = IF next \in h.seen THEN None ELSE next, !.seen = @ \cup {next}]]
  /\ UNCHANGED <<office, tree, seat, catalogue>>

\* The climb was asked about the tree level by level; the write asks nothing.
WriteParent(r) ==
  /\ At(r, "move", 0) /\ handler[r].at = None
  /\ Finish(r)
  /\ parent' = [parent EXCEPT ![handler[r].on] = handler[r].to]
  /\ UNCHANGED <<office, dept, seat, catalogue>>

\* Users are counted, then departments below, then the row is marked.
RemoveDept(r, d) ==
  /\ dept[d] = "live" /\ seat.dept # d
  /\ Start(r, [Idle EXCEPT !.op = "closeDept", !.on = d])
  /\ UNCHANGED <<office, tree, seat, catalogue>>

Below(d) == {c \in Departments : dept[c] = "live" /\ parent[c] = d}

CountDepts(r) ==
  /\ At(r, "closeDept", 0)
  /\ handler' = [handler EXCEPT ![r] = IF Below(@.on) # {} THEN Idle ELSE [@ EXCEPT !.step = 1]]
  /\ UNCHANGED <<office, tree, seat, catalogue>>

CloseDept(r) ==
  /\ At(r, "closeDept", 1) /\ Finish(r)
  /\ dept' = [dept EXCEPT ![handler[r].on] = "deleted"]
  /\ UNCHANGED <<office, parent, seat, catalogue>>

-----------------------------------------------------------------------------
(* Loan products *)

\* The limits a change leads to: what it gives, and otherwise what there is.
Merged(min, max) == <<IF min = 0 THEN product.limits[1] ELSE min,
                      IF max = 0 THEN product.limits[2] ELSE max>>
Sound(min, max) == Merged(min, max)[1] < Merged(min, max)[2]

CreateProduct(r, min, max, docs) ==
  /\ product.state = "none" /\ min < max
  /\ Start(r, [Idle EXCEPT !.op = "product", !.limits = <<min, max>>, !.docs = docs])
  /\ UNCHANGED <<office, tree, seat, catalogue>>

\* The row goes in with its requirements.
InsertProduct(r) ==
  /\ At(r, "product", 0) /\ Finish(r)
  /\ product' = IF product.state = "none"
                THEN [state |-> "live", limits |-> handler[r].limits, docs |-> handler[r].docs]
                ELSE product
  /\ UNCHANGED <<office, tree, seat, sold>>

\* 0 is a limit that is not given, None a list of documents that is not.
UpdateProduct(r, min, max, docs) ==
  /\ product.state = "live" /\ Sound(min, max)
  /\ Start(r, [Idle EXCEPT !.op = "change", !.limits = <<min, max>>, !.docs = docs])
  /\ UNCHANGED <<office, tree, seat, catalogue>>

ChangeRow(r) ==
  /\ At(r, "change", 0)
  /\ product' = [product EXCEPT !.limits = Merged(handler[r].limits[1], handler[r].limits[2])]
  /\ handler' = [handler EXCEPT ![r] = IF @.docs = None THEN Idle ELSE [@ EXCEPT !.step = 1]]
  /\ UNCHANGED <<office, tree, seat, sold>>

\* The requirements are deleted, and written anew in a call of its own that may fail.
DropRequirements(r) ==
  /\ At(r, "change", 1)
  /\ product' = [product EXCEPT !.docs = {}]
  /\ handler' = [handler EXCEPT ![r] = IF @.docs = {} THEN Idle ELSE [@ EXCEPT !.step = 2]]
  /\ UNCHANGED <<office, tree, seat, sold>>

AddRequirements(r) ==
  /\ At(r, "change", 2) /\ Finish(r)
  /\ product' = [product EXCEPT !.docs = IF @ \cap handler[r].docs = {} THEN @ \cup handler[r].docs ELSE @]
  /\ UNCHANGED <<office, tree, seat, sold>>

RemoveProduct(r) ==
  /\ product.state = "live" /\ sold = 0
  /\ Start(r, [Idle EXCEPT !.op = "withdraw"])
  /\ UNCHANGED <<office, tree, seat, catalogue>>

WithdrawProduct(r) ==
  /\ At(r, "withdraw", 0) /\ Finish(r)
  /\ product' = [product EXCEPT !.state = "deleted"]
  /\ UNCHANGED <<office, tree, seat, sold>>

\* loan-applications.create: the product is read, the application inserted later.
Apply(r) ==
  /\ product.state = "live" /\ Start(r, [Idle EXCEPT !.op = "apply"])
  /\ UNCHANGED <<office, tree, seat, catalogue>>

InsertApplication(r) ==
  /\ At(r, "apply", 0) /\ Finish(r) /\ sold' = 1
  /\ UNCHANGED <<office, tree, seat, product>>

\* A handler's next call fails: what it has written stays.
Fail(r) ==
  /\ handler[r] # Idle /\ Finish(r)
  /\ UNCHANGED <<office, tree, seat, catalogue>>

-----------------------------------------------------------------------------
OfBranches(r) ==
  \/ \E b \in Branches : (\E first \in BOOLEAN : CreateBranch(r, b, first)) \/ RemoveBranch(r, b)
  \/ ClearHead(r) \/ InsertBranch(r) \/ CountStaff(r) \/ CloseBranch(r)

OfDepartments(r) ==
  \/ \E d \in Departments, p \in Departments \cup {None} : CreateDept(r, d, p) \/ MoveDept(r, d, p)
  \/ \E d \in Departments : RemoveDept(r, d)
  \/ InsertDept(r) \/ Climb(r) \/ WriteParent(r) \/ CountDepts(r) \/ CloseDept(r)

OfProducts(r) ==
  \/ \E min, max \in Limits, docs \in SUBSET DocTypes : CreateProduct(r, min, max, docs)
  \/ \E min, max \in Limits \cup {0}, docs \in (SUBSET DocTypes) \cup {None} : UpdateProduct(r, min, max, docs)
  \/ InsertProduct(r) \/ ChangeRow(r) \/ DropRequirements(r) \/ AddRequirements(r)
  \/ RemoveProduct(r) \/ WithdrawProduct(r) \/ Apply(r) \/ InsertApplication(r)

Next ==
  \/ \E r \in Requests : OfBranches(r) \/ OfDepartments(r) \/ OfProducts(r) \/ Fail(r)
  \/ \E b \in Branches \cup {None}, d \in Departments \cup {None} : SeatUser(b, d)

Spec == Init /\ [][Next]_vars

-----------------------------------------------------------------------------
(* Properties *)

\* The head office is never deleted, though it is asked about two calls before
\* the row is marked: nothing makes an existing branch the head office
\* (branches.service.ts:143).
HeadOfficeStands == \A b \in head : branch[b] = "live"

\* With one request at a time there is at most one head office
\* (branches.service.ts:76): two creations that both cleared the flag make two.
OneHeadOffice == Cardinality(head) <= 1

\* With one request at a time no department is above itself, however deep the
\* hierarchy and whatever was deleted in it (departments.service.ts:174): among any
\* departments is one whose parent is none of them. Two moves that climbed the same
\* tree can hang each department below the other.
Acyclic ==
  \A some \in (SUBSET Departments) \ {{}} : \E d \in some : parent[d] \notin some

\* With one request at a time a product's smallest amount is below its largest,
\* whichever of the two a change gives (loan-products.service.ts:83): two changes
\* of one limit each can cross.
LimitsOrdered == product.state # "none" => product.limits[1] < product.limits[2]
=============================================================================
