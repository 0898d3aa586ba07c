-------------------------------- MODULE Numbering -------------------------------
(***************************************************************************)
(* Numbers of customers, applications, loans, receipts and recovery          *)
(* accounts: VC-000001 and the like. A generator reads the greatest number   *)
(* there is, as a string, and takes the next; the row is inserted later,     *)
(* under a unique key. Generators of customers, applications and loans look  *)
(* whether the candidate exists and try the next ones, and in the end take   *)
(* the clock's digits; those of receipts and recovery accounts do not.       *)
(***************************************************************************)
EXTENDS Integers, FiniteSets

CONSTANTS
  Base,      \* digits: ten in the code
  Width,     \* digits a number is padded to: six in the code
  Tries,     \* candidates looked at before the clock is asked: ten in the code
  MaxRows,   \* bound: rows inserted
  Clocks,    \* what the clock may show: its last Width + 2 digits, in the code
  Requests   \* creations in flight

VARIABLES
  looks,    \* whether this generator looks for the candidate
  rows,     \* the numbers in the table
  gone,     \* those of soft-deleted rows
  creating, \* [Requests -> creation in flight]
  clocked,  \* history: a number was taken from the clock
  refused   \* history: a creation was refused though no other was in flight since it began

vars == <<looks, rows, gone, creating, clocked, refused>>

-----------------------------------------------------------------------------
(* Numbers as strings: how many digits, and what they say. *)

Power[d \in 0 .. 20] == IF d = 0 THEN 1 ELSE Base * Power[d - 1]

Length(n) == CHOOSE d \in 1 .. 20 : n < Power[d] /\ (d = 1 \/ n >= Power[d - 1])

Padded(n) == [digits |-> IF Length(n) < Width THEN Width ELSE Length(n), value |-> n]

Longest == Width + 4

\* The order of the strings, from their first digits on.
Precedes(a, b) ==
  LET x == a.value * Power[Longest - a.digits]
      y == b.value * Power[Longest - b.digits]
  IN  x < y \/ (x = y /\ a.digits < b.digits)

\* Deleted rows count.
GreatestLive == CHOOSE a \in rows \ gone : \A b \in (rows \ gone) \ {a} : Precedes(b, a)
Greatest == CHOOSE a \in rows : \A b \in rows \ {a} : Precedes(b, a)

FollowingLive == IF rows \ gone = {} THEN 1 ELSE GreatestLive.value + 1   \* mutant: live rows only
Following == IF rows = {} THEN 1 ELSE Greatest.value + 1

-----------------------------------------------------------------------------
Creation == [pc : {"idle", "look", "insert"}, number : [digits : 1 .. Longest, value : Nat],
             tries : 0 .. Tries, alone : BOOLEAN]
Idle == [pc |-> "idle", number |-> [digits |-> 1, value |-> 0], tries |-> 0, alone |-> FALSE]

Init ==
  /\ looks \in BOOLEAN
  /\ rows = {} /\ gone = {}
  /\ creating = [r \in Requests |-> Idle]
  /\ clocked = FALSE /\ refused = FALSE

Busy == {r \in Requests : creating[r].pc # "idle"}

\* Whoever starts now is company for the others.
Accompanied(r) ==
  [q \in Requests |-> [creating[q] EXCEPT !.alone = FALSE]]

Generate(r) ==
  /\ creating[r].pc = "idle" /\ Cardinality(rows) < MaxRows
  /\ creating' = [Accompanied(r) EXCEPT ![r] =
       [pc |-> IF looks THEN "look" ELSE "insert", number |-> Padded(Following),
        tries |-> 0, alone |-> Busy = {}]]
  /\ UNCHANGED <<looks, rows, gone, clocked, refused>>

Look(r) ==
  LET c == creating[r]
  IN  /\ c.pc = "look" /\ c.tries < Tries
      /\ creating' = [creating EXCEPT ![r] =
           IF c.number \in rows
           THEN [c EXCEPT !.number = Padded(c.number.value + 1), !.tries = @ + 1]
           ELSE [c EXCEPT !.pc = "insert"]]
      /\ UNCHANGED <<looks, rows, gone, clocked, refused>>

\* Ten candidates were taken: the clock's last digits, as they are.
AskClock(r) ==
  /\ creating[r].pc = "look" /\ creating[r].tries = Tries
  /\ \E t \in Clocks :
       creating' = [creating EXCEPT ![r].pc = "insert",
                                    ![r].number = [digits |-> Width + 2, value |-> t]]
  /\ clocked' = TRUE
  /\ UNCHANGED <<looks, rows, gone, refused>>

\* The unique key refuses a number that is there.
Insert(r) ==
  LET c == creating[r]
  IN  /\ c.pc = "insert"
      /\ rows' = rows \cup {c.number}
      /\ refused' = (refused \/ (c.number \in rows /\ c.alone))
      /\ creating' = [creating EXCEPT ![r] = Idle]
      /\ UNCHANGED <<looks, gone, clocked>>

Abandon(r) ==
  /\ creating[r].pc # "idle"
  /\ creating' = [creating EXCEPT ![r] = Idle]
  /\ UNCHANGED <<looks, rows, gone, clocked, refused>>

SoftDelete(n) ==
  /\ n \in rows \ gone /\ gone' = gone \cup {n}
  /\ UNCHANGED <<looks, rows, creating, clocked, refused>>

Next ==
  \/ \E r \in Requests : Generate(r) \/ Look(r) \/ AskClock(r) \/ Insert(r) \/ Abandon(r)
  \/ \E n \in rows : SoftDelete(n)

Spec == Init /\ [][Next]_vars

-----------------------------------------------------------------------------
(* Properties *)

Fits == Cardinality(rows) < Power[Width]

\* A creation that has no company is never refused for its number, deleted rows
\* or not, while the numbers fit the padding and none came from the clock: beyond
\* that the greatest string is not the greatest number (customers.service.ts:556).
LoneCreationsSucceed == refused => clocked \/ ~Fits

=============================================================================
