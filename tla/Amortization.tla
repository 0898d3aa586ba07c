------------------------------ MODULE Amortization ------------------------------
(***************************************************************************)
(* What a flat-rate loan asks for, in cents: the total that is quoted, the   *)
(* installments it is split into, each rounded for itself, and payments that *)
(* settle an installment although a cent is missing. Repayments has the same *)
(* payments without the cents, and with everything that interleaves.         *)
(***************************************************************************)
EXTENDS Integers, FiniteSetsExt

CONSTANTS
  Principals,  \* amounts lent, in cents
  Rates,       \* interest over the whole tenure, in percent
  Tenures,     \* tenures in days
  Period       \* days between two installments

VARIABLES
  terms,       \* principal, rate and tenure of the loan
  amount,      \* installment -> what was paid of it
  settled      \* the installments that read PAID

vars == <<terms, amount, settled>>

\* a / b, rounded half up.
Rounded(a, b) == (2 * a + b) \div (2 * b)

Periods(t) == Max({1, (t.tenure + Period - 1) \div Period})
Quoted(t) == Rounded(t.principal * (100 + t.rate), 100)
DueWhole(t) ==                                    \* mutant: rounded to whole units of money
  100 * Rounded(t.principal * (100 + t.rate), 10000 * Periods(t))
Due(t) == Rounded(t.principal * (100 + t.rate), 100 * Periods(t))

Installments == 1 .. Periods(terms)

Init ==
  /\ terms \in [principal : Principals, rate : Rates, tenure : Tenures]
  /\ amount = [i \in Installments |-> 0]
  /\ settled = {}

Outstanding(i) == IF i \in settled THEN 0 ELSE Due(terms) - amount[i]

\* What a payment of a leaves for installment i, and what i takes of it.
LeftFor(i, a) == Max({0, a - MapThenSumSet(Outstanding, 1 .. i - 1)})
Share(i, a) == Min({LeftFor(i, a), Outstanding(i)})

\* An installment that got something is PAID when at most a cent is missing; the
\* difference of two doubles is compared, so that a cent may count either way.
Missing(i, a) == Outstanding(i) - Share(i, a)
Touched(a) == {i \in Installments : Share(i, a) > 0}
Surely(a) == {i \in Touched(a) : Missing(i, a) = 0}
Perhaps(a) == {i \in Touched(a) : Missing(i, a) = 1}

Closed == settled = Installments

Pay(a) ==
  /\ ~Closed
  /\ amount' = [i \in Installments |-> amount[i] + Share(i, a)]
  /\ \E s \in SUBSET Perhaps(a) : settled' = settled \cup Surely(a) \cup s
  /\ UNCHANGED terms

\* An installment to the cent, a cent less or more, or everything that was quoted.
Next == \E a \in {Due(terms) - 1, Due(terms), Due(terms) + 1, Quoted(terms)} : Pay(a)

Spec == Init /\ [][Next]_vars

-----------------------------------------------------------------------------
(* Properties *)

Received == MapThenSumSet(LAMBDA i : amount[i], Installments)

\* A loan that closed has brought in what was quoted, up to a cent and a half per
\* installment: half a cent for its rounding, a cent for what counts as paid,
\* whatever the payments were; and never half a cent per installment too much
\* (loan-applications.service.ts:791, :747).
ClosesNearQuote ==
  Closed =>
    /\ 2 * (Quoted(terms) - Received) <= 3 * Periods(terms)
    /\ 2 * (Received - Quoted(terms)) <= Periods(terms)
=============================================================================
