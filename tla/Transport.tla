-------------------------------- MODULE Transport -------------------------------
(***************************************************************************)
(* Requests for transport money: created by compliance, reviewed by whoever  *)
(* may approve them, paid by the head of disbursement. review reads a        *)
(* request and writes it by id; markPaid writes whatever the status is: only *)
(* the pages know what may be paid, from a list they fetched earlier.        *)
(***************************************************************************)
CONSTANTS
  Trips,   \* rows of transport_requests
  People   \* users who may both review and pay

VARIABLES
  trip,       \* [Trips -> status]
  shown,      \* [People -> the status of each request as their page lists it]
  reviewing,  \* [People -> the request their call has read, and the decision]
  approved    \* history: the requests that a review has approved

vars == <<trip, shown, reviewing, approved>>

\* The three other statuses of the schema are set nowhere.
Statuses == {"PENDING", "APPROVED", "REJECTED", "PAID"}
Review == [trip : Trips, decision : {"APPROVED", "REJECTED"}]
NoReview == [trip |-> CHOOSE t \in Trips : TRUE, decision |-> "none"]

Init ==
  /\ trip = [t \in Trips |-> "none"]
  /\ shown = [p \in People |-> trip]
  /\ reviewing = [p \in People |-> NoReview]
  /\ approved = {}

Create(t) ==
  /\ trip[t] = "none"
  /\ trip' = [trip EXCEPT ![t] = "PENDING"]
  /\ UNCHANGED <<shown, reviewing, approved>>

\* The list is fetched, when the page opens or after a call.
Fetch(p) ==
  /\ shown' = [shown EXCEPT ![p] = trip]
  /\ UNCHANGED <<trip, reviewing, approved>>

\* The panel of a review stays open while the list changes; review asks for the
\* status itself.
AwaitsReview(t) == trip[t] = "PENDING"

ReviewRead(p, t, decision) ==
  /\ reviewing[p] = NoReview /\ AwaitsReview(t)
  /\ reviewing' = [reviewing EXCEPT ![p] = [trip |-> t, decision |-> decision]]
  /\ UNCHANGED <<trip, shown, approved>>

ReviewWrite(p) ==
  /\ reviewing[p] # NoReview
  /\ trip' = [trip EXCEPT ![reviewing[p].trip] = reviewing[p].decision]
  /\ approved' = IF reviewing[p].decision = "APPROVED" THEN approved \cup {reviewing[p].trip} ELSE approved
  /\ reviewing' = [reviewing EXCEPT ![p] = NoReview]
  /\ UNCHANGED shown

PayButtonAlways(p, t) == shown[p][t] # "none"      \* mutant: on every row
PayButton(p, t) == shown[p][t] = "APPROVED"

MarkPaid(p, t) ==
  /\ PayButton(p, t)
  /\ trip' = [trip EXCEPT ![t] = "PAID"]
  /\ UNCHANGED <<shown, reviewing, approved>>

Next ==
  \/ \E t \in Trips : Create(t)
  \/ \E p \in People : \/ Fetch(p) \/ ReviewWrite(p)
                       \/ \E t \in Trips : MarkPaid(p, t) \/ \E d \in {"APPROVED", "REJECTED"} : ReviewRead(p, t, d)

Spec == Init /\ [][Next]_vars

-----------------------------------------------------------------------------
(* Properties *)

\* Nothing is paid that was never approved, though markPaid does not ask
\* (transport.service.ts:85) and the pages are old: they offer to pay what they
\* saw approved (TransportPage.tsx:256). It may have been rejected since, by a
\* review that read it before (:78), or paid by somebody else.
PaidWasApproved == \A t \in Trips : trip[t] = "PAID" => t \in approved
=============================================================================
