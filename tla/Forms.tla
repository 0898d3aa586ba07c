---------------------------------- MODULE Forms ----------------------------------
(***************************************************************************)
(* The forms of one kind of entity: which template is the default, the        *)
(* sections and fields of one template while administrators change them, and *)
(* what is submitted on it for one entity.                                   *)
(***************************************************************************)
EXTENDS Integers, Sequences, FiniteSets

CONSTANTS
  Templates,  \* templates of the kind of entity
  Filled,     \* the one that is filled in
  Sections,   \* its sections
  Fields,     \* its fields
  Codes,      \* codes a field may have
  MaxRows,    \* bound: submissions
  Requests,   \* request slots: how many handlers may be in flight at once
  None        \* no section, no code, no template, no row

VARIABLES
  template,    \* [Templates -> none, on, off or deleted]
  default,     \* the templates with isDefault
  section,     \* [Sections -> none, on or removed]
  field,       \* [Fields -> its row]
  submission,  \* the rows submitted for the entity, oldest first
  handler      \* [Requests -> handler in flight]

templates == <<template, default>>
form == <<section, field>>
vars == <<templates, form, submission, handler>>

NoField == [section |-> None, code |-> None, on |-> FALSE, required |-> FALSE]

\* What a handler holds: the template and its flag, the values sent, and the
\* fields that were read to check them.
Idle == [op |-> "none", step |-> 0, on |-> None, values |-> {}, asked |-> {}]

Init ==
  /\ template = [t \in Templates |-> "none"] /\ default = {}
  /\ section = [s \in Sections |-> "none"] /\ field = [f \in Fields |-> NoField]
  /\ submission = <<>>
  /\ handler = [r \in Requests |-> Idle]

Start(r, h) == handler[r] = Idle /\ handler' = [handler EXCEPT ![r] = h]
At(r, op, step) == handler[r].op = op /\ handler[r].step = step
Finish(r) == handler' = [handler EXCEPT ![r] = Idle]
Live(t) == template[t] \in {"on", "off"}

-----------------------------------------------------------------------------
(* Templates *)

\* The other templates of the kind that are not deleted lose the flag.
Cleared(t) == {u \in default : ~Live(u) \/ u = t}

CreateTemplate(r, t, first) ==
  /\ ~Live(t) /\ Start(r, [Idle EXCEPT !.op = "create", !.step = IF first THEN 0 ELSE 1, !.on = t])
  /\ UNCHANGED <<templates, form, submission>>

ClearDefault(r) ==
  /\ At(r, "create", 0) \/ At(r, "update", 0)
  /\ handler' = [handler EXCEPT ![r].step = 2]
  /\ default' = Cleared(handler[r].on)
  /\ UNCHANGED <<template, form, submission>>

\* The unique key knows the codes of deleted templates too.
InsertTemplate(r) ==
  /\ At(r, "create", 1) \/ At(r, "create", 2)
  /\ Finish(r)
  /\ LET t == handler[r].on IN
       IF template[t] = "none"
       THEN /\ template' = [template EXCEPT ![t] = "on"]
            /\ default' = IF handler[r].step = 2 THEN default \cup {t} ELSE default
       ELSE UNCHANGED templates
  /\ UNCHANGED <<form, submission>>

\* isActive as asked; isDefault true clears the others first, false or not given
\* writes at once.
UpdateTemplate(r, t, flag) ==
  /\ Live(t)
  /\ Start(r, [Idle EXCEPT !.op = "update", !.step = IF flag THEN 0 ELSE 1, !.on = t])
  /\ UNCHANGED <<templates, form, submission>>

WriteTemplate(r) ==
  /\ At(r, "update", 1) \/ At(r, "update", 2)
  /\ Finish(r)
  /\ LET t == handler[r].on IN
       /\ \/ UNCHANGED template
          \/ template[t] # "deleted" /\ \E s \in {"on", "off"} : template' = [template EXCEPT ![t] = s]
       /\ \/ handler[r].step = 2 /\ default' = default \cup {t}
          \/ handler[r].step = 1 /\ default' \in {default, default \ {t}}
  /\ UNCHANGED <<form, submission>>

\* Its submissions are counted, then the row is marked.
RemoveTemplate(r, t) ==
  /\ Live(t)
  /\ t = Filled => submission = <<>>
  /\ Start(r, [Idle EXCEPT !.op = "remove", !.on = t])
  /\ UNCHANGED <<templates, form, submission>>

RemoveWrite(r) ==
  /\ At(r, "remove", 0) /\ Finish(r)
  /\ template' = [template EXCEPT ![handler[r].on] = "deleted"]
  /\ UNCHANGED <<default, form, submission>>

-----------------------------------------------------------------------------
(* Sections and fields. Each is looked up and then written; what is written    *)
(* does not depend on what was read but for a code that must be free.          *)

AddSection(s) ==
  /\ Live(Filled) /\ section[s] = "none"
  /\ section' = [section EXCEPT ![s] = "on"]
  /\ UNCHANGED <<templates, field, submission, handler>>

\* removeSection, and updateSection with isActive. The fields keep theirs.
SwitchSection(s, state) ==
  /\ section[s] # "none" /\ section' = [section EXCEPT ![s] = state]
  /\ UNCHANGED <<templates, field, submission, handler>>

CodeFree(f, s, c) == \A g \in Fields \ {f} : field[g].section = s => field[g].code # c

AddField(f, s, c, required) ==
  /\ section[s] # "none" /\ field[f] = NoField /\ CodeFree(f, s, c)
  /\ field' = [field EXCEPT ![f] = [section |-> s, code |-> c, on |-> TRUE, required |-> required]]
  /\ UNCHANGED <<templates, section, submission, handler>>

\* updateField, removeField, and moveFields, which the unique key of section and
\* code makes fail as a whole.
ChangeField(f, s, c, on, required) ==
  /\ field[f] # NoField /\ section[s] # "none" /\ CodeFree(f, s, c)
  /\ field' = [field EXCEPT ![f] = [section |-> s, code |-> c, on |-> on, required |-> required]]
  /\ UNCHANGED <<templates, section, submission, handler>>

-----------------------------------------------------------------------------
(* Submissions *)

\* Sections that were removed are not left out.
Asked == {f \in Fields : field[f].on}
Demanded(asked) == {f \in asked : field[f].required}
Missing(values, asked) == Demanded(asked) \ values

Submit(r, values) ==
  /\ template[Filled] = "on" /\ values \subseteq Asked /\ Missing(values, Asked) = {}
  /\ Start(r, [Idle EXCEPT !.op = "submit", !.values = values, !.asked = Demanded(Asked)])
  /\ UNCHANGED <<templates, form, submission>>

\* In one transaction: the row the entity has is looked up, and written or
\* inserted. No key keeps another transaction from inserting one too.
ExistingNone == None                            \* mutant: every submission is a row of its own
Existing == IF submission = <<>> THEN None ELSE 1

FindRow(r) ==
  /\ At(r, "submit", 0)
  /\ handler' = [handler EXCEPT ![r].step = 1, ![r].on = Existing]
  /\ UNCHANGED <<templates, form, submission>>

\* isComplete is worked out anew, from the values sent.
IsComplete(values, demanded) == demanded \subseteq values

StoreRow(r) ==
  /\ At(r, "submit", 1) /\ Finish(r)
  /\ LET h == handler[r]
         complete == IsComplete(h.values, h.asked)
     IN submission' =
          IF h.on = None
          THEN Append(submission, [values |-> h.values, complete |-> complete])
          ELSE [submission EXCEPT ![h.on] = [values |-> @.values \cup h.values, complete |-> complete]]
  /\ Len(submission') <= MaxRows
  /\ UNCHANGED <<templates, form>>

\* A handler's next call fails; a submission is rolled back.
Fail(r) ==
  /\ handler[r] # Idle /\ Finish(r)
  /\ UNCHANGED <<templates, form, submission>>

-----------------------------------------------------------------------------
OfTemplate(r, t) ==
  \/ \E flag \in BOOLEAN : CreateTemplate(r, t, flag) \/ UpdateTemplate(r, t, flag)
  \/ RemoveTemplate(r, t)

Written(r) == ClearDefault(r) \/ InsertTemplate(r) \/ WriteTemplate(r) \/ RemoveWrite(r)

OfForm ==
  \/ \E s \in Sections : AddSection(s) \/ \E state \in {"on", "removed"} : SwitchSection(s, state)
  \/ \E f \in Fields, s \in Sections, c \in Codes, required \in BOOLEAN :
       AddField(f, s, c, required) \/ \E on \in BOOLEAN : ChangeField(f, s, c, on, required)

OfSubmission(r) == (\E values \in SUBSET Fields : Submit(r, values)) \/ FindRow(r) \/ StoreRow(r)

Next ==
  \/ \E r \in Requests, t \in Templates : OfTemplate(r, t)
  \/ \E r \in Requests : Written(r) \/ OfSubmission(r) \/ Fail(r)
  \/ OfForm

Spec == Init /\ [][Next]_vars

-----------------------------------------------------------------------------
(* Properties *)

\* With one request at a time a kind of entity has at most one default template,
\* however flags are given, taken and left on deleted rows
\* (form-templates.service.ts:361).
OneDefault == Cardinality({t \in default : Live(t)}) <= 1

\* "updates in place rather than creating duplicates": with one request at a
\* time an entity has at most one submission (form-submissions.service.ts:25).
OneSubmission == Len(submission) <= 1
=============================================================================
