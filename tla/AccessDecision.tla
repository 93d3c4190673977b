--------------------------- MODULE AccessDecision ---------------------------
(***************************************************************************)
(* How a presented card is answered (HandleAccessRequest::validateCard)    *)
(* while administrators edit the card and the area permissions that decide *)
(* the answer.  The validation asks the database three questions in turn;  *)
(* each is a step, so that edits land between them.  It then records one   *)
(* event for each lock of the reader and dispatches the jobs.              *)
(*                                                                         *)
(* Permission rows are a sequence in id order and are only marked deleted. *)
(* The permission page looks for a duplicate and writes in two steps; the  *)
(* area form replaces an area's rows in one transaction.  The reader's     *)
(* area and locks stay as they are here (WiringAdmin edits them).          *)
(***************************************************************************)
EXTENDS Naturals, Sequences, FiniteSets, SequencesExt

CONSTANTS
  User, Area,
  ReaderArea,   \* the area of the reader the card is shown to
  Doors,        \* how many locks the reader commands
  Request,      \* validations that may run at once
  Session,      \* administrators' requests that may run at once
  NoOne,        \* the holder of a card that has been deleted
  NoForm,       \* a session that is not about to save
  MaxRows,      \* bound: permission rows ever inserted
  MaxScans,     \* bound: cards presented in a behaviour
  MaxEdits      \* bound: edits of permissions and of the card

Verdict == {"allow", "deny"}
Entry == [user : User, area : Area, permission : Verdict]
Row == [user : User, area : Area, permission : Verdict, live : BOOLEAN]
\* A save under way: the row's id (0 for a new one), its new entry and the entry loaded.
Form == [id : Nat, entry : Entry, was : Entry]
Rulings == {"unrestricted", "allowed", "area_not_permitted", "area_denied"}
Answers == {"none", "success", "invalid_reader", "invalid_card", "inactive_card",
            "area_not_permitted", "area_denied"}

ASSUME DecisionBounds ==
  /\ ReaderArea \in Area /\ Doors \in Nat /\ IsFiniteSet(User)
  /\ NoOne \notin User /\ NoForm \notin Form
  /\ MaxRows \in Nat /\ MaxScans \in Nat /\ MaxEdits \in Nat

VARIABLES
  rows,     \* Seq(Row): area_permissions
  card,     \* [user, active], user NoOne once deleted
  pc,       \* [Request -> step of the validation]
  holder,   \* [Request -> the user of the card as it was read]
  answer,   \* [Request -> what the validation has decided]
  recorded, \* [Request -> events it has created]
  form,     \* [Session -> the save that passed the duplicate check, or NoForm]
  opened,   \* for each dispatched lock job, how many events its request had created
  witness,  \* history: [Request -> what the rules said of the holder while it ran]
  overlapped, \* history: an edit of permissions began while another was about to save
  scans, edits

vars == <<rows, card, pc, holder, answer, recorded, form, opened, witness, overlapped,
          scans, edits>>
scanVars == <<pc, holder, answer, recorded, opened, scans>>

Live(table) == {i \in DOMAIN table : table[i].live}
Of(table, u) == {i \in Live(table) : table[i].user = u}
In(table, u, a) == {i \in Of(table, u) : table[i].area = a}
Latest(ids) == CHOOSE i \in ids : \A k \in ids : k <= i

\* What the rules say of a user and an area when asked of one table.
Ruling(table, u, a) ==
  IF Of(table, u) = {} THEN "unrestricted"
  ELSE IF In(table, u, a) = {} THEN "area_not_permitted"
  ELSE IF table[Latest(In(table, u, a))].permission = "allow" THEN "allowed"
  ELSE "area_denied"

\* Slip: any row will do.
hasAnyAreaPermission(u, a) == In(rows, u, a) # {}

\* User::hasAreaPermission, which the API and the webhook ask.
hasAreaPermission(u, a) == \E i \in In(rows, u, a) : rows[i].permission = "allow"

\* The events of a card shown to a known reader: one for each lock, else one without.
MostEvents == IF Doors = 0 THEN 1 ELSE Doors

TypeOK ==
  /\ rows \in BoundedSeq(Row, MaxRows)
  /\ card \in [user : User \cup {NoOne}, active : BOOLEAN]
  /\ pc \in [Request -> {"idle", "count", "latest", "record", "dispatch"}]
  /\ holder \in [Request -> User \cup {NoOne}]
  /\ \A q \in Request : pc[q] \in {"count", "latest"} => holder[q] # NoOne
  /\ answer \in [Request -> Answers]
  /\ \A q \in Request : answer[q] = "none" <=> pc[q] \in {"idle", "count", "latest"}
  /\ recorded \in [Request -> 0..MostEvents]
  /\ form \in [Session -> Form \cup {NoForm}]
  /\ \A s \in Session : form[s] = NoForm \/ form[s].id \in {0} \cup DOMAIN rows
  /\ opened \subseteq Nat
  /\ witness \in [Request -> SUBSET Rulings]
  /\ overlapped \in BOOLEAN
  /\ scans \in 0..MaxScans /\ edits \in 0..MaxEdits

Init ==
  /\ rows = <<>>
  /\ card \in [user : User, active : BOOLEAN]
  /\ pc = [q \in Request |-> "idle"]
  /\ holder = [q \in Request |-> NoOne]
  /\ answer = [q \in Request |-> "none"]
  /\ recorded = [q \in Request |-> 0]
  /\ form = [s \in Session |-> NoForm]
  /\ opened = {}
  /\ witness = [q \in Request |-> {}]
  /\ overlapped = FALSE
  /\ scans = 0 /\ edits = 0

-----------------------------------------------------------------------------
\* The validation of a card.
Goto(q, step) == pc' = [pc EXCEPT ![q] = step]
Decide(q, a) == Goto(q, "record") /\ answer' = [answer EXCEPT ![q] = a]
EditsUnchanged == UNCHANGED <<rows, card, form, overlapped, edits>>

\* The card and the reader are looked up; known says whether the reader exists.
Present(q, known) ==
  /\ pc[q] = "idle" /\ scans < MaxScans /\ scans' = scans + 1
  /\ holder' = [holder EXCEPT ![q] = card.user]
  /\ \/ ~known /\ Decide(q, "invalid_reader")
     \/ known /\ card.user = NoOne /\ Decide(q, "invalid_card")
     \/ known /\ card.user # NoOne /\ ~card.active /\ Decide(q, "inactive_card")
     \/ known /\ card.user # NoOne /\ card.active /\ Goto(q, "count") /\ UNCHANGED answer
  /\ witness' = [witness EXCEPT ![q] =
                   IF card.user = NoOne THEN {} ELSE {Ruling(rows, card.user, ReaderArea)}]
  /\ EditsUnchanged /\ UNCHANGED <<recorded, opened>>

\* A user without any permission row is let in everywhere.
CountRows(q) ==
  /\ pc[q] = "count"
  /\ \/ Of(rows, holder[q]) = {} /\ Decide(q, "success")
     \/ Of(rows, holder[q]) # {} /\ Goto(q, "latest") /\ UNCHANGED answer
  /\ EditsUnchanged /\ UNCHANGED <<holder, recorded, opened, witness, scans>>

\* Slip: the first row for the area decides instead of the latest.
FirstRow(q) ==
  LET found == In(rows, holder[q], ReaderArea)
      first == CHOOSE i \in found : \A k \in found : i <= k
  IN  /\ pc[q] = "latest"
      /\ \/ found = {} /\ Decide(q, "area_not_permitted")
         \/ found # {} /\ rows[first].permission = "deny" /\ Decide(q, "area_denied")
         \/ found # {} /\ rows[first].permission = "allow" /\ Decide(q, "success")
      /\ EditsUnchanged /\ UNCHANGED <<holder, recorded, opened, witness, scans>>

\* Otherwise the latest row for the user and the reader's area decides.
LatestRow(q) ==
  LET found == In(rows, holder[q], ReaderArea)
  IN  /\ pc[q] = "latest"
      /\ \/ found = {} /\ Decide(q, "area_not_permitted")
         \/ found # {} /\ rows[Latest(found)].permission = "deny" /\ Decide(q, "area_denied")
         \/ found # {} /\ rows[Latest(found)].permission = "allow" /\ Decide(q, "success")
      /\ EditsUnchanged /\ UNCHANGED <<holder, recorded, opened, witness, scans>>

\* How many events a validation creates.
EventsOf(q) == IF answer[q] = "invalid_reader" THEN 1 ELSE MostEvents

\* Slip: the answer is kept for the next card.
FinishKeeping(q) ==
  /\ Goto(q, "idle")
  /\ holder' = [holder EXCEPT ![q] = NoOne]
  /\ recorded' = [recorded EXCEPT ![q] = 0]
  /\ witness' = [witness EXCEPT ![q] = {}]
  /\ UNCHANGED answer

\* The result is returned; nothing of the request is kept.
Finish(q) ==
  /\ Goto(q, "idle")
  /\ holder' = [holder EXCEPT ![q] = NoOne]
  /\ answer' = [answer EXCEPT ![q] = "none"]
  /\ recorded' = [recorded EXCEPT ![q] = 0]
  /\ witness' = [witness EXCEPT ![q] = {}]

\* Slip: the jobs are dispatched as soon as the first event is there.
RecordAndOpen(q) ==
  /\ pc[q] = "record"
  /\ recorded' = [recorded EXCEPT ![q] = @ + 1]
  /\ Goto(q, "dispatch")
  /\ EditsUnchanged /\ UNCHANGED <<holder, answer, opened, witness, scans>>

Record(q) ==
  /\ pc[q] = "record"
  /\ recorded' = [recorded EXCEPT ![q] = @ + 1]
  /\ Goto(q, IF recorded[q] + 1 = EventsOf(q) THEN "dispatch" ELSE "record")
  /\ EditsUnchanged /\ UNCHANGED <<holder, answer, opened, witness, scans>>

\* The lock job and the feedback job of an accepted card.
Dispatch(q) ==
  /\ pc[q] = "dispatch"
  /\ opened' = IF answer[q] = "success" THEN opened \cup {recorded[q]} ELSE opened
  /\ Finish(q)
  /\ EditsUnchanged /\ UNCHANGED scans

\* A request may end at any step: a query or an insert fails, the process is killed.
Die(q) == pc[q] # "idle" /\ Finish(q) /\ EditsUnchanged /\ UNCHANGED <<opened, scans>>

-----------------------------------------------------------------------------
\* The administration.
Editing == edits < MaxEdits /\ edits' = edits + 1
Observe(table) ==
  witness' = [q \in Request |->
    IF holder[q] = NoOne THEN witness[q]
    ELSE witness[q] \cup {Ruling(table, holder[q], ReaderArea)}]
Write(table) == rows' = table /\ Observe(table)
Begin(s) ==
  /\ form[s] = NoForm /\ Editing
  /\ overlapped' = (overlapped \/ \E t \in Session \ {s} : form[t] # NoForm)

\* Slip: only new rows are compared with the others.
DuplicateOfNew(entry, ignored) ==
  ignored = 0 /\ In(rows, entry.user, entry.area) # {}

\* ensureNoDuplicate, ignoring the row that is being updated.
Duplicate(entry, ignored) == In(rows, entry.user, entry.area) \ {ignored} # {}

\* The permission page: the row is loaded (id 0: none) and the duplicate check passes.
Check(s, id, entry) ==
  /\ Begin(s)
  /\ id \in {0} \cup Live(rows) /\ ~Duplicate(entry, id)
  /\ LET was == IF id = 0 THEN entry
                ELSE [user |-> rows[id].user, area |-> rows[id].area,
                      permission |-> rows[id].permission]
     IN  form' = [form EXCEPT ![s] = [id |-> id, entry |-> entry, was |-> was]]
  /\ UNCHANGED <<rows, card, witness>> /\ UNCHANGED scanVars

\* The row with the fields set that were changed since it was loaded.
Filled(row, f) ==
  LET field(new, old, now) == IF new = old THEN now ELSE new
  IN  [user |-> field(f.entry.user, f.was.user, row.user),
       area |-> field(f.entry.area, f.was.area, row.area),
       permission |-> field(f.entry.permission, f.was.permission, row.permission),
       live |-> row.live]

\* The insert, or the update of the fields that differ from the row as it was loaded.
Save(s) ==
  LET f == form[s]
  IN  /\ f # NoForm
      /\ \/ /\ f.id = 0 /\ Len(rows) < MaxRows
            /\ Write(Append(rows, [user |-> f.entry.user, area |-> f.entry.area,
                                   permission |-> f.entry.permission, live |-> TRUE]))
         \/ f.id # 0 /\ Write([rows EXCEPT ![f.id] = Filled(@, f)])
      /\ form' = [form EXCEPT ![s] = NoForm]
      /\ UNCHANGED <<card, overlapped, edits>> /\ UNCHANGED scanVars

Destroy(s, i) ==
  /\ Begin(s) /\ i \in Live(rows)
  /\ Write([rows EXCEPT ![i].live = FALSE])
  /\ UNCHANGED <<card, form>> /\ UNCHANGED scanVars

\* The area form: the area's rows are replaced by one for each listed user.
AreaForm(s, a, listed) ==
  LET users == SetToSeq(DOMAIN listed)
      kept == [i \in DOMAIN rows |-> [rows[i] EXCEPT !.live = @ /\ rows[i].area # a]]
      new == [i \in DOMAIN users |-> [user |-> users[i], area |-> a,
                                      permission |-> listed[users[i]], live |-> TRUE]]
  IN  /\ Begin(s) /\ Len(rows) + Len(new) <= MaxRows
      /\ Write(kept \o new)
      /\ UNCHANGED <<card, form>> /\ UNCHANGED scanVars

\* The card page: another holder, active or not, deleted for good (its number is taken).
CardChange(c) ==
  /\ Editing /\ card.user # NoOne /\ card' = c
  /\ UNCHANGED <<rows, form, overlapped, witness>> /\ UNCHANGED scanVars

Listings == UNION {[users -> Verdict] : users \in SUBSET User}

Next ==
  \/ \E q \in Request : \/ \E known \in BOOLEAN : Present(q, known)
                        \/ CountRows(q) \/ LatestRow(q) \/ Record(q) \/ Dispatch(q) \/ Die(q)
  \/ \E s \in Session : \/ \E id \in 0..MaxRows, entry \in Entry : Check(s, id, entry)
                        \/ Save(s)
                        \/ \E i \in DOMAIN rows : Destroy(s, i)
                        \/ \E a \in Area, listed \in Listings : AreaForm(s, a, listed)
  \/ \E u \in User, active \in BOOLEAN : CardChange([user |-> u, active |-> active])
  \/ CardChange([user |-> NoOne, active |-> FALSE])

Spec == Init /\ [][Next]_vars

-----------------------------------------------------------------------------
\* As long as no two edits overlap, a user has at most one permission entry for an
\* area, whatever the order of saves, updates that move an entry, deletions and area
\* forms (ensureNoDuplicate).  The check and the write are two statements, so two
\* saves that overlap may leave two entries.
OnePermissionEach ==
  ~overlapped =>
    \A i, k \in Live(rows) : rows[i].user = rows[k].user /\ rows[i].area = rows[k].area => i = k

\* Until then the card reader and the API answer the same of every user that has
\* permission rows, although one asks for the latest and the other for any that allows.
CardAndApiAgree ==
  ~overlapped =>
    \A u \in User, a \in Area :
      Of(rows, u) # {} => (Ruling(rows, u, a) = "allowed" <=> hasAreaPermission(u, a))

\* What a validation answers was the ruling at some moment while it ran, although it
\* counts the rows and reads the latest in two queries.  One exception: a user whose
\* last row is deleted between the two is told that no permission exists, when before
\* and after he was let in.
AnswerWasRight ==
  \A q \in Request :
    /\ answer[q] = "success" => witness[q] \cap {"unrestricted", "allowed"} # {}
    /\ answer[q] = "area_denied" => "area_denied" \in witness[q]
    /\ answer[q] = "area_not_permitted" =>
         witness[q] \cap {"unrestricted", "area_not_permitted"} # {}

\* No door is opened before every event of the accepted card is recorded, however many
\* locks the reader has and wherever the request is cut off.
OpenedIsRecorded == opened \subseteq {MostEvents}
=============================================================================
