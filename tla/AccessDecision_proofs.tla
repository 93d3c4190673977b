------------------------ MODULE AccessDecision_proofs ------------------------
(***************************************************************************)
(* Proofs about AccessDecision for any finite set of users, any areas,     *)
(* doors, requests and sessions, and all values of the bounds.             *)
(***************************************************************************)
EXTENDS AccessDecision, FiniteSetTheorems, TLAPS

\* Before it answers a request has recorded nothing; before its jobs it still has
\* an event to create, and with its jobs none.
Counted ==
  \A q \in Request :
    /\ pc[q] \in {"idle", "count", "latest"} => recorded[q] = 0
    /\ pc[q] = "record" => recorded[q] < EventsOf(q)
    /\ pc[q] = "dispatch" => recorded[q] = EventsOf(q)

\* The witness holds what the rules say at this moment.
Witnessed ==
  \A q \in Request :
    holder[q] # NoOne => Ruling(rows, holder[q], ReaderArea) \in witness[q]

\* The one save under way still passes its duplicate check, and the row it updates is
\* as it was loaded.
Fits(f) ==
  /\ In(rows, f.entry.user, f.entry.area) \ {f.id} = {}
  /\ f.id # 0 => /\ f.id \in Live(rows)
                 /\ rows[f.id] = [user |-> f.was.user, area |-> f.was.area,
                                  permission |-> f.was.permission, live |-> TRUE]

Pending ==
  ~overlapped =>
    /\ \A s, t \in Session : form[s] # NoForm /\ form[t] # NoForm => s = t
    /\ \A s \in Session : form[s] # NoForm => Fits(form[s])

IInv == /\ TypeOK
        /\ Counted /\ OpenedIsRecorded
        /\ Witnessed /\ AnswerWasRight
        /\ Pending /\ OnePermissionEach

-----------------------------------------------------------------------------
(***************************************************************************)
(* Tables of permission rows.                                              *)
(***************************************************************************)

LEMMA Bounded ==
  ASSUME NEW S, NEW n \in Nat, NEW t
  PROVE  t \in BoundedSeq(S, n) <=> t \in Seq(S) /\ Len(t) \in 0..n
<1>1. ASSUME t \in BoundedSeq(S, n)
      PROVE  t \in Seq(S) /\ Len(t) \in 0..n
  <2>1. PICK m \in 0..n : t \in [1..m -> S]
    BY <1>1 DEF BoundedSeq, SeqOf
  <2> QED
    BY <2>1
<1>2. ASSUME t \in Seq(S), Len(t) \in 0..n
      PROVE  t \in BoundedSeq(S, n)
  <2>1. t \in [1..Len(t) -> S]
    BY <1>2
  <2> QED
    BY <2>1, <1>2 DEF BoundedSeq, SeqOf
<1> QED
  BY <1>1, <1>2

LEMMA Concatenated ==
  ASSUME NEW S, NEW s \in Seq(S), NEW t \in Seq(S)
  PROVE  /\ s \o t \in Seq(S) /\ Len(s \o t) = Len(s) + Len(t)
         /\ \A i \in 1..(Len(s) + Len(t)) :
              (s \o t)[i] = IF i <= Len(s) THEN s[i] ELSE t[i - Len(s)]
OBVIOUS

\* The table is a sequence of rows.
LEMMA RowsTyped ==
  ASSUME TypeOK
  PROVE  rows \in Seq(Row) /\ Len(rows) \in 0..MaxRows
BY Bounded, DecisionBounds DEF TypeOK

NewRow(entry) == [user |-> entry.user, area |-> entry.area,
                  permission |-> entry.permission, live |-> TRUE]

LEMMA FilledTyped ==
  ASSUME NEW row \in Row, NEW f \in Form
  PROVE  Filled(row, f) \in Row
<1>1. /\ f.entry.user \in User /\ f.entry.area \in Area /\ f.entry.permission \in Verdict
      /\ f.was.user \in User /\ f.was.area \in Area /\ f.was.permission \in Verdict
  BY DEF Form, Entry
<1>2. /\ row.user \in User /\ row.area \in Area /\ row.permission \in Verdict
      /\ row.live \in BOOLEAN
  BY DEF Row
<1> QED
  BY <1>1, <1>2 DEF Filled, Row

LEMMA FormFields ==
  ASSUME TypeOK, NEW s \in Session, form[s] # NoForm
  PROVE  /\ form[s] \in Form
         /\ form[s].id \in Nat
         /\ form[s].entry \in Entry /\ form[s].was \in Entry
BY DEF TypeOK, Form

\* What a save writes.
LEMMA SaveWrites ==
  ASSUME TypeOK, NEW s \in Session, Save(s)
  PROVE  \/ /\ form[s].id = 0 /\ Len(rows) < MaxRows
            /\ rows' = Append(rows, NewRow(form[s].entry))
         \/ /\ form[s].id # 0 /\ form[s].id \in DOMAIN rows
            /\ rows' = [rows EXCEPT ![form[s].id] = Filled(rows[form[s].id], form[s])]
<1>1. CASE form[s].id = 0
  BY <1>1 DEF Save, Write, NewRow
<1>2. CASE form[s].id # 0
  <2> DEFINE i == form[s].id
  <2>1. form[s] # NoForm /\ i \in DOMAIN rows
    BY <1>2 DEF Save, TypeOK
  <2>2. rows \in Seq(Row) /\ rows[i] \in Row
    BY <2>1, RowsTyped
  <2>3. rows' = [rows EXCEPT ![i] = Filled(rows[i], form[s])]
    BY <1>2, <2>1 DEF Save, Write
  <2> QED
    BY <1>2, <2>1, <2>3
<1> QED
  BY <1>1, <1>2

\* A row with its mark changed.
LEMMA Marked ==
  ASSUME NEW row \in Row, NEW live
  PROVE  [row EXCEPT !.live = live] =
           [user |-> row.user, area |-> row.area, permission |-> row.permission, live |-> live]
BY DEF Row

LEMMA DestroyWrites ==
  ASSUME TypeOK, NEW s \in Session, NEW i \in DOMAIN rows, Destroy(s, i)
  PROVE  /\ rows[i] \in Row
         /\ rows' = [rows EXCEPT ![i] = [user |-> rows[i].user, area |-> rows[i].area,
                                         permission |-> rows[i].permission, live |-> FALSE]]
<1>1. rows[i] \in Row
  BY RowsTyped
<1>2. rows' = [rows EXCEPT ![i] = [rows[i] EXCEPT !.live = FALSE]]
  BY Zenon DEF Destroy, Write
<1> QED
  BY <1>1, <1>2, Marked

\* The listed users, each once.
LEMMA SetToSeqOfFinite ==
  ASSUME NEW S, IsFiniteSet(S)
  PROVE  /\ SetToSeq(S) \in [1..Cardinality(S) -> S]
         /\ \A i, k \in 1..Cardinality(S) : SetToSeq(S)[i] = SetToSeq(S)[k] => i = k
         /\ Cardinality(S) \in Nat
<1>1. Cardinality(S) \in Nat /\ ExistsBijection(1..Cardinality(S), S)
  BY FS_CardinalityType
<1>2. \E f \in [1..Cardinality(S) -> S] : IsInjective(f)
  BY <1>1 DEF ExistsBijection, Bijection, Injection
<1>3. SetToSeq(S) \in [1..Cardinality(S) -> S] /\ IsInjective(SetToSeq(S))
  BY <1>2 DEF SetToSeq
<1> QED
  BY <1>1, <1>3 DEF IsInjective

\* What the area form writes: the old rows, those of the area deleted, and after them a
\* row of the area for each listed user.
LEMMA AreaFormWrites ==
  ASSUME TypeOK, NEW s \in Session, NEW a \in Area, NEW listed \in Listings,
         AreaForm(s, a, listed)
  PROVE  \E n \in Nat :
           /\ Len(rows) + n <= MaxRows
           /\ rows' \in [1..(Len(rows) + n) -> Row]
           /\ \A i \in 1..Len(rows) :
                /\ rows'[i].user = rows[i].user /\ rows'[i].area = rows[i].area
                /\ rows'[i].permission = rows[i].permission
                /\ rows'[i].live <=> rows[i].live /\ rows[i].area # a
           /\ \A i \in (Len(rows) + 1)..(Len(rows) + n) :
                rows'[i].area = a /\ rows'[i].live
           /\ \A i, k \in (Len(rows) + 1)..(Len(rows) + n) :
                rows'[i].user = rows'[k].user => i = k
<1> DEFINE S == DOMAIN listed
           n == Cardinality(S)
           users == SetToSeq(S)
           old(i) == [user |-> rows[i].user, area |-> rows[i].area,
                      permission |-> rows[i].permission,
                      live |-> rows[i].live /\ rows[i].area # a]
           kept == [i \in DOMAIN rows |-> old(i)]
           new == [i \in DOMAIN users |-> [user |-> users[i], area |-> a,
                                      permission |-> listed[users[i]], live |-> TRUE]]
<1>1. S \subseteq User /\ listed \in [S -> Verdict]
  BY DEF Listings
<1>2. IsFiniteSet(S)
  BY <1>1, FS_Subset, DecisionBounds
<1>3. /\ users \in [1..n -> S] /\ n \in Nat
      /\ \A i, k \in 1..n : users[i] = users[k] => i = k
  BY <1>2, SetToSeqOfFinite
<1>4. rows \in Seq(Row) /\ Len(rows) \in Nat
  BY RowsTyped
<1> HIDE DEF S, n, users
<1>5. kept \in [1..Len(rows) -> Row]
  <2>1. ASSUME NEW i \in 1..Len(rows)
        PROVE  old(i) \in Row
    <3>1. rows[i] \in Row
      BY <1>4
    <3>2. (rows[i].live /\ rows[i].area # a) \in BOOLEAN
      OBVIOUS
    <3> QED
      BY <3>1, <3>2 DEF Row
  <2> HIDE DEF old
  <2> QED
    BY <2>1, <1>4
<1>6. new \in [1..n -> Row]
  BY <1>1, <1>3 DEF Row
<1>7. kept \in Seq(Row) /\ new \in Seq(Row) /\ Len(kept) = Len(rows) /\ Len(new) = n
  BY <1>3, <1>4, <1>5, <1>6
<1>8. Len(rows) + Len(new) <= MaxRows /\ rows' = kept \o new
  <2>1. kept = [i \in DOMAIN rows |-> [rows[i] EXCEPT !.live = rows[i].live /\ rows[i].area # a]]
    <3>1. \A i \in DOMAIN rows :
            old(i) = [rows[i] EXCEPT !.live = rows[i].live /\ rows[i].area # a]
      BY Marked, RowsTyped
    <3> QED
      BY <3>1, Zenon
  <2> QED
    BY <2>1, Zenon DEF AreaForm, Write, S, users
<1>9. /\ rows' \in [1..(Len(rows) + n) -> Row]
      /\ \A i \in 1..Len(rows) : rows'[i] = kept[i]
      /\ \A i \in 1..n : rows'[Len(rows) + i] = new[i]
  <2> HIDE DEF kept, new
  <2>1. /\ rows' \in Seq(Row) /\ Len(rows') = Len(rows) + n
        /\ \A i \in 1..(Len(rows) + n) :
             rows'[i] = IF i <= Len(rows) THEN kept[i] ELSE new[i - Len(rows)]
    <3>1. /\ kept \o new \in Seq(Row) /\ Len(kept \o new) = Len(kept) + Len(new)
          /\ \A i \in 1..(Len(kept) + Len(new)) :
               (kept \o new)[i] = IF i <= Len(kept) THEN kept[i] ELSE new[i - Len(kept)]
      BY <1>7, Concatenated
    <3> QED
      BY <1>7, <1>8, <3>1
  <2>2. ASSUME NEW i \in 1..n
        PROVE  rows'[Len(rows) + i] = new[i]
    <3>1. /\ Len(rows) + i \in 1..(Len(rows) + n) /\ ~(Len(rows) + i <= Len(rows))
          /\ (Len(rows) + i) - Len(rows) = i
      BY <1>3, <1>4
    <3> QED
      BY <2>1, <3>1
  <2>3. ASSUME NEW i \in 1..Len(rows)
        PROVE  rows'[i] = kept[i]
    <3>1. i \in 1..(Len(rows) + n) /\ i <= Len(rows)
      BY <1>3, <1>4
    <3> QED
      BY <2>1, <3>1
  <2>4. rows' \in [1..(Len(rows) + n) -> Row]
    BY <2>1, <1>3, <1>4
  <2> QED
    BY <2>2, <2>3, <2>4
<1>10. \A i \in 1..Len(rows) :
                /\ rows'[i].user = rows[i].user /\ rows'[i].area = rows[i].area
                /\ rows'[i].permission = rows[i].permission
                /\ rows'[i].live <=> rows[i].live /\ rows[i].area # a
  <2>1. \A i \in 1..Len(rows) : rows'[i] = old(i)
    <3> HIDE DEF old
    <3>1. \A i \in 1..Len(rows) : kept[i] = old(i)
      BY <1>4
    <3> HIDE DEF kept
    <3> QED
      BY <1>9, <3>1
  <2>2. ASSUME NEW i \in 1..Len(rows)
        PROVE  /\ old(i).user = rows[i].user /\ old(i).area = rows[i].area
               /\ old(i).permission = rows[i].permission
               /\ old(i).live <=> rows[i].live /\ rows[i].area # a
    OBVIOUS
  <2> HIDE DEF old
  <2> QED
    BY <2>1, <2>2
<1>11. \A i \in (Len(rows) + 1)..(Len(rows) + n) :
         rows'[i] = new[i - Len(rows)] /\ i - Len(rows) \in 1..n
  <2> TAKE i \in (Len(rows) + 1)..(Len(rows) + n)
  <2>1. i - Len(rows) \in 1..n /\ Len(rows) + (i - Len(rows)) = i
    BY <1>3, <1>4
  <2> QED
    BY <2>1, <1>9
<1>12. \A i \in 1..n : new[i].user = users[i] /\ new[i].area = a /\ new[i].live
  BY <1>3
<1>13. \A i \in (Len(rows) + 1)..(Len(rows) + n) :
                rows'[i].area = a /\ rows'[i].live
  <2> HIDE DEF new
  <2> QED
    BY <1>11, <1>12
<1>14. \A i, k \in (Len(rows) + 1)..(Len(rows) + n) :
                rows'[i].user = rows'[k].user => i = k
  <2> HIDE DEF new
  <2> TAKE i, k \in (Len(rows) + 1)..(Len(rows) + n)
  <2>1. HAVE rows'[i].user = rows'[k].user
  <2>2. users[i - Len(rows)] = users[k - Len(rows)]
    BY <2>1, <1>11, <1>12
  <2>3. i - Len(rows) = k - Len(rows)
    BY <2>2, <1>3, <1>11
  <2> QED
    BY <2>3, <1>3, <1>4
<1> QED
  BY <1>3, <1>7, <1>8, <1>9, <1>10, <1>13, <1>14

-----------------------------------------------------------------------------
(***************************************************************************)
(* The kinds of steps, and what each leaves alone.                         *)
(***************************************************************************)

Validates(q) ==
  \/ \E known \in BOOLEAN : Present(q, known)
  \/ CountRows(q) \/ LatestRow(q) \/ Record(q) \/ Dispatch(q) \/ Die(q)

WritesRows(s) ==
  \/ Save(s)
  \/ \E i \in DOMAIN rows : Destroy(s, i)
  \/ \E a \in Area, listed \in Listings : AreaForm(s, a, listed)

Checks(s) == \E id \in 0..MaxRows, entry \in Entry : Check(s, id, entry)

ChangesCard == \E c \in [user : User \cup {NoOne}, active : BOOLEAN] : CardChange(c)

LEMMA Kinds ==
  ASSUME Next
  PROVE  \/ \E q \in Request : Validates(q)
         \/ \E s \in Session : WritesRows(s) \/ Checks(s)
         \/ ChangesCard
<1>1. ASSUME NEW u \in User, NEW active \in BOOLEAN,
             CardChange([user |-> u, active |-> active])
      PROVE  ChangesCard
  <2>1. [user |-> u, active |-> active] \in [user : User \cup {NoOne}, active : BOOLEAN]
    OBVIOUS
  <2> QED
    BY <1>1, <2>1, Zenon DEF ChangesCard
<1>2. ASSUME CardChange([user |-> NoOne, active |-> FALSE])
      PROVE  ChangesCard
  <2>1. [user |-> NoOne, active |-> FALSE] \in [user : User \cup {NoOne}, active : BOOLEAN]
    OBVIOUS
  <2> QED
    BY <1>2, <2>1, Zenon DEF ChangesCard
<1> QED
  BY <1>1, <1>2, Zenon DEF Next, Validates, WritesRows, Checks

LEMMA ValidationLeaves ==
  ASSUME NEW q, Validates(q)
  PROVE  UNCHANGED <<rows, card, form, overlapped, edits>>
BY DEF Validates, EditsUnchanged, Present, CountRows, LatestRow, Record, Dispatch, Die

LEMMA AdministrationLeaves ==
  ASSUME (\E s \in Session : WritesRows(s) \/ Checks(s)) \/ ChangesCard
  PROVE  UNCHANGED <<pc, holder, answer, recorded, opened, scans>>
BY DEF WritesRows, Checks, ChangesCard, scanVars, Save, Destroy, AreaForm, Check, CardChange

LEMMA WritersObserve ==
  ASSUME NEW s \in Session, WritesRows(s)
  PROVE  /\ Observe(rows')
         /\ UNCHANGED card
<1>1. CASE Save(s)
  BY <1>1 DEF Save, Write, Observe
<1>2. ASSUME NEW i \in DOMAIN rows, Destroy(s, i)
      PROVE  Observe(rows') /\ UNCHANGED card
  BY <1>2, Zenon DEF Destroy, Write
<1>3. ASSUME NEW a \in Area, NEW listed \in Listings, AreaForm(s, a, listed)
      PROVE  Observe(rows') /\ UNCHANGED card
  BY <1>3, Zenon DEF AreaForm, Write
<1> QED
  BY <1>1, <1>2, <1>3 DEF WritesRows

\* Rows are inserted and changed, never removed.
LEMMA RowsWritten ==
  ASSUME TypeOK, NEW s \in Session, WritesRows(s)
  PROVE  rows' \in BoundedSeq(Row, MaxRows) /\ DOMAIN rows \subseteq DOMAIN rows'
<1> USE RowsTyped, DecisionBounds
<1>1. CASE Save(s)
  <2>1. form[s] \in Form
    BY <1>1, FormFields DEF Save
  <2>2. CASE form[s].id = 0 /\ Len(rows) < MaxRows /\ rows' = Append(rows, NewRow(form[s].entry))
    <3>1. NewRow(form[s].entry) \in Row
      BY <2>1 DEF NewRow, Form, Entry, Row
    <3>2. rows' \in Seq(Row) /\ Len(rows') = Len(rows) + 1
      BY <2>2, <3>1
    <3>3. Len(rows') \in 0..MaxRows /\ DOMAIN rows \subseteq DOMAIN rows'
      BY <2>2, <3>2
    <3> QED
      BY <3>2, <3>3, Bounded
  <2>3. CASE form[s].id \in DOMAIN rows
             /\ rows' = [rows EXCEPT ![form[s].id] = Filled(rows[form[s].id], form[s])]
    <3>0. rows[form[s].id] \in Row
      BY <2>3
    <3>1. Filled(rows[form[s].id], form[s]) \in Row
      BY <2>1, <3>0, FilledTyped
    <3>2. rows' \in Seq(Row) /\ Len(rows') = Len(rows)
      BY <2>3, <3>1
    <3> QED
      BY <2>3, <3>2, Bounded
  <2> QED
    BY <1>1, <2>2, <2>3, SaveWrites
<1>2. ASSUME NEW i \in DOMAIN rows, Destroy(s, i)
      PROVE  rows' \in BoundedSeq(Row, MaxRows) /\ DOMAIN rows \subseteq DOMAIN rows'
  <2> DEFINE row == [user |-> rows[i].user, area |-> rows[i].area,
                     permission |-> rows[i].permission, live |-> FALSE]
  <2>1. rows' = [rows EXCEPT ![i] = row] /\ row \in Row
    BY <1>2, DestroyWrites DEF Row
  <2> HIDE DEF row
  <2>2. rows' \in Seq(Row) /\ Len(rows') = Len(rows)
    BY <2>1
  <2> QED
    BY <2>1, <2>2, Bounded
<1>3. ASSUME NEW a \in Area, NEW listed \in Listings, AreaForm(s, a, listed)
      PROVE  rows' \in BoundedSeq(Row, MaxRows) /\ DOMAIN rows \subseteq DOMAIN rows'
  <2>1. PICK n \in Nat : Len(rows) + n <= MaxRows /\ rows' \in [1..(Len(rows) + n) -> Row]
    BY <1>3, AreaFormWrites
  <2>2. rows' \in Seq(Row) /\ Len(rows') = Len(rows) + n
    BY <2>1
  <2> QED
    BY <2>1, <2>2, Bounded
<1> QED
  BY <1>1, <1>2, <1>3 DEF WritesRows

-----------------------------------------------------------------------------
(***************************************************************************)
(* Types.                                                                  *)
(***************************************************************************)

ScanTyped ==
  /\ pc \in [Request -> {"idle", "count", "latest", "record", "dispatch"}]
  /\ holder \in [Request -> User \cup {NoOne}]
  /\ \A q \in Request : pc[q] \in {"count", "latest"} => holder[q] # NoOne
  /\ answer \in [Request -> Answers]
  /\ \A q \in Request : answer[q] = "none" <=> pc[q] \in {"idle", "count", "latest"}
  /\ recorded \in [Request -> 0..MostEvents]
  /\ opened \subseteq Nat
  /\ scans \in 0..MaxScans

EditTyped ==
  /\ rows \in BoundedSeq(Row, MaxRows)
  /\ card \in [user : User \cup {NoOne}, active : BOOLEAN]
  /\ form \in [Session -> Form \cup {NoForm}]
  /\ \A s \in Session : form[s] = NoForm \/ form[s].id \in {0} \cup DOMAIN rows
  /\ overlapped \in BOOLEAN
  /\ edits \in 0..MaxEdits

LEMMA TypeParts == TypeOK <=> ScanTyped /\ EditTyped /\ witness \in [Request -> SUBSET Rulings]
BY DEF TypeOK, ScanTyped, EditTyped

LEMMA MostEventsTyped == MostEvents \in Nat \ {0}
BY DecisionBounds DEF MostEvents

LEMMA RulingTyped ==
  ASSUME NEW table, NEW u, NEW a
  PROVE  Ruling(table, u, a) \in Rulings
BY DEF Ruling, Rulings

LEMMA ValidationTyped ==
  ASSUME TypeOK, Counted, NEW q \in Request, Validates(q)
  PROVE  ScanTyped'
<1> USE DecisionBounds, MostEventsTyped
<1>1. ScanTyped /\ card.user \in User \cup {NoOne}
  BY TypeParts DEF EditTyped
<1>2. ASSUME NEW known \in BOOLEAN, Present(q, known)
      PROVE  ScanTyped'
  BY <1>1, <1>2 DEF Present, ScanTyped, Decide, Goto, Answers
<1>3. CASE CountRows(q)
  BY <1>1, <1>3 DEF CountRows, ScanTyped, Decide, Goto, Answers
<1>4. CASE LatestRow(q)
  BY <1>1, <1>4 DEF LatestRow, ScanTyped, Decide, Goto, Answers
<1>5. CASE Record(q)
  <2>1. recorded[q] + 1 \in 0..MostEvents
    BY <1>1, <1>5 DEF Record, Counted, EventsOf, ScanTyped
  <2> QED
    BY <1>1, <1>5, <2>1 DEF Record, ScanTyped, Goto
<1>6. CASE Dispatch(q)
  <2>1. opened' \subseteq Nat
    <3>1. recorded[q] \in Nat /\ opened \subseteq Nat
      BY <1>1 DEF ScanTyped
    <3> QED
      BY <1>6, <3>1 DEF Dispatch
  <2> QED
    BY <1>1, <1>6, <2>1 DEF Dispatch, Finish, ScanTyped, Goto, Answers
<1>7. CASE Die(q)
  BY <1>1, <1>7 DEF Die, Finish, ScanTyped, Goto, Answers
<1> QED
  BY <1>2, <1>3, <1>4, <1>5, <1>6, <1>7 DEF Validates

LEMMA WitnessTyped ==
  ASSUME TypeOK, [Next]_vars
  PROVE  witness' \in [Request -> SUBSET Rulings]
<1>1. witness \in [Request -> SUBSET Rulings]
  BY TypeParts
<1>2. ASSUME NEW q \in Request, Validates(q)
      PROVE  witness' \in [Request -> SUBSET Rulings]
  <2>1. ASSUME NEW known \in BOOLEAN, Present(q, known)
        PROVE  witness' \in [Request -> SUBSET Rulings]
    BY <1>1, <2>1, RulingTyped DEF Present
  <2>2. CASE CountRows(q) \/ LatestRow(q) \/ Record(q)
    BY <1>1, <2>2 DEF CountRows, LatestRow, Record
  <2>3. CASE Dispatch(q) \/ Die(q)
    BY <1>1, <2>3 DEF Dispatch, Die, Finish
  <2> QED
    BY <1>2, <2>1, <2>2, <2>3 DEF Validates
<1>3. ASSUME NEW s \in Session, WritesRows(s)
      PROVE  witness' \in [Request -> SUBSET Rulings]
  BY <1>1, <1>3, WritersObserve, RulingTyped DEF Observe
<1>4. ASSUME NEW s \in Session, Checks(s)
      PROVE  witness' \in [Request -> SUBSET Rulings]
  BY <1>1, <1>4 DEF Checks, Check
<1>5. CASE ChangesCard
  BY <1>1, <1>5 DEF ChangesCard, CardChange
<1>6. CASE UNCHANGED vars
  BY <1>1, <1>6 DEF vars
<1> QED
  BY <1>2, <1>3, <1>4, <1>5, <1>6, Kinds

LEMMA EditsTyped ==
  ASSUME TypeOK, (\E s \in Session : WritesRows(s) \/ Checks(s)) \/ ChangesCard
  PROVE  EditTyped'
<1> USE DecisionBounds
<1>1. EditTyped /\ rows \in Seq(Row)
  BY TypeParts, RowsTyped
<1>2. ASSUME NEW s \in Session, WritesRows(s)
      PROVE  EditTyped'
  <2>1. rows' \in BoundedSeq(Row, MaxRows) /\ DOMAIN rows \subseteq DOMAIN rows' /\ UNCHANGED card
    BY <1>2, RowsWritten, WritersObserve
  <2>2. /\ form' = form \/ form' = [form EXCEPT ![s] = NoForm]
        /\ overlapped' \in BOOLEAN /\ edits' \in 0..MaxEdits
    <3>1. overlapped \in BOOLEAN /\ edits \in 0..MaxEdits
      BY <1>1 DEF EditTyped
    <3>2. CASE Save(s)
      BY <3>1, <3>2 DEF Save
    <3>3. ASSUME Begin(s)
          PROVE  overlapped' \in BOOLEAN /\ edits' \in 0..MaxEdits
      BY <3>1, <3>3 DEF Begin, Editing
    <3>4. ASSUME NEW i \in DOMAIN rows, Destroy(s, i)
          PROVE  Begin(s) /\ form' = form
      BY <3>4, Zenon DEF Destroy
    <3>5. ASSUME NEW a \in Area, NEW listed \in Listings, AreaForm(s, a, listed)
          PROVE  Begin(s) /\ form' = form
      BY <3>5, Zenon DEF AreaForm
    <3> QED
      BY <1>2, <3>2, <3>3, <3>4, <3>5 DEF WritesRows
  <2> QED
    BY <1>1, <2>1, <2>2 DEF EditTyped
<1>3. ASSUME NEW s \in Session, NEW id \in 0..MaxRows, NEW entry \in Entry, Check(s, id, entry)
      PROVE  EditTyped'
  <2> DEFINE was == IF id = 0 THEN entry
                    ELSE [user |-> rows[id].user, area |-> rows[id].area,
                          permission |-> rows[id].permission]
  <2>1. id \in {0} \cup DOMAIN rows
    BY <1>3 DEF Check, Live
  <2>2. was \in Entry
    <3>1. CASE id # 0
      <4>1. rows[id] \in Row
        BY <1>1, <2>1, <3>1
      <4> QED
        BY <3>1, <4>1 DEF Entry, Row
    <3> QED
      BY <3>1
  <2>3. form' = [form EXCEPT ![s] = [id |-> id, entry |-> entry, was |-> was]]
    BY <1>3 DEF Check
  <2>4. [id |-> id, entry |-> entry, was |-> was] \in Form
    BY <2>2 DEF Form
  <2> HIDE DEF was
  <2>5. /\ form' \in [Session -> Form \cup {NoForm}]
        /\ \A t \in Session : form'[t] = NoForm \/ form'[t].id \in {0} \cup DOMAIN rows
    BY <1>1, <2>1, <2>3, <2>4 DEF EditTyped
  <2>6. UNCHANGED <<rows, card>> /\ overlapped' \in BOOLEAN /\ edits' \in 0..MaxEdits
    BY <1>1, <1>3 DEF EditTyped, Check, Begin, Editing
  <2> QED
    BY <1>1, <2>5, <2>6 DEF EditTyped
<1>4. CASE ChangesCard
  BY <1>1, <1>4 DEF EditTyped, ChangesCard, CardChange, Editing
<1> QED
  BY <1>2, <1>3, <1>4 DEF Checks

LEMMA TypeStep ==
  ASSUME TypeOK, Counted, [Next]_vars
  PROVE  TypeOK'
<1>1. ScanTyped /\ EditTyped
  BY TypeParts
<1> SUFFICES ScanTyped' /\ EditTyped'
  BY WitnessTyped DEF TypeOK, ScanTyped, EditTyped
<1>3. UNCHANGED <<pc, holder, answer, recorded, opened, scans>> => ScanTyped'
  BY <1>1 DEF ScanTyped
<1>4. UNCHANGED <<rows, card, form, overlapped, edits>> => EditTyped'
  BY <1>1 DEF EditTyped
<1>5. ASSUME NEW q \in Request, Validates(q)
      PROVE  ScanTyped' /\ EditTyped'
  BY <1>4, <1>5, ValidationTyped, ValidationLeaves
<1>6. CASE (\E s \in Session : WritesRows(s) \/ Checks(s)) \/ ChangesCard
  <2>1. ScanTyped'
    BY <1>3, <1>6, AdministrationLeaves
  <2>2. EditTyped'
    BY <1>6, EditsTyped
  <2> QED
    BY <2>1, <2>2
<1>7. CASE UNCHANGED vars
  BY <1>3, <1>4, <1>7 DEF vars
<1> QED
  BY <1>5, <1>6, <1>7, Kinds

-----------------------------------------------------------------------------
(***************************************************************************)
(* Recorded events and opened doors.                                       *)
(***************************************************************************)

LEMMA CountedStep ==
  ASSUME TypeOK, Counted, [Next]_vars
  PROVE  Counted'
<1> USE DecisionBounds, MostEventsTyped
<1>1. ScanTyped
  BY TypeParts
<1>2. ASSUME NEW q \in Request, Validates(q)
      PROVE  Counted'
  <2>1. ASSUME NEW known \in BOOLEAN, Present(q, known)
        PROVE  Counted'
    BY <1>1, <2>1 DEF Present, Counted, ScanTyped, EventsOf, Decide, Goto
  <2>2. CASE CountRows(q)
    BY <1>1, <2>2 DEF CountRows, Counted, ScanTyped, EventsOf, Decide, Goto
  <2>3. CASE LatestRow(q)
    BY <1>1, <2>3 DEF LatestRow, Counted, ScanTyped, EventsOf, Decide, Goto
  <2>4. CASE Record(q)
    <3>1. recorded[q] \in Nat /\ EventsOf(q) \in Nat /\ recorded[q] < EventsOf(q)
      BY <1>1, <2>4 DEF Record, Counted, ScanTyped, EventsOf
    <3>2. recorded[q] + 1 # EventsOf(q) => recorded[q] + 1 < EventsOf(q)
      BY <3>1
    <3> QED
      BY <1>1, <2>4, <3>2 DEF Record, Counted, ScanTyped, EventsOf, Goto
  <2>5. CASE Finish(q)
    BY <1>1, <2>5 DEF Finish, Counted, ScanTyped, EventsOf, Goto
  <2> QED
    BY <1>2, <2>1, <2>2, <2>3, <2>4, <2>5 DEF Validates, Dispatch, Die
<1>3. UNCHANGED <<pc, holder, answer, recorded, opened, scans>> => Counted'
  BY DEF Counted, EventsOf
<1>4. CASE UNCHANGED vars
  BY <1>3, <1>4 DEF vars
<1> QED
  BY <1>2, <1>3, <1>4, Kinds, AdministrationLeaves

LEMMA OpenedStep ==
  ASSUME TypeOK, Counted, OpenedIsRecorded, [Next]_vars
  PROVE  OpenedIsRecorded'
<1>1. ASSUME NEW q \in Request, Dispatch(q)
      PROVE  OpenedIsRecorded'
  <2>1. answer[q] = "success" => recorded[q] = MostEvents
    BY <1>1 DEF Dispatch, Counted, EventsOf
  <2> QED
    BY <1>1, <2>1 DEF Dispatch, OpenedIsRecorded
<1>2. ASSUME NEW q \in Request, Validates(q), ~Dispatch(q)
      PROVE  opened' = opened
  BY <1>2 DEF Validates, Present, CountRows, LatestRow, Record, Die
<1>3. CASE UNCHANGED vars
  BY <1>3 DEF vars, OpenedIsRecorded
<1> QED
  BY <1>1, <1>2, <1>3, Kinds, AdministrationLeaves DEF OpenedIsRecorded

-----------------------------------------------------------------------------
(***************************************************************************)
(* Answers and what the rules said.                                        *)
(***************************************************************************)

LEMMA WitnessedStep ==
  ASSUME TypeOK, Witnessed, [Next]_vars
  PROVE  Witnessed'
<1>1. ScanTyped /\ witness \in [Request -> SUBSET Rulings]
  BY TypeParts
<1>2. ASSUME NEW q \in Request, Validates(q)
      PROVE  Witnessed'
  <2>1. rows' = rows
    BY <1>2, ValidationLeaves
  <2>2. ASSUME NEW known \in BOOLEAN, Present(q, known)
        PROVE  Witnessed'
    BY <1>1, <2>1, <2>2 DEF Present, Witnessed, ScanTyped
  <2>3. CASE CountRows(q) \/ LatestRow(q) \/ Record(q)
    BY <2>1, <2>3 DEF CountRows, LatestRow, Record, Witnessed
  <2>4. CASE Finish(q)
    BY <1>1, <2>1, <2>4 DEF Finish, Witnessed, ScanTyped
  <2> QED
    BY <1>2, <2>2, <2>3, <2>4 DEF Validates, Dispatch, Die
<1>3. ASSUME NEW s \in Session, WritesRows(s)
      PROVE  Witnessed'
  <2>1. holder' = holder /\ Observe(rows')
    BY <1>3, AdministrationLeaves, WritersObserve
  <2> QED
    BY <2>1 DEF Observe, Witnessed
<1>4. UNCHANGED <<rows, holder, witness>> => Witnessed'
  BY DEF Witnessed
<1>5. ASSUME NEW s \in Session, Checks(s)
      PROVE  UNCHANGED <<rows, holder, witness>>
  BY <1>5 DEF Checks, Check, scanVars
<1>6. CASE ChangesCard
  BY <1>4, <1>6 DEF ChangesCard, CardChange, scanVars
<1>7. CASE UNCHANGED vars
  BY <1>4, <1>7 DEF vars
<1> QED
  BY <1>2, <1>3, <1>4, <1>5, <1>6, <1>7, Kinds

LEMMA AnswerStep ==
  ASSUME TypeOK, Witnessed, AnswerWasRight, [Next]_vars
  PROVE  AnswerWasRight'
<1>1. ScanTyped /\ witness \in [Request -> SUBSET Rulings]
  BY TypeParts
<1>2. ASSUME NEW q \in Request, Validates(q)
      PROVE  AnswerWasRight'
  <2>1. ASSUME NEW known \in BOOLEAN, Present(q, known)
        PROVE  AnswerWasRight'
    <3>1. answer'[q] \notin {"success", "area_denied", "area_not_permitted"}
      BY <1>1, <2>1 DEF Present, ScanTyped, Decide
    <3>2. \A r \in Request \ {q} : answer'[r] = answer[r] /\ witness'[r] = witness[r]
      BY <1>1, <2>1 DEF Present, ScanTyped, Decide
    <3> QED
      BY <3>1, <3>2 DEF AnswerWasRight
  <2>2. CASE CountRows(q)
    <3>1. holder[q] # NoOne /\ Ruling(rows, holder[q], ReaderArea) \in witness[q]
      BY <1>1, <2>2 DEF CountRows, ScanTyped, Witnessed
    <3>2. Of(rows, holder[q]) = {} => Ruling(rows, holder[q], ReaderArea) = "unrestricted"
      BY DEF Ruling
    <3> QED
      BY <1>1, <2>2, <3>1, <3>2 DEF CountRows, Decide, ScanTyped, AnswerWasRight
  <2>3. CASE LatestRow(q)
    <3> DEFINE found == In(rows, holder[q], ReaderArea)
               ruling == Ruling(rows, holder[q], ReaderArea)
    <3>1. ruling \in witness[q]
      BY <1>1, <2>3 DEF LatestRow, ScanTyped, Witnessed
    <3>2. found = {} => ruling \in {"unrestricted", "area_not_permitted"}
      BY DEF Ruling
    <3>3. found # {} => Of(rows, holder[q]) # {}
      BY DEF In
    <3>4. found # {} /\ rows[Latest(found)].permission = "deny" => ruling = "area_denied"
      BY <3>3 DEF Ruling
    <3>5. found # {} /\ rows[Latest(found)].permission = "allow" => ruling = "allowed"
      BY <3>3 DEF Ruling
    <3>6. \/ answer' = [answer EXCEPT ![q] = "area_not_permitted"] /\ found = {}
          \/ answer' = [answer EXCEPT ![q] = "area_denied"] /\ ruling = "area_denied"
          \/ answer' = [answer EXCEPT ![q] = "success"] /\ ruling = "allowed"
      BY <2>3, <3>4, <3>5 DEF LatestRow, Decide
    <3>7. witness' = witness
      BY <2>3 DEF LatestRow
    <3> HIDE DEF found, ruling
    <3> QED
      BY <1>1, <3>1, <3>2, <3>6, <3>7 DEF AnswerWasRight, ScanTyped
  <2>4. CASE Record(q)
    BY <2>4 DEF Record, AnswerWasRight
  <2>5. CASE Finish(q)
    BY <1>1, <2>5 DEF Finish, AnswerWasRight, ScanTyped
  <2> QED
    BY <1>2, <2>1, <2>2, <2>3, <2>4, <2>5 DEF Validates, Dispatch, Die
<1>3. ASSUME answer' = answer, \A q \in Request : witness[q] \subseteq witness'[q]
      PROVE  AnswerWasRight'
  BY <1>3 DEF AnswerWasRight
<1>4. ASSUME NEW s \in Session, WritesRows(s)
      PROVE  AnswerWasRight'
  <2>1. answer' = answer /\ Observe(rows')
    BY <1>4, AdministrationLeaves, WritersObserve
  <2> QED
    BY <1>3, <2>1 DEF Observe
<1>5. ASSUME NEW s \in Session, Checks(s)
      PROVE  UNCHANGED <<answer, witness>>
  BY <1>5 DEF Checks, Check, scanVars
<1>6. CASE ChangesCard
  BY <1>3, <1>6 DEF ChangesCard, CardChange, scanVars
<1>7. CASE UNCHANGED vars
  BY <1>3, <1>7 DEF vars
<1> QED
  BY <1>2, <1>3, <1>4, <1>5, <1>6, <1>7, Kinds

-----------------------------------------------------------------------------
(***************************************************************************)
(* One permission for a user and an area.                                  *)
(***************************************************************************)

Single(table) ==
  \A i, k \in Live(table) :
    table[i].user = table[k].user /\ table[i].area = table[k].area => i = k

NoPending == \A s \in Session : form[s] = NoForm

\* An edit that begins does not overlap only when no save is under way.
LEMMA BeginsAlone ==
  ASSUME TypeOK, NEW s \in Session, Begin(s), ~overlapped'
  PROVE  ~overlapped /\ NoPending
BY DEF Begin, NoPending, TypeOK

LEMMA CheckPends ==
  ASSUME TypeOK, Pending, OnePermissionEach, ~overlapped',
         NEW s \in Session, NEW id \in 0..MaxRows, NEW entry \in Entry, Check(s, id, entry)
  PROVE  Pending'
<1> DEFINE was == IF id = 0 THEN entry
                  ELSE [user |-> rows[id].user, area |-> rows[id].area,
                        permission |-> rows[id].permission]
<1>0. PICK f : f = [id |-> id, entry |-> entry, was |-> was]
  OBVIOUS
<1>1. ~overlapped /\ NoPending
  BY BeginsAlone DEF Check
<1>2. form' = [form EXCEPT ![s] = f] /\ rows' = rows
  BY <1>0 DEF Check
<1>3. form \in [Session -> Form \cup {NoForm}]
  BY DEF TypeOK
<1>4. In(rows, entry.user, entry.area) \ {id} = {}
  BY DEF Check, Duplicate
<1>5. ASSUME id # 0
      PROVE  /\ id \in Live(rows)
             /\ rows[id] = [user |-> was.user, area |-> was.area,
                            permission |-> was.permission, live |-> TRUE]
  <2>1. id \in Live(rows)
    BY <1>5 DEF Check
  <2>2. rows[id] \in Row /\ rows[id].live
    BY <2>1, RowsTyped DEF Live
  <2> QED
    BY <1>5, <2>1, <2>2 DEF Row
<1>6. f.id = id /\ f.entry = entry /\ f.was = was
  BY <1>0
<1> HIDE DEF was
<1>7. Fits(f)
  BY <1>4, <1>5, <1>6 DEF Fits
<1>8. /\ \A t \in Session : form'[t] # NoForm => t = s
      /\ form'[s] = f
  BY <1>1, <1>2, <1>3 DEF NoPending
<1>9. Fits(f)'
  BY <1>2, <1>7 DEF Fits
<1> QED
  BY <1>8, <1>9 DEF Pending

LEMMA SaveKeepsOne ==
  ASSUME TypeOK, Pending, OnePermissionEach, ~overlapped, NEW s \in Session, Save(s)
  PROVE  Single(rows') /\ \A t \in Session : form'[t] = NoForm
<1>1. form[s] # NoForm /\ form' = [form EXCEPT ![s] = NoForm]
  BY DEF Save
<1>2. Fits(form[s]) /\ \A t \in Session : t # s => form[t] = NoForm
  BY <1>1 DEF Pending
<1>3. \A t \in Session : form'[t] = NoForm
  BY <1>1, <1>2 DEF TypeOK
<1>4. rows \in Seq(Row) /\ form[s] \in Form /\ Single(rows)
  BY <1>1, RowsTyped, FormFields DEF OnePermissionEach, Single
<1>5. PICK f \in Form : f = form[s]
  BY <1>4
<1>6. ASSUME NEW i \in Live(rows), rows[i].user = f.entry.user, rows[i].area = f.entry.area
      PROVE  i = f.id
  BY <1>2, <1>5, <1>6 DEF Fits, In, Of
<1>7. CASE f.id = 0 /\ rows' = Append(rows, NewRow(f.entry))
  <2>1. DOMAIN rows' = DOMAIN rows \cup {Len(rows) + 1} /\ 0 \notin DOMAIN rows
    BY <1>4, <1>7
  <2>2. \A i \in DOMAIN rows : rows'[i] = rows[i]
    BY <1>4, <1>7
  <2>3. rows'[Len(rows) + 1] = NewRow(f.entry)
    BY <1>4, <1>7
  <2>4. NewRow(f.entry).user = f.entry.user /\ NewRow(f.entry).area = f.entry.area
    BY DEF NewRow
  <2>5. \A i \in Live(rows') : i \in Live(rows) \/ i = Len(rows) + 1
    BY <2>1, <2>2 DEF Live
  <2>6. ASSUME NEW i \in Live(rows)
        PROVE  rows'[i] = rows[i] /\ ~(rows[i].user = f.entry.user /\ rows[i].area = f.entry.area)
    BY <1>6, <1>7, <2>1, <2>2 DEF Live
  <2> QED
    BY <1>3, <1>4, <2>3, <2>4, <2>5, <2>6 DEF Single
<1>8. CASE f.id # 0 /\ f.id \in DOMAIN rows
           /\ rows' = [rows EXCEPT ![f.id] = Filled(rows[f.id], f)]
  <2>1. f.id \in Live(rows) /\ rows[f.id] = [user |-> f.was.user, area |-> f.was.area,
                                            permission |-> f.was.permission, live |-> TRUE]
    BY <1>2, <1>5, <1>8 DEF Fits
  <2>2. Filled(rows[f.id], f).user = f.entry.user /\ Filled(rows[f.id], f).area = f.entry.area
    BY <2>1 DEF Filled
  <2>3. /\ DOMAIN rows' = DOMAIN rows /\ rows'[f.id] = Filled(rows[f.id], f)
        /\ \A i \in DOMAIN rows \ {f.id} : rows'[i] = rows[i]
    BY <1>4, <1>8
  <2>4. \A i \in Live(rows') : i = f.id \/ (i \in Live(rows) /\ rows'[i] = rows[i])
    BY <2>3 DEF Live
  <2> QED
    BY <1>3, <1>4, <1>6, <2>2, <2>3, <2>4 DEF Single
<1> QED
  BY <1>5, <1>7, <1>8, SaveWrites

LEMMA DestroyKeepsOne ==
  ASSUME TypeOK, Single(rows), NEW s \in Session, NEW i \in DOMAIN rows, Destroy(s, i)
  PROVE  Single(rows')
<1> DEFINE row == [user |-> rows[i].user, area |-> rows[i].area,
                   permission |-> rows[i].permission, live |-> FALSE]
<1>1. rows' = [rows EXCEPT ![i] = row] /\ rows \in Seq(Row) /\ row.live = FALSE
  BY DestroyWrites, RowsTyped
<1> HIDE DEF row
<1>2. /\ DOMAIN rows' = DOMAIN rows /\ rows'[i] = row
      /\ \A k \in DOMAIN rows \ {i} : rows'[k] = rows[k]
  BY <1>1
<1>3. \A k \in Live(rows') : k \in Live(rows) /\ rows'[k] = rows[k]
  BY <1>1, <1>2 DEF Live
<1> QED
  BY <1>3 DEF Single

LEMMA AreaFormKeepsOne ==
  ASSUME TypeOK, Single(rows), NEW s \in Session, NEW a \in Area, NEW listed \in Listings,
         AreaForm(s, a, listed)
  PROVE  Single(rows')
<1>1. PICK n \in Nat :
           /\ Len(rows) + n <= MaxRows
           /\ rows' \in [1..(Len(rows) + n) -> Row]
           /\ \A i \in 1..Len(rows) :
                /\ rows'[i].user = rows[i].user /\ rows'[i].area = rows[i].area
                /\ rows'[i].permission = rows[i].permission
                /\ rows'[i].live <=> rows[i].live /\ rows[i].area # a
           /\ \A i \in (Len(rows) + 1)..(Len(rows) + n) :
                rows'[i].area = a /\ rows'[i].live
           /\ \A i, k \in (Len(rows) + 1)..(Len(rows) + n) :
                rows'[i].user = rows'[k].user => i = k
  BY AreaFormWrites
<1>2. rows \in Seq(Row) /\ Len(rows) \in Nat
  BY RowsTyped
<1> DEFINE old == 1..Len(rows)
           new == (Len(rows) + 1)..(Len(rows) + n)
<1>3. \A i \in DOMAIN rows' : i \in old \/ i \in new
  BY <1>1, <1>2
<1>4. \A i \in Live(rows') :
        \/ i \in Live(rows) /\ rows'[i].user = rows[i].user
                           /\ rows'[i].area = rows[i].area /\ rows'[i].area # a
        \/ i \in new /\ rows'[i].area = a
  BY <1>1, <1>2, <1>3 DEF Live
<1> QED
  BY <1>1, <1>4 DEF Single

LEMMA PermissionStep ==
  ASSUME TypeOK, Pending, OnePermissionEach, [Next]_vars
  PROVE  Pending' /\ OnePermissionEach'
<1>1. OnePermissionEach <=> (~overlapped => Single(rows))
  BY DEF OnePermissionEach, Single
<1>2. (OnePermissionEach)' <=> (~overlapped' => Single(rows'))
  BY DEF OnePermissionEach, Single
<1>3. UNCHANGED <<rows, form, overlapped>> => Pending' /\ OnePermissionEach'
  BY <1>1, <1>2 DEF Pending, Fits
<1>4. ASSUME ~overlapped', NEW s \in Session, Save(s)
      PROVE  Pending' /\ OnePermissionEach'
  <2>1. ~overlapped
    BY <1>4 DEF Save
  <2> QED
    BY <1>2, <1>4, <2>1, SaveKeepsOne DEF Pending
<1>5. ASSUME ~overlapped', NEW s \in Session, Begin(s), form' = form, Single(rows) => Single(rows')
      PROVE  Pending' /\ OnePermissionEach'
  BY <1>1, <1>2, <1>5, BeginsAlone DEF Pending, NoPending
<1>6. ASSUME ~overlapped', NEW s \in Session, NEW i \in DOMAIN rows, Destroy(s, i)
      PROVE  Pending' /\ OnePermissionEach'
  <2>1. Begin(s) /\ form' = form
    BY <1>6, Zenon DEF Destroy
  <2> QED
    BY <1>5, <1>6, <2>1, DestroyKeepsOne
<1>7. ASSUME ~overlapped', NEW s \in Session, NEW a \in Area, NEW listed \in Listings,
             AreaForm(s, a, listed)
      PROVE  Pending' /\ OnePermissionEach'
  <2>1. Begin(s) /\ form' = form
    BY <1>7, Zenon DEF AreaForm
  <2> QED
    BY <1>5, <1>7, <2>1, AreaFormKeepsOne
<1>8. ASSUME ~overlapped', NEW s \in Session, NEW id \in 0..MaxRows, NEW entry \in Entry,
             Check(s, id, entry)
      PROVE  Pending' /\ OnePermissionEach'
  <2>1. Begin(s) /\ rows' = rows
    BY <1>8 DEF Check
  <2>2. Pending'
    BY <1>8, CheckPends
  <2> QED
    BY <1>1, <1>2, <1>8, <2>1, <2>2, BeginsAlone
<1>9. CASE overlapped'
  BY <1>9 DEF Pending, OnePermissionEach
<1>10. CASE ChangesCard
  BY <1>3, <1>10 DEF ChangesCard, CardChange
<1>11. CASE UNCHANGED vars
  BY <1>3, <1>11 DEF vars
<1>12. ASSUME NEW q \in Request, Validates(q)
       PROVE  Pending' /\ OnePermissionEach'
  BY <1>3, <1>12, ValidationLeaves
<1>13. ASSUME ~overlapped', NEW s \in Session, WritesRows(s) \/ Checks(s)
       PROVE  Pending' /\ OnePermissionEach'
  BY <1>4, <1>6, <1>7, <1>8, <1>13 DEF WritesRows, Checks
<1> QED
  BY <1>9, <1>10, <1>11, <1>12, <1>13, Kinds

\* With one permission for a user and an area, the latest is the only one.
LEMMA OneIsLatest ==
  ASSUME TypeOK, Single(rows), NEW u, NEW a, NEW i \in In(rows, u, a)
  PROVE  Latest(In(rows, u, a)) = i
<1>1. ASSUME NEW k \in In(rows, u, a)
      PROVE  k = i /\ k \in Nat
  BY <1>1, RowsTyped DEF Single, In, Of, Live
<1>2. In(rows, u, a) = {i} /\ i <= i
  BY <1>1
<1> QED
  BY <1>2 DEF Latest

LEMMA OneAnswer ==
  ASSUME TypeOK, OnePermissionEach
  PROVE  CardAndApiAgree
<1> SUFFICES ASSUME ~overlapped, NEW u \in User, NEW a \in Area, Of(rows, u) # {}
             PROVE  Ruling(rows, u, a) = "allowed" <=> hasAreaPermission(u, a)
  BY DEF CardAndApiAgree
<1>1. Single(rows)
  BY DEF OnePermissionEach, Single
<1>2. CASE In(rows, u, a) = {}
  BY <1>2 DEF Ruling, hasAreaPermission
<1>3. ASSUME NEW i \in In(rows, u, a)
      PROVE  Ruling(rows, u, a) = "allowed" <=> hasAreaPermission(u, a)
  <2>1. Latest(In(rows, u, a)) = i
    BY <1>1, OneIsLatest
  <2>2. \A k \in In(rows, u, a) : k = i
    BY <1>1 DEF Single, In, Of, Live
  <2>3. Ruling(rows, u, a) = "allowed" <=> rows[i].permission = "allow"
    BY <2>1 DEF Ruling
  <2>4. hasAreaPermission(u, a) <=> rows[i].permission = "allow"
    BY <2>2 DEF hasAreaPermission
  <2> QED
    BY <2>3, <2>4
<1> QED
  BY <1>2, <1>3

-----------------------------------------------------------------------------
(***************************************************************************)
(* The theorems.                                                           *)
(***************************************************************************)

LEMMA InitIInv ==
  ASSUME Init
  PROVE  IInv
<1> USE DecisionBounds, MostEventsTyped DEF Init
<1>1. rows \in BoundedSeq(Row, MaxRows)
  <2>1. << >> \in Seq(Row) /\ Len(<< >>) \in 0..MaxRows
    OBVIOUS
  <2> QED
    BY <2>1, Bounded
<1>2. TypeOK
  <2>1. ScanTyped
    BY DEF ScanTyped, Answers
  <2>2. card \in [user : User \cup {NoOne}, active : BOOLEAN]
    OBVIOUS
  <2>3. form \in [Session -> Form \cup {NoForm}] /\ edits \in 0..MaxEdits /\ overlapped \in BOOLEAN
    <3>1. form \in [Session -> Form \cup {NoForm}]
      OBVIOUS
    <3>2. edits \in 0..MaxEdits
      OBVIOUS
    <3>3. overlapped \in BOOLEAN
      OBVIOUS
    <3> QED
      BY <3>1, <3>2, <3>3
  <2>4. \A s \in Session : form[s] = NoForm
    OBVIOUS
  <2>5. EditTyped
    BY <1>1, <2>2, <2>3, <2>4, Zenon DEF EditTyped
  <2> QED
    BY <2>1, <2>5, TypeParts
<1>3. Counted /\ OpenedIsRecorded
  BY DEF Counted, OpenedIsRecorded
<1>4. Witnessed /\ AnswerWasRight
  BY DEF Witnessed, AnswerWasRight
<1>5. Pending /\ OnePermissionEach
  BY DEF Pending, OnePermissionEach, Live
<1> QED
  BY <1>2, <1>3, <1>4, <1>5 DEF IInv

LEMMA IInvStep ==
  ASSUME IInv, [Next]_vars
  PROVE  IInv'
BY TypeStep, CountedStep, OpenedStep, WitnessedStep, AnswerStep, PermissionStep DEF IInv

\* The inductive invariant: types, the count of events, the history of rulings, and the
\* duplicate check that still holds when a save is under way.
THEOREM IInvHolds == Spec => []IInv
<1>1. Init => IInv
  BY InitIInv
<1>2. IInv /\ [Next]_vars => IInv'
  BY IInvStep
<1> QED
  BY <1>1, <1>2, PTL DEF Spec

\* The state of validations, permissions and pages keeps its types
\* (HandleAccessRequest::validateCard, the permission and area pages).
THEOREM TypeCorrect == Spec => []TypeOK
<1>1. IInv => TypeOK
  BY DEF IInv
<1> QED
  BY <1>1, IInvHolds, PTL

\* What a validation answers was the ruling at some moment while it ran, whatever
\* edits land between its queries (HandleAccessRequest::validateCard).
THEOREM AnswersWereRight == Spec => []AnswerWasRight
<1>1. IInv => AnswerWasRight
  BY DEF IInv
<1> QED
  BY <1>1, IInvHolds, PTL

\* No door is opened before every event of the accepted card is recorded
\* (HandleAccessRequest::validateCard, the jobs it dispatches).
THEOREM OpenedAreRecorded == Spec => []OpenedIsRecorded
<1>1. IInv => OpenedIsRecorded
  BY DEF IInv
<1> QED
  BY <1>1, IInvHolds, PTL

\* As long as no two edits overlap, a user has at most one permission for an area
\* (ensureNoDuplicate and the area form).
THEOREM OnePermission == Spec => []OnePermissionEach
<1>1. IInv => OnePermissionEach
  BY DEF IInv
<1> QED
  BY <1>1, IInvHolds, PTL

\* Until then the card reader, which asks for the latest permission, and the API, which
\* asks for any that allows, give the same answer (User::hasAreaPermission).
THEOREM CardAndApi == Spec => []CardAndApiAgree
<1>1. IInv => CardAndApiAgree
  BY OneAnswer DEF IInv
<1> QED
  BY <1>1, IInvHolds, PTL
=============================================================================
