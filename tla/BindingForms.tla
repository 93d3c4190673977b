---------------------------- MODULE BindingForms ----------------------------
(***************************************************************************)
(* The adapter bindings of one reader or lock (rows of adapter_bindings    *)
(* with the same direction, target type and target) and the pages that     *)
(* edit them: the form on the reader's and the lock's page, which posts    *)
(* the whole list, and the bindings page, which edits one row.             *)
(*                                                                         *)
(* A row's id is its index.  A row is its key (adapter type, action and    *)
(* channel, what the form looks a row up by), its value (source, polarity, *)
(* enabled and the rest of config) and what only the bindings page sets:   *)
(* the periodic MQTT settings of config, which the forms show and do not   *)
(* save, and the metadata.  A form post is two steps: the list of existing *)
(* rows is loaded outside the transaction that rewrites them, so another   *)
(* post may land in between.  Transactions are taken as atomic.            *)
(***************************************************************************)
EXTENDS Naturals, Sequences, FiniteSets, SequencesExt

CONSTANTS
  Key, Value,
  Extra,     \* what a row may hold that no form saves
  Plain,     \* of these, what a form leaves: no periodic settings, its own metadata
  Session,   \* requests that post the form
  NoForm,    \* a request that is not posting
  MaxListed, \* bound: rows in a posted form
  MaxRows,   \* bound: rows ever inserted
  MaxPosts,  \* bound: form posts in a behaviour
  MaxEdits   \* bound: edits on the bindings page

Line == [key : Key, value : Value]
Row == [key : Key, value : Value, extra : Extra, live : BOOLEAN]
Form == BoundedSeq(Line, MaxListed)

ASSUME BindingBounds ==
  /\ NoForm \notin Form /\ Plain \in Extra
  /\ MaxListed \in Nat \ {0}
  /\ MaxRows \in Nat \ {0}
  /\ MaxPosts \in Nat /\ MaxEdits \in Nat

VARIABLES
  rows,      \* Seq(Row), in id order
  posted,    \* [Session -> the list in the form, or NoForm]
  existing,  \* [Session -> ids of the rows that were live when the post began]
  posts, edits

vars == <<rows, posted, existing, posts, edits>>

LiveIds(table) == {i \in DOMAIN table : table[i].live}
Binding(k, v, e) == [key |-> k, value |-> v, extra |-> e, live |-> TRUE]
AsDeleted(row) == [row EXCEPT !.live = FALSE]

\* A line has no periodic settings (the validation drops what the form posts of
\* them, the normalisation unsets those in config), and the metadata is replaced.
AsLive(line) == Binding(line.key, line.value, Plain)

TypeOK ==
  /\ rows \in BoundedSeq(Row, MaxRows)
  /\ posted \in [Session -> Form \cup {NoForm}]
  /\ existing \in [Session -> SUBSET (1..MaxRows)]
  /\ \A s \in Session : existing[s] \subseteq DOMAIN rows
  /\ posts \in 0..MaxPosts /\ edits \in 0..MaxEdits

Init ==
  /\ rows = <<>>
  /\ posted = [s \in Session |-> NoForm]
  /\ existing = [s \in Session |-> {}]
  /\ posts = 0 /\ edits = 0

-----------------------------------------------------------------------------
\* The post is validated and normalised, which leaves lines, and the live rows
\* are loaded.
Post(s, form) ==
  /\ posted[s] = NoForm /\ posts < MaxPosts
  /\ posted' = [posted EXCEPT ![s] = form]
  /\ existing' = [existing EXCEPT ![s] = LiveIds(rows)]
  /\ posts' = posts + 1
  /\ UNCHANGED <<rows, edits>>

\* Slip: the oldest row with the key is taken instead of the latest.
RowForOldest(table, line) ==
  LET same == {i \in DOMAIN table : table[i].key = line.key}
  IN  IF same = {} THEN Len(table) + 1 ELSE CHOOSE i \in same : \A k \in same : i <= k

\* The row a line is stored in: the latest one with its key, deleted or not,
\* else a new one.
RowFor(table, line) ==
  LET same == {i \in DOMAIN table : table[i].key = line.key}
  IN  IF same = {} THEN Len(table) + 1 ELSE CHOOSE i \in same : \A k \in same : k <= i

\* Slip: the row found is not restored.
StoreUnrestored(work, line) ==
  LET i == RowFor(work.table, line)
  IN  [table |-> IF i > Len(work.table) THEN Append(work.table, AsLive(line))
                 ELSE [work.table EXCEPT ![i].value = line.value],
       active |-> work.active \cup {i}]

\* One turn of the loop: restore or create the row, fill it, remember its id.
Store(work, line) ==
  LET i == RowFor(work.table, line)
  IN  [table |-> IF i > Len(work.table) THEN Append(work.table, AsLive(line))
                 ELSE [work.table EXCEPT ![i] = AsLive(line)],
       active |-> work.active \cup {i}]

\* The loop over the posted lines.
Stored(table, form) ==
  LET after[n \in 0..Len(form)] ==
        IF n = 0 THEN [table |-> table, active |-> {}] ELSE Store(after[n - 1], form[n])
  IN  after[Len(form)]

Without(table, ids) == [i \in DOMAIN table |-> IF i \in ids THEN AsDeleted(table[i]) ELSE table[i]]

\* Slip: every row that is not listed is deleted, loaded or not.
SyncedToForm(form, loaded) ==
  LET work == Stored(rows, form)
  IN  Without(work.table, DOMAIN rows \ work.active)

\* Slip: rows that are not listed are removed for good.
SyncedHard(form, loaded) ==
  LET work == Stored(rows, form)
      kept == SetToSortSeq(DOMAIN work.table \ (loaded \ work.active), <)
  IN  [i \in DOMAIN kept |-> work.table[kept[i]]]

\* The transaction: store every line, then delete what was loaded and is not listed.
SyncedRows(form, loaded) ==
  LET work == Stored(rows, form)
  IN  Without(work.table, loaded \ work.active)

Sync(s) ==
  /\ posted[s] # NoForm
  /\ rows' = SyncedRows(posted[s], existing[s])
  /\ Len(rows') <= MaxRows
  /\ posted' = [posted EXCEPT ![s] = NoForm]
  /\ existing' = [existing EXCEPT ![s] = {}]
  /\ UNCHANGED <<posts, edits>>

\* The bindings page: create a row (whatever rows there are), change one, delete one.
Edit(table) == rows' = table /\ edits < MaxEdits /\ edits' = edits + 1
               /\ UNCHANGED <<posted, existing, posts>>
BindingStore(binding) == Len(rows) < MaxRows /\ Edit(Append(rows, binding))
BindingUpdate(i, binding) == Edit([rows EXCEPT ![i] = binding])
BindingDestroy(i) == Edit(Without(rows, {i}))

Next ==
  \/ \E s \in Session : \/ \E form \in Form : Post(s, form)
                        \/ Sync(s)
  \/ \E k \in Key, v \in Value, e \in Extra :
       \/ BindingStore(Binding(k, v, e))
       \/ \E i \in LiveIds(rows) : BindingUpdate(i, Binding(k, v, e))
  \/ \E i \in LiveIds(rows) : BindingDestroy(i)

Spec == Init /\ [][Next]_vars

-----------------------------------------------------------------------------
\* What a form that is posted as it was shown lists: the live rows, as far as the
\* validation and the normalisation keep them.
Shown(table) == {[key |-> table[i].key, value |-> table[i].value] : i \in LiveIds(table)}

\* What a form asks for: of lines with the same key the last one.
Asked(form) ==
  {form[i] : i \in {i \in DOMAIN form : \A k \in DOMAIN form : k > i => form[k].key # form[i].key}}

\* When no other edit lands between a form's load and its transaction, the bindings
\* it leaves are exactly those it lists, one row for each key, however many
\* duplicates and deleted rows the table holds (syncBindings, syncLockBindings).
SyncLeavesForm ==
  [][\A s \in Session :
       Sync(s) /\ existing[s] = LiveIds(rows) =>
         /\ Shown(rows') = Asked(posted[s])
         /\ \A i, k \in LiveIds(rows') : rows'[i].key = rows'[k].key => i = k]_vars

\* A binding that another request created after a form was loaded survives the form's
\* save, unless the form lists its key: a form deletes only what it could have shown.
LaterBindingSurvives ==
  [][\A s \in Session : Sync(s) =>
       \A i \in LiveIds(rows) :
         i \notin existing[s] /\ rows[i].key \notin {line.key : line \in ToSet(posted[s])}
           => rows'[i] = rows[i]]_vars

\* The rows after a form was saved as it was shown: what no form saves is gone.
Resaved(table) ==
  [i \in DOMAIN table |-> IF table[i].live THEN [table[i] EXCEPT !.extra = Plain] ELSE table[i]]

\* Saving a form as it was shown, in any order of its lines, adds, moves and deletes no
\* row and changes none in what the form saves, so that the first output still decides
\* the reader's state, as long as every live row is the latest with its key.  (A later
\* duplicate that was deleted is taken instead of the live row and moves the output to
\* its place.)  What it does change is what no form saves: every live row loses its
\* periodic settings, though the form shows them, and its metadata.
ResaveClearsExtraOnly ==
  [][\A s \in Session :
       /\ Sync(s) /\ existing[s] = LiveIds(rows) /\ ToSet(posted[s]) = Shown(rows)
       /\ \A i \in LiveIds(rows) : \A k \in DOMAIN rows : k > i => rows[k].key # rows[i].key
       => rows' = Resaved(rows)]_vars
=============================================================================
