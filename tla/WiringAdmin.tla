----------------------------- MODULE WiringAdmin -----------------------------
(***************************************************************************)
(* The pages that wire readers to locks: the area, lock and reader forms   *)
(* and the reader's lock-binding page.  They write the tables that         *)
(* LockTopology queries, which is instantiated here over the variables, so *)
(* that what commands, events, publishes and status pages make of every    *)
(* reachable wiring can be compared.                                       *)
(*                                                                         *)
(* Readers, locks and bindings are sequences in id order; deleting sets a  *)
(* flag and keeps the row.  A request is one step: each form writes in one *)
(* transaction and each click on the binding page writes one row.          *)
(***************************************************************************)
EXTENDS Integers, Sequences, FiniteSets, SequencesExt

CONSTANTS
  Area,
  Unassigned,       \* the area Area::ensureUnassignedArea looks up or creates
  Pages,            \* which pages are used
  MaxReaders,       \* bound: readers ever created
  MaxLocks,         \* bound: locks ever created
  MaxRequests       \* bound: requests in a behaviour

ASSUME WiringBounds ==
  /\ Unassigned \in Area
  /\ MaxReaders \in Nat /\ MaxLocks \in Nat /\ MaxRequests \in Nat

VARIABLES
  areas,    \* [Area -> {"absent", "live", "deleted"}]
  readers,  \* Seq([area, live])
  locks,    \* Seq([area, primary, live])
  bindings, \* Seq([reader, lock, enabled, live])
  requests

vars == <<areas, readers, locks, bindings, requests>>

LiveIds(table) == {i \in DOMAIN table : table[i].live}
Existing == {a \in Area : areas[a] # "absent"}

T == INSTANCE LockTopology WITH
  LiveReaders <- LiveIds(readers),
  LiveLocks <- LiveIds(locks),
  LiveAreas <- {a \in Area : areas[a] = "live"},
  ReaderArea <- [r \in DOMAIN readers |-> readers[r].area],
  LockArea <- [l \in DOMAIN locks |-> locks[l].area],
  PrimaryLocks <- {l \in DOMAIN locks : locks[l].primary},
  ReaderLockBindings <- [b \in LiveIds(bindings) |-> bindings[b]],
  AdapterBindings <- <<>>

TypeOK ==
  /\ areas \in [Area -> {"absent", "live", "deleted"}]
  /\ readers \in BoundedSeq([area : Existing, live : BOOLEAN], MaxReaders)
  /\ locks \in BoundedSeq([area : Existing, primary : BOOLEAN, live : BOOLEAN], MaxLocks)
  /\ bindings \in BoundedSeq([reader : DOMAIN readers, lock : DOMAIN locks,
                              enabled : BOOLEAN, live : BOOLEAN], MaxReaders * MaxLocks)
  /\ requests \in 0..MaxRequests

Init ==
  /\ areas \in [Area -> {"absent", "live"}]
  /\ readers = <<>> /\ locks = <<>> /\ bindings = <<>>
  /\ requests = 0

Request(page) == page \in Pages /\ requests < MaxRequests /\ requests' = requests + 1

-----------------------------------------------------------------------------
\* syncReaderAssignments: live readers of the area that are not listed go to
\* Unassigned, listed ones come to the area.
Assigned(a, listed) ==
  [r \in DOMAIN readers |->
     [readers[r] EXCEPT !.area = IF ~readers[r].live THEN @
                                 ELSE IF r \in listed THEN a
                                 ELSE IF @ = a THEN Unassigned ELSE @]]

\* Slip: the Unassigned area is taken to exist.
AreaSaveOnly(a, readerIds, lockIds) ==
  /\ Request("area") /\ areas[a] # "deleted"
  /\ areas' = [areas EXCEPT ![a] = "live"]
  /\ readers' = Assigned(a, readerIds)
  /\ locks' = [l \in DOMAIN locks |->
                 [locks[l] EXCEPT !.area = IF locks[l].live /\ l \in lockIds THEN a ELSE @]]
  /\ UNCHANGED bindings

\* The area form, for a new area or a live one; it fails when the Unassigned area
\* has been deleted, because its identifier cannot be created again.
AreaSave(a, readerIds, lockIds) ==
  /\ Request("area") /\ areas[a] # "deleted"
  /\ a = Unassigned \/ areas[Unassigned] # "deleted"
  /\ areas' = [areas EXCEPT ![Unassigned] = "live", ![a] = "live"]
  /\ readers' = Assigned(a, readerIds)
  /\ locks' = [l \in DOMAIN locks |->
                 [locks[l] EXCEPT !.area = IF locks[l].live /\ l \in lockIds THEN a ELSE @]]
  /\ UNCHANGED bindings

AreaDestroy(a) ==
  /\ Request("area") /\ areas[a] = "live"
  /\ areas' = [areas EXCEPT ![a] = "deleted"]
  /\ UNCHANGED <<readers, locks, bindings>>

\* Slip: only a new primary lock takes the flag from the others.
OnlyPrimaryWhenNew(table, l) ==
  [k \in DOMAIN table |->
     [table[k] EXCEPT !.primary = @ /\ ~(/\ k # l /\ table[k].live /\ table[l].primary
                                         /\ l > Len(locks)
                                         /\ table[k].area = table[l].area)]]

\* unsetOtherPrimaryLocks, when lock l is primary.
OnlyPrimary(table, l) ==
  [k \in DOMAIN table |->
     [table[k] EXCEPT !.primary = @ /\ ~(/\ k # l /\ table[k].live /\ table[l].primary
                                         /\ table[k].area = table[l].area)]]

\* The lock form; an area only has to exist, deleted or not.
LockStore(a, primary) ==
  /\ Request("lock") /\ Len(locks) < MaxLocks /\ a \in Existing
  /\ locks' = OnlyPrimary(Append(locks, [area |-> a, primary |-> primary, live |-> TRUE]),
                          Len(locks) + 1)
  /\ UNCHANGED <<areas, readers, bindings>>

LockUpdate(l, a, primary) ==
  /\ Request("lock") /\ l \in LiveIds(locks) /\ a \in Existing
  /\ locks' = OnlyPrimary([locks EXCEPT ![l] = [area |-> a, primary |-> primary, live |-> TRUE]], l)
  /\ UNCHANGED <<areas, readers, bindings>>

LockDestroy(l) ==
  /\ Request("lock") /\ l \in LiveIds(locks)
  /\ locks' = [locks EXCEPT ![l].live = FALSE]
  /\ UNCHANGED <<areas, readers, bindings>>

ReaderStore(a) ==
  /\ Request("reader") /\ Len(readers) < MaxReaders /\ a \in Existing
  /\ readers' = Append(readers, [area |-> a, live |-> TRUE])
  /\ UNCHANGED <<areas, locks, bindings>>

ReaderUpdate(r, a) ==
  /\ Request("reader") /\ r \in LiveIds(readers) /\ a \in Existing
  /\ readers' = [readers EXCEPT ![r].area = a]
  /\ UNCHANGED <<areas, locks, bindings>>

ReaderDestroy(r) ==
  /\ Request("reader") /\ r \in LiveIds(readers)
  /\ readers' = [readers EXCEPT ![r].live = FALSE]
  /\ UNCHANGED <<areas, locks, bindings>>

\* The locks the binding page offers: live ones without a live binding.
availableLocks(r) ==
  LiveIds(locks) \ {bindings[b].lock : b \in {b \in LiveIds(bindings) : bindings[b].reader = r}}

\* The unique index over reader and lock counts deleted rows too.
IndexAllows(r, l) ==
  ~\E b \in DOMAIN bindings : bindings[b].reader = r /\ bindings[b].lock = l

\* firstOrCreate finds live rows only; over a deleted row the insert fails.
AddBinding(r, l) ==
  /\ Request("binding") /\ r \in LiveIds(readers) /\ l \in availableLocks(r)
  /\ IndexAllows(r, l)
  /\ bindings' = Append(bindings, [reader |-> r, lock |-> l, enabled |-> TRUE, live |-> TRUE])
  /\ UNCHANGED <<areas, readers, locks>>

\* removeBinding reads the lock's name first and fails for a deleted lock.
RemoveBinding(b) ==
  /\ Request("binding") /\ b \in LiveIds(bindings)
  /\ bindings[b].reader \in LiveIds(readers) /\ bindings[b].lock \in LiveIds(locks)
  /\ bindings' = [bindings EXCEPT ![b].live = FALSE]
  /\ UNCHANGED <<areas, readers, locks>>

ToggleEnabled(b) ==
  /\ Request("binding") /\ b \in LiveIds(bindings) /\ bindings[b].reader \in LiveIds(readers)
  /\ bindings' = [bindings EXCEPT ![b].enabled = ~@]
  /\ UNCHANGED <<areas, readers, locks>>

Next ==
  \/ \E a \in Area :
       \/ \E rs \in SUBSET DOMAIN readers, ls \in SUBSET DOMAIN locks : AreaSave(a, rs, ls)
       \/ AreaDestroy(a)
       \/ \E p \in BOOLEAN : LockStore(a, p) \/ \E l \in DOMAIN locks : LockUpdate(l, a, p)
       \/ ReaderStore(a)
       \/ \E r \in DOMAIN readers : ReaderUpdate(r, a)
  \/ \E l \in DOMAIN locks : LockDestroy(l)
  \/ \E r \in DOMAIN readers : ReaderDestroy(r) \/ \E l \in DOMAIN locks : AddBinding(r, l)
  \/ \E b \in DOMAIN bindings : RemoveBinding(b) \/ ToggleEnabled(b)

Spec == Init /\ [][Next]_vars

-----------------------------------------------------------------------------
\* Slip: disabled bindings are taken too.
EventLocksAny(r) ==
  LET bound == {b \in LiveIds(bindings) : bindings[b].reader = r}
  IN  IF bound # {} THEN {bindings[b].lock : b \in bound} \cap LiveIds(locks)
      ELSE T!primaryLock(readers[r].area)

\* The locks an accepted card's events name (getTargetLocksForReader).
EventLocks(r) ==
  LET enabled == {b \in LiveIds(bindings) : bindings[b].reader = r /\ bindings[b].enabled}
  IN  IF enabled # {} THEN {bindings[b].lock : b \in enabled} \cap LiveIds(locks)
      ELSE T!primaryLock(readers[r].area)

\* Two classes resolve a reader's locks on their own: the locks that the events of an
\* accepted card name are the ones whose state its command stores, in every wiring.
EventsNameStoredLocks == \A r \in LiveIds(readers) : EventLocks(r) = T!storedLocks(r)

\* A command publishes the state of every lock whose state it stored, unless all of the
\* reader's bindings are disabled: then it drives the primary lock and publishes others.
StoredIsPublished ==
  \A r \in LiveIds(readers) :
    (T!EnabledLocks(r) # {} \/ T!targetLocks(r) = {}) => T!storedLocks(r) \subseteq T!publishedLocks(r)

\* A webhook command for a lock that an existing reader has enabled is sent through a
\* reader that drives it, whatever other bindings were added, disabled or orphaned.
BoundLockReached ==
  \A l \in LiveIds(locks) :
    (\E b \in LiveIds(bindings) : bindings[b].lock = l /\ bindings[b].enabled
                                  /\ bindings[b].reader \in LiveIds(readers))
    => /\ T!readerForLock(l) # {}
       /\ \A r \in T!readerForLock(l) : l \in T!RoomLockIds(r)

\* Saving a lock as primary takes effect at once for every reader of its area without
\* enabled bindings, however many primary locks the area form had moved there.
PrimaryTakesEffect ==
  [][\A l \in 1..MaxLocks, a \in Area :
       l \in DOMAIN locks /\ LockUpdate(l, a, TRUE) /\ areas[a] = "live" =>
         \A r \in LiveIds(readers) : readers[r].area = a /\ T!EnabledLocks(r) = {} =>
           T!RoomLockIds(r)' = {l}]_vars

OnePrimary ==
  \A l, k \in LiveIds(locks) :
    locks[l].primary /\ locks[k].primary /\ locks[l].area = locks[k].area => l = k

\* Only the area form can bring two primary locks into one area; the lock forms keep
\* it to one, whatever locks they create, move and mark.
OnePrimaryKept ==
  [][OnePrimary =>
       OnePrimary' \/ \E a \in Area, rs \in SUBSET DOMAIN readers, ls \in SUBSET DOMAIN locks :
                        AreaSave(a, rs, ls)]_vars
=============================================================================
