------------------------- MODULE WiringAdmin_proofs --------------------------
(***************************************************************************)
(* Proofs about WiringAdmin and the queries of LockTopology, for any areas *)
(* and pages and all values of the bounds.                                 *)
(***************************************************************************)
EXTENDS WiringAdmin, FiniteSetTheorems, TLAPS

\* The unique index over reader and lock, with deleted bindings.
OneBindingEach ==
  \A b, c \in DOMAIN bindings :
    bindings[b].reader = bindings[c].reader /\ bindings[b].lock = bindings[c].lock => b = c

IInv == TypeOK /\ OneBindingEach

ReaderRow == [area : Existing, live : BOOLEAN]
LockRow == [area : Existing, primary : BOOLEAN, live : BOOLEAN]
BindingRow == [reader : DOMAIN readers, lock : DOMAIN locks, enabled : BOOLEAN, live : BOOLEAN]

-----------------------------------------------------------------------------
(***************************************************************************)
(* Sequences, rows and numbers.                                            *)
(***************************************************************************)

LEMMA Bounded ==
  ASSUME NEW S, NEW n \in Nat, NEW t
  PROVE  t \in BoundedSeq(S, n) <=> t \in Seq(S) /\ Len(t) \in 0..n
<1>1. ASSUME t \in BoundedSeq(S, n)
      PROVE  t \in Seq(S) /\ Len(t) \in 0..n
  <2>1. PICK m \in 0..n : t \in [1..m -> S]
    BY <1>1 DEF BoundedSeq, SeqOf
  <2> QED
    BY <2>1
<1>2. ASSUME t \in Seq(S), Len(t) \in 0..n
      PROVE  t \in BoundedSeq(S, n)
  <2>1. t \in [1..Len(t) -> S]
    BY <1>2
  <2> QED
    BY <2>1, <1>2 DEF BoundedSeq, SeqOf
<1> QED
  BY <1>1, <1>2

LEMMA ElementOf ==
  ASSUME NEW S, NEW t \in Seq(S)
  PROVE  DOMAIN t = 1..Len(t) /\ Len(t) \in Nat /\ \A i \in DOMAIN t : t[i] \in S
OBVIOUS

LEMMA IsSeq ==
  ASSUME NEW S, NEW n \in Nat, NEW t, DOMAIN t = 1..n, t = [i \in DOMAIN t |-> t[i]],
         \A i \in 1..n : t[i] \in S
  PROVE  t \in Seq(S) /\ Len(t) = n
<1>1. t \in [1..n -> S]
  OBVIOUS
<1> QED
  BY <1>1

LEMMA SeqOfMore ==
  ASSUME NEW S, NEW M, NEW t \in Seq(S), \A i \in DOMAIN t : t[i] \in M
  PROVE  t \in Seq(M)
OBVIOUS

\* The row that ->first() returns exists when there is any.
LEMMA LeastExists ==
  ASSUME NEW S \in SUBSET Nat, S # {}
  PROVE  \E i \in S : \A k \in S : i <= k
<1>1. \E i \in S : \A k \in S : ~(<<k, i>> \in OpToRel(<, Nat))
  BY WFMin, NatLessThanWellFounded, Zenon
<1>2. ASSUME NEW i \in S, NEW k \in S, ~(<<k, i>> \in OpToRel(<, Nat))
      PROVE  ~(k < i)
  <2>1. <<k, i>> \in Nat \X Nat /\ <<k, i>>[1] = k /\ <<k, i>>[2] = i
    OBVIOUS
  <2> QED
    BY <1>2, <2>1 DEF OpToRel
<1>3. \A i, k \in S : ~(k < i) => i <= k
  OBVIOUS
<1> QED
  BY <1>1, <1>2, <1>3

LEMMA Moved ==
  ASSUME NEW S, NEW row \in [area : S, live : BOOLEAN], NEW a
  PROVE  [row EXCEPT !.area = a] = [area |-> a, live |-> row.live]
OBVIOUS

LEMMA LockMoved ==
  ASSUME NEW S, NEW row \in [area : S, primary : BOOLEAN, live : BOOLEAN], NEW a
  PROVE  [row EXCEPT !.area = a] = [area |-> a, primary |-> row.primary, live |-> row.live]
OBVIOUS

LEMMA LockFlagged ==
  ASSUME NEW S, NEW row \in [area : S, primary : BOOLEAN, live : BOOLEAN], NEW p
  PROVE  [row EXCEPT !.primary = p] = [area |-> row.area, primary |-> p, live |-> row.live]
OBVIOUS

LEMMA LockDeleted ==
  ASSUME NEW S, NEW row \in [area : S, primary : BOOLEAN, live : BOOLEAN], NEW l
  PROVE  [row EXCEPT !.live = l] = [area |-> row.area, primary |-> row.primary, live |-> l]
OBVIOUS

LEMMA Deleted ==
  ASSUME NEW S, NEW row \in [area : S, live : BOOLEAN], NEW l
  PROVE  [row EXCEPT !.live = l] = [area |-> row.area, live |-> l]
OBVIOUS

LEMMA BindingDeleted ==
  ASSUME NEW S, NEW T0, NEW row \in [reader : S, lock : T0, enabled : BOOLEAN, live : BOOLEAN], NEW l
  PROVE  [row EXCEPT !.live = l] =
           [reader |-> row.reader, lock |-> row.lock, enabled |-> row.enabled, live |-> l]
OBVIOUS

LEMMA BindingToggled ==
  ASSUME NEW S, NEW T0, NEW row \in [reader : S, lock : T0, enabled : BOOLEAN, live : BOOLEAN], NEW e
  PROVE  [row EXCEPT !.enabled = e] =
           [reader |-> row.reader, lock |-> row.lock, enabled |-> e, live |-> row.live]
OBVIOUS

\* As many bindings fit under the unique index as there are pairs.
LEMMA PairsBounded ==
  ASSUME NEW m \in Nat, NEW n \in Nat, NEW k \in Nat, NEW t,
         \A b \in 1..k : t[b].reader \in 1..m /\ t[b].lock \in 1..n,
         \A b, c \in 1..k : t[b].reader = t[c].reader /\ t[b].lock = t[c].lock => b = c
  PROVE  k <= m * n
<1> DEFINE pair == [b \in 1..k |-> <<t[b].reader, t[b].lock>>]
           P == (1..m) \X (1..n)
<1>1. pair \in Injection(1..k, P)
  <2>1. pair \in [1..k -> P]
    OBVIOUS
  <2>2. ASSUME NEW b \in 1..k, NEW c \in 1..k, pair[b] = pair[c]
        PROVE  b = c
    <3>1. <<t[b].reader, t[b].lock>> = <<t[c].reader, t[c].lock>>
      BY <2>2
    <3> QED
      BY <3>1
  <2> QED
    BY <2>1, <2>2 DEF Injection, IsInjective
<1>2. IsFiniteSet(1..m) /\ Cardinality(1..m) = m /\ IsFiniteSet(1..n) /\ Cardinality(1..n) = n
  <2>1. /\ IsFiniteSet(1..m) /\ Cardinality(1..m) = (IF 1 > m THEN 0 ELSE m - 1 + 1)
        /\ IsFiniteSet(1..n) /\ Cardinality(1..n) = (IF 1 > n THEN 0 ELSE n - 1 + 1)
    BY FS_Interval
  <2> QED
    BY <2>1
<1>3. IsFiniteSet(P) /\ Cardinality(P) = m * n
  <2>1. IsFiniteSet(P) /\ Cardinality(P) = Cardinality(1..m) * Cardinality(1..n)
    BY <1>2, FS_Product
  <2> QED
    BY <1>2, <2>1
<1> HIDE DEF pair, P
<1>4. Cardinality(1..k) <= m * n
  BY <1>1, <1>3, FS_Injection
<1>5. Cardinality(1..k) = (IF 1 > k THEN 0 ELSE k - 1 + 1)
  BY FS_Interval
<1> QED
  BY <1>4, <1>5

-----------------------------------------------------------------------------
(***************************************************************************)
(* The tables.                                                             *)
(***************************************************************************)

LEMMA Tables ==
  ASSUME TypeOK
  PROVE  /\ areas \in [Area -> {"absent", "live", "deleted"}]
         /\ readers \in Seq(ReaderRow) /\ Len(readers) \in 0..MaxReaders
         /\ locks \in Seq(LockRow) /\ Len(locks) \in 0..MaxLocks
         /\ bindings \in Seq(BindingRow)
         /\ requests \in 0..MaxRequests
<1>1. MaxReaders * MaxLocks \in Nat
  BY WiringBounds
<1> QED
  BY <1>1, Bounded, WiringBounds DEF TypeOK, ReaderRow, LockRow, BindingRow

\* An area is never forgotten.
LEMMA AreasStep ==
  ASSUME TypeOK, [Next]_vars
  PROVE  /\ areas' \in [Area -> {"absent", "live", "deleted"}]
         /\ Existing \subseteq Existing'
<1> USE WiringBounds
<1>1. areas \in [Area -> {"absent", "live", "deleted"}]
  BY Tables
<1>2. ASSUME NEW a \in Area, NEW rs, NEW ls, AreaSave(a, rs, ls)
      PROVE  areas' = [areas EXCEPT ![Unassigned] = "live", ![a] = "live"]
  BY <1>2, Zenon DEF AreaSave
<1>3. ASSUME NEW a \in Area, AreaDestroy(a)
      PROVE  areas' = [areas EXCEPT ![a] = "deleted"]
  BY <1>3 DEF AreaDestroy
<1>4. \/ areas' = areas
      \/ \E a \in Area : areas' = [areas EXCEPT ![Unassigned] = "live", ![a] = "live"]
      \/ \E a \in Area : areas' = [areas EXCEPT ![a] = "deleted"]
  BY <1>2, <1>3 DEF Next, LockStore, LockUpdate, LockDestroy, ReaderStore, ReaderUpdate,
                    ReaderDestroy, AddBinding, RemoveBinding, ToggleEnabled, vars
<1> QED
  BY <1>1, <1>4 DEF Existing

\* What the area form makes of the readers.
LEMMA AssignedReaders ==
  ASSUME TypeOK, NEW a, NEW rs
  PROVE  /\ DOMAIN Assigned(a, rs) = DOMAIN readers
         /\ \A r \in DOMAIN readers :
              \E b \in {readers[r].area, a, Unassigned} :
                Assigned(a, rs)[r] = [area |-> b, live |-> readers[r].live]
<1>1. ASSUME NEW r \in DOMAIN readers
      PROVE  \E b \in {readers[r].area, a, Unassigned} :
               Assigned(a, rs)[r] = [area |-> b, live |-> readers[r].live]
  <2> DEFINE b == IF ~readers[r].live THEN readers[r].area
                  ELSE IF r \in rs THEN a
                  ELSE IF readers[r].area = a THEN Unassigned ELSE readers[r].area
  <2>1. Assigned(a, rs)[r] = [readers[r] EXCEPT !.area = b]
    BY Zenon DEF Assigned
  <2>2. b \in {readers[r].area, a, Unassigned}
    OBVIOUS
  <2> HIDE DEF b
  <2>3. readers[r] \in [area : Existing, live : BOOLEAN]
    BY Tables, ElementOf, Zenon DEF ReaderRow
  <2>4. [readers[r] EXCEPT !.area = b] = [area |-> b, live |-> readers[r].live]
    BY <2>3, Moved
  <2> QED
    BY <2>1, <2>2, <2>4
<1> QED
  BY <1>1 DEF Assigned

LEMMA ReadersStep ==
  ASSUME TypeOK, [Next]_vars
  PROVE  /\ readers' \in Seq([area : Existing', live : BOOLEAN])
         /\ Len(readers') \in 0..MaxReaders /\ Len(readers) <= Len(readers')
<1> DEFINE R == [area : Existing', live : BOOLEAN]
<1> USE WiringBounds
<1>1. readers \in Seq(ReaderRow) /\ Len(readers) \in 0..MaxReaders /\ Existing \subseteq Existing'
  BY Tables, AreasStep
<1>2. \A r \in DOMAIN readers : readers[r] \in R
  <2>1. \A r \in DOMAIN readers : readers[r] \in ReaderRow
    BY <1>1, ElementOf
  <2> QED
    BY <1>1, <2>1 DEF ReaderRow
<1>3. readers \in Seq(R)
  BY <1>1, <1>2, SeqOfMore, Zenon
<1>4. ASSUME NEW a \in Area, NEW rs, NEW ls, AreaSave(a, rs, ls)
      PROVE  readers' \in Seq(R) /\ Len(readers') = Len(readers)
  <2>1. readers' = Assigned(a, rs)
    BY <1>4 DEF AreaSave
  <2>2. a \in Existing' /\ Unassigned \in Existing'
    BY <1>4, Tables DEF AreaSave, Existing
  <2>3. ASSUME NEW r \in DOMAIN readers
        PROVE  readers'[r] \in R
    <3>1. PICK b \in {readers[r].area, a, Unassigned} :
            readers'[r] = [area |-> b, live |-> readers[r].live]
      BY <2>1, <2>3, AssignedReaders
    <3> QED
      BY <1>2, <2>2, <2>3, <3>1
  <2>4. DOMAIN readers' = 1..Len(readers) /\ Len(readers) \in Nat
    BY <1>1, <2>1, AssignedReaders
  <2>5. readers' = [r \in DOMAIN readers' |-> readers'[r]]
    BY <2>1, Zenon DEF Assigned
  <2> HIDE DEF R
  <2>6. \A r \in 1..Len(readers) : readers'[r] \in R
    BY <1>1, <2>3
  <2> QED
    BY <2>4, <2>5, <2>6, IsSeq
<1>5. ASSUME NEW a, ReaderStore(a)
      PROVE  readers' \in Seq(R) /\ Len(readers') = Len(readers) + 1 /\ Len(readers) < MaxReaders
  <2>1. [area |-> a, live |-> TRUE] \in R
    BY <1>1, <1>5 DEF ReaderStore
  <2> HIDE DEF R
  <2> QED
    BY <1>3, <1>5, <2>1 DEF ReaderStore
<1>6. ASSUME NEW r \in DOMAIN readers, NEW a, ReaderUpdate(r, a)
      PROVE  readers' \in Seq(R) /\ Len(readers') = Len(readers)
  <2>1. readers' = [readers EXCEPT ![r] = [readers[r] EXCEPT !.area = a]]
    BY <1>6, Zenon DEF ReaderUpdate
  <2>2. [readers[r] EXCEPT !.area = a] = [area |-> a, live |-> readers[r].live]
    BY <1>2, Moved
  <2>3. [area |-> a, live |-> readers[r].live] \in R
    BY <1>1, <1>2, <1>6 DEF ReaderUpdate
  <2> HIDE DEF R
  <2> QED
    BY <1>3, <2>1, <2>2, <2>3
<1>7. ASSUME NEW r \in DOMAIN readers, ReaderDestroy(r)
      PROVE  readers' \in Seq(R) /\ Len(readers') = Len(readers)
  <2>1. readers' = [readers EXCEPT ![r] = [readers[r] EXCEPT !.live = FALSE]]
    BY <1>7, Zenon DEF ReaderDestroy
  <2>2. [readers[r] EXCEPT !.live = FALSE] = [area |-> readers[r].area, live |-> FALSE]
    BY <1>2, Deleted
  <2>3. [area |-> readers[r].area, live |-> FALSE] \in R
    BY <1>2
  <2> HIDE DEF R
  <2> QED
    BY <1>3, <2>1, <2>2, <2>3
<1>8. readers' \in Seq(R)
      /\ (Len(readers') = Len(readers) \/ (Len(readers') = Len(readers) + 1 /\ Len(readers) < MaxReaders))
  <2> HIDE DEF R
  <2>1. CASE UNCHANGED readers
    BY <1>3, <2>1
  <2> QED
    BY <1>4, <1>5, <1>6, <1>7, <2>1
       DEF Next, AreaDestroy, LockStore, LockUpdate, LockDestroy, AddBinding, RemoveBinding,
           ToggleEnabled, vars
<1> QED
  BY <1>1, <1>8

Flag(t, l, k) ==
  t[k].primary /\ ~(k # l /\ t[k].live /\ t[l].primary /\ t[k].area = t[l].area)

\* Marking a lock as primary takes the flag from others of its area and changes no more.
LEMMA OnlyPrimaryRow ==
  ASSUME NEW S, NEW t, NEW l, NEW k \in DOMAIN t,
         t[k] \in [area : S, primary : BOOLEAN, live : BOOLEAN]
  PROVE  OnlyPrimary(t, l)[k] =
           [area |-> t[k].area, primary |-> Flag(t, l, k), live |-> t[k].live]
<1>1. OnlyPrimary(t, l)[k] = [t[k] EXCEPT !.primary = Flag(t, l, k)]
  BY Zenon DEF OnlyPrimary, Flag
<1> QED
  BY <1>1, LockFlagged

LEMMA OnlyPrimaryDomain ==
  ASSUME NEW t, NEW l
  PROVE  /\ DOMAIN OnlyPrimary(t, l) = DOMAIN t
         /\ OnlyPrimary(t, l) = [k \in DOMAIN OnlyPrimary(t, l) |-> OnlyPrimary(t, l)[k]]
BY Zenon DEF OnlyPrimary

\* What the area form makes of the locks.
LEMMA AssignedLocks ==
  ASSUME TypeOK, NEW a \in Area, NEW rs, NEW ls, AreaSave(a, rs, ls)
  PROVE  /\ DOMAIN locks' = DOMAIN locks /\ locks' = [l \in DOMAIN locks' |-> locks'[l]]
         /\ \A l \in DOMAIN locks :
              \E b \in {locks[l].area, a} :
                locks'[l] = [area |-> b, primary |-> locks[l].primary, live |-> locks[l].live]
<1>1. locks' = [l \in DOMAIN locks |->
                 [locks[l] EXCEPT !.area = IF locks[l].live /\ l \in ls THEN a ELSE locks[l].area]]
  BY Zenon DEF AreaSave
<1>2. ASSUME NEW l \in DOMAIN locks
      PROVE  \E b \in {locks[l].area, a} :
                locks'[l] = [area |-> b, primary |-> locks[l].primary, live |-> locks[l].live]
  <2> DEFINE b == IF locks[l].live /\ l \in ls THEN a ELSE locks[l].area
  <2>1. locks'[l] = [locks[l] EXCEPT !.area = b]
    BY <1>1, Zenon
  <2>2. b \in {locks[l].area, a}
    OBVIOUS
  <2> HIDE DEF b
  <2>3. locks[l] \in [area : Existing, primary : BOOLEAN, live : BOOLEAN]
    BY Tables, ElementOf, Zenon DEF LockRow
  <2>4. [locks[l] EXCEPT !.area = b] =
          [area |-> b, primary |-> locks[l].primary, live |-> locks[l].live]
    BY <2>3, LockMoved
  <2> QED
    BY <2>1, <2>2, <2>4
<1>3. DOMAIN locks' = DOMAIN locks /\ locks' = [l \in DOMAIN locks' |-> locks'[l]]
  BY <1>1, Zenon
<1> QED
  BY <1>2, <1>3

LEMMA LocksStep ==
  ASSUME TypeOK, [Next]_vars
  PROVE  /\ locks' \in Seq([area : Existing', primary : BOOLEAN, live : BOOLEAN])
         /\ Len(locks') \in 0..MaxLocks /\ Len(locks) <= Len(locks')
<1> DEFINE R == [area : Existing', primary : BOOLEAN, live : BOOLEAN]
<1> USE WiringBounds
<1>0. ASSUME NEW t \in Seq(R), NEW l
      PROVE  OnlyPrimary(t, l) \in Seq(R) /\ Len(OnlyPrimary(t, l)) = Len(t)
  <2>1. ASSUME NEW k \in DOMAIN t
        PROVE  OnlyPrimary(t, l)[k] \in R
    <3>1. t[k] \in R
      BY <2>1, ElementOf
    <3>2. OnlyPrimary(t, l)[k] =
            [area |-> t[k].area, primary |-> Flag(t, l, k), live |-> t[k].live]
      BY <3>1, OnlyPrimaryRow
    <3>3. Flag(t, l, k) \in BOOLEAN
      BY <3>1 DEF Flag
    <3> QED
      BY <3>1, <3>2, <3>3
  <2> HIDE DEF R
  <2>2. DOMAIN t = 1..Len(t) /\ Len(t) \in Nat
    BY ElementOf
  <2> QED
    BY <2>1, <2>2, IsSeq, OnlyPrimaryDomain
<1>1. locks \in Seq(LockRow) /\ Len(locks) \in 0..MaxLocks /\ Existing \subseteq Existing'
  BY Tables, AreasStep
<1>2. \A l \in DOMAIN locks : locks[l] \in R
  <2>1. \A l \in DOMAIN locks : locks[l] \in LockRow
    BY <1>1, ElementOf
  <2> QED
    BY <1>1, <2>1 DEF LockRow
<1>3. locks \in Seq(R)
  BY <1>1, <1>2, SeqOfMore, Zenon
<1>4. ASSUME NEW a \in Area, NEW rs, NEW ls, AreaSave(a, rs, ls)
      PROVE  locks' \in Seq(R) /\ Len(locks') = Len(locks)
  <2>1. a \in Existing'
    BY <1>4, Tables DEF AreaSave, Existing
  <2>2. ASSUME NEW l \in DOMAIN locks
        PROVE  locks'[l] \in R
    <3>1. PICK b \in {locks[l].area, a} :
            locks'[l] = [area |-> b, primary |-> locks[l].primary, live |-> locks[l].live]
      BY <1>4, <2>2, AssignedLocks
    <3> QED
      BY <1>2, <2>1, <2>2, <3>1
  <2>3. /\ DOMAIN locks' = 1..Len(locks) /\ Len(locks) \in Nat
        /\ locks' = [l \in DOMAIN locks' |-> locks'[l]]
    BY <1>1, <1>4, AssignedLocks
  <2> HIDE DEF R
  <2>4. \A l \in 1..Len(locks) : locks'[l] \in R
    BY <1>1, <2>2
  <2> QED
    BY <2>3, <2>4, IsSeq
<1>5. ASSUME NEW a, NEW p \in BOOLEAN, LockStore(a, p)
      PROVE  locks' \in Seq(R) /\ Len(locks') = Len(locks) + 1 /\ Len(locks) < MaxLocks
  <2>1. PICK row \in R : row = [area |-> a, primary |-> p, live |-> TRUE]
    BY <1>1, <1>5 DEF LockStore
  <2>2. locks' = OnlyPrimary(Append(locks, row), Len(locks) + 1) /\ Len(locks) < MaxLocks
    BY <1>5, <2>1, Zenon DEF LockStore
  <2>3. Append(locks, row) \in Seq(R) /\ Len(Append(locks, row)) = Len(locks) + 1
    <3> HIDE DEF R
    <3> QED
      BY <1>3
  <2> QED
    BY <1>0, <2>2, <2>3, Zenon
<1>6. ASSUME NEW l \in DOMAIN locks, NEW a, NEW p \in BOOLEAN, LockUpdate(l, a, p)
      PROVE  locks' \in Seq(R) /\ Len(locks') = Len(locks)
  <2>1. PICK row \in R : row = [area |-> a, primary |-> p, live |-> TRUE]
    BY <1>1, <1>6 DEF LockUpdate
  <2>2. locks' = OnlyPrimary([locks EXCEPT ![l] = row], l)
    BY <1>6, <2>1, Zenon DEF LockUpdate
  <2>3. [locks EXCEPT ![l] = row] \in Seq(R) /\ Len([locks EXCEPT ![l] = row]) = Len(locks)
    <3> HIDE DEF R
    <3> QED
      BY <1>3
  <2> QED
    BY <1>0, <2>2, <2>3, Zenon
<1>7. ASSUME NEW l \in DOMAIN locks, LockDestroy(l)
      PROVE  locks' \in Seq(R) /\ Len(locks') = Len(locks)
  <2>1. locks' = [locks EXCEPT ![l] = [locks[l] EXCEPT !.live = FALSE]]
    BY <1>7, Zenon DEF LockDestroy
  <2>2. PICK row \in R : row = [locks[l] EXCEPT !.live = FALSE]
    <3>1. [locks[l] EXCEPT !.live = FALSE] =
            [area |-> locks[l].area, primary |-> locks[l].primary, live |-> FALSE]
      BY <1>2, LockDeleted
    <3>2. [area |-> locks[l].area, primary |-> locks[l].primary, live |-> FALSE] \in R
      BY <1>2
    <3> QED
      BY <3>1, <3>2, Zenon
  <2> HIDE DEF R
  <2>3. locks' = [locks EXCEPT ![l] = row]
    BY <2>1, <2>2, Zenon
  <2> QED
    BY <1>3, <2>3
<1>8. locks' \in Seq(R)
      /\ (Len(locks') = Len(locks) \/ (Len(locks') = Len(locks) + 1 /\ Len(locks) < MaxLocks))
  <2> HIDE DEF R
  <2>1. CASE UNCHANGED locks
    BY <1>3, <2>1
  <2> QED
    BY <1>4, <1>5, <1>6, <1>7, <2>1
       DEF Next, AreaDestroy, ReaderStore, ReaderUpdate, ReaderDestroy, AddBinding,
           RemoveBinding, ToggleEnabled, vars
<1> QED
  BY <1>1, <1>8

LEMMA BindingsStep ==
  ASSUME TypeOK, OneBindingEach, [Next]_vars
  PROVE  /\ bindings' \in Seq([reader : DOMAIN readers', lock : DOMAIN locks',
                               enabled : BOOLEAN, live : BOOLEAN])
         /\ OneBindingEach'
<1> DEFINE R == [reader : DOMAIN readers', lock : DOMAIN locks',
                 enabled : BOOLEAN, live : BOOLEAN]
           Keys(row, old) == row \in R /\ row.reader = old.reader /\ row.lock = old.lock
<1> SUFFICES bindings' \in Seq(R) /\ OneBindingEach'
  OBVIOUS
<1>1. bindings \in Seq(BindingRow)
  BY Tables
<1>2. DOMAIN readers \subseteq DOMAIN readers' /\ DOMAIN locks \subseteq DOMAIN locks'
  <2>1. /\ DOMAIN readers = 1..Len(readers) /\ DOMAIN locks = 1..Len(locks)
        /\ Len(readers) \in Nat /\ Len(locks) \in Nat
    BY Tables, ElementOf
  <2>2. /\ DOMAIN readers' = 1..Len(readers') /\ DOMAIN locks' = 1..Len(locks')
        /\ Len(readers') \in Nat /\ Len(locks') \in Nat
    BY ReadersStep, LocksStep, ElementOf
  <2> QED
    BY <2>1, <2>2, ReadersStep, LocksStep
<1>3. \A b \in DOMAIN bindings : bindings[b] \in R
  <2>1. \A b \in DOMAIN bindings : bindings[b] \in BindingRow
    BY <1>1, ElementOf
  <2> QED
    BY <1>2, <2>1 DEF BindingRow
<1>4. bindings \in Seq(R)
  BY <1>1, <1>3, SeqOfMore, Zenon
<1>5. ASSUME NEW b \in DOMAIN bindings, NEW row, Keys(row, bindings[b]),
             bindings' = [bindings EXCEPT ![b] = row]
      PROVE  bindings' \in Seq(R) /\ OneBindingEach'
  <2>1. row \in R /\ row.reader = bindings[b].reader /\ row.lock = bindings[b].lock
    BY <1>5
  <2> HIDE DEF R
  <2>2. bindings' \in Seq(R) /\ DOMAIN bindings' = DOMAIN bindings
    BY <1>4, <1>5, <2>1
  <2>3. \A c \in DOMAIN bindings :
          bindings'[c].reader = bindings[c].reader /\ bindings'[c].lock = bindings[c].lock
    BY <1>4, <1>5, <2>1
  <2> QED
    BY <2>2, <2>3 DEF OneBindingEach
<1>6. ASSUME NEW b \in DOMAIN bindings, RemoveBinding(b)
      PROVE  \E row : Keys(row, bindings[b]) /\ bindings' = [bindings EXCEPT ![b] = row]
  <2>1. bindings' = [bindings EXCEPT ![b] = [bindings[b] EXCEPT !.live = FALSE]]
    BY <1>6, Zenon DEF RemoveBinding
  <2>2. [bindings[b] EXCEPT !.live = FALSE] =
          [reader |-> bindings[b].reader, lock |-> bindings[b].lock,
           enabled |-> bindings[b].enabled, live |-> FALSE]
    BY <1>3, BindingDeleted
  <2>3. Keys([reader |-> bindings[b].reader, lock |-> bindings[b].lock,
              enabled |-> bindings[b].enabled, live |-> FALSE], bindings[b])
    BY <1>3
  <2> QED
    BY <2>1, <2>2, <2>3, Zenon
<1>7. ASSUME NEW b \in DOMAIN bindings, ToggleEnabled(b)
      PROVE  \E row : Keys(row, bindings[b]) /\ bindings' = [bindings EXCEPT ![b] = row]
  <2>1. bindings' = [bindings EXCEPT ![b] = [bindings[b] EXCEPT !.enabled = ~bindings[b].enabled]]
    BY <1>7, Zenon DEF ToggleEnabled
  <2>2. PICK e \in BOOLEAN : e = ~bindings[b].enabled
    OBVIOUS
  <2>3. [bindings[b] EXCEPT !.enabled = e] =
          [reader |-> bindings[b].reader, lock |-> bindings[b].lock,
           enabled |-> e, live |-> bindings[b].live]
    BY <1>3, BindingToggled
  <2>4. Keys([reader |-> bindings[b].reader, lock |-> bindings[b].lock,
              enabled |-> e, live |-> bindings[b].live], bindings[b])
    BY <1>3
  <2> QED
    BY <2>1, <2>2, <2>3, <2>4, Zenon
<1>8. ASSUME NEW r \in DOMAIN readers, NEW l \in DOMAIN locks, AddBinding(r, l)
      PROVE  bindings' \in Seq(R) /\ OneBindingEach'
  <2>1. PICK row \in R : row = [reader |-> r, lock |-> l, enabled |-> TRUE, live |-> TRUE]
    BY <1>2
  <2>2. bindings' = Append(bindings, row) /\ row.reader = r /\ row.lock = l
    BY <1>8, <2>1 DEF AddBinding
  <2> HIDE DEF R
  <2>3. /\ bindings' \in Seq(R) /\ DOMAIN bindings' = DOMAIN bindings \cup {Len(bindings) + 1}
        /\ bindings'[Len(bindings) + 1] = row
        /\ \A b \in DOMAIN bindings : bindings'[b] = bindings[b]
    BY <1>4, <2>2
  <2>4. \A b \in DOMAIN bindings : ~(bindings[b].reader = r /\ bindings[b].lock = l)
    BY <1>8 DEF AddBinding, IndexAllows
  <2> QED
    BY <2>2, <2>3, <2>4 DEF OneBindingEach
<1>9. CASE UNCHANGED bindings
  BY <1>4, <1>9 DEF OneBindingEach
<1> HIDE DEF R, Keys
<1>10. ASSUME NEW b \in DOMAIN bindings, RemoveBinding(b) \/ ToggleEnabled(b)
       PROVE  bindings' \in Seq(R) /\ OneBindingEach'
  BY <1>5, <1>6, <1>7, <1>10
<1> QED
  BY <1>8, <1>9, <1>10
     DEF Next, AreaSave, AreaDestroy, LockStore, LockUpdate, LockDestroy, ReaderStore,
         ReaderUpdate, ReaderDestroy, vars

LEMMA TypeStep ==
  ASSUME TypeOK, OneBindingEach, [Next]_vars
  PROVE  TypeOK' /\ OneBindingEach'
<1> USE WiringBounds
<1> DEFINE R == [reader : DOMAIN readers', lock : DOMAIN locks',
                 enabled : BOOLEAN, live : BOOLEAN]
<1>1. areas' \in [Area -> {"absent", "live", "deleted"}]
  BY AreasStep
<1>2. readers' \in BoundedSeq([area : Existing', live : BOOLEAN], MaxReaders)
  BY ReadersStep, Bounded
<1>3. locks' \in BoundedSeq([area : Existing', primary : BOOLEAN, live : BOOLEAN], MaxLocks)
  BY LocksStep, Bounded
<1>4. bindings' \in Seq(R) /\ OneBindingEach'
  BY BindingsStep
<1>5. /\ DOMAIN readers' = 1..Len(readers') /\ DOMAIN locks' = 1..Len(locks')
      /\ Len(readers') \in 0..MaxReaders /\ Len(locks') \in 0..MaxLocks
  BY ReadersStep, LocksStep, ElementOf
<1>6. DOMAIN bindings' = 1..Len(bindings') /\ Len(bindings') \in Nat
  <2> HIDE DEF R
  <2> QED
    BY <1>4, ElementOf
<1>7. ASSUME NEW b \in 1..Len(bindings')
      PROVE  bindings'[b].reader \in 1..MaxReaders /\ bindings'[b].lock \in 1..MaxLocks
  <2>1. bindings'[b] \in R
    <3> HIDE DEF R
    <3> QED
      BY <1>4, <1>6, ElementOf
  <2> QED
    BY <1>5, <2>1
<1>8. Len(bindings') <= MaxReaders * MaxLocks
  BY <1>4, <1>6, <1>7, PairsBounded DEF OneBindingEach
<1>9. MaxReaders * MaxLocks \in Nat /\ Len(bindings') \in 0..(MaxReaders * MaxLocks)
  BY <1>6, <1>8
<1>10. bindings' \in BoundedSeq(R, MaxReaders * MaxLocks)
  <2> HIDE DEF R
  <2> QED
    BY <1>4, <1>9, Bounded
<1>11. requests' \in 0..MaxRequests
  <2>1. ASSUME NEW page, Request(page)
        PROVE  requests' \in 0..MaxRequests
    BY <2>1, Tables DEF Request
  <2>2. CASE UNCHANGED vars
    BY <2>2, Tables DEF vars
  <2>3. ASSUME NEW a \in Area, NEW rs, NEW ls, AreaSave(a, rs, ls)
        PROVE  Request("area")
    BY <2>3, Zenon DEF AreaSave
  <2> QED
    BY <2>1, <2>2, <2>3
       DEF Next, AreaDestroy, LockStore, LockUpdate, LockDestroy, ReaderStore, ReaderUpdate,
           ReaderDestroy, AddBinding, RemoveBinding, ToggleEnabled
<1> QED
  BY <1>1, <1>2, <1>3, <1>4, <1>10, <1>11 DEF TypeOK

LEMMA InitIInv ==
  ASSUME Init
  PROVE  IInv
<1>1. ASSUME NEW S, NEW n \in Nat
      PROVE  << >> \in BoundedSeq(S, n)
  <2>1. << >> \in Seq(S) /\ Len(<< >>) \in 0..n
    OBVIOUS
  <2> QED
    BY <2>1, Bounded
<1>2. MaxReaders * MaxLocks \in Nat
  BY WiringBounds
<1>3. areas \in [Area -> {"absent", "live", "deleted"}] /\ requests \in 0..MaxRequests
  BY WiringBounds DEF Init
<1>4. TypeOK
  BY <1>1, <1>2, <1>3, WiringBounds DEF Init, TypeOK
<1>5. OneBindingEach
  BY DEF Init, OneBindingEach
<1> QED
  BY <1>4, <1>5 DEF IInv

\* The inductive invariant: the types, and the unique index of reader_lock_bindings.
THEOREM IInvHolds == Spec => []IInv
<1>1. Init => IInv
  BY InitIInv
<1>2. IInv /\ [Next]_vars => IInv'
  BY TypeStep DEF IInv
<1> QED
  BY <1>1, <1>2, PTL DEF Spec

\* Rows only name areas, readers and locks that exist, and bindings stay within the
\* pairs of the unique index (the reader, lock, area and binding pages).
THEOREM TypeCorrect == Spec => []TypeOK
<1>1. IInv => TypeOK
  BY DEF IInv
<1> QED
  BY <1>1, IInvHolds, PTL

-----------------------------------------------------------------------------
(***************************************************************************)
(* What the queries make of a wiring.                                      *)
(***************************************************************************)

\* The resolver's query of enabled bindings, said of the table.
LEMMA EnabledAre ==
  ASSUME NEW r
  PROVE  T!EnabledLocks(r) =
           {bindings[b].lock : b \in {b \in LiveIds(bindings) :
                                        bindings[b].reader = r /\ bindings[b].enabled}}
BY DEF T!EnabledLocks, T!LocksOf, T!BoundTo

LEMMA TargetsAre ==
  ASSUME NEW r
  PROVE  T!targetLocks(r) =
           LiveIds(locks) \cap {bindings[b].lock : b \in {b \in LiveIds(bindings) :
                                                            bindings[b].reader = r}}
BY DEF T!targetLocks, T!LocksOf, T!BoundTo

LEMMA PrimaryIsLive ==
  ASSUME NEW a
  PROVE  T!primaryLock(a) \subseteq LiveIds(locks)
BY DEF T!primaryLock, T!Lowest

LEMMA NamedAreStored == EventsNameStoredLocks
<1> SUFFICES ASSUME NEW r \in LiveIds(readers)
             PROVE  EventLocks(r) = T!storedLocks(r)
  BY DEF EventsNameStoredLocks
<1>1. r \in DOMAIN readers
  BY DEF LiveIds
<1> DEFINE enabled == {b \in LiveIds(bindings) : bindings[b].reader = r /\ bindings[b].enabled}
<1>2. T!EnabledLocks(r) = {bindings[b].lock : b \in enabled}
  BY EnabledAre
<1>3. enabled # {} <=> T!EnabledLocks(r) # {}
  BY <1>2
<1>4. EventLocks(r) = IF enabled # {} THEN T!EnabledLocks(r) \cap LiveIds(locks)
                      ELSE T!primaryLock(readers[r].area)
  BY <1>2 DEF EventLocks
<1>5. T!RoomLockIds(r) = IF T!EnabledLocks(r) # {} THEN T!EnabledLocks(r)
                         ELSE T!primaryLock(readers[r].area)
  BY <1>1 DEF T!RoomLockIds
<1> HIDE DEF enabled
<1>6. T!storedLocks(r) = T!RoomLockIds(r) \cap LiveIds(locks)
  BY DEF T!storedLocks
<1> QED
  BY <1>3, <1>4, <1>5, <1>6, PrimaryIsLive

LEMMA StoredArePublished == StoredIsPublished
<1> SUFFICES ASSUME NEW r \in LiveIds(readers),
                    T!EnabledLocks(r) # {} \/ T!targetLocks(r) = {}
             PROVE  T!storedLocks(r) \subseteq T!publishedLocks(r)
  BY DEF StoredIsPublished
<1>1. T!EnabledLocks(r) \cap LiveIds(locks) \subseteq T!targetLocks(r)
  BY EnabledAre, TargetsAre
<1>2. T!storedLocks(r) = T!RoomLockIds(r) \cap LiveIds(locks)
  BY DEF T!storedLocks
<1>3. CASE T!EnabledLocks(r) # {}
  <2>1. T!RoomLockIds(r) = T!EnabledLocks(r)
    BY <1>3 DEF T!RoomLockIds
  <2>2. T!targetLocks(r) # {} => T!publishedLocks(r) = T!targetLocks(r)
    BY DEF T!publishedLocks
  <2> QED
    BY <1>1, <1>2, <2>1, <2>2
<1>4. CASE T!EnabledLocks(r) = {} /\ T!targetLocks(r) = {}
  <2>1. T!RoomLockIds(r) = T!publishedLocks(r)
    BY <1>4 DEF T!RoomLockIds, T!publishedLocks
  <2> QED
    BY <1>2, <2>1
<1> QED
  BY <1>3, <1>4

LEMMA BoundAreReached ==
  ASSUME TypeOK
  PROVE  BoundLockReached
<1> SUFFICES ASSUME NEW l \in LiveIds(locks),
                    NEW b0 \in LiveIds(bindings), bindings[b0].lock = l, bindings[b0].enabled,
                    bindings[b0].reader \in LiveIds(readers)
             PROVE  /\ T!readerForLock(l) # {}
                    /\ \A r \in T!readerForLock(l) : l \in T!RoomLockIds(r)
  BY DEF BoundLockReached
<1> DEFINE bound == {b \in LiveIds(bindings) : /\ bindings[b].lock = l /\ bindings[b].enabled
                                               /\ bindings[b].reader \in LiveIds(readers)}
<1>1. LiveIds(bindings) \subseteq Nat
  BY Tables, ElementOf DEF LiveIds
<1>2. bound # {} /\ bound \subseteq Nat
  BY <1>1
<1>3. bound = {b \in T!BindingsOf(l) : [c \in LiveIds(bindings) |-> bindings[c]][b].enabled
                                       /\ T!OfLiveReader(b)}
  BY DEF T!BindingsOf, T!OfLiveReader
<1>4. T!readerForLock(l) = {bindings[b].reader : b \in T!Lowest(bound)}
  <2>1. T!readerForLock(l) = T!ReadersOf(T!Lowest(bound))
    <3> HIDE DEF bound
    <3> QED
      BY <1>2, <1>3 DEF T!readerForLock
  <2>2. T!Lowest(bound) \subseteq LiveIds(bindings)
    BY DEF T!Lowest
  <2> HIDE DEF bound
  <2> QED
    BY <2>1, <2>2 DEF T!ReadersOf
<1>5. T!Lowest(bound) # {}
  <2> HIDE DEF bound
  <2>1. \E i \in bound : \A k \in bound : i <= k
    BY <1>2, LeastExists
  <2> QED
    BY <2>1 DEF T!Lowest
<1>6. ASSUME NEW b \in T!Lowest(bound)
      PROVE  l \in T!RoomLockIds(bindings[b].reader)
  <2>1. b \in bound
    BY <1>6 DEF T!Lowest
  <2>2. l \in T!EnabledLocks(bindings[b].reader)
    BY <2>1, EnabledAre
  <2> QED
    BY <2>2 DEF T!RoomLockIds
<1> HIDE DEF bound
<1> QED
  BY <1>4, <1>5, <1>6

\* Two classes resolve a reader's locks on their own: the events of an accepted card
\* name the locks whose state its command stores, in every wiring
\* (getTargetLocksForReader, LockStateStore::storeForReader).
THEOREM EventsNameStored == Spec => []EventsNameStoredLocks
<1>1. IInv => EventsNameStoredLocks
  BY NamedAreStored
<1> QED
  BY <1>1, IInvHolds, PTL

\* A command publishes the state of every lock whose state it stored, unless all of the
\* reader's bindings are disabled (publishLocksForReader).
THEOREM StoredPublished == Spec => []StoredIsPublished
<1>1. IInv => StoredIsPublished
  BY StoredArePublished
<1> QED
  BY <1>1, IInvHolds, PTL

\* A webhook command for a lock that an existing reader has enabled is sent through a
\* reader that drives it (HAWebhookController::readerForLock).
THEOREM BoundReached == Spec => []BoundLockReached
<1>1. IInv => BoundLockReached
  BY BoundAreReached DEF IInv
<1> QED
  BY <1>1, IInvHolds, PTL

-----------------------------------------------------------------------------
(***************************************************************************)
(* Primary locks.                                                          *)
(***************************************************************************)

\* Live primary locks of a table other than lock l are of different areas.
Apart(t, l) ==
  \A j, k \in DOMAIN t \ {l} :
    t[j].live /\ t[k].live /\ t[j].primary /\ t[k].primary /\ t[j].area = t[k].area => j = k

\* Then marking lock l leaves one primary lock in each area.
LEMMA MarkingLeavesOne ==
  ASSUME NEW S, NEW t, NEW l \in DOMAIN t,
         \A k \in DOMAIN t : t[k] \in [area : S, primary : BOOLEAN, live : BOOLEAN],
         Apart(t, l),
         locks' = OnlyPrimary(t, l)
  PROVE  OnePrimary'
<1>1. ASSUME NEW k \in DOMAIN t
      PROVE  /\ locks'[k].area = t[k].area /\ locks'[k].live = t[k].live
             /\ locks'[k].primary => Flag(t, l, k)
  <2>1. OnlyPrimary(t, l)[k] =
          [area |-> t[k].area, primary |-> Flag(t, l, k), live |-> t[k].live]
    BY OnlyPrimaryRow
  <2> QED
    BY <2>1
<1>2. DOMAIN locks' = DOMAIN t
  BY OnlyPrimaryDomain
<1>3. \A k \in LiveIds(locks') : k \in DOMAIN t /\ t[k].live
  BY <1>1, <1>2 DEF LiveIds
<1>4. ASSUME NEW j \in LiveIds(locks'), NEW k \in LiveIds(locks'),
             locks'[j].primary, locks'[k].primary, locks'[j].area = locks'[k].area
      PROVE  j = k
  <2>1. /\ t[j].live /\ t[j].primary /\ t[k].live /\ t[k].primary
        /\ t[j].area = t[k].area
        /\ Flag(t, l, j) /\ Flag(t, l, k)
    BY <1>1, <1>3, <1>4 DEF Flag
  <2>2. CASE j # l /\ k # l
    BY <1>3, <2>1, <2>2 DEF Apart
  <2>3. CASE j = l \/ k = l
    BY <2>1, <2>3 DEF Flag
  <2> QED
    BY <2>2, <2>3
<1> QED
  BY <1>4 DEF OnePrimary

LEMMA LockRows ==
  ASSUME TypeOK
  PROVE  /\ \A k \in DOMAIN locks : locks[k] \in [area : Existing, primary : BOOLEAN, live : BOOLEAN]
         /\ DOMAIN locks = 1..Len(locks) /\ Len(locks) \in Nat
<1>1. locks \in Seq(LockRow)
  BY Tables
<1> QED
  BY <1>1, ElementOf DEF LockRow

LEMMA UpdateTakesEffect ==
  ASSUME TypeOK, NEW l \in DOMAIN locks, NEW a \in Area, LockUpdate(l, a, TRUE),
         areas[a] = "live",
         NEW r \in LiveIds(readers), readers[r].area = a, T!EnabledLocks(r) = {}
  PROVE  T!RoomLockIds(r)' = {l}
<1> DEFINE row == [area |-> a, primary |-> TRUE, live |-> TRUE]
           t == [locks EXCEPT ![l] = row]
<1>1. locks' = OnlyPrimary(t, l) /\ UNCHANGED <<areas, readers, bindings>> /\ a \in Existing
  BY DEF LockUpdate
<1>2. /\ DOMAIN t = DOMAIN locks /\ t[l] = row
      /\ \A k \in DOMAIN locks : t[k] \in [area : Existing, primary : BOOLEAN, live : BOOLEAN]
  BY <1>1, LockRows
<1> HIDE DEF t
<1>3. /\ t[l].area = a /\ t[l].primary /\ t[l].live
  BY <1>2
<1>4. /\ DOMAIN locks' = DOMAIN locks
      /\ \A k \in DOMAIN locks :
           locks'[k] = [area |-> t[k].area, primary |-> Flag(t, l, k), live |-> t[k].live]
  BY <1>1, <1>2, OnlyPrimaryRow, OnlyPrimaryDomain
<1>5. ASSUME NEW k \in DOMAIN locks
      PROVE  locks'[k].live /\ locks'[k].primary /\ locks'[k].area = a <=> k = l
  <2>1. /\ locks'[k].area = t[k].area /\ locks'[k].live = t[k].live
        /\ locks'[k].primary = Flag(t, l, k)
    BY <1>4
  <2>2. Flag(t, l, l)
    BY <1>3 DEF Flag
  <2>3. k # l /\ t[k].live /\ t[k].area = a => ~Flag(t, l, k)
    BY <1>3 DEF Flag
  <2> QED
    BY <1>3, <2>1, <2>2, <2>3
<1>6. {k \in LiveIds(locks) \cap {k \in DOMAIN locks : locks[k].primary} :
         [i \in DOMAIN locks |-> locks[i].area][k] = a
         /\ a \in {b \in Area : areas[b] = "live"}}' = {l}
  BY <1>1, <1>4, <1>5 DEF LiveIds
<1>7. l <= l
  BY LockRows
<1>8. T!primaryLock(a)' = {l}
  BY <1>6, <1>7 DEF T!primaryLock, T!Lowest
<1>9. T!EnabledLocks(r)' = {}
  BY <1>1 DEF T!EnabledLocks, T!LocksOf, T!BoundTo, LiveIds
<1>10. [i \in DOMAIN readers |-> readers[i].area]'[r] = a
  BY <1>1 DEF LiveIds
<1> QED
  BY <1>8, <1>9, <1>10 DEF T!RoomLockIds

LEMMA PrimaryKept ==
  ASSUME TypeOK, OnePrimary, Next,
         ~\E a \in Area, rs \in SUBSET DOMAIN readers, ls \in SUBSET DOMAIN locks :
            AreaSave(a, rs, ls)
  PROVE  OnePrimary'
<1>1. ASSUME NEW a \in Area, NEW p \in BOOLEAN, LockStore(a, p)
      PROVE  OnePrimary'
  <2> DEFINE row == [area |-> a, primary |-> p, live |-> TRUE]
             t == Append(locks, row)
             l == Len(locks) + 1
  <2>1. locks' = OnlyPrimary(t, l) /\ a \in Existing
    BY <1>1 DEF LockStore
  <2>2. locks \in Seq(LockRow) /\ row \in LockRow
    BY <2>1, Tables DEF LockRow
  <2>3. /\ DOMAIN t = DOMAIN locks \cup {l} /\ l \notin DOMAIN locks
        /\ \A k \in DOMAIN t : t[k] \in LockRow
        /\ \A k \in DOMAIN t \ {l} : k \in DOMAIN locks /\ t[k] = locks[k]
    BY <2>2
  <2>4. Apart(t, l)
    BY <2>3 DEF Apart, OnePrimary, LiveIds
  <2>5. \A k \in DOMAIN t : t[k] \in [area : Existing, primary : BOOLEAN, live : BOOLEAN]
    BY <2>3 DEF LockRow
  <2> HIDE DEF t, l
  <2> QED
    BY <2>1, <2>3, <2>4, <2>5, MarkingLeavesOne
<1>2. ASSUME NEW l \in DOMAIN locks, NEW a \in Area, NEW p \in BOOLEAN, LockUpdate(l, a, p)
      PROVE  OnePrimary'
  <2> DEFINE row == [area |-> a, primary |-> p, live |-> TRUE]
             t == [locks EXCEPT ![l] = row]
  <2>1. locks' = OnlyPrimary(t, l) /\ a \in Existing
    BY <1>2 DEF LockUpdate
  <2>2. /\ DOMAIN t = DOMAIN locks
        /\ \A k \in DOMAIN t : t[k] \in [area : Existing, primary : BOOLEAN, live : BOOLEAN]
        /\ \A k \in DOMAIN t \ {l} : t[k] = locks[k]
    BY <2>1, LockRows
  <2>3. Apart(t, l)
    BY <2>2 DEF Apart, OnePrimary, LiveIds
  <2> HIDE DEF t
  <2> QED
    BY <2>1, <2>2, <2>3, MarkingLeavesOne
<1>3. ASSUME NEW l \in DOMAIN locks, LockDestroy(l)
      PROVE  OnePrimary'
  <2>1. locks' = [locks EXCEPT ![l] = [locks[l] EXCEPT !.live = FALSE]]
    BY <1>3, Zenon DEF LockDestroy
  <2>2. PICK row : row = [locks[l] EXCEPT !.live = FALSE]
    BY Zenon
  <2>3. ~row.live
    BY <2>2, LockRows, LockDeleted
  <2>4. locks' = [locks EXCEPT ![l] = row]
    BY <2>1, <2>2, Zenon
  <2>5. \A k \in LiveIds(locks') : k \in LiveIds(locks) /\ locks'[k] = locks[k]
    BY <2>3, <2>4, LockRows DEF LiveIds
  <2> QED
    BY <2>5 DEF OnePrimary
<1>4. CASE UNCHANGED locks
  BY <1>4 DEF OnePrimary, LiveIds
<1> QED
  BY <1>1, <1>2, <1>3, <1>4
     DEF Next, AreaDestroy, ReaderStore, ReaderUpdate, ReaderDestroy, AddBinding,
         RemoveBinding, ToggleEnabled

\* Saving a lock as primary takes effect at once for every reader of its area without
\* enabled bindings (AccessLockController::update, unsetOtherPrimaryLocks).
THEOREM PrimaryTakes == Spec => PrimaryTakesEffect
<1>1. ASSUME TypeOK, NEW l \in 1..MaxLocks, NEW a \in Area,
             l \in DOMAIN locks, LockUpdate(l, a, TRUE), areas[a] = "live",
             NEW r \in LiveIds(readers), readers[r].area = a, T!EnabledLocks(r) = {}
      PROVE  T!RoomLockIds(r)' = {l}
  BY <1>1, UpdateTakesEffect
<1>2. IInv =>
        \A l \in 1..MaxLocks, a \in Area :
          l \in DOMAIN locks /\ LockUpdate(l, a, TRUE) /\ areas[a] = "live" =>
            \A r \in LiveIds(readers) : readers[r].area = a /\ T!EnabledLocks(r) = {} =>
              T!RoomLockIds(r)' = {l}
  BY <1>1, Zenon DEF IInv
<1> QED
  BY <1>2, IInvHolds, PTL DEF PrimaryTakesEffect

\* The lock forms keep the primary lock of an area unique; only the area form can bring
\* two together (unsetOtherPrimaryLocks; AccessAreaController::update).
THEOREM PrimaryIsKept == Spec => OnePrimaryKept
<1>1. IInv /\ [Next]_vars /\ OnePrimary =>
        \/ OnePrimary'
        \/ \E a \in Area, rs \in SUBSET DOMAIN readers, ls \in SUBSET DOMAIN locks :
             AreaSave(a, rs, ls)
  <2>1. CASE UNCHANGED vars
    BY <2>1 DEF vars, OnePrimary, LiveIds
  <2> QED
    BY <2>1, PrimaryKept DEF IInv
<1> QED
  BY <1>1, IInvHolds, PTL DEF Spec, OnePrimaryKept
=============================================================================
