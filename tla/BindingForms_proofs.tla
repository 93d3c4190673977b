------------------------- MODULE BindingForms_proofs -------------------------
(***************************************************************************)
(* Proofs about BindingForms for any keys, values, sessions and bounds.    *)
(* The loop over the posted lines is a recursive function; what it does is *)
(* shown by induction over the lines, in the form that a set of numbers    *)
(* has a least element.                                                    *)
(***************************************************************************)
EXTENDS BindingForms, WellFoundedInduction, TLAPS

-----------------------------------------------------------------------------
(***************************************************************************)
(* Numbers and sequences.                                                  *)
(***************************************************************************)

\* A set of natural numbers that is not empty has a least element.
LEMMA LeastExists ==
  ASSUME NEW S \in SUBSET Nat, S # {}
  PROVE  \E i \in S : \A k \in S : i <= k
<1>1. \E i \in S : \A k \in S : ~(<<k, i>> \in OpToRel(<, Nat))
  BY WFMin, NatLessThanWellFounded, Zenon
<1>2. ASSUME NEW i \in S, NEW k \in S, ~(<<k, i>> \in OpToRel(<, Nat))
      PROVE  ~(k < i)
  <2>1. <<k, i>> \in Nat \X Nat /\ <<k, i>>[1] = k /\ <<k, i>>[2] = i
    OBVIOUS
  <2> QED BY <1>2, <2>1 DEF OpToRel
<1>3. \A i, k \in S : ~(k < i) => i <= k
  OBVIOUS
<1> QED BY <1>1, <1>2, <1>3

\* Induction up to a bound: what holds of 0 and of n + 1 when it holds of n holds of m.
LEMMA ReachesBound ==
  ASSUME NEW m \in Nat, NEW S \in SUBSET (0..m), 0 \in S,
         \A n \in S : n < m => n + 1 \in S
  PROVE  S = 0..m
<1> SUFFICES ASSUME S # 0..m PROVE FALSE
  OBVIOUS
<1>1. (0..m) \ S \in SUBSET Nat /\ (0..m) \ S # {}
  <2>1. \E x \in 0..m : x \notin S
    OBVIOUS
  <2>2. \A x \in 0..m : x \in Nat
    OBVIOUS
  <2> QED BY <2>1, <2>2
<1>2. PICK i \in (0..m) \ S : \A k \in (0..m) \ S : i <= k
  BY <1>1, LeastExists
<1>3. i \in 1..m /\ i - 1 \in 0..m /\ i - 1 < m /\ ~(i <= i - 1)
  BY <1>2
<1>4. i - 1 \in S
  BY <1>2, <1>3
<1>5. (i - 1) + 1 = i
  BY <1>3
<1> QED BY <1>2, <1>3, <1>4, <1>5

\* A bounded set of natural numbers that is not empty has a greatest element.
LEMMA GreatestExists ==
  ASSUME NEW m \in Nat, NEW S \in SUBSET (1..m), S # {}
  PROVE  \E i \in S : \A k \in S : k <= i
<1> DEFINE D == {n \in 0..m : \E i \in S : n = m - i}
<1>1. PICK x : x \in S
  OBVIOUS
<1>2. m - x \in D
  BY <1>1
<1>3. D \in SUBSET Nat /\ D # {}
  BY <1>2
<1>4. PICK n \in D : \A k \in D : n <= k
  <2> HIDE DEF D
  <2> QED BY <1>3, LeastExists
<1>5. PICK i \in S : n = m - i
  BY <1>4
<1>6. ASSUME NEW k \in S PROVE k <= i
  <2>1. m - k \in D
    OBVIOUS
  <2>2. m - i <= m - k
    BY <1>4, <1>5, <2>1
  <2> QED BY <2>2
<1> QED BY <1>6

LEMMA Bounded ==
  ASSUME NEW S, NEW n \in Nat, NEW t
  PROVE  t \in BoundedSeq(S, n) <=> t \in Seq(S) /\ Len(t) \in 0..n
<1>1. ASSUME t \in BoundedSeq(S, n)
      PROVE  t \in Seq(S) /\ Len(t) \in 0..n
  <2>1. PICK m \in 0..n : t \in [1..m -> S]
    BY <1>1 DEF BoundedSeq, SeqOf
  <2> QED BY <2>1
<1>2. ASSUME t \in Seq(S), Len(t) \in 0..n
      PROVE  t \in BoundedSeq(S, n)
  <2>1. t \in [1..Len(t) -> S]
    BY <1>2
  <2> QED BY <2>1, <1>2 DEF BoundedSeq, SeqOf
<1> QED BY <1>1, <1>2

LEMMA ElementOf ==
  ASSUME NEW S, NEW t \in Seq(S)
  PROVE  DOMAIN t = 1..Len(t) /\ Len(t) \in Nat /\ \A i \in 1..Len(t) : t[i] \in S
OBVIOUS

-----------------------------------------------------------------------------
(***************************************************************************)
(* The loop.                                                               *)
(***************************************************************************)

\* The row a line is stored in: a new one, or the latest with the line's key.
LEMMA RowForIs ==
  ASSUME NEW t \in Seq(Row), NEW line \in Line
  PROVE  /\ RowFor(t, line) \in 1..(Len(t) + 1)
         /\ RowFor(t, line) = Len(t) + 1 => \A i \in 1..Len(t) : t[i].key # line.key
         /\ RowFor(t, line) <= Len(t) =>
              /\ t[RowFor(t, line)].key = line.key
              /\ \A k \in 1..Len(t) : k > RowFor(t, line) => t[k].key # line.key
<1> DEFINE same == {i \in DOMAIN t : t[i].key = line.key}
<1>1. Len(t) \in Nat /\ DOMAIN t = 1..Len(t)
  OBVIOUS
<1>2. CASE same = {}
  <2>1. RowFor(t, line) = Len(t) + 1
    BY <1>2 DEF RowFor
  <2> QED BY <1>1, <1>2, <2>1
<1>3. CASE same # {}
  <2>1. \E i \in same : \A k \in same : k <= i
    <3>1. same \in SUBSET (1..Len(t))
      BY <1>1
    <3> HIDE DEF same
    <3> QED BY <1>1, <1>3, <3>1, GreatestExists
  <2>2. RowFor(t, line) = CHOOSE i \in same : \A k \in same : k <= i
    BY <1>3 DEF RowFor
  <2>3. RowFor(t, line) \in same /\ \A k \in same : k <= RowFor(t, line)
    <3> HIDE DEF same
    <3> QED BY <2>1, <2>2
  <2> QED BY <1>1, <2>3
<1> QED BY <1>2, <1>3

\* What the loop has done to the table t0 after the first n lines of a form.
Turned(t0, form, n, work) ==
  /\ work.table \in Seq(Row)
  /\ Len(t0) <= Len(work.table)
  /\ work.active \subseteq 1..Len(work.table)
  /\ \A i \in 1..Len(t0) : work.table[i].key = t0[i].key
  /\ \A i \in 1..Len(t0) : i \notin work.active => work.table[i] = t0[i]
  /\ \A i \in 1..Len(work.table) : i > Len(t0) => i \in work.active
  /\ \A i \in 1..Len(work.table) : i > Len(t0) =>
       \A k \in 1..Len(t0) : t0[k].key # work.table[i].key
  /\ \A i \in work.active : work.table[i].live = TRUE /\ work.table[i].extra = Plain
  /\ \A i \in work.active : \A k \in 1..Len(work.table) :
       k > i => work.table[k].key # work.table[i].key
  /\ \A i \in work.active : \E m \in 1..n :
       /\ form[m].key = work.table[i].key /\ form[m].value = work.table[i].value
       /\ \A k \in 1..n : k > m => form[k].key # form[m].key
  /\ \A m \in 1..n : \E i \in work.active : work.table[i].key = form[m].key

Begun(t0) == [table |-> t0, active |-> {}]

LEMMA BeginTurned ==
  ASSUME NEW t0 \in Seq(Row), NEW form \in Seq(Line)
  PROVE  Turned(t0, form, 0, Begun(t0))
  BY DEF Turned, Begun

\* One turn of the loop on a row that is there: nothing but that row changes.
LEMMA TurnFound ==
  ASSUME NEW t0 \in Seq(Row), NEW form \in Seq(Line), NEW n \in Nat, n + 1 <= Len(form),
         NEW work, Turned(t0, form, n, work),
         NEW j \in 1..Len(work.table), work.table[j].key = form[n + 1].key,
         \A k \in 1..Len(work.table) : k > j => work.table[k].key # form[n + 1].key,
         NEW w, w.table = [work.table EXCEPT ![j] = AsLive(form[n + 1])], w.active = work.active \cup {j}
  PROVE  Turned(t0, form, n + 1, w)
<1> DEFINE line == form[n + 1]
           t == work.table
           active == work.active
           u == w.table
           a == w.active
<1>1. /\ t \in Seq(Row) /\ Len(t) \in Nat /\ DOMAIN t = 1..Len(t)
      /\ Len(t0) \in Nat /\ Len(t0) <= Len(t) /\ line \in Line /\ active \subseteq 1..Len(t)
  BY ElementOf DEF Turned
<1>2. AsLive(line) \in Row /\ AsLive(line).key = line.key /\ AsLive(line).value = line.value
      /\ AsLive(line).live = TRUE /\ AsLive(line).extra = Plain
  BY <1>1, BindingBounds DEF AsLive, Binding, Line, Row
<1>3. u \in Seq(Row) /\ Len(u) = Len(t)
  BY <1>1, <1>2
<1>4. u[j] = AsLive(line) /\ \A i \in 1..Len(t) : i # j => u[i] = t[i]
  BY <1>1
<1>5. \A i \in 1..Len(t) : u[i].key = t[i].key
  BY <1>2, <1>4
<1>6. a \subseteq 1..Len(u)
  BY <1>1, <1>3
<1>7. \A i \in a : u[i].live = TRUE /\ u[i].extra = Plain
  <2>1. \A i \in active : t[i].live = TRUE /\ t[i].extra = Plain
    BY DEF Turned
  <2> QED BY <1>1, <1>2, <1>4, <2>1
<1>8. \A i \in a : \A k \in 1..Len(u) : k > i => u[k].key # u[i].key
  <2> SUFFICES ASSUME NEW i \in a, NEW k \in 1..Len(u), k > i PROVE u[k].key # u[i].key
    OBVIOUS
  <2>1. u[k].key = t[k].key /\ u[i].key = t[i].key /\ k \in 1..Len(t)
    BY <1>3, <1>5, <1>6
  <2>2. CASE i = j
    BY <2>1, <2>2
  <2>3. CASE i # j
    BY <2>1, <2>3 DEF Turned
  <2> QED BY <2>2, <2>3
<1>9. \A i \in a : \E m \in 1..(n + 1) :
        /\ form[m].key = u[i].key /\ form[m].value = u[i].value
        /\ \A k \in 1..(n + 1) : k > m => form[k].key # form[m].key
  <2> SUFFICES ASSUME NEW i \in a
               PROVE  \E m \in 1..(n + 1) :
                        /\ form[m].key = u[i].key /\ form[m].value = u[i].value
                        /\ \A k \in 1..(n + 1) : k > m => form[k].key # form[m].key
    OBVIOUS
  <2>1. CASE i = j
    <3>1. form[n + 1].key = u[i].key /\ form[n + 1].value = u[i].value
      BY <1>2, <1>4, <2>1
    <3>2. \A k \in 1..(n + 1) : ~(k > n + 1)
      OBVIOUS
    <3> QED BY <3>1, <3>2
  <2>2. CASE i # j
    <3>1. i \in active /\ i \in 1..Len(t)
      BY <1>1, <2>2
    <3>2. PICK m \in 1..n : /\ form[m].key = t[i].key /\ form[m].value = t[i].value
                            /\ \A k \in 1..n : k > m => form[k].key # form[m].key
      BY <3>1 DEF Turned
    <3>3. t[i].key # line.key
      <4>1. CASE i > j
        BY <3>1, <4>1
      <4>2. CASE j > i
        BY <3>1, <4>2, SMTT(30) DEF Turned
      <4> QED BY <1>1, <2>2, <3>1, <4>1, <4>2
    <3>4. \A k \in 1..(n + 1) : k > m => form[k].key # form[m].key
      <4>1. \A k \in 1..(n + 1) : k \in 1..n \/ k = n + 1
        OBVIOUS
      <4> QED BY <3>2, <3>3, <4>1
    <3>5. m \in 1..(n + 1) /\ u[i] = t[i]
      BY <1>4, <2>2, <3>1
    <3> QED BY <3>2, <3>4, <3>5
  <2> QED BY <2>1, <2>2
<1>10. \A m \in 1..(n + 1) : \E i \in a : u[i].key = form[m].key
  <2> SUFFICES ASSUME NEW m \in 1..(n + 1) PROVE \E i \in a : u[i].key = form[m].key
    OBVIOUS
  <2>1. CASE m = n + 1
    BY <1>2, <1>4, <2>1
  <2>2. CASE m # n + 1
    <3>1. m \in 1..n
      BY <2>2
    <3>2. PICK i \in active : t[i].key = form[m].key
      BY <3>1 DEF Turned
    <3> QED BY <1>1, <1>5, <3>2
  <2> QED BY <2>1, <2>2
<1>11. \A i \in 1..Len(t0) : u[i].key = t0[i].key
  <2>1. \A i \in 1..Len(t0) : t[i].key = t0[i].key /\ i \in 1..Len(t)
    BY <1>1 DEF Turned
  <2> QED BY <1>5, <2>1
<1>12. \A i \in 1..Len(t0) : i \notin a => u[i] = t0[i]
  <2>1. \A i \in 1..Len(t0) : i \notin active => t[i] = t0[i] /\ i \in 1..Len(t)
    BY <1>1 DEF Turned
  <2> QED BY <1>4, <2>1
<1>13. \A i \in 1..Len(u) : i > Len(t0) => i \in a
  BY <1>3 DEF Turned
<1>14. \A i \in 1..Len(u) : i > Len(t0) => \A k \in 1..Len(t0) : t0[k].key # u[i].key
  <2>1. \A i \in 1..Len(t) : i > Len(t0) => \A k \in 1..Len(t0) : t0[k].key # t[i].key
    BY DEF Turned
  <2> QED BY <1>3, <1>5, <2>1
<1> QED BY <1>1, <1>3, <1>6, <1>7, <1>8, <1>9, <1>10, <1>11, <1>12, <1>13, <1>14, Zenon DEF Turned

\* One turn of the loop on a line whose key no row has: a row is added.
LEMMA TurnNew ==
  ASSUME NEW t0 \in Seq(Row), NEW form \in Seq(Line), NEW n \in Nat, n + 1 <= Len(form),
         NEW work, Turned(t0, form, n, work),
         \A k \in 1..Len(work.table) : work.table[k].key # form[n + 1].key,
         NEW w, w.table = Append(work.table, AsLive(form[n + 1])),
         w.active = work.active \cup {Len(work.table) + 1}
  PROVE  Turned(t0, form, n + 1, w)
<1> DEFINE line == form[n + 1]
           t == work.table
           active == work.active
           u == w.table
           a == w.active
<1>1. /\ t \in Seq(Row) /\ Len(t) \in Nat /\ DOMAIN t = 1..Len(t)
      /\ Len(t0) \in Nat /\ Len(t0) <= Len(t) /\ line \in Line /\ active \subseteq 1..Len(t)
  BY ElementOf DEF Turned
<1>2. AsLive(line) \in Row /\ AsLive(line).key = line.key /\ AsLive(line).value = line.value
      /\ AsLive(line).live = TRUE /\ AsLive(line).extra = Plain
  BY <1>1, BindingBounds DEF AsLive, Binding, Line, Row
<1> DEFINE j == Len(t) + 1
<1>3. u \in Seq(Row) /\ Len(u) = j
  BY <1>1, <1>2
<1>4. u[j] = AsLive(line) /\ \A i \in 1..Len(t) : u[i] = t[i]
  BY <1>1
<1>5. j \in Nat /\ ~(\E k \in 1..j : k > j) /\ \A i \in 1..j : i = j \/ i \in 1..Len(t)
  BY <1>1
<1>6. j \in a /\ \A i \in a : i = j \/ i \in active
  OBVIOUS
<1> HIDE DEF j
<1>7. a \subseteq 1..Len(u)
  BY <1>1, <1>3, <1>5, <1>6 DEF j
<1>8. \A i \in a : u[i].live = TRUE /\ u[i].extra = Plain
  <2>1. \A i \in active : t[i].live = TRUE /\ t[i].extra = Plain
    BY DEF Turned
  <2> QED BY <1>1, <1>2, <1>4, <1>6, <2>1
<1>9. \A i \in a : \A k \in 1..Len(u) : k > i => u[k].key # u[i].key
  <2> SUFFICES ASSUME NEW i \in a, NEW k \in 1..Len(u), k > i PROVE u[k].key # u[i].key
    OBVIOUS
  <2>1. i \in active /\ i \in 1..Len(t) /\ u[i] = t[i]
    BY <1>1, <1>3, <1>4, <1>5, <1>6
  <2>2. CASE k = j
    BY <1>2, <1>4, <2>1, <2>2
  <2>3. CASE k \in 1..Len(t)
    <3>1. u[k] = t[k]
      BY <1>4, <2>3
    <3>2. t[k].key # t[i].key
      BY <2>1, <2>3 DEF Turned
    <3> QED BY <2>1, <3>1, <3>2
  <2> QED BY <1>3, <1>5, <2>2, <2>3
<1>10. \A i \in a : \E m \in 1..(n + 1) :
         /\ form[m].key = u[i].key /\ form[m].value = u[i].value
         /\ \A k \in 1..(n + 1) : k > m => form[k].key # form[m].key
  <2> SUFFICES ASSUME NEW i \in a
               PROVE  \E m \in 1..(n + 1) :
                        /\ form[m].key = u[i].key /\ form[m].value = u[i].value
                        /\ \A k \in 1..(n + 1) : k > m => form[k].key # form[m].key
    OBVIOUS
  <2>1. CASE i = j
    <3>1. form[n + 1].key = u[i].key /\ form[n + 1].value = u[i].value
      BY <1>2, <1>4, <2>1
    <3>2. \A k \in 1..(n + 1) : k > n + 1 => form[k].key # form[n + 1].key
      OBVIOUS
    <3>3. n + 1 \in 1..(n + 1)
      OBVIOUS
    <3> QED BY <3>1, <3>2, <3>3
  <2>2. CASE i \in active
    <3>1. i \in 1..Len(t)
      BY <1>1, <2>2
    <3>2. PICK m \in 1..n : /\ form[m].key = t[i].key /\ form[m].value = t[i].value
                            /\ \A k \in 1..n : k > m => form[k].key # form[m].key
      BY <2>2 DEF Turned
    <3>3. \A k \in 1..(n + 1) : k > m => form[k].key # form[m].key
      <4>1. \A k \in 1..(n + 1) : k \in 1..n \/ k = n + 1
        OBVIOUS
      <4>2. form[n + 1].key # form[m].key
        BY <3>1, <3>2
      <4> QED BY <3>2, <4>1, <4>2
    <3>4. m \in 1..(n + 1) /\ u[i] = t[i]
      BY <1>4, <3>1
    <3> QED BY <3>2, <3>3, <3>4
  <2> QED BY <1>6, <2>1, <2>2
<1>11. \A m \in 1..(n + 1) : \E i \in a : u[i].key = form[m].key
  <2> SUFFICES ASSUME NEW m \in 1..(n + 1) PROVE \E i \in a : u[i].key = form[m].key
    OBVIOUS
  <2>1. CASE m = n + 1
    BY <1>2, <1>4, <1>6, <2>1
  <2>2. CASE m # n + 1
    <3>1. m \in 1..n
      BY <2>2
    <3>2. PICK i \in active : t[i].key = form[m].key
      BY <3>1 DEF Turned
    <3> QED BY <1>1, <1>4, <3>2
  <2> QED BY <2>1, <2>2
<1>12. \A i \in 1..Len(t0) : u[i].key = t0[i].key
  <2>1. \A i \in 1..Len(t0) : t[i].key = t0[i].key /\ i \in 1..Len(t)
    BY <1>1 DEF Turned
  <2> QED BY <1>4, <2>1
<1>13. \A i \in 1..Len(t0) : i \notin a => u[i] = t0[i]
  <2>1. \A i \in 1..Len(t0) : i \notin active => t[i] = t0[i] /\ i \in 1..Len(t)
    BY <1>1 DEF Turned
  <2> QED BY <1>4, <2>1
<1>14. \A i \in 1..Len(u) : i > Len(t0) => i \in a
  <2>1. \A i \in 1..Len(t) : i > Len(t0) => i \in active
    BY DEF Turned
  <2> QED BY <1>3, <1>5, <1>6, <2>1
<1>15. Len(t0) <= Len(u)
  BY <1>1, <1>3 DEF j
<1>16. \A i \in 1..Len(u) : i > Len(t0) => \A k \in 1..Len(t0) : t0[k].key # u[i].key
  <2> SUFFICES ASSUME NEW i \in 1..Len(u), i > Len(t0), NEW k \in 1..Len(t0)
               PROVE  t0[k].key # u[i].key
    OBVIOUS
  <2>1. CASE i = j
    <3>1. k \in 1..Len(t) /\ t[k].key = t0[k].key
      BY <1>1 DEF Turned
    <3> QED BY <1>2, <1>4, <2>1, <3>1
  <2>2. CASE i \in 1..Len(t)
    BY <1>4, <2>2 DEF Turned
  <2> QED BY <1>3, <1>5, <2>1, <2>2
<1> QED BY <1>3, <1>7, <1>8, <1>9, <1>10, <1>11, <1>12, <1>13, <1>14, <1>15, <1>16, Zenon DEF Turned

\* One turn of the loop.
LEMMA TurnOne ==
  ASSUME NEW t0 \in Seq(Row), NEW form \in Seq(Line), NEW n \in Nat, n + 1 <= Len(form),
         NEW work, Turned(t0, form, n, work)
  PROVE  Turned(t0, form, n + 1, Store(work, form[n + 1]))
<1> DEFINE line == form[n + 1]
           j == RowFor(work.table, line)
           w == Store(work, line)
<1>1. work.table \in Seq(Row) /\ Len(work.table) \in Nat /\ line \in Line
  BY ElementOf DEF Turned
<1>2. /\ j \in 1..(Len(work.table) + 1)
      /\ j = Len(work.table) + 1 => \A i \in 1..Len(work.table) : work.table[i].key # line.key
      /\ j <= Len(work.table) =>
           /\ work.table[j].key = line.key
           /\ \A k \in 1..Len(work.table) : k > j => work.table[k].key # line.key
  BY <1>1, RowForIs
<1>3. /\ w.active = work.active \cup {j}
      /\ w.table = IF j > Len(work.table) THEN Append(work.table, AsLive(line))
                   ELSE [work.table EXCEPT ![j] = AsLive(line)]
  BY DEF Store
<1> HIDE DEF j, w
<1>4. CASE j = Len(work.table) + 1
  <2>1. w.table = Append(work.table, AsLive(line))
    BY <1>1, <1>3, <1>4
  <2>2. \A k \in 1..Len(work.table) : work.table[k].key # form[n + 1].key
    BY <1>2, <1>4
  <2>3. Turned(t0, form, n + 1, w)
    BY <1>3, <1>4, <2>1, <2>2, TurnNew
  <2> QED BY <2>3 DEF w
<1>5. CASE j # Len(work.table) + 1
  <2>1. j \in 1..Len(work.table) /\ ~(j > Len(work.table)) /\ j <= Len(work.table)
    BY <1>1, <1>2, <1>5
  <2>2. w.table = [work.table EXCEPT ![j] = AsLive(line)]
    BY <1>3, <2>1
  <2>3. Turned(t0, form, n + 1, w)
    BY <1>2, <1>3, <2>1, <2>2, TurnFound
  <2> QED BY <2>3 DEF w
<1> QED BY <1>4, <1>5

\* The recursive function by which the loop is defined exists.
LEMMA LoopExists ==
  ASSUME NEW t0, NEW form, Len(form) \in Nat
  PROVE  \E after : after = [n \in 0..Len(form) |->
                               IF n = 0 THEN Begun(t0) ELSE Store(after[n - 1], form[n])]
<1> DEFINE Loop(m, f) ==
             f = [n \in 0..m |-> IF n = 0 THEN Begun(t0) ELSE Store(f[n - 1], form[n])]
           S == {m \in 0..Len(form) : \E f : Loop(m, f)}
<1>1. 0 \in S
  <2> DEFINE f == [n \in 0..0 |-> Begun(t0)]
  <2>1. \A n \in 0..0 : n = 0
    OBVIOUS
  <2>2. Loop(0, f)
    BY <2>1
  <2> HIDE DEF f
  <2>3. \E h : Loop(0, h)
    BY <2>2
  <2> QED BY <2>3
<1>2. ASSUME NEW m \in S, m < Len(form) PROVE m + 1 \in S
  <2>1. PICK f : Loop(m, f)
    OBVIOUS
  <2>2. /\ m \in Nat
        /\ \A n \in 0..m : f[n] = IF n = 0 THEN Begun(t0) ELSE Store(f[n - 1], form[n])
    BY <2>1
  <2> DEFINE g == [n \in 0..(m + 1) |-> IF n = m + 1 THEN Store(f[m], form[m + 1]) ELSE f[n]]
  <2>3. \A n \in 0..(m + 1) : g[n] = IF n = 0 THEN Begun(t0) ELSE Store(g[n - 1], form[n])
    <3> SUFFICES ASSUME NEW n \in 0..(m + 1)
                 PROVE  g[n] = IF n = 0 THEN Begun(t0) ELSE Store(g[n - 1], form[n])
      OBVIOUS
    <3>1. CASE n = m + 1
      <4>1. n # 0 /\ n - 1 = m /\ m \in 0..(m + 1) /\ m # m + 1
        BY <2>2, <3>1
      <4>2. g[n] = Store(f[m], form[m + 1]) /\ g[n - 1] = f[m]
        BY <3>1, <4>1
      <4> QED BY <3>1, <4>1, <4>2
    <3>2. CASE n # m + 1 /\ n # 0
      <4>1. n \in 0..m /\ n - 1 \in 0..(m + 1) /\ n - 1 # m + 1
        BY <2>2, <3>2
      <4>2. g[n] = f[n] /\ g[n - 1] = f[n - 1]
        BY <3>2, <4>1
      <4> QED BY <2>2, <3>2, <4>1, <4>2
    <3>3. CASE n = 0
      <4>1. n \in 0..m /\ n # m + 1
        BY <2>2, <3>3
      <4> QED BY <2>2, <3>3, <4>1
    <3> QED BY <3>1, <3>2, <3>3
  <2>4. g = [n \in 0..(m + 1) |-> g[n]]
    OBVIOUS
  <2> HIDE DEF g
  <2>5. Loop(m + 1, g)
    BY <2>3, <2>4
  <2> QED BY <1>2, <2>5
<1>3. Len(form) \in S
  <2>1. S \in SUBSET (0..Len(form)) /\ \A m \in S : m < Len(form) => m + 1 \in S
    BY <1>2
  <2> HIDE DEF S
  <2>2. S = 0..Len(form)
    BY <1>1, <2>1, ReachesBound
  <2> QED BY <2>2
<1> QED BY <1>3

\* What the loop has done when it ends.
LEMMA LoopDoes ==
  ASSUME NEW t0 \in Seq(Row), NEW form \in Seq(Line)
  PROVE  Turned(t0, form, Len(form), Stored(t0, form))
<1>1. Len(form) \in Nat
  OBVIOUS
<1> DEFINE F == CHOOSE after : after = [n \in 0..Len(form) |->
                   IF n = 0 THEN Begun(t0) ELSE Store(after[n - 1], form[n])]
<1>2. F = [n \in 0..Len(form) |-> IF n = 0 THEN Begun(t0) ELSE Store(F[n - 1], form[n])]
  BY <1>1, LoopExists
<1>3. Stored(t0, form) = F[Len(form)]
  BY DEF Stored, Begun
<1> HIDE DEF F
<1> DEFINE S == {n \in 0..Len(form) : Turned(t0, form, n, F[n])}
<1>4. 0 \in S
  <2>1. F[0] = Begun(t0)
    BY <1>1, <1>2
  <2> QED BY <1>1, <2>1, BeginTurned
<1>5. ASSUME NEW n \in S, n < Len(form) PROVE n + 1 \in S
  <2>1. n \in Nat /\ n + 1 <= Len(form) /\ n + 1 \in 0..Len(form) /\ n + 1 # 0 /\ (n + 1) - 1 = n
    BY <1>1, <1>5
  <2>2. F[n + 1] = Store(F[n], form[n + 1])
    BY <1>2, <2>1
  <2>3. Turned(t0, form, n + 1, F[n + 1])
    BY <2>1, <2>2, TurnOne
  <2> QED BY <2>1, <2>3
<1>6. S = 0..Len(form)
  <2>1. S \in SUBSET (0..Len(form)) /\ \A n \in S : n < Len(form) => n + 1 \in S
    BY <1>5
  <2> HIDE DEF S
  <2> QED BY <1>1, <1>4, <2>1, ReachesBound
<1>7. Len(form) \in S
  BY <1>1, <1>6
<1> QED BY <1>3, <1>7

-----------------------------------------------------------------------------
(***************************************************************************)
(* What a form's transaction makes of the rows.                            *)
(***************************************************************************)

LEMMA WithoutDoes ==
  ASSUME NEW t \in Seq(Row), NEW ids
  PROVE  /\ Without(t, ids) \in Seq(Row) /\ Len(Without(t, ids)) = Len(t)
         /\ \A i \in 1..Len(t) : i \notin ids => Without(t, ids)[i] = t[i]
         /\ \A i \in 1..Len(t) : /\ Without(t, ids)[i].key = t[i].key
                                 /\ Without(t, ids)[i].value = t[i].value
                                 /\ i \in ids => Without(t, ids)[i].live = FALSE
<1>1. Len(t) \in Nat /\ DOMAIN t = 1..Len(t) /\ \A i \in 1..Len(t) : t[i] \in Row
  BY ElementOf
<1>2. \A i \in 1..Len(t) : /\ AsDeleted(t[i]) \in Row
                           /\ AsDeleted(t[i]).key = t[i].key
                           /\ AsDeleted(t[i]).value = t[i].value
                           /\ AsDeleted(t[i]).live = FALSE
  BY <1>1 DEF AsDeleted, Row
<1>3. \A i \in 1..Len(t) : Without(t, ids)[i] = IF i \in ids THEN AsDeleted(t[i]) ELSE t[i]
  BY <1>1 DEF Without
<1>4. Without(t, ids) \in [1..Len(t) -> Row]
  BY <1>1, <1>2 DEF Without
<1>5. Without(t, ids) \in Seq(Row) /\ Len(Without(t, ids)) = Len(t)
  BY <1>1, <1>4
<1> QED BY <1>2, <1>3, <1>5

\* A form's transaction, row by row.
LEMMA SyncDoes ==
  ASSUME rows \in Seq(Row), NEW form \in Seq(Line), NEW loaded
  PROVE  LET work == Stored(rows, form)
             u == SyncedRows(form, loaded)
         IN  /\ Turned(rows, form, Len(form), work)
             /\ u \in Seq(Row) /\ Len(u) = Len(work.table) /\ Len(rows) <= Len(u)
             /\ work.active \subseteq 1..Len(u)
             /\ \A i \in 1..Len(u) : u[i].key = work.table[i].key /\ u[i].value = work.table[i].value
             /\ \A i \in 1..Len(u) : i \notin loaded \/ i \in work.active => u[i] = work.table[i]
             /\ \A i \in 1..Len(u) : i \in loaded /\ i \notin work.active => u[i].live = FALSE
<1> DEFINE work == Stored(rows, form)
           u == SyncedRows(form, loaded)
<1>1. Turned(rows, form, Len(form), work)
  BY LoopDoes
<1>2. /\ work.table \in Seq(Row) /\ work.active \subseteq 1..Len(work.table)
      /\ Len(rows) <= Len(work.table)
  BY <1>1 DEF Turned
<1>3. u = Without(work.table, loaded \ work.active)
  BY DEF SyncedRows
<1> HIDE DEF work, u
<1>4. /\ u \in Seq(Row) /\ Len(u) = Len(work.table)
      /\ \A i \in 1..Len(u) : i \notin loaded \ work.active => u[i] = work.table[i]
      /\ \A i \in 1..Len(u) : /\ u[i].key = work.table[i].key
                              /\ u[i].value = work.table[i].value
                              /\ i \in loaded \ work.active => u[i].live = FALSE
  <2> DEFINE t == work.table
             ids == loaded \ work.active
  <2>1. t \in Seq(Row) /\ u = Without(t, ids)
    BY <1>2, <1>3
  <2> HIDE DEF t, ids
  <2>2. /\ u \in Seq(Row) /\ Len(u) = Len(t)
        /\ \A i \in 1..Len(t) : i \notin ids => u[i] = t[i]
        /\ \A i \in 1..Len(t) : /\ u[i].key = t[i].key /\ u[i].value = t[i].value
                                /\ i \in ids => u[i].live = FALSE
    <3>1. /\ Without(t, ids) \in Seq(Row) /\ Len(Without(t, ids)) = Len(t)
          /\ \A i \in 1..Len(t) : i \notin ids => Without(t, ids)[i] = t[i]
          /\ \A i \in 1..Len(t) : /\ Without(t, ids)[i].key = t[i].key
                                  /\ Without(t, ids)[i].value = t[i].value
                                  /\ i \in ids => Without(t, ids)[i].live = FALSE
      BY <2>1, WithoutDoes, Zenon
    <3> QED BY <2>1, <3>1, Zenon
  <2> QED BY <2>2 DEF t, ids
<1>5. /\ Turned(rows, form, Len(form), work)
      /\ u \in Seq(Row) /\ Len(u) = Len(work.table) /\ Len(rows) <= Len(u)
      /\ work.active \subseteq 1..Len(u)
      /\ \A i \in 1..Len(u) : u[i].key = work.table[i].key /\ u[i].value = work.table[i].value
      /\ \A i \in 1..Len(u) : i \notin loaded \/ i \in work.active => u[i] = work.table[i]
      /\ \A i \in 1..Len(u) : i \in loaded /\ i \notin work.active => u[i].live = FALSE
  BY <1>1, <1>2, <1>4
<1> QED BY <1>5 DEF work, u

\* With no other edit in between, the live rows are the ones the loop stored.
LEMMA SyncLives ==
  ASSUME rows \in Seq(Row), NEW form \in Seq(Line)
  PROVE  LiveIds(SyncedRows(form, LiveIds(rows))) = Stored(rows, form).active
<1> DEFINE work == Stored(rows, form)
           u == SyncedRows(form, LiveIds(rows))
<1>1. /\ Turned(rows, form, Len(form), work)
      /\ u \in Seq(Row) /\ Len(u) = Len(work.table) /\ Len(rows) <= Len(u)
      /\ work.active \subseteq 1..Len(u)
      /\ \A i \in 1..Len(u) : i \notin LiveIds(rows) \/ i \in work.active => u[i] = work.table[i]
      /\ \A i \in 1..Len(u) : i \in LiveIds(rows) /\ i \notin work.active => u[i].live = FALSE
  BY SyncDoes
<1> HIDE DEF work, u
<1>2. DOMAIN u = 1..Len(u) /\ DOMAIN rows = 1..Len(rows) /\ Len(u) \in Nat /\ Len(rows) \in Nat
  BY <1>1
<1>3. ASSUME NEW i \in work.active PROVE i \in LiveIds(u)
  <2>1. i \in 1..Len(u) /\ u[i] = work.table[i] /\ work.table[i].live = TRUE
    BY <1>1, <1>3 DEF Turned
  <2> QED BY <1>2, <2>1 DEF LiveIds
<1>4. ASSUME NEW i \in LiveIds(u), i \notin work.active PROVE FALSE
  <2>1. i \in 1..Len(u) /\ u[i].live
    BY <1>2 DEF LiveIds
  <2>2. i \notin LiveIds(rows)
    BY <1>1, <1>4, <2>1
  <2>3. i \in 1..Len(rows) /\ work.table[i] = rows[i]
    <3>1. i \in 1..Len(work.table) /\ ~(i > Len(rows))
      BY <1>1, <1>4, <2>1 DEF Turned
    <3>2. i \in 1..Len(rows)
      BY <1>1, <1>2, <3>1
    <3> QED BY <1>1, <1>4, <3>2 DEF Turned
  <2>4. u[i] = rows[i]
    BY <1>1, <2>1, <2>2, <2>3
  <2> QED BY <1>2, <2>1, <2>2, <2>3, <2>4 DEF LiveIds
<1> QED BY <1>3, <1>4 DEF work, u

\* The rows the loop stored hold what the form asks for.
LEMMA LoopShows ==
  ASSUME NEW t0 \in Seq(Row), NEW form \in Seq(Line), NEW work, Turned(t0, form, Len(form), work)
  PROVE  {[key |-> work.table[i].key, value |-> work.table[i].value] : i \in work.active} = Asked(form)
<1> DEFINE L(i) == [key |-> work.table[i].key, value |-> work.table[i].value]
<1>1. Len(form) \in Nat /\ DOMAIN form = 1..Len(form) /\ \A m \in 1..Len(form) : form[m] \in Line
  BY ElementOf
<1>2. \A m \in 1..Len(form) : form[m] = [key |-> form[m].key, value |-> form[m].value]
  BY <1>1 DEF Line
<1>3. ASSUME NEW i \in work.active PROVE L(i) \in Asked(form)
  <2>1. PICK m \in 1..Len(form) :
          /\ form[m].key = work.table[i].key /\ form[m].value = work.table[i].value
          /\ \A k \in 1..Len(form) : k > m => form[k].key # form[m].key
    BY <1>3 DEF Turned
  <2>2. form[m] = L(i)
    BY <1>2, <2>1
  <2>3. form[m] \in Asked(form)
    BY <1>1, <2>1 DEF Asked
  <2> QED BY <2>2, <2>3
<1>4. ASSUME NEW line \in Asked(form) PROVE \E i \in work.active : line = L(i)
  <2>1. PICK m \in 1..Len(form) :
          /\ line = form[m] /\ \A k \in 1..Len(form) : k > m => form[k].key # form[m].key
    BY <1>1, <1>4 DEF Asked
  <2>2. PICK i \in work.active : work.table[i].key = form[m].key
    BY DEF Turned
  <2>3. PICK p \in 1..Len(form) :
          /\ form[p].key = work.table[i].key /\ form[p].value = work.table[i].value
          /\ \A k \in 1..Len(form) : k > p => form[k].key # form[p].key
    BY DEF Turned
  <2>4. p = m
    <3>1. ~(p > m) /\ ~(m > p)
      BY <2>1, <2>2, <2>3
    <3> QED BY <3>1
  <2> QED BY <1>2, <2>1, <2>2, <2>3, <2>4
<1> HIDE DEF L
<1>5. {L(i) : i \in work.active} = Asked(form)
  BY <1>3, <1>4
<1> QED BY <1>5 DEF L

-----------------------------------------------------------------------------
(***************************************************************************)
(* Types.                                                                  *)
(***************************************************************************)

LEMMA RowTypes ==
  ASSUME TypeOK
  PROVE  /\ rows \in Seq(Row) /\ Len(rows) \in 0..MaxRows /\ DOMAIN rows = 1..Len(rows)
         /\ MaxRows \in Nat
<1>1. MaxRows \in Nat /\ rows \in BoundedSeq(Row, MaxRows)
  BY BindingBounds DEF TypeOK
<1> QED BY <1>1, Bounded

LEMMA FormTypes ==
  ASSUME NEW form \in Form
  PROVE  form \in Seq(Line)
<1>1. MaxListed \in Nat /\ form \in BoundedSeq(Line, MaxListed)
  BY BindingBounds DEF Form
<1> QED BY <1>1, Bounded

\* A step leaves the types alone when it leaves a longer table of rows.
LEMMA TypesKept ==
  ASSUME TypeOK, rows' \in Seq(Row), Len(rows) <= Len(rows'), Len(rows') <= MaxRows,
         posted' \in [Session -> Form \cup {NoForm}],
         existing' \in [Session -> SUBSET (1..MaxRows)],
         \A s \in Session : existing'[s] \subseteq DOMAIN rows,
         posts' \in 0..MaxPosts, edits' \in 0..MaxEdits
  PROVE  TypeOK'
<1>1. rows' \in BoundedSeq(Row, MaxRows)
  <2>1. Len(rows') \in 0..MaxRows /\ MaxRows \in Nat
    BY RowTypes
  <2> QED BY <2>1, Bounded
<1>2. DOMAIN rows \subseteq DOMAIN rows'
  BY RowTypes
<1> QED BY <1>1, <1>2 DEF TypeOK

LEMMA PostTypes ==
  ASSUME TypeOK, NEW s \in Session, NEW form \in Form, Post(s, form)
  PROVE  TypeOK'
<1>1. LiveIds(rows) \subseteq DOMAIN rows /\ DOMAIN rows \subseteq 1..MaxRows
  BY RowTypes DEF LiveIds
<1>2. rows' = rows /\ edits' = edits
  BY DEF Post
<1>3. posts' \in 0..MaxPosts
  BY BindingBounds DEF Post, TypeOK
<1>4. /\ posted' \in [Session -> Form \cup {NoForm}]
      /\ existing' \in [Session -> SUBSET (1..MaxRows)]
      /\ \A q \in Session : existing'[q] \subseteq DOMAIN rows
  BY <1>1 DEF Post, TypeOK
<1>5. edits' \in 0..MaxEdits
  BY <1>2 DEF TypeOK
<1> QED BY <1>2, <1>3, <1>4, <1>5, RowTypes, TypesKept

LEMMA SyncTypes ==
  ASSUME TypeOK, NEW s \in Session, Sync(s)
  PROVE  TypeOK'
<1>1. posted[s] \in Form /\ existing[s] \subseteq DOMAIN rows
  BY DEF Sync, TypeOK
<1>2. rows' \in Seq(Row) /\ Len(rows) <= Len(rows')
  BY <1>1, FormTypes, RowTypes, SyncDoes DEF Sync
<1>3. /\ posted' \in [Session -> Form \cup {NoForm}]
      /\ existing' \in [Session -> SUBSET (1..MaxRows)]
      /\ \A q \in Session : existing'[q] \subseteq DOMAIN rows
  BY DEF Sync, TypeOK
<1>4. posts' \in 0..MaxPosts /\ edits' \in 0..MaxEdits /\ Len(rows') <= MaxRows
  BY DEF Sync, TypeOK
<1> QED BY <1>2, <1>3, <1>4, TypesKept

LEMMA EditTypes ==
  ASSUME TypeOK, NEW table \in Seq(Row), Len(rows) <= Len(table), Len(table) <= MaxRows,
         Edit(table)
  PROVE  TypeOK'
<1>1. rows' = table /\ UNCHANGED <<posted, existing, posts>>
  BY DEF Edit
<1>2. edits' \in 0..MaxEdits
  BY BindingBounds DEF Edit, TypeOK
<1>3. /\ posted' \in [Session -> Form \cup {NoForm}]
      /\ existing' \in [Session -> SUBSET (1..MaxRows)]
      /\ \A q \in Session : existing'[q] \subseteq DOMAIN rows
      /\ posts' \in 0..MaxPosts
  BY <1>1 DEF TypeOK
<1> QED BY <1>1, <1>2, <1>3, TypesKept

LEMMA PageTypes ==
  ASSUME TypeOK, NEW k \in Key, NEW v \in Value, NEW e \in Extra,
         \/ BindingStore(Binding(k, v, e))
         \/ \E i \in LiveIds(rows) : BindingUpdate(i, Binding(k, v, e))
  PROVE  TypeOK'
<1> DEFINE row == Binding(k, v, e)
<1>1. row \in Row
  BY DEF Binding, Row
<1>2. rows \in Seq(Row) /\ Len(rows) \in Nat /\ MaxRows \in Nat /\ Len(rows) <= MaxRows
      /\ DOMAIN rows = 1..Len(rows)
  BY RowTypes
<1> HIDE DEF row
<1>3. CASE BindingStore(row)
  <2>1. Append(rows, row) \in Seq(Row) /\ Len(Append(rows, row)) = Len(rows) + 1
    BY <1>1, <1>2
  <2>2. Len(rows) < MaxRows /\ Edit(Append(rows, row))
    BY <1>3 DEF BindingStore
  <2>3. Len(rows) <= Len(rows) + 1 /\ Len(rows) + 1 <= MaxRows
    BY <1>2, <2>2
  <2> QED BY <2>1, <2>2, <2>3, EditTypes
<1>4. CASE \E i \in LiveIds(rows) : BindingUpdate(i, row)
  <2>1. PICK i \in LiveIds(rows) : Edit([rows EXCEPT ![i] = row])
    BY <1>4 DEF BindingUpdate
  <2> DEFINE table == [rows EXCEPT ![i] = row]
  <2>2. table \in Seq(Row) /\ Len(table) = Len(rows)
    <3>1. i \in 1..Len(rows)
      BY <1>2 DEF LiveIds
    <3> QED BY <1>1, <1>2, <3>1
  <2>3. Edit(table) /\ Len(rows) <= Len(rows)
    BY <1>2, <2>1
  <2> HIDE DEF table
  <2> QED BY <1>2, <2>2, <2>3, EditTypes
<1> QED BY <1>3, <1>4 DEF row

\* Through posts that overlap and edits of single rows, the table keeps its bound, forms
\* hold lines, and what a post has loaded are rows of the table
\* (syncBindings, syncLockBindings, AccessAdapterBindingController).
THEOREM TypeCorrect == Spec => []TypeOK
<1>1. Init => TypeOK
  <2> SUFFICES ASSUME Init PROVE TypeOK
    OBVIOUS
  <2>1. MaxRows \in Nat /\ <<>> \in Seq(Row) /\ Len(<<>>) \in 0..MaxRows
    BY BindingBounds
  <2>2. rows \in BoundedSeq(Row, MaxRows)
    BY <2>1, Bounded DEF Init
  <2> QED BY <2>2, BindingBounds DEF Init, TypeOK
<1>2. TypeOK /\ [Next]_vars => TypeOK'
  <2> SUFFICES ASSUME TypeOK, [Next]_vars PROVE TypeOK'
    OBVIOUS
  <2>1. CASE \E s \in Session : \E form \in Form : Post(s, form)
    BY <2>1, PostTypes
  <2>2. CASE \E s \in Session : Sync(s)
    BY <2>2, SyncTypes
  <2>3. CASE \E k \in Key, v \in Value, e \in Extra :
               \/ BindingStore(Binding(k, v, e))
               \/ \E i \in LiveIds(rows) : BindingUpdate(i, Binding(k, v, e))
    BY <2>3, PageTypes
  <2>4. CASE \E i \in LiveIds(rows) : BindingDestroy(i)
    <3>1. PICK i \in LiveIds(rows) : Edit(Without(rows, {i}))
      BY <2>4 DEF BindingDestroy
    <3>2. Without(rows, {i}) \in Seq(Row) /\ Len(Without(rows, {i})) = Len(rows)
      BY RowTypes, WithoutDoes
    <3>3. Len(rows) \in Nat /\ Len(rows) <= MaxRows
      BY RowTypes
    <3> QED BY <3>1, <3>2, <3>3, EditTypes
  <2>5. CASE UNCHANGED vars
    BY <2>5 DEF vars, TypeOK
  <2> QED BY <2>1, <2>2, <2>3, <2>4, <2>5 DEF Next
<1> QED BY <1>1, <1>2, PTL DEF Spec

-----------------------------------------------------------------------------
(***************************************************************************)
(* What a form's save does.                                                *)
(***************************************************************************)

\* A form's save leaves exactly the bindings it lists, one row for each key, for any
\* table with duplicates and deleted rows, unless another edit landed after its load
\* (syncBindings, syncLockBindings).
THEOREM FormIsLeft == Spec => SyncLeavesForm
<1>1. ASSUME TypeOK, NEW s \in Session, Sync(s), existing[s] = LiveIds(rows)
      PROVE  /\ Shown(rows') = Asked(posted[s])
             /\ \A i, k \in LiveIds(rows') : rows'[i].key = rows'[k].key => i = k
  <2> DEFINE form == posted[s]
             work == Stored(rows, form)
  <2>1. rows \in Seq(Row) /\ form \in Seq(Line) /\ rows' = SyncedRows(form, LiveIds(rows))
    BY <1>1, RowTypes, FormTypes DEF Sync, TypeOK
  <2>2. LiveIds(rows') = work.active
    BY <2>1, SyncLives
  <2>3. /\ Turned(rows, form, Len(form), work)
        /\ Len(rows') = Len(work.table) /\ work.active \subseteq 1..Len(rows')
        /\ \A i \in 1..Len(rows') : /\ rows'[i].key = work.table[i].key
                                    /\ rows'[i].value = work.table[i].value
    BY <2>1, SyncDoes
  <2> HIDE DEF work, form
  <2>4. Shown(rows') = {[key |-> work.table[i].key, value |-> work.table[i].value] : i \in work.active}
    BY <2>2, <2>3 DEF Shown
  <2>5. Shown(rows') = Asked(form)
    BY <2>1, <2>3, <2>4, LoopShows
  <2>6. ASSUME NEW i \in work.active, NEW k \in work.active, rows'[i].key = rows'[k].key
        PROVE  i = k
    <3>1. work.table[i].key = work.table[k].key /\ i \in 1..Len(work.table) /\ k \in 1..Len(work.table)
      BY <2>3, <2>6
    <3>2. ~(i > k) /\ ~(k > i)
      BY <2>3, <3>1 DEF Turned
    <3> QED BY <3>1, <3>2
  <2> QED BY <2>2, <2>5, <2>6 DEF form
<1>2. TypeOK => \A s \in Session :
        Sync(s) /\ existing[s] = LiveIds(rows) =>
          /\ Shown(rows') = Asked(posted[s])
          /\ \A i, k \in LiveIds(rows') : rows'[i].key = rows'[k].key => i = k
  BY <1>1
<1> QED BY <1>2, TypeCorrect, PTL DEF SyncLeavesForm

\* A form's save deletes only rows it was loaded with and does not list: a binding that
\* another request has created since stays as it is (syncBindings, syncLockBindings).
THEOREM LaterBindingStays == Spec => LaterBindingSurvives
<1>1. ASSUME TypeOK, NEW s \in Session, Sync(s), NEW i \in LiveIds(rows), i \notin existing[s],
             rows[i].key \notin {line.key : line \in ToSet(posted[s])}
      PROVE  rows'[i] = rows[i]
  <2> DEFINE form == posted[s]
             work == Stored(rows, form)
  <2>1. rows \in Seq(Row) /\ form \in Seq(Line) /\ rows' = SyncedRows(form, existing[s])
    BY <1>1, RowTypes, FormTypes DEF Sync, TypeOK
  <2>2. /\ Turned(rows, form, Len(form), work)
        /\ Len(rows) <= Len(rows')
        /\ \A j \in 1..Len(rows') : j \notin existing[s] \/ j \in work.active => rows'[j] = work.table[j]
    BY <2>1, SyncDoes
  <2> HIDE DEF work
  <2>3. i \in 1..Len(rows) /\ i \in 1..Len(rows')
    <3>1. Len(rows') \in Nat /\ DOMAIN rows = 1..Len(rows) /\ Len(rows) \in Nat
      BY <1>1, <2>1, RowTypes, SyncDoes
    <3> QED BY <2>2, <3>1 DEF LiveIds
  <2>4. i \notin work.active
    <3> SUFFICES ASSUME i \in work.active PROVE FALSE
      OBVIOUS
    <3>1. PICK m \in 1..Len(form) : form[m].key = work.table[i].key
      BY <2>2 DEF Turned
    <3>2. work.table[i].key = rows[i].key
      BY <2>2, <2>3 DEF Turned
    <3>3. form[m] \in ToSet(form)
      BY <2>1, <3>1 DEF ToSet
    <3> QED BY <1>1, <3>1, <3>2, <3>3
  <2>5. work.table[i] = rows[i]
    BY <2>2, <2>3, <2>4 DEF Turned
  <2> QED BY <1>1, <2>2, <2>3, <2>5
<1>2. TypeOK => \A s \in Session : Sync(s) =>
        \A i \in LiveIds(rows) :
          i \notin existing[s] /\ rows[i].key \notin {line.key : line \in ToSet(posted[s])}
            => rows'[i] = rows[i]
  BY <1>1
<1> QED BY <1>2, TypeCorrect, PTL DEF LaterBindingSurvives

\* Saving a form as it was shown, its lines in any order, adds, moves and deletes no row
\* if every live row is the latest with its key; of a live row it changes what no form
\* saves, the periodic settings and the metadata, and nothing else (normalizeBindingRows,
\* syncBindings, syncLockBindings).
THEOREM ResaveClears == Spec => ResaveClearsExtraOnly
<1>1. ASSUME TypeOK, NEW s \in Session, Sync(s), existing[s] = LiveIds(rows),
             ToSet(posted[s]) = Shown(rows),
             \A i \in LiveIds(rows) : \A k \in DOMAIN rows : k > i => rows[k].key # rows[i].key
      PROVE  rows' = Resaved(rows)
  <2> DEFINE form == posted[s]
             work == Stored(rows, form)
             t == work.table
  <2>1. /\ rows \in Seq(Row) /\ form \in Seq(Line) /\ rows' = SyncedRows(form, LiveIds(rows))
        /\ DOMAIN rows = 1..Len(rows) /\ Len(rows) \in Nat
    BY <1>1, RowTypes, FormTypes DEF Sync, TypeOK
  <2>2. /\ Turned(rows, form, Len(form), work)
        /\ rows' \in Seq(Row) /\ Len(rows') = Len(t)
        /\ \A i \in 1..Len(rows') :
             i \notin LiveIds(rows) \/ i \in work.active => rows'[i] = t[i]
    BY <2>1, SyncDoes
  <2> HIDE DEF work
  <2>3. Len(form) \in Nat /\ DOMAIN form = 1..Len(form) /\ ToSet(form) = {form[m] : m \in 1..Len(form)}
    BY <2>1 DEF ToSet
  <2>4. \A m \in 1..Len(form) : \E r \in LiveIds(rows) :
          form[m].key = rows[r].key /\ form[m].value = rows[r].value
    <3> SUFFICES ASSUME NEW m \in 1..Len(form)
                 PROVE  \E r \in LiveIds(rows) :
                          form[m].key = rows[r].key /\ form[m].value = rows[r].value
      OBVIOUS
    <3>1. form[m] \in Shown(rows)
      BY <1>1, <2>3
    <3> QED BY <3>1 DEF Shown
  <2>5. ASSUME NEW i \in work.active, NEW r \in LiveIds(rows), t[i].key = rows[r].key
        PROVE  i = r
    <3>1. i \in 1..Len(t) /\ r \in 1..Len(rows) /\ r \in 1..Len(t) /\ Len(t) \in Nat
      BY <2>1, <2>2 DEF Turned, LiveIds
    <3>2. ~(i > Len(rows))
      BY <2>2, <2>5, <3>1 DEF Turned
    <3>3. i \in 1..Len(rows)
      BY <2>1, <3>1, <3>2
    <3>4. t[i].key = rows[i].key /\ t[r].key = rows[r].key
      BY <2>2, <3>1, <3>3 DEF Turned
    <3>5. ~(i > r)
      BY <1>1, <2>1, <2>5, <3>3, <3>4
    <3>6. ~(r > i)
      BY <2>2, <2>5, <3>1, <3>4 DEF Turned
    <3> QED BY <3>1, <3>5, <3>6
  <2>6. ASSUME NEW i \in work.active
        PROVE  /\ i \in LiveIds(rows) /\ t[i].key = rows[i].key
               /\ t[i].value = rows[i].value /\ t[i].live = TRUE /\ t[i].extra = Plain
    <3>1. PICK m \in 1..Len(form) : form[m].key = t[i].key /\ form[m].value = t[i].value
      BY <2>2 DEF Turned
    <3>2. PICK r \in LiveIds(rows) : form[m].key = rows[r].key /\ form[m].value = rows[r].value
      BY <2>4
    <3>3. i = r
      BY <2>5, <3>1, <3>2
    <3>4. t[i].live = TRUE /\ t[i].extra = Plain
      BY <2>2 DEF Turned
    <3> QED BY <3>1, <3>2, <3>3, <3>4
  <2>7. \A r \in LiveIds(rows) : r \in work.active
    <3> SUFFICES ASSUME NEW r \in LiveIds(rows) PROVE r \in work.active
      OBVIOUS
    <3>1. [key |-> rows[r].key, value |-> rows[r].value] \in ToSet(form)
      BY <1>1 DEF Shown
    <3>2. PICK m \in 1..Len(form) : form[m] = [key |-> rows[r].key, value |-> rows[r].value]
      BY <2>3, <3>1
    <3>3. form[m].key = rows[r].key
      BY <3>2
    <3>4. PICK i \in work.active : t[i].key = form[m].key
      BY <2>2 DEF Turned
    <3> QED BY <2>5, <3>3, <3>4
  <2>8. Len(t) = Len(rows)
    <3>1. Len(t) \in Nat /\ Len(rows) <= Len(t)
      BY <2>2 DEF Turned
    <3>2. ASSUME NEW i \in 1..Len(t), i > Len(rows) PROVE FALSE
      <4>1. i \in work.active
        BY <2>2, <3>2 DEF Turned
      <4>2. i \in 1..Len(rows)
        BY <2>1, <2>6, <4>1 DEF LiveIds
      <4> QED BY <2>1, <3>2, <4>2
    <3>3. CASE Len(t) > Len(rows)
      <4>1. Len(t) \in 1..Len(t)
        BY <2>1, <3>1, <3>3
      <4> QED BY <3>2, <3>3, <4>1
    <3> QED BY <2>1, <3>1, <3>3
  <2>9. ASSUME NEW i \in 1..Len(rows) PROVE rows'[i] = Resaved(rows)[i]
    <3>1. rows'[i] = t[i]
      BY <2>2, <2>7, <2>8
    <3>2. Resaved(rows)[i] =
            IF rows[i].live THEN [rows[i] EXCEPT !.extra = Plain] ELSE rows[i]
      BY <2>1 DEF Resaved
    <3>3. CASE i \in work.active
      <4>1. rows[i] \in Row /\ t[i] \in Row /\ rows[i].live = TRUE
        <5>1. t \in Seq(Row) /\ i \in 1..Len(t)
          BY <2>2, <2>8 DEF Turned
        <5>2. rows[i] \in Row /\ t[i] \in Row
          BY <2>1, <5>1, ElementOf
        <5>3. rows[i].live
          BY <2>6, <3>3 DEF LiveIds
        <5> QED BY <5>2, <5>3 DEF Row
      <4>2. /\ t[i].key = rows[i].key /\ t[i].value = rows[i].value
            /\ t[i].live = rows[i].live /\ t[i].extra = Plain
        BY <2>6, <3>3, <4>1
      <4>3. t[i] = [rows[i] EXCEPT !.extra = Plain]
        BY <4>1, <4>2 DEF Row
      <4> QED BY <3>1, <3>2, <4>1, <4>3
    <3>4. CASE i \notin work.active
      <4>1. t[i] = rows[i]
        BY <2>2, <3>4 DEF Turned
      <4>2. ~rows[i].live
        BY <2>1, <2>7, <3>4 DEF LiveIds
      <4> QED BY <3>1, <3>2, <4>1, <4>2
    <3> QED BY <3>3, <3>4
  <2>10. rows' = [i \in 1..Len(rows) |-> rows'[i]]
    BY <2>1, <2>2, <2>8
  <2> QED BY <2>1, <2>9, <2>10 DEF Resaved
<1>2. TypeOK => \A s \in Session :
        /\ Sync(s) /\ existing[s] = LiveIds(rows) /\ ToSet(posted[s]) = Shown(rows)
        /\ \A i \in LiveIds(rows) : \A k \in DOMAIN rows : k > i => rows[k].key # rows[i].key
        => rows' = Resaved(rows)
  BY <1>1
<1> QED BY <1>2, TypeCorrect, PTL DEF ResaveClearsExtraOnly

=============================================================================
