------------------------ MODULE AdminListPage_proofs -------------------------
(***************************************************************************)
(* Proofs about AdminListPage for any number of items, search terms,       *)
(* set-ups, inputs, deletions and faults.                                  *)
(***************************************************************************)
EXTENDS AdminListPage, TLAPS

\* What the scripts have set up, and what the table's controls went through.
SetUp ==
  /\ doc.inits > 0 => doc.configured /\ doc.bound["drawn"] = 1 /\ doc.bound["typed"] = 1
  /\ doc.table => doc.inits > 0 /\ doc.page = "list"
  /\ doc.drawn => doc.table /\ doc.laidOut
  /\ ~doc.table => /\ queries = {} /\ answers = {}
                   /\ doc.draw = 0 /\ ~doc.drawn /\ ~doc.laidOut
                   /\ \A c \in Control : doc.place[c] = "nowhere"
  /\ doc.table => \A c \in Control :
       doc.place[c] = IF c \notin {"info", "paging"} THEN "nowhere"
                      ELSE IF doc.laidOut THEN "footer" ELSE "wrapper"

\* Queries and answers of the table's last draw are about its term, and unless
\* something went unheard one of them, or what is shown, is there.
Searching ==
  /\ \A q \in queries : q.draw <= doc.draw /\ (q.draw = doc.draw => q.term = doc.term)
  /\ \A a \in answers :
       a.draw <= doc.draw /\ (a.draw = doc.draw => a.rows \cap rows = doc.term \cap rows)
  /\ ~doc.unheard =>
       /\ doc.term = doc.box
       /\ doc.table => \/ \E q \in queries : q.draw = doc.draw
                       \/ \E a \in answers : a.draw = doc.draw
                       \/ doc.drawn /\ doc.shown \cap rows = doc.term \cap rows

\* Tokens are those of the session or older ones, and as long as nothing
\* happened elsewhere every item that is gone was deleted from here.
Deleting ==
  /\ token <= faults /\ doc.meta <= token
  /\ \A p \in PostId : posts[p] # None => posts[p].token <= token
  /\ faults = 0 => \A i \in Item \ rows :
       \E q \in PostId : posts[q].state = "done" /\ posts[q].item = i
  /\ faults = 0 => \A p \in PostId :
       /\ posts[p].state # "expired"
       /\ posts[p].state = "missing" =>
            \E q \in PostId : posts[q].state = "done" /\ posts[q].item = posts[p].item

IInv == TypeOK /\ SetUp /\ Searching /\ Deleting

-----------------------------------------------------------------------------
(***************************************************************************)
(* The scripts of the page.                                                *)
(***************************************************************************)

\* What the scripts that set up a page leave alone.
Same(d, e) ==
  /\ e.page = d.page /\ e.meta = d.meta /\ e.table = d.table /\ e.drawn = d.drawn
  /\ e.draw = d.draw /\ e.term = d.term /\ e.shown = d.shown
  /\ e.box = d.box /\ e.unheard = d.unheard

LEMMA OffDoes ==
  ASSUME NEW d \in Document, NEW e \in Event
  PROVE  /\ Off(d, e) \in Document /\ Same(d, Off(d, e))
         /\ Off(d, e).inits = d.inits /\ Off(d, e).configured = d.configured
         /\ Off(d, e).place = d.place /\ Off(d, e).laidOut = d.laidOut
         /\ Off(d, e).bound[e] = 0
         /\ \A f \in Event \ {e} : Off(d, e).bound[f] = d.bound[f]
  BY DEF Document, Same, Off

LEMMA OnDoes ==
  ASSUME NEW d \in Document, NEW e \in Event
  PROVE  /\ On(d, e) \in Document /\ Same(d, On(d, e))
         /\ On(d, e).inits = d.inits /\ On(d, e).configured = d.configured
         /\ On(d, e).place = d.place /\ On(d, e).laidOut = d.laidOut
         /\ On(d, e).bound[e] = d.bound[e] + 1
         /\ \A f \in Event \ {e} : On(d, e).bound[f] = d.bound[f]
  BY DEF Document, Same, On

\* initDataTables leaves one handler of each kind, whatever was bound before.
LEMMA InitDataTablesDoes ==
  ASSUME NEW d \in Document, d.inits + 1 \in 0..MaxInits
  PROVE  LET e == InitDataTables(d)
         IN  /\ e \in Document /\ Same(d, e)
             /\ e.inits = d.inits + 1 /\ e.configured
             /\ e.place = d.place /\ e.laidOut = d.laidOut
             /\ e.bound["drawn"] = 1 /\ e.bound["typed"] = 1
<1> DEFINE d1 == ConfigureDataTableDefaults(d)
           d2 == BindFooterRelocationEvents(d1)
           d3 == BindAdvancedSearch(d2)
<1>1. /\ d1 \in Document /\ Same(d, d1) /\ d1.inits = d.inits /\ d1.configured
      /\ d1.place = d.place /\ d1.laidOut = d.laidOut
  BY DEF Document, Same, ConfigureDataTableDefaults
<1>2. /\ d2 \in Document /\ Same(d1, d2) /\ d2.inits = d1.inits /\ d2.configured
      /\ d2.place = d1.place /\ d2.laidOut = d1.laidOut /\ d2.bound["drawn"] = 1
  <2> HIDE DEF d1
  <2>1. Off(d1, "drawn") \in Document /\ Off(d1, "drawn").bound["drawn"] = 0
    BY <1>1, OffDoes DEF Event
  <2>2. d2.bound["drawn"] = 1
    BY <2>1, OnDoes DEF Event, BindFooterRelocationEvents
  <2> QED BY <1>1, <2>1, <2>2, OffDoes, OnDoes DEF Event, Same, BindFooterRelocationEvents
<1>3. /\ d3 \in Document /\ Same(d2, d3) /\ d3.inits = d2.inits /\ d3.configured
      /\ d3.place = d2.place /\ d3.laidOut = d2.laidOut
      /\ d3.bound["drawn"] = 1 /\ d3.bound["typed"] = 1
  <2> HIDE DEF d2
  <2>1. /\ Off(d2, "typed") \in Document
        /\ Off(d2, "typed").bound["typed"] = 0 /\ Off(d2, "typed").bound["drawn"] = 1
    BY <1>2, OffDoes DEF Event
  <2>2. d3.bound["typed"] = 1 /\ d3.bound["drawn"] = 1
    BY <2>1, OnDoes DEF Event, BindAdvancedSearch
  <2> QED BY <1>2, <2>1, <2>2, OffDoes, OnDoes DEF Event, Same, BindAdvancedSearch
<1>4. InitDataTables(d) = [d3 EXCEPT !.inits = @ + 1]
  BY DEF InitDataTables
<1> HIDE DEF d1, d2, d3
<1>5. /\ [d3 EXCEPT !.inits = @ + 1] \in Document
      /\ Same(d3, [d3 EXCEPT !.inits = @ + 1])
  BY <1>1, <1>2, <1>3 DEF Document, Same
<1>6. /\ [d3 EXCEPT !.inits = @ + 1].inits = d.inits + 1
      /\ [d3 EXCEPT !.inits = @ + 1].configured
      /\ [d3 EXCEPT !.inits = @ + 1].place = d.place
      /\ [d3 EXCEPT !.inits = @ + 1].laidOut = d.laidOut
      /\ [d3 EXCEPT !.inits = @ + 1].bound = d3.bound
  BY <1>1, <1>2, <1>3 DEF Document
<1> QED BY <1>1, <1>2, <1>3, <1>4, <1>5, <1>6 DEF Same

\* relocateDataTableFooter lays the footer out once and moves what it finds.
LEMMA RelocateDoes ==
  ASSUME NEW d \in Document
  PROVE  LET e == Relocate(d)
         IN  /\ e \in Document /\ Same(d, e) /\ e.laidOut
             /\ e.inits = d.inits /\ e.configured = d.configured /\ e.bound = d.bound
             /\ \A c \in Control : e.place[c] =
                  LET laid == IF ~d.laidOut /\ d.place[c] = "footer" THEN "destroyed" ELSE d.place[c]
                  IN  IF c \in {"info", "paging"} /\ laid = "wrapper" THEN "footer" ELSE laid
<1> DEFINE l == LayOut(d)
<1>1. /\ l \in Document /\ Same(d, l) /\ l.laidOut
      /\ l.inits = d.inits /\ l.configured = d.configured /\ l.bound = d.bound
      /\ \A c \in Control : l.place[c] =
           IF ~d.laidOut /\ d.place[c] = "footer" THEN "destroyed" ELSE d.place[c]
  <2>1. CASE d.laidOut
    BY <2>1 DEF LayOut, Same, Document
  <2>2. CASE ~d.laidOut
    BY <2>2 DEF LayOut, Same, Document
  <2> QED BY <2>1, <2>2
<1>2. Relocate(d) = [l EXCEPT !.place =
         [c \in Control |-> IF c \in {"info", "paging"} /\ @[c] = "wrapper"
                            THEN "footer" ELSE @[c]]]
  BY DEF Relocate
<1> HIDE DEF l
<1> QED BY <1>1, <1>2 DEF Document, Same

-----------------------------------------------------------------------------
(***************************************************************************)
(* The steps.                                                              *)
(***************************************************************************)
LEMMA InitKeeps ==
  ASSUME Init
  PROVE  IInv
<1>1. Fresh(0) \in Document
  BY PageBounds DEF Fresh, Document, EmptyBox
<1>2. TypeOK
  BY <1>1, PageBounds DEF Init, TypeOK
<1>3. SetUp
  BY DEF Init, SetUp, Fresh
<1>4. Searching
  BY DEF Init, Searching, Fresh
<1>5. Deleting
  BY DEF Init, Deleting, Fresh, None
<1> QED BY <1>2, <1>3, <1>4, <1>5 DEF IInv

\* A run of the scripts, the first or a later one.
LEMMA ScriptKeeps ==
  ASSUME IInv, doc' \in Document, Same(doc, doc'),
         doc'.inits > 0, doc'.configured, doc'.bound["drawn"] = 1, doc'.bound["typed"] = 1,
         doc'.place = doc.place, doc'.laidOut = doc.laidOut,
         UNCHANGED <<rows, token, queries, answers, posts, awaited, inputs, faults>>
  PROVE  IInv'
<1>1. TypeOK'
  BY DEF IInv, TypeOK
<1>2. SetUp'
  BY DEF IInv, SetUp, Same
<1>3. Searching'
  BY DEF IInv, Searching, Same
<1>4. Deleting'
  BY DEF IInv, Deleting, Same
<1> QED BY <1>1, <1>2, <1>3, <1>4 DEF IInv

LEMMA RunAdminScriptKeeps ==
  ASSUME IInv, RunAdminScript
  PROVE  IInv'
<1> DEFINE d == On(doc, "clicked")
<1>1. /\ d \in Document /\ Same(doc, d) /\ d.inits = 0
      /\ d.place = doc.place /\ d.laidOut = doc.laidOut
  BY OnDoes DEF IInv, TypeOK, Event, RunAdminScript
<1>2. doc' = InitDataTables(d)
  BY DEF RunAdminScript
<1>3. d.inits + 1 \in 0..MaxInits
  BY <1>1, PageBounds DEF RunAdminScript
<1> HIDE DEF d
<1>4. /\ doc' \in Document /\ Same(d, doc') /\ doc'.inits = 1 /\ doc'.configured
      /\ doc'.place = d.place /\ doc'.laidOut = d.laidOut
      /\ doc'.bound["drawn"] = 1 /\ doc'.bound["typed"] = 1
  BY <1>1, <1>2, <1>3, InitDataTablesDoes
<1>5. Same(doc, doc')
  BY <1>1, <1>4 DEF Same
<1> QED BY <1>1, <1>4, <1>5, ScriptKeeps DEF RunAdminScript

LEMMA InitAgainKeeps ==
  ASSUME IInv, InitAgain
  PROVE  IInv'
<1>1. doc \in Document /\ doc.inits \in Nat /\ doc.inits + 1 \in 0..MaxInits
  BY PageBounds DEF InitAgain, IInv, TypeOK
<1>2. /\ doc' \in Document /\ Same(doc, doc') /\ doc'.inits = doc.inits + 1 /\ doc'.configured
      /\ doc'.place = doc.place /\ doc'.laidOut = doc.laidOut
      /\ doc'.bound["drawn"] = 1 /\ doc'.bound["typed"] = 1
  BY <1>1, InitDataTablesDoes DEF InitAgain
<1> QED BY <1>1, <1>2, ScriptKeeps DEF InitAgain

\* The controls that the defaults leave are around the table, and its first
\* query is on its way.
LEMMA MakeTableKeeps ==
  ASSUME IInv, MakeTable
  PROVE  IInv'
<1>1. doc.inits > 0 /\ ~doc.table /\ doc.page = "list"
      /\ UNCHANGED <<rows, token, answers, posts, awaited, inputs, faults>>
  BY DEF MakeTable
<1>2. doc \in Document /\ doc.configured /\ doc.draw = 0
  BY <1>1 DEF IInv, TypeOK, SetUp
<1>3. /\ doc'.page = doc.page /\ doc'.meta = doc.meta /\ doc'.inits = doc.inits
      /\ doc'.configured = doc.configured /\ doc'.bound = doc.bound
      /\ doc'.table /\ doc'.drawn = doc.drawn /\ doc'.draw = 1 /\ doc'.term = doc.term
      /\ doc'.shown = doc.shown /\ doc'.laidOut = doc.laidOut
      /\ doc'.box = doc.box /\ doc'.unheard = doc.unheard
      /\ doc'.place = [c \in Control |-> IF c \in {"info", "paging"} THEN "wrapper" ELSE doc.place[c]]
      /\ doc' \in Document
  BY <1>2 DEF Document, MakeTable, Controls
<1>4. queries = {} /\ answers = {} /\ queries' = {[draw |-> 1, term |-> doc.term]}
  <2>1. \A n : n \in 0 + 1..1 <=> n = 1
    OBVIOUS
  <2> QED BY <1>2, <1>3, <2>1 DEF MakeTable, Asked, IInv, SetUp
<1>5. TypeOK'
  BY <1>1, <1>2, <1>3, <1>4 DEF IInv, TypeOK, Query, Document
<1>6. SetUp'
  BY <1>1, <1>3, <1>4 DEF IInv, SetUp, Control
<1>7. Searching'
  BY <1>1, <1>3, <1>4 DEF IInv, Searching
<1>8. Deleting'
  BY <1>1, <1>3 DEF IInv, Deleting
<1> QED BY <1>5, <1>6, <1>7, <1>8 DEF IInv

\* A table that is drawn for another term.
LEMMA DrawDoes ==
  ASSUME NEW d \in Document, NEW t \in Term, NEW n \in Nat
  PROVE  LET e == [d EXCEPT !.term = t, !.draw = n]
         IN  /\ e \in Document
             /\ e.page = d.page /\ e.meta = d.meta /\ e.inits = d.inits
             /\ e.configured = d.configured /\ e.bound = d.bound
             /\ e.table = d.table /\ e.drawn = d.drawn /\ e.shown = d.shown
             /\ e.place = d.place /\ e.laidOut = d.laidOut
             /\ e.box = d.box /\ e.unheard = d.unheard
             /\ e.term = t /\ e.draw = n
  BY DEF Document

\* A change of the search box reaches the table that is there and asks for its
\* rows, or goes unheard.
LEMMA TypeDoes ==
  ASSUME IInv, NEW t \in Term, Type(t)
  PROVE  /\ doc' \in Document
         /\ doc'.page = doc.page /\ doc'.meta = doc.meta /\ doc'.inits = doc.inits
         /\ doc'.configured = doc.configured /\ doc'.bound = doc.bound
         /\ doc'.table = doc.table /\ doc'.drawn = doc.drawn /\ doc'.shown = doc.shown
         /\ doc'.place = doc.place /\ doc'.laidOut = doc.laidOut
         /\ doc'.box = t /\ doc'.unheard = ~doc.table
         /\ IF doc.table
            THEN /\ doc'.term = t /\ doc'.draw = doc.draw + 1
                 /\ queries' = queries \cup {[draw |-> doc.draw + 1, term |-> t]}
            ELSE /\ doc'.term = doc.term /\ doc'.draw = doc.draw /\ queries' = queries
<1> DEFINE d == [doc EXCEPT !.box = t, !.unheard = ~doc.table]
<1>1. doc' = AdvancedSearch(d) /\ queries' = queries \cup Asked(doc, doc')
  BY DEF Type
<1>2. doc \in Document /\ doc.draw \in Nat /\ doc.bound["typed"] \in Nat
  BY DEF IInv, TypeOK, Document, Event
<1>3. /\ d.page = doc.page /\ d.meta = doc.meta /\ d.inits = doc.inits
      /\ d.configured = doc.configured /\ d.bound = doc.bound
      /\ d.table = doc.table /\ d.drawn = doc.drawn /\ d.shown = doc.shown
      /\ d.place = doc.place /\ d.laidOut = doc.laidOut
      /\ d.box = t /\ d.unheard = ~doc.table /\ d.term = doc.term /\ d.draw = doc.draw
      /\ d \in Document
  BY <1>2 DEF Document
<1> HIDE DEF d
<1>4. CASE ~doc.table
  <2>1. doc' = d
    BY <1>1, <1>3, <1>4 DEF AdvancedSearch
  <2>2. Asked(doc, doc') = {}
    BY <1>2, <1>3, <2>1 DEF Asked
  <2> QED BY <1>1, <1>3, <1>4, <2>1, <2>2
<1>5. CASE doc.table
  <2>1. doc.bound["typed"] = 1
    BY <1>5 DEF IInv, SetUp
  <2> DEFINE n == doc.draw + 1
  <2>2. doc' = [d EXCEPT !.term = t, !.draw = n]
    BY <1>1, <1>3, <1>5, <2>1 DEF AdvancedSearch
  <2>3. /\ doc'.page = d.page /\ doc'.meta = d.meta /\ doc'.inits = d.inits
        /\ doc'.configured = d.configured /\ doc'.bound = d.bound
        /\ doc'.table = d.table /\ doc'.drawn = d.drawn /\ doc'.shown = d.shown
        /\ doc'.place = d.place /\ doc'.laidOut = d.laidOut
        /\ doc'.box = t /\ doc'.unheard = d.unheard /\ doc'.term = t
        /\ doc'.draw = n
        /\ doc' \in Document
    <3>1. d \in Document /\ n \in Nat
      BY <1>2, <1>3
    <3> HIDE DEF n
    <3> DEFINE e == [d EXCEPT !.term = t, !.draw = n]
    <3>2. /\ e \in Document
          /\ e.page = d.page /\ e.meta = d.meta /\ e.inits = d.inits
          /\ e.configured = d.configured /\ e.bound = d.bound
          /\ e.table = d.table /\ e.drawn = d.drawn /\ e.shown = d.shown
          /\ e.place = d.place /\ e.laidOut = d.laidOut
          /\ e.box = d.box /\ e.unheard = d.unheard
          /\ e.term = t /\ e.draw = n
      BY <3>1, DrawDoes, Zenon
    <3>3. doc' = e
      BY <2>2
    <3> HIDE DEF e
    <3> QED BY <1>3, <3>2, <3>3
  <2>4. \A m : m \in doc.draw + 1..doc.draw + 1 <=> m = doc.draw + 1
    BY <1>2
  <2>5. Asked(doc, doc') = {[draw |-> doc.draw + 1, term |-> t]}
    BY <1>3, <2>3, <2>4 DEF Asked
  <2> QED BY <1>1, <1>3, <1>5, <2>3, <2>5
<1> QED BY <1>4, <1>5

LEMMA TypeKeeps ==
  ASSUME IInv, NEW t \in Term, Type(t)
  PROVE  IInv'
<1>1. /\ UNCHANGED <<rows, token, answers, posts, awaited, faults>>
      /\ inputs' = inputs + 1 /\ inputs < MaxInputs
  BY DEF Type
<1>2. TypeOK'
  BY <1>1, TypeDoes, PageBounds DEF IInv, TypeOK, Query, Document
<1>3. SetUp'
  BY <1>1, TypeDoes DEF IInv, SetUp
<1>4. Searching'
  <2>1. doc.draw \in Nat /\ \A q \in queries \cup answers : q.draw \in Nat
    BY DEF IInv, TypeOK, Document, Query, Answer
  <2>2. CASE doc.table
    <3>1. \A q \in queries \cup answers : q.draw <= doc.draw + 1 /\ q.draw # doc.draw + 1
      BY <2>1 DEF IInv, Searching
    <3>2. /\ doc'.box = t /\ doc'.term = t /\ doc'.draw = doc.draw + 1
          /\ queries' = queries \cup {[draw |-> doc.draw + 1, term |-> t]} /\ answers' = answers
      BY <1>1, <2>2, TypeDoes
    <3>3. \A q \in queries' : q.draw <= doc'.draw /\ (q.draw = doc'.draw => q.term = doc'.term)
      BY <2>1, <3>1, <3>2
    <3>4. [draw |-> doc.draw + 1, term |-> t].draw = doc'.draw
      BY <3>2
    <3>5. \E q \in queries' : q.draw = doc'.draw
      BY <3>2, <3>4
    <3> QED BY <3>1, <3>2, <3>3, <3>5 DEF Searching
  <2>3. CASE ~doc.table
    BY <1>1, <2>1, <2>3, TypeDoes DEF IInv, Searching
  <2> QED BY <2>2, <2>3
<1>5. Deleting'
  BY <1>1, TypeDoes DEF IInv, Deleting
<1> QED BY <1>2, <1>3, <1>4, <1>5 DEF IInv

\* The server answers with the rows of this moment that match.
LEMMA ServeKeeps ==
  ASSUME IInv, NEW q \in queries, Serve(q)
  PROVE  IInv'
<1>1. /\ UNCHANGED <<rows, token, doc, posts, awaited, inputs, faults>>
      /\ queries' = queries \ {q}
      /\ answers' = answers \cup {[draw |-> q.draw, rows |-> q.term \cap rows]}
  BY DEF Serve
<1>2. [draw |-> q.draw, rows |-> q.term \cap rows] \in Answer
  BY PageBounds DEF IInv, TypeOK, Query, Answer
<1>3. TypeOK'
  BY <1>1, <1>2 DEF IInv, TypeOK
<1>4. SetUp'
  BY <1>1 DEF IInv, SetUp
<1>5. Searching'
  <2> DEFINE b == [draw |-> q.draw, rows |-> q.term \cap rows]
  <2>1. b.draw = q.draw /\ b.rows \cap rows = q.term \cap rows
    OBVIOUS
  <2> HIDE DEF b
  <2>2. \A a \in answers' :
          a.draw <= doc.draw /\ (a.draw = doc.draw => a.rows \cap rows = doc.term \cap rows)
    BY <1>1, <2>1 DEF b, IInv, Searching
  <2>3. (\E s \in queries : s.draw = doc.draw) \/ (\E a \in answers : a.draw = doc.draw)
        => (\E s \in queries' : s.draw = doc.draw) \/ (\E a \in answers' : a.draw = doc.draw)
    BY <1>1, <2>1 DEF b
  <2> QED BY <1>1, <2>2, <2>3 DEF IInv, Searching
<1>6. Deleting'
  BY <1>1 DEF IInv, Deleting
<1> QED BY <1>3, <1>4, <1>5, <1>6 DEF IInv

LEMMA LoseQueryKeeps ==
  ASSUME IInv, NEW q \in queries, LoseQuery(q)
  PROVE  IInv'
<1>1. /\ UNCHANGED <<rows, token, answers, posts, awaited, inputs>>
      /\ queries' = queries \ {q} /\ faults < MaxFaults /\ faults' = faults + 1
  BY DEF LoseQuery
<1>2. doc' \in Document /\ Same([doc EXCEPT !.unheard = doc'.unheard], doc')
      /\ doc'.inits = doc.inits /\ doc'.configured = doc.configured /\ doc'.bound = doc.bound
      /\ doc'.place = doc.place /\ doc'.laidOut = doc.laidOut
      /\ doc'.unheard = (doc.unheard \/ q.draw = doc.draw)
  BY DEF IInv, TypeOK, LoseQuery, Same, Document
<1>3. /\ doc'.page = doc.page /\ doc'.meta = doc.meta /\ doc'.table = doc.table
      /\ doc'.drawn = doc.drawn /\ doc'.draw = doc.draw /\ doc'.term = doc.term
      /\ doc'.shown = doc.shown /\ doc'.box = doc.box
  BY <1>2 DEF Same, IInv, TypeOK, Document
<1>4. TypeOK'
  BY <1>1, <1>2, PageBounds DEF IInv, TypeOK
<1>5. SetUp'
  BY <1>1, <1>2, <1>3 DEF IInv, SetUp
<1>6. Searching'
  BY <1>1, <1>2, <1>3 DEF IInv, Searching
<1>7. Deleting'
  BY <1>1, <1>3 DEF IInv, TypeOK, Deleting
<1> QED BY <1>4, <1>5, <1>6, <1>7 DEF IInv

\* An answer to the last draw fills the table, whose handler then moves what is
\* still in its wrapper into the footer.
LEMMA ReceiveKeeps ==
  ASSUME IInv, NEW a \in answers, Receive(a)
  PROVE  IInv'
<1>1. /\ UNCHANGED <<rows, token, queries, posts, awaited, inputs, faults>>
      /\ answers' = answers \ {a}
  BY DEF Receive
<1>2. /\ doc \in Document /\ a \in Answer /\ doc.draw \in Nat /\ a.draw \in Nat
      /\ doc.table /\ a.draw <= doc.draw /\ doc.inits > 0 /\ doc.bound["drawn"] = 1
  BY DEF IInv, TypeOK, SetUp, Searching, Document, Answer
<1>3. CASE a.draw < doc.draw
  <2>1. doc' = doc
    BY <1>3 DEF Receive
  <2>2. TypeOK'
    BY <1>1, <2>1 DEF IInv, TypeOK
  <2>3. SetUp'
    BY <1>1, <1>2, <2>1 DEF IInv, SetUp
  <2>4. Searching'
    BY <1>1, <1>2, <1>3, <2>1 DEF IInv, Searching
  <2>5. Deleting'
    BY <1>1, <2>1 DEF IInv, Deleting
  <2> QED BY <2>2, <2>3, <2>4, <2>5 DEF IInv
<1>4. CASE a.draw = doc.draw
  <2> DEFINE d == [doc EXCEPT !.shown = a.rows, !.drawn = TRUE]
  <2>1. /\ d \in Document
        /\ d.page = doc.page /\ d.meta = doc.meta /\ d.inits = doc.inits
        /\ d.configured = doc.configured /\ d.bound = doc.bound
        /\ d.table = doc.table /\ d.draw = doc.draw /\ d.term = doc.term
        /\ d.place = doc.place /\ d.laidOut = doc.laidOut
        /\ d.box = doc.box /\ d.unheard = doc.unheard
        /\ d.shown = a.rows /\ d.drawn
    BY <1>2 DEF Document, Answer
  <2>2. doc' = OnDrawn(d)
    BY <1>2, <1>4 DEF Receive
  <2> HIDE DEF d
  <2>3. doc' = Relocate(d)
    BY <1>2, <2>1, <2>2 DEF OnDrawn
  <2>4. /\ doc' \in Document /\ Same(d, doc') /\ doc'.laidOut
        /\ doc'.inits = d.inits /\ doc'.configured = d.configured /\ doc'.bound = d.bound
        /\ \A c \in Control : doc'.place[c] =
             LET laid == IF ~d.laidOut /\ d.place[c] = "footer" THEN "destroyed" ELSE d.place[c]
             IN  IF c \in {"info", "paging"} /\ laid = "wrapper" THEN "footer" ELSE laid
    BY <2>1, <2>3, RelocateDoes, Zenon
  <2>5. /\ doc'.page = doc.page /\ doc'.meta = doc.meta /\ doc'.table = doc.table
        /\ doc'.draw = doc.draw /\ doc'.term = doc.term /\ doc'.shown = a.rows
        /\ doc'.drawn /\ doc'.box = doc.box /\ doc'.unheard = doc.unheard
    BY <2>1, <2>4 DEF Same
  <2>6. TypeOK'
    BY <1>1, <2>4 DEF IInv, TypeOK
  <2>7. SetUp'
    <3>1. \A c \in Control : doc'.place[c] = IF c \in {"info", "paging"} THEN "footer" ELSE "nowhere"
      BY <1>2, <2>1, <2>4 DEF IInv, SetUp
    <3> QED BY <1>1, <1>2, <2>1, <2>4, <2>5, <3>1 DEF IInv, SetUp
  <2>8. Searching'
    BY <1>1, <1>2, <1>4, <2>5 DEF IInv, Searching
  <2>9. Deleting'
    BY <1>1, <2>5 DEF IInv, Deleting
  <2> QED BY <2>6, <2>7, <2>8, <2>9 DEF IInv
<1> QED BY <1>2, <1>3, <1>4

-----------------------------------------------------------------------------
LEMMA ClickDeleteKeeps ==
  ASSUME IInv, NEW i \in Item, ClickDelete(i)
  PROVE  IInv'
<1>1. PICK p \in PostId :
        /\ posts[p] = None
        /\ \E dropped \in {q \in PostId : q = awaited /\ posts[q].state = "sent"} \cup {Nobody} :
             posts' = [q \in PostId |->
                         IF q = p THEN DeleteForm(i)
                         ELSE IF q = dropped THEN [posts[q] EXCEPT !.state = "dropped"]
                         ELSE posts[q]]
        /\ awaited' = p
  BY DEF ClickDelete
<1>2. PICK dropped \in {q \in PostId : q = awaited /\ posts[q].state = "sent"} \cup {Nobody} :
        posts' = [q \in PostId |->
                    IF q = p THEN DeleteForm(i)
                    ELSE IF q = dropped THEN [posts[q] EXCEPT !.state = "dropped"]
                    ELSE posts[q]]
  BY <1>1
<1>3. UNCHANGED <<rows, token, doc, queries, answers, inputs, faults>>
  BY DEF ClickDelete
<1>4. DeleteForm(i) \in Post /\ DeleteForm(i).state = "sent" /\ DeleteForm(i).token = doc.meta
  BY DEF DeleteForm, Post, IInv, TypeOK, Document
<1>5. \A q \in PostId : q # p =>
        /\ posts'[q] \in Post \cup {None}
        /\ posts'[q] # None => posts[q] # None /\ posts'[q].token = posts[q].token
        /\ posts'[q] = posts[q] \/ (posts[q].state = "sent" /\ posts'[q].state = "dropped")
  <2> SUFFICES ASSUME NEW q \in PostId, q # p
               PROVE  /\ posts'[q] \in Post \cup {None}
                      /\ posts'[q] # None => posts[q] # None /\ posts'[q].token = posts[q].token
                      /\ posts'[q] = posts[q] \/ (posts[q].state = "sent" /\ posts'[q].state = "dropped")
    OBVIOUS
  <2>1. posts[q] \in Post \cup {None}
    BY DEF IInv, TypeOK
  <2>2. CASE q # dropped
    BY <1>2, <2>1, <2>2
  <2>3. CASE q = dropped
    <3>1. posts[q].state = "sent" /\ posts[q] \in Post
      BY <2>1, <2>3, PageBounds DEF PostId, None
    <3>2. posts'[q] = [posts[q] EXCEPT !.state = "dropped"]
      BY <1>2, <2>3
    <3> QED BY <3>1, <3>2 DEF Post, None
  <2> QED BY <2>2, <2>3
<1>6. posts'[p] = DeleteForm(i) /\ posts[p].state = "none"
  BY <1>1, <1>2 DEF None
<1>7. posts' \in [PostId -> Post \cup {None}]
  <2>1. \A q \in PostId : posts'[q] \in Post \cup {None}
    BY <1>4, <1>5, <1>6
  <2>2. DOMAIN posts' = PostId /\ posts' = [q \in DOMAIN posts' |-> posts'[q]]
    BY <1>2
  <2> QED BY <2>1, <2>2
<1>8. TypeOK'
  BY <1>1, <1>3, <1>7 DEF IInv, TypeOK
<1>9. SetUp' /\ Searching'
  BY <1>3 DEF IInv, SetUp, Searching
<1>10. Deleting'
  <2>1. \A q \in PostId : posts[q].state = "done" =>
          posts'[q].state = "done" /\ posts'[q].item = posts[q].item
    BY <1>5, <1>6
  <2>2. \A q \in PostId : posts'[q].state \in {"missing", "expired"} => posts'[q] = posts[q]
    BY <1>4, <1>5, <1>6
  <2>3. \A q \in PostId : posts'[q] # None => posts'[q].token <= token
    BY <1>4, <1>5, <1>6 DEF IInv, Deleting
  <2> QED BY <1>3, <2>1, <2>2, <2>3 DEF IInv, Deleting
<1> QED BY <1>8, <1>9, <1>10 DEF IInv

LEMMA DestroyKeeps ==
  ASSUME IInv, NEW p \in PostId, Destroy(p)
  PROVE  IInv'
<1> DEFINE i == posts[p].item
           ending == IF posts[p].token # token THEN "expired"
                     ELSE IF i \notin rows THEN "missing" ELSE "done"
<1>1. /\ posts[p].state = "sent" /\ posts' = [posts EXCEPT ![p].state = ending]
      /\ rows' = IF ending = "done" THEN rows \ {i} ELSE rows
      /\ UNCHANGED <<token, doc, queries, answers, awaited, inputs, faults>>
  BY DEF Destroy
<1>2. posts[p] \in Post /\ posts \in [PostId -> Post \cup {None}] /\ rows \subseteq Item
  BY <1>1 DEF IInv, TypeOK, None
<1>3. ending = "done" => i \in rows
  OBVIOUS
<1>4. faults = 0 => ending # "expired"
  <2>1. token \in Nat /\ token <= faults /\ posts[p].token \in Nat /\ posts[p].token <= token
    BY <1>1, <1>2, PageBounds DEF IInv, TypeOK, Deleting, Post, None
  <2> QED BY <2>1
<1>5. faults = 0 /\ ending = "missing" => i \in Item \ rows
  BY <1>2 DEF Post
<1>6. ending \in {"expired", "missing", "done"}
  OBVIOUS
<1> HIDE DEF ending
<1>7. /\ posts'[p] \in Post /\ posts'[p].state = ending
      /\ posts'[p].item = i /\ posts'[p].token = posts[p].token
      /\ \A q \in PostId : q # p => posts'[q] = posts[q]
      /\ posts' \in [PostId -> Post \cup {None}]
  BY <1>1, <1>2, <1>6 DEF Post
<1>8. rows' \subseteq rows
  BY <1>1
<1>9. TypeOK'
  BY <1>1, <1>2, <1>7, <1>8 DEF IInv, TypeOK
<1>10. SetUp'
  BY <1>1 DEF IInv, SetUp
<1>11. Searching'
  <2>1. \A a \in answers : a.draw = doc.draw => a.rows \cap rows' = doc.term \cap rows'
    BY <1>8 DEF IInv, Searching
  <2>2. doc.shown \cap rows = doc.term \cap rows => doc.shown \cap rows' = doc.term \cap rows'
    BY <1>8
  <2> QED BY <1>1, <2>1, <2>2 DEF IInv, Searching
<1>12. Deleting'
  <2>1. \A q \in PostId : posts'[q] # None => posts'[q].token <= token
    BY <1>1, <1>2, <1>7 DEF IInv, Deleting, Post, None
  <2>2. ASSUME faults = 0, NEW j \in Item \ rows'
        PROVE  \E q \in PostId : posts'[q].state = "done" /\ posts'[q].item = j
    <3>1. CASE j \in rows
      BY <1>1, <1>7, <2>2, <3>1
    <3>2. CASE j \notin rows
      <4>1. PICK q \in PostId : posts[q].state = "done" /\ posts[q].item = j
        BY <2>2, <3>2 DEF IInv, Deleting
      <4> QED BY <1>1, <1>7, <4>1
    <3> QED BY <3>1, <3>2
  <2>3. ASSUME faults = 0, NEW q \in PostId
        PROVE  /\ posts'[q].state # "expired"
               /\ posts'[q].state = "missing" =>
                    \E r \in PostId : posts'[r].state = "done" /\ posts'[r].item = posts'[q].item
    <3>1. CASE q = p
      BY <1>1, <1>4, <1>5, <1>7, <2>2, <2>3, <3>1
    <3>2. CASE q # p
      <4>1. /\ posts'[q] = posts[q] /\ posts[q].state # "expired"
            /\ posts[q].state = "missing" =>
                 \E r \in PostId : posts[r].state = "done" /\ posts[r].item = posts[q].item
        BY <1>7, <2>3, <3>2 DEF IInv, Deleting
      <4> QED BY <1>1, <1>7, <4>1
    <3> QED BY <3>1, <3>2
  <2> QED BY <1>1, <2>1, <2>2, <2>3 DEF IInv, Deleting
<1> QED BY <1>9, <1>10, <1>11, <1>12 DEF IInv

\* A page that no script has run on.
NewPage(e) ==
  /\ e \in Document /\ e.meta = token /\ e.inits = 0 /\ ~e.table /\ ~e.drawn
  /\ e.draw = 0 /\ ~e.laidOut /\ ~e.unheard /\ e.term = e.box
  /\ \A c \in Control : e.place[c] = "nowhere"

LEMMA FreshIsNew ==
  ASSUME IInv, NEW pg \in {"list", "error"}
  PROVE  NewPage(Fresh(token)) /\ NewPage([Fresh(token) EXCEPT !.page = pg])
<1> DEFINE f == Fresh(token)
<1>1. NewPage(f)
  BY PageBounds DEF Fresh, NewPage, Document, EmptyBox, IInv, TypeOK
<1> HIDE DEF f
<1> DEFINE e == [f EXCEPT !.page = pg]
<1>2. /\ e \in Document /\ e.meta = f.meta /\ e.inits = f.inits /\ e.table = f.table
      /\ e.drawn = f.drawn /\ e.draw = f.draw /\ e.laidOut = f.laidOut /\ e.unheard = f.unheard
      /\ e.term = f.term /\ e.box = f.box /\ e.place = f.place
  <2>1. f \in Document
    BY <1>1 DEF NewPage
  <2> QED BY <2>1 DEF Document
<1> HIDE DEF e
<1>3. NewPage(e)
  BY <1>1, <1>2 DEF NewPage
<1> QED BY <1>1, <1>3 DEF e, f

\* A new page, whatever was on its way for the old one.
LEMMA NewPageKeeps ==
  ASSUME IInv, NewPage(doc'), token' = token,
         queries' = {}, answers' = {}, awaited' \in PostId \cup {Nobody},
         UNCHANGED <<rows, posts, inputs, faults>>
  PROVE  IInv'
<1>1. TypeOK'
  BY DEF IInv, TypeOK, NewPage
<1>2. SetUp'
  BY DEF SetUp, NewPage
<1>3. Searching'
  BY DEF Searching, NewPage
<1>4. Deleting'
  BY PageBounds DEF IInv, TypeOK, Deleting, NewPage
<1> QED BY <1>1, <1>2, <1>3, <1>4 DEF IInv

LEMMA ArriveKeeps ==
  ASSUME IInv, Arrive
  PROVE  IInv'
<1> DEFINE pg == IF posts[awaited].state = "done" THEN "list" ELSE "error"
<1>1. doc' = [Fresh(token) EXCEPT !.page = pg] /\ pg \in {"list", "error"}
  BY DEF Arrive
<1>2. /\ queries' = {} /\ answers' = {} /\ awaited' = Nobody
      /\ UNCHANGED <<rows, token, posts, inputs, faults>>
  BY DEF Arrive
<1> HIDE DEF pg
<1>3. NewPage(doc')
  BY <1>1, FreshIsNew
<1> QED BY <1>2, <1>3, NewPageKeeps

\* The error page has no table, so nothing is on its way when it is left.
LEMMA OpenListKeeps ==
  ASSUME IInv, OpenList
  PROVE  IInv'
<1>1. NewPage(doc')
  BY FreshIsNew DEF OpenList
<1>2. /\ queries' = {} /\ answers' = {} /\ awaited' \in PostId \cup {Nobody}
      /\ UNCHANGED <<rows, token, posts, inputs, faults>>
  BY DEF OpenList, IInv, TypeOK, SetUp
<1> QED BY <1>1, <1>2, NewPageKeeps

LEMMA RenewSessionKeeps ==
  ASSUME IInv, RenewSession
  PROVE  IInv'
<1>1. /\ token \in Nat /\ faults \in Nat /\ doc.meta \in Nat
      /\ \A p \in PostId : posts[p] # None => posts[p].token \in Nat
  BY PageBounds DEF IInv, TypeOK, Document, Post
<1>2. token <= faults /\ token' = token + 1 /\ faults' = faults + 1 /\ faults < MaxFaults
  BY DEF RenewSession, IInv, Deleting
<1>3. UNCHANGED <<rows, doc, queries, answers, posts, awaited, inputs>>
  BY DEF RenewSession
<1>4. TypeOK'
  BY <1>1, <1>2, <1>3, PageBounds DEF IInv, TypeOK
<1>5. SetUp' /\ Searching'
  BY <1>3 DEF IInv, SetUp, Searching
<1>6. Deleting'
  BY <1>1, <1>2, <1>3 DEF IInv, Deleting
<1> QED BY <1>4, <1>5, <1>6 DEF IInv

LEMMA DeleteElsewhereKeeps ==
  ASSUME IInv, NEW i \in rows, DeleteElsewhere(i)
  PROVE  IInv'
<1>1. /\ faults \in Nat /\ faults' = faults + 1 /\ faults < MaxFaults /\ rows' \subseteq rows
      /\ UNCHANGED <<token, doc, queries, answers, posts, awaited, inputs>>
  BY DEF DeleteElsewhere, IInv, TypeOK
<1>2. TypeOK'
  BY <1>1, PageBounds DEF IInv, TypeOK
<1>3. SetUp'
  BY <1>1 DEF IInv, SetUp
<1>4. Searching'
  <2>1. \A a \in answers : a.draw = doc.draw => a.rows \cap rows' = doc.term \cap rows'
    BY <1>1 DEF IInv, Searching
  <2>2. doc.shown \cap rows = doc.term \cap rows => doc.shown \cap rows' = doc.term \cap rows'
    BY <1>1
  <2> QED BY <1>1, <2>1, <2>2 DEF IInv, Searching
<1>5. Deleting'
  BY <1>1, PageBounds DEF IInv, TypeOK, Deleting
<1> QED BY <1>2, <1>3, <1>4, <1>5 DEF IInv

-----------------------------------------------------------------------------
\* The inductive invariant.
THEOREM Inductive == Spec => []IInv
<1>1. Init => IInv
  BY InitKeeps
<1>2. IInv /\ [Next]_vars => IInv'
  <2> SUFFICES ASSUME IInv, [Next]_vars PROVE IInv'
    OBVIOUS
  <2>1. CASE UNCHANGED vars
    <3>1. TypeOK' /\ SetUp'
      BY <2>1 DEF vars, IInv, TypeOK, SetUp
    <3>2. Searching' /\ Deleting'
      BY <2>1 DEF vars, IInv, Searching, Deleting
    <3> QED BY <3>1, <3>2 DEF IInv
  <2>2. CASE Browser
    BY <2>2, RunAdminScriptKeeps, MakeTableKeeps, ReceiveKeeps, ArriveKeeps DEF Browser
  <2>3. CASE InitAgain
    BY <2>3, InitAgainKeeps
  <2>4. CASE Server
    BY <2>4, ServeKeeps, DestroyKeeps DEF Server
  <2>5. CASE User
    BY <2>5, TypeKeeps, ClickDeleteKeeps, OpenListKeeps DEF User
  <2>6. CASE Outside
    BY <2>6, LoseQueryKeeps, RenewSessionKeeps, DeleteElsewhereKeeps DEF Outside
  <2> QED BY <2>1, <2>2, <2>3, <2>4, <2>5, <2>6 DEF Next
<1> QED BY <1>1, <1>2, PTL DEF Spec

\* Every reachable state is well typed, whatever the items, terms and bounds.
THEOREM TypeCorrect == Spec => []TypeOK
<1>1. IInv => TypeOK
  BY DEF IInv
<1> QED BY <1>1, Inductive, PTL

\* However often initDataTables is called and the table drawn, its info and
\* paging are in the card's footer, and nothing is lost or left behind.
THEOREM FooterIsKept == Spec => []ControlsInFooter
<1>1. IInv => ControlsInFooter
  BY DEF IInv, SetUp, ControlsInFooter
<1> QED BY <1>1, Inductive, PTL

\* When every query is answered the table shows what the box says, for answers
\* in any order and any number of changes of the box.
THEOREM SearchEnds == Spec => []SearchSettles
<1>1. IInv => SearchSettles
  BY DEF IInv, SetUp, Searching, SearchSettles
<1> QED BY <1>1, Inductive, PTL

\* A deletion that the server turns down repeats one that it carried out, for
\* any number of deletions in any order.
THEOREM OnlyRepetitionsFail == Spec => []FailuresAreRepetitions
<1>1. IInv => FailuresAreRepetitions
  <2> SUFFICES ASSUME IInv, faults = 0, NEW p \in PostId, posts[p].state \in {"missing", "expired"}
               PROVE  \E q \in 1..p - 1 \cup p + 1..MaxPosts :
                        posts[q].state = "done" /\ posts[q].item = posts[p].item
    BY DEF FailuresAreRepetitions
  <2>1. PICK q \in PostId : posts[q].state = "done" /\ posts[q].item = posts[p].item
    BY DEF IInv, Deleting
  <2>2. q # p
    BY <2>1
  <2>3. q \in 1..p - 1 \cup p + 1..MaxPosts
    BY <2>2, PageBounds DEF PostId
  <2> QED BY <2>1, <2>3
<1> QED BY <1>1, Inductive, PTL

\* One change of the box is one query, however often the handlers were bound.
THEOREM QueriesAreSingle == Spec => OneQueryEach
<1>1. IInv /\ [Next]_vars => (inputs' # inputs /\ doc.table => doc'.draw = doc.draw + 1)
  <2> SUFFICES ASSUME IInv, [Next]_vars, inputs' # inputs, doc.table
               PROVE  doc'.draw = doc.draw + 1
    OBVIOUS
  <2>1. PICK t \in Term : Type(t)
    BY DEF Next, Browser, InitAgain, Server, User, Outside, RunAdminScript, MakeTable, Receive,
       Arrive, Serve, Destroy, ClickDelete, OpenList, LoseQuery, RenewSession, DeleteElsewhere, vars
  <2> QED BY <2>1, TypeDoes
<1> QED BY <1>1, Inductive, PTL DEF Spec, OneQueryEach
=============================================================================
