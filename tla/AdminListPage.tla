--------------------------- MODULE AdminListPage ----------------------------
(***************************************************************************)
(* A list page of the administration (cards, readers, locks, ...): the     *)
(* scripts of resources/js/admin.js, the table DataTables keeps, the       *)
(* search box above it, the card footer below it, the delete links in its  *)
(* rows, and the server they talk to.                                      *)
(*                                                                         *)
(* A search term is the set of items it matches; the empty box is all of   *)
(* them.  A query sees the rows of the moment the server answers it, and   *)
(* answers may arrive in any order.  A handler runs to its end before the  *)
(* page does anything else (confirm() blocks), so it is one step; between  *)
(* the submission of a form and the page that answers it the old page is   *)
(* still there and can be clicked.                                         *)
(***************************************************************************)
EXTENDS Naturals, FiniteSets

CONSTANTS
  Item,       \* what the page lists
  Term,       \* what is typed into the box: sets of items, Item among them
  Nobody,     \* no form is awaiting its answer
  MaxInits,   \* bound: calls of initDataTables on a page
  MaxInputs,  \* bound: changes of the box
  MaxPosts,   \* bound: confirmed deletions
  MaxFaults   \* bound: lost queries, new sessions, deletions by others

ASSUME PageBounds ==
  /\ Term \subseteq SUBSET Item /\ Item \in Term
  /\ \A n \in {MaxInits, MaxInputs, MaxPosts, MaxFaults} : n \in Nat
  /\ Nobody \notin Nat

VARIABLES
  rows,     \* the items that are not deleted
  token,    \* the csrf token of the session
  doc,      \* the document in the browser
  queries,  \* the table's queries the server has not answered
  answers,  \* answers on their way: the draw they are for and the rows in them
  posts,    \* submitted deletions: what became of each, "none" if not submitted
  awaited,  \* the deletion whose answer the browser waits for
  inputs, faults

vars == <<rows, token, doc, queries, answers, posts, awaited, inputs, faults>>

PostId == 1..MaxPosts
Control == {"info", "paging", "length", "search"}
Event == {"drawn", "typed", "clicked"}
Query == [draw : Nat, term : Term]
Answer == [draw : Nat, rows : SUBSET Item]
Post == [state : {"sent", "dropped", "done", "missing", "expired"},
         item : Item, token : Nat]
None == [state |-> "none"]

(***************************************************************************)
(* The document.  place tells where each control of the table is: nowhere  *)
(* yet, inside the table's wrapper, in the card footer, or destroyed.      *)
(***************************************************************************)
Document ==
  [page : {"list", "error"}, meta : Nat,
   inits : 0..MaxInits, configured : BOOLEAN, bound : [Event -> Nat],
   table : BOOLEAN, drawn : BOOLEAN, draw : Nat, term : Term,
   shown : SUBSET Item, place : [Control -> {"nowhere", "wrapper", "footer", "destroyed"}],
   laidOut : BOOLEAN, box : Term, unheard : BOOLEAN]

\* Slip: the empty box asks for nothing.
EmptyForNothing == {}

\* What an empty search box asks for.
EmptyBox == Item

\* A list page as the server renders it: no script has run.  `unheard` is
\* history: what is in the box was typed, or asked for, without reaching the table.
Fresh(t) ==
  [page |-> "list", meta |-> t,
   inits |-> 0, configured |-> FALSE, bound |-> [e \in Event |-> 0],
   table |-> FALSE, drawn |-> FALSE, draw |-> 0, term |-> EmptyBox,
   shown |-> {}, place |-> [c \in Control |-> "nowhere"],
   laidOut |-> FALSE, box |-> EmptyBox, unheard |-> FALSE]

Init ==
  /\ rows = Item /\ token = 0 /\ doc = Fresh(0)
  /\ queries = {} /\ answers = {}
  /\ posts = [p \in PostId |-> None] /\ awaited = Nobody
  /\ inputs = 0 /\ faults = 0

-----------------------------------------------------------------------------
(***************************************************************************)
(* The scripts.                                                            *)
(***************************************************************************)

\* jQuery's off and on for one namespaced event, and addEventListener.
Off(d, e) == [d EXCEPT !.bound[e] = 0]
On(d, e) == [d EXCEPT !.bound[e] = @ + 1]

ConfigureDataTableDefaults(d) == [d EXCEPT !.configured = TRUE]

BindFooterRelocationEvents(d) == On(Off(d, "drawn"), "drawn")

\* Slip: the handler of an earlier call stays bound.
BindAdvancedSearchAgain(d) == On(d, "typed")

BindAdvancedSearch(d) == On(Off(d, "typed"), "typed")

InitDataTables(d) ==
  [BindAdvancedSearch(BindFooterRelocationEvents(ConfigureDataTableDefaults(d)))
     EXCEPT !.inits = @ + 1]

\* Slip: the layout is written anew at every draw.
LayOutAnew(d) ==
  [d EXCEPT !.laidOut = TRUE,
            !.place = [c \in Control |-> IF @[c] = "footer" THEN "destroyed" ELSE @[c]]]

\* relocateDataTableFooter: the footer's layout is made when there is none,
\* and what is in the wrapper of the two controls is moved into it.
LayOut(d) ==
  IF d.laidOut THEN d
  ELSE [d EXCEPT !.laidOut = TRUE,
                 !.place = [c \in Control |-> IF @[c] = "footer" THEN "destroyed" ELSE @[c]]]

Relocate(d) ==
  LET laid == LayOut(d)
  IN  [laid EXCEPT !.place =
         [c \in Control |-> IF c \in {"info", "paging"} /\ @[c] = "wrapper"
                            THEN "footer" ELSE @[c]]]

\* The handlers of the drawn table; what one of them moved the next finds gone.
OnDrawn(d) == IF d.bound["drawn"] > 0 THEN Relocate(d) ELSE d

\* admin.js from end to end; modules run in the order of the document, so
\* before the script that makes the table.
RunAdminScript ==
  /\ doc.page = "list" /\ doc.inits = 0 /\ MaxInits > 0
  /\ doc' = InitDataTables(On(doc, "clicked"))
  /\ UNCHANGED <<rows, token, queries, answers, posts, awaited, inputs, faults>>

\* initDataTables is exported and may be called again.
InitAgain ==
  /\ doc.page = "list" /\ doc.inits \in 1..MaxInits - 1
  /\ doc' = InitDataTables(doc)
  /\ UNCHANGED <<rows, token, queries, answers, posts, awaited, inputs, faults>>

\* DataTables: the controls it puts around a table, and the queries it sends
\* when a document's table goes from one draw to a later one.
Controls(d) == IF d.configured THEN {"info", "paging"} ELSE Control

Asked(d, e) == {[draw |-> n, term |-> e.term] : n \in d.draw + 1..e.draw}

\* The script the page ends with makes the table, which asks for its first rows.
MakeTable ==
  /\ doc.page = "list" /\ doc.inits > 0 /\ ~doc.table
  /\ doc' = [doc EXCEPT
       !.table = TRUE, !.draw = 1,
       !.place = [c \in Control |-> IF c \in Controls(doc) THEN "wrapper" ELSE @[c]]]
  /\ queries' = queries \cup Asked(doc, doc')
  /\ UNCHANGED <<rows, token, answers, posts, awaited, inputs, faults>>

-----------------------------------------------------------------------------
(***************************************************************************)
(* Searching.                                                              *)
(***************************************************************************)

\* Slip: the table is drawn again without being told what to search.
DrawAgain(d) == IF d.table THEN [d EXCEPT !.draw = @ + d.bound["typed"]] ELSE d

\* The handlers on the search box: each runs table.search(this.value).draw()
\* on the first table of the page, and on nothing before there is one.
AdvancedSearch(d) ==
  IF d.table THEN [d EXCEPT !.term = d.box, !.draw = @ + d.bound["typed"]] ELSE d

Type(t) ==
  /\ doc.page = "list" /\ t # doc.box /\ inputs < MaxInputs
  /\ doc' = AdvancedSearch([doc EXCEPT !.box = t, !.unheard = ~doc.table])
  /\ queries' = queries \cup Asked(doc, doc')
  /\ inputs' = inputs + 1
  /\ UNCHANGED <<rows, token, answers, posts, awaited, faults>>

Serve(q) ==
  /\ queries' = queries \ {q}
  /\ answers' = answers \cup {[draw |-> q.draw, rows |-> q.term \cap rows]}
  /\ UNCHANGED <<rows, token, doc, posts, awaited, inputs, faults>>

\* An answer to an older draw is dropped; any other fills the table, which
\* then tells whoever listens that it was drawn.
Receive(a) ==
  /\ answers' = answers \ {a}
  /\ doc' = IF a.draw < doc.draw THEN doc
            ELSE OnDrawn([doc EXCEPT !.shown = a.rows, !.drawn = TRUE])
  /\ UNCHANGED <<rows, token, queries, posts, awaited, inputs, faults>>

LoseQuery(q) ==
  /\ faults < MaxFaults /\ faults' = faults + 1
  /\ queries' = queries \ {q}
  /\ doc' = [doc EXCEPT !.unheard = @ \/ q.draw = doc.draw]
  /\ UNCHANGED <<rows, token, answers, posts, awaited, inputs>>

-----------------------------------------------------------------------------
(***************************************************************************)
(* Deleting.                                                               *)
(***************************************************************************)

\* Slip: the page's token is not put into the form.
DeleteFormBare(i) == [state |-> "sent", item |-> i, token |-> MaxFaults + 1]

\* The form a confirmed click submits.
DeleteForm(i) == [state |-> "sent", item |-> i, token |-> doc.meta]

\* A click on the delete link of a row, confirmed; one that is not confirmed
\* goes no further than preventDefault.  A submission replaces the one whose
\* answer is awaited; that one may have reached the server or not.
ClickDelete(i) ==
  /\ doc.page = "list" /\ i \in doc.shown /\ doc.bound["clicked"] > 0
  /\ \E p \in PostId :
       /\ posts[p] = None /\ \A q \in 1..p - 1 : posts[q] # None
       /\ \E dropped \in {q \in PostId : q = awaited /\ posts[q].state = "sent"} \cup {Nobody} :
            posts' = [q \in PostId |->
                        IF q = p THEN DeleteForm(i)
                        ELSE IF q = dropped THEN [posts[q] EXCEPT !.state = "dropped"]
                        ELSE posts[q]]
       /\ awaited' = p
  /\ UNCHANGED <<rows, token, doc, queries, answers, inputs, faults>>

\* Slip: the answer says done and nothing was.
DestroyNothing(p) ==
  /\ posts[p].state = "sent"
  /\ posts' = [posts EXCEPT ![p].state = "done"]
  /\ UNCHANGED <<rows, token, doc, queries, answers, awaited, inputs, faults>>

\* The route: the token is checked, the item looked up, then destroyed.
Destroy(p) ==
  /\ posts[p].state = "sent"
  /\ LET i == posts[p].item
         ending == IF posts[p].token # token THEN "expired"
                   ELSE IF i \notin rows THEN "missing" ELSE "done"
     IN  /\ posts' = [posts EXCEPT ![p].state = ending]
         /\ rows' = IF ending = "done" THEN rows \ {i} ELSE rows
  /\ UNCHANGED <<token, doc, queries, answers, awaited, inputs, faults>>

\* The page that answers the awaited form: the list again, or an error.
Arrive ==
  /\ awaited \in PostId /\ posts[awaited].state \notin {"sent", "dropped"}
  /\ doc' = [Fresh(token) EXCEPT
               !.page = IF posts[awaited].state = "done" THEN "list" ELSE "error"]
  /\ awaited' = Nobody /\ queries' = {} /\ answers' = {}
  /\ UNCHANGED <<rows, token, posts, inputs, faults>>

\* The user opens the list again.  A form still on its way stays on its way.
OpenList ==
  /\ doc.page = "error"
  /\ doc' = Fresh(token)
  /\ UNCHANGED <<rows, token, queries, answers, posts, awaited, inputs, faults>>

\* Elsewhere: the session is renewed in another tab, somebody deletes an item.
RenewSession ==
  /\ faults < MaxFaults /\ faults' = faults + 1
  /\ token' = token + 1
  /\ UNCHANGED <<rows, doc, queries, answers, posts, awaited, inputs>>

DeleteElsewhere(i) ==
  /\ faults < MaxFaults /\ faults' = faults + 1
  /\ rows' = rows \ {i}
  /\ UNCHANGED <<token, doc, queries, answers, posts, awaited, inputs>>

-----------------------------------------------------------------------------
User == \/ \E t \in Term : Type(t)
        \/ \E i \in Item : ClickDelete(i)
        \/ OpenList

Outside == \/ \E q \in queries : LoseQuery(q)
           \/ RenewSession
           \/ \E i \in rows : DeleteElsewhere(i)

Browser == RunAdminScript \/ MakeTable \/ (\E a \in answers : Receive(a)) \/ Arrive

Server == (\E q \in queries : Serve(q)) \/ (\E p \in PostId : Destroy(p))

Next == Browser \/ InitAgain \/ Server \/ User \/ Outside

\* The browser runs the scripts of a page and handles what arrives, the server
\* answers every request; users and the outside need not do anything.
Fairness ==
  /\ WF_vars(RunAdminScript) /\ WF_vars(MakeTable) /\ WF_vars(Arrive)
  /\ WF_vars(\E a \in answers : Receive(a))
  /\ WF_vars(\E q \in queries : Serve(q))
  /\ \A p \in PostId : WF_vars(Destroy(p))

Spec == Init /\ [][Next]_vars /\ Fairness
-----------------------------------------------------------------------------
\* Every variable has its type.
TypeOK ==
  /\ rows \subseteq Item /\ token \in 0..MaxFaults /\ doc \in Document
  /\ queries \subseteq Query /\ answers \subseteq Answer
  /\ posts \in [PostId -> Post \cup {None}]
  /\ awaited \in PostId \cup {Nobody}
  /\ inputs \in 0..MaxInputs /\ faults \in 0..MaxFaults

\* A table that was drawn has its info and paging in the card's footer and
\* nothing else around it, however often it is drawn again and however often
\* initDataTables is called: relocateDataTableFooter moves nodes, and neither
\* loses them when it runs on a footer it has filled before nor leaves a
\* control of DataTables' own layout behind.
ControlsInFooter ==
  doc.drawn => \A c \in Control :
    doc.place[c] = IF c \in {"info", "paging"} THEN "footer" ELSE "nowhere"

\* When every query is answered, the table shows what the search box says,
\* whatever the order of the answers: of the items that are left, those that
\* match.  Excepted are a box changed before the table was there, which
\* bindAdvancedSearch does not look at again, and a query that was lost.
SearchSettles ==
  doc.drawn /\ queries = {} /\ answers = {} /\ ~doc.unheard
    => doc.shown \cap rows = doc.box \cap rows

\* One change of the search box asks the server once, although
\* initDataTables may have bound its handler several times.
OneQueryEach ==
  [][inputs' # inputs /\ doc.table => doc'.draw = doc.draw + 1]_vars

\* As long as nothing happens elsewhere, a deletion the server turns down is
\* the repetition of one it carried out: the page of its first answer had not
\* arrived when the link was clicked again.
FailuresAreRepetitions ==
  faults = 0 => \A p \in PostId :
    posts[p].state \in {"missing", "expired"} =>
      \E q \in 1..p - 1 \cup p + 1..MaxPosts :
        posts[q].state = "done" /\ posts[q].item = posts[p].item

\* A confirmed deletion takes place, unless the submission of another one
\* stopped it or the session was renewed meanwhile.
ConfirmedGoes ==
  \A p \in PostId :
    posts[p].state = "sent" ~>
      \/ posts[p].state = "dropped" \/ token > 0
      \/ posts[p] # None /\ posts[p].item \notin rows
=============================================================================
