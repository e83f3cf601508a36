------------------------------ MODULE ListPage ------------------------------
(* One list page of the web client: useListPage or a plain reload, the form *)
(* dialog, the dialog that confirms a deletion, and the requests under way. *)
(* Handlers run to an await; an answer, a timer and the user come in any    *)
(* order.  React has rendered and run the effects of a step before the next *)
(* one, so an effect is part of the step that causes it.                    *)
EXTENDS WebPages, FiniteSets, FiniteSetsExt, Integers

CONSTANTS
  Size,       \* bound: rows have the keys 1..Size, in the order of the list
  Matching,   \* the rows that the one text typed into a search finds
  Observed,   \* <<route, field>>: the pages, each with the one field of its
              \* form whose values are told apart
  Leads,      \* the rows of contacts without a company, where the observed
              \* field of a contact is another one
  MaxLoads,   \* bound: loads of the list
  MaxWrites   \* bound: writes to the table

Rows == 1..Size
ListPageConstants ==
  /\ Size \in Nat \ {0} /\ Matching \subseteq Rows /\ Leads \subseteq Rows
  /\ MaxLoads \in Nat \ {0} /\ MaxWrites \in Nat
  /\ \A o \in Observed : o[1] \in DOMAIN AppRoutes
                         /\ o[2] \in DOMAIN AppRoutes[o[1]].form
ASSUME ListPageConstants

VARIABLES
  shows,   \* the page that is mounted and its observed field
  table,   \* the rows on the server: the observed field, or Gone
  clock,   \* history: writes to the table so far
  list,    \* the state of the list
  form,    \* the state of the form dialog
  asks,    \* the state of the dialog that confirms a deletion
  calls    \* the requests under way

pageVars == <<shows, table, clock, list, form, asks, calls>>

Page == AppRoutes[shows[1]]
Field == Page.form[shows[2]]
Input == Page.inputs[shows[2]]

Texts == {"", "text"}          \* typed into the search
Values == {"", "x"}            \* of the observed field: empty, or not
TabNames == {"leads", "followups", "pipeline"}
Gone == "gone"
Snapshot == [Rows -> Values \cup {Gone}]
NoRows == [r \in Rows |-> Gone]

(* What the dialogs of a page can put into its observed field.              *)
Storable(p) == IF AppRoutes[p[1]].inputs[p[2]] = "free" THEN Values ELSE {"x"}

Found(q, r) == q = "" \/ r \in Matching
Search(q) == [r \in Rows |-> IF Found(q, r) THEN table[r] ELSE Gone]

-----------------------------------------------------------------------------
(* What is on the screen *)

Listed == {r \in Rows : list.items[r] # Gone}

PageCount(n, size) == Max({1, (n + size - 1) \div size})

(* The slice of the list on the current page; a plain page shows it whole.  *)
PageItems ==
  IF ~Page.hook THEN Listed
  ELSE {r \in Listed : LET rank == Cardinality({s \in Listed : s <= r})
                       IN  /\ (list.page - 1) * list.size < rank
                           /\ rank <= list.page * list.size}

(* The tab of the contacts picks from the list, and again from the slice.   *)
Lead(r) == IF shows[2] = "companyId" THEN list.items[r] = "" ELSE r \in Leads
Kept(r) == \/ ~Page.tabs \/ list.tab = "followups"
           \/ list.tab = "leads" /\ Lead(r)
           \/ list.tab = "pipeline" /\ ~Lead(r)
Filtered == {r \in Listed : Kept(r)}

(* The table and the pager below it, which counts what the tab has picked.  *)
TableShown == ~list.error /\ Filtered # {}
RowsShown == IF list.error THEN {} ELSE PageItems \cap Filtered

(* Both dialogs are modal. *)
Free == ~form.open /\ asks.row = 0

Writes == {c \in calls : c.kind # "load"}

(* Bound: what is left for writes; a tab other than the first counts as one.*)
Writable == clock + Cardinality({c \in Writes : c.state = "sent"})
              + (IF list.tab = "leads" THEN 0 ELSE 1) < MaxWrites

(* Bound: the loads and writes that what is under way may still need. *)
Spare == /\ list.latest + Cardinality(Writes)
              + (IF list.search # list.debounced THEN 1 ELSE 0) < MaxLoads
         /\ Writable

-----------------------------------------------------------------------------
(* Loading: reload(), and what its answer does *)

LoadOf(id, q) == [kind |-> "load", id |-> id, q |-> q, state |-> "sent",
                  rows |-> NoRows, at |-> 0]

NoWrite == [row |-> 0, value |-> "", shown |-> "", at |-> 0]

Mounted == [search |-> "", debounced |-> "", loaded |-> FALSE, items |-> NoRows, at |-> 0,
            error |-> FALSE, page |-> 1, size |-> 1, tab |-> "leads", latest |-> 1,
            wrote |-> NoWrite]
ClosedForm == [open |-> FALSE, row |-> 0, value |-> "", shown |-> "", saving |-> FALSE]
NotAsking == [row |-> 0, phase |-> "none", load |-> 0]

Reload(q, rest) ==
  calls' = rest \cup {LoadOf(list.latest + 1, q)}

(* Mutant of Stale: every answer is taken. *)
NeverStale(c) == FALSE

(* The answer of a load that is not the newest; only the hook looks. *)
Stale(c) == Page.hook /\ c.id # list.latest

(* A page that has shrunk under the current one. *)
Reclaimed(rows) ==
  Min({list.page,
       PageCount(Cardinality({r \in Rows : rows[r] # Gone}), list.size)})

(* reload() ends: the rows, or the error, replace what is shown.  A dialog  *)
(* that waits for it, waits no longer.                                      *)
Loaded(c, ok) ==
  /\ c \in calls /\ c.kind = "load"
  /\ ok => c.state = "done"
  /\ calls' = calls \ {c}
  /\ list' = IF Stale(c) THEN list
             ELSE IF ok THEN [list EXCEPT !.loaded = TRUE, !.items = c.rows, !.at = c.at,
                                          !.error = FALSE, !.page = Reclaimed(c.rows)]
             ELSE [list EXCEPT !.error = TRUE]
  /\ asks' = IF asks.phase = "reloading" /\ asks.load = c.id THEN NotAsking ELSE asks
  /\ UNCHANGED <<shows, table, clock, form>>

-----------------------------------------------------------------------------
(* The search, its debounce and the pages *)

Type ==
  /\ Page.hook /\ Free
  /\ Spare \/ list.search # list.debounced
  /\ \E q \in Texts \ {list.search} : list' = [list EXCEPT !.search = q]
  /\ UNCHANGED <<shows, table, clock, form, asks, calls>>

(* The timer: the debounced text changes, and its effect loads the first    *)
(* page.  A text that was typed and taken back changes nothing.             *)
Debounced ==
  /\ list.search # list.debounced
  /\ list' = [list EXCEPT !.debounced = list.search, !.page = 1, !.latest = @ + 1]
  /\ Reload(list.search, calls)
  /\ UNCHANGED <<shows, table, clock, form, asks>>

(* The tab changes, the page does not. *)
ChooseTab ==
  /\ Page.tabs /\ Free
  /\ list.tab = "leads" => Writable
  /\ \E t \in TabNames \ {list.tab} : list' = [list EXCEPT !.tab = t]
  /\ UNCHANGED <<shows, table, clock, form, asks, calls>>

(* Mutant of TurnPage: the next button stays enabled on the last page. *)
TurnPageBeyond ==
  /\ Page.hook /\ Free /\ TableShown
  /\ list' = [list EXCEPT !.page = @ + 1]
  /\ UNCHANGED <<shows, table, clock, form, asks, calls>>

TurnPage ==
  /\ Page.hook /\ Free /\ TableShown
  /\ \/ /\ list.page > 1
        /\ list' = [list EXCEPT !.page = @ - 1]
     \/ /\ list.page < PageCount(Cardinality(Filtered), list.size)
        /\ list' = [list EXCEPT !.page = @ + 1]
  /\ UNCHANGED <<shows, table, clock, form, asks, calls>>

(* Mutant of ResizePage: the page stays. *)
ResizePageOnly ==
  /\ Page.hook /\ Free /\ TableShown
  /\ \E size \in {1, 2} \ {list.size} : list' = [list EXCEPT !.size = size]
  /\ UNCHANGED <<shows, table, clock, form, asks, calls>>

ResizePage ==
  /\ Page.hook /\ Free /\ TableShown
  /\ \E size \in {1, 2} \ {list.size} :
       list' = [list EXCEPT !.size = size, !.page = 1]
  /\ UNCHANGED <<shows, table, clock, form, asks, calls>>

-----------------------------------------------------------------------------
(* The form dialog *)

(* The effect on [open, row] fills the form; whether a save is under way is *)
(* left as it is.                                                           *)
FirstValue == IF shows[2] \in Page.prefilled THEN "x" ELSE ""
OpenedFor(r) == [form EXCEPT !.open = TRUE, !.row = r,
                             !.value = IF r = 0 THEN FirstValue ELSE list.items[r],
                             !.shown = IF r = 0 THEN "" ELSE list.items[r]]

Create ==
  /\ "create" \in Page.writes /\ Free
  /\ form' = OpenedFor(0)
  /\ UNCHANGED <<shows, table, clock, list, asks, calls>>

Edit(r) ==
  /\ "update" \in Page.writes /\ Free /\ r \in RowsShown
  /\ form' = OpenedFor(r)
  /\ UNCHANGED <<shows, table, clock, list, asks, calls>>

Fill ==
  /\ form.open
  /\ \E v \in Values \ {form.value} :
       /\ Input = "choice" => v # ""
       /\ form' = [form EXCEPT !.value = v]
  /\ UNCHANGED <<shows, table, clock, list, asks, calls>>

Closed == [ClosedForm EXCEPT !.saving = form.saving]

(* "Anulează" works while the form saves, and does not stop the request. *)
Cancel ==
  /\ form.open
  /\ form' = Closed
  /\ UNCHANGED <<shows, table, clock, list, asks, calls>>

WriteOf(kind, r) == [kind |-> kind, row |-> r, value |-> form.value,
                     shown |-> form.shown, q |-> list.debounced,
                     state |-> "sent", at |-> 0]

(* Mutant of Submit: the button stays enabled while the form saves. *)
SubmitAgain ==
  /\ form.open /\ Spare
  /\ Input = "required" => form.value # ""
  /\ form' = [form EXCEPT !.saving = TRUE]
  /\ calls' = calls \cup {WriteOf("save", form.row)}
  /\ UNCHANGED <<shows, table, clock, list, asks>>

(* handleSubmit up to its await.  The reload it is going to call is the one *)
(* of this rendering, with this rendering's search.                         *)
Submit ==
  /\ form.open /\ ~form.saving /\ Spare
  /\ Input = "required" => form.value # ""
  /\ form' = [form EXCEPT !.saving = TRUE]
  /\ calls' = calls \cup {WriteOf("save", form.row)}
  /\ UNCHANGED <<shows, table, clock, list, asks>>

(* History: the user's last write that the server has acknowledged. *)
Acknowledged(c) ==
  [list EXCEPT !.latest = @ + 1,
               !.wrote = IF c.at < @.at THEN @
                         ELSE [row |-> IF c.kind = "save" THEN c.row ELSE 0,
                               value |-> c.value, shown |-> c.shown, at |-> c.at]]

(* onSaved and onOpenChange(false), whatever dialog is open by now. *)
Saved(c) ==
  /\ c \in calls /\ c.kind = "save" /\ c.state = "done"
  /\ list' = Acknowledged(c)
  /\ Reload(c.q, calls \ {c})
  /\ form' = ClosedForm
  /\ UNCHANGED <<shows, table, clock, asks>>

(* Refused, or no answer at all to a save that may have been made. *)
SaveFailed(c) ==
  /\ c \in calls /\ c.kind = "save"
  /\ calls' = calls \ {c}
  /\ form' = [form EXCEPT !.saving = FALSE]
  /\ UNCHANGED <<shows, table, clock, list, asks>>

-----------------------------------------------------------------------------
(* The dialog that confirms a deletion, and the star of a note *)

AskRemove(r) ==
  /\ "remove" \in Page.writes /\ Free /\ r \in RowsShown
  /\ asks' = [NotAsking EXCEPT !.row = r, !.phase = "asking"]
  /\ UNCHANGED <<shows, table, clock, list, form, calls>>

(* It does not close while it deletes and reloads. *)
Dismiss ==
  /\ asks.phase = "asking"
  /\ asks' = NotAsking
  /\ UNCHANGED <<shows, table, clock, list, form, calls>>

Confirm ==
  /\ asks.phase = "asking" /\ Spare
  /\ asks' = [asks EXCEPT !.phase = "removing"]
  /\ calls' = calls \cup {WriteOf("remove", asks.row)}
  /\ UNCHANGED <<shows, table, clock, list, form>>

Removed(c) ==
  /\ c \in calls /\ c.kind = "remove" /\ c.state = "done"
  /\ list' = Acknowledged(c)
  /\ Reload(c.q, calls \ {c})
  /\ asks' = [asks EXCEPT !.phase = "reloading", !.load = list.latest + 1]
  /\ UNCHANGED <<shows, table, clock, form>>

RemoveFailed(c) ==
  /\ c \in calls /\ c.kind = "remove"
  /\ calls' = calls \ {c}
  /\ asks' = [asks EXCEPT !.phase = "asking"]
  /\ UNCHANGED <<shows, table, clock, list, form>>

ToggleFavorite(r) ==
  /\ "toggle" \in Page.writes /\ Free /\ r \in RowsShown /\ Spare
  /\ calls' = calls \cup {WriteOf("toggle", r)}
  /\ UNCHANGED <<shows, table, clock, list, form, asks>>

Toggled(c) ==
  /\ c \in calls /\ c.kind = "toggle" /\ c.state = "done"
  /\ list' = Acknowledged(c)
  /\ Reload(c.q, calls \ {c})
  /\ UNCHANGED <<shows, table, clock, form, asks>>

(* Nothing catches it. *)
ToggleFailed(c) ==
  /\ c \in calls /\ c.kind = "toggle"
  /\ calls' = calls \ {c}
  /\ UNCHANGED <<shows, table, clock, list, form, asks>>

-----------------------------------------------------------------------------
(* The server, as the client sees it: a request is carried out some time    *)
(* between its sending and its answer, unless it is refused.                *)

Carried(c, r, at) ==
  (calls \ {c}) \cup {[c EXCEPT !.state = "done", !.row = r, !.at = at]}

ServeLoad(c) ==
  /\ c \in calls /\ c.kind = "load" /\ c.state = "sent"
  /\ calls' = (calls \ {c}) \cup {[c EXCEPT !.state = "done", !.at = clock,
                                            !.rows = Search(c.q)]}
  /\ UNCHANGED <<shows, table, clock, list, form, asks>>

(* Mutant of Column: an empty field is left out of the body. *)
ColumnUnlessEmpty(class, value, shown, old) ==
  IF value = "" \/ (class = "changed" /\ value = shown) THEN old ELSE value

(* The column after the body that handleSubmit builds from the field. *)
Column(class, value, shown, old) ==
  IF \/ class = "omitted" /\ value = ""
     \/ class = "changed" /\ value = shown
  THEN old ELSE value

ServeSave(c) ==
  /\ c \in calls /\ c.kind = "save" /\ c.state = "sent"
  /\ clock' = clock + 1
  /\ \E r \in Rows :
       /\ IF c.row = 0 THEN table[r] = Gone ELSE r = c.row /\ table[r] # Gone
       /\ table' = [table EXCEPT ![r] = Column(Field, c.value, c.shown,
                                               IF c.row = 0 THEN "" ELSE @)]
       /\ calls' = Carried(c, r, clock')
  /\ UNCHANGED <<shows, list, form, asks>>

ServeRemove(c) ==
  /\ c \in calls /\ c.kind = "remove" /\ c.state = "sent"
  /\ table[c.row] # Gone
  /\ table' = [table EXCEPT ![c.row] = Gone]
  /\ clock' = clock + 1
  /\ calls' = Carried(c, c.row, clock')
  /\ UNCHANGED <<shows, list, form, asks>>

(* The star is another column than the observed one. *)
ServeToggle(c) ==
  /\ c \in calls /\ c.kind = "toggle" /\ c.state = "sent"
  /\ table[c.row] # Gone
  /\ clock' = clock + 1
  /\ calls' = Carried(c, c.row, clock')
  /\ UNCHANGED <<shows, table, list, form, asks>>

(* Another user creates, changes or deletes a row. *)
OthersWrite ==
  /\ Writable
  /\ \E r \in Rows, v \in Storable(shows) \cup {Gone} :
       /\ table[r] # v
       /\ table' = [table EXCEPT ![r] = v]
  /\ clock' = clock + 1
  /\ UNCHANGED <<shows, list, form, asks, calls>>

-----------------------------------------------------------------------------
(* The effect of the first rendering loads the list. *)
PageInit ==
  /\ shows \in Observed
  /\ table \in [Rows -> Storable(shows) \cup {Gone}]
  /\ clock = 0
  /\ list = Mounted
  /\ form = ClosedForm
  /\ asks = NotAsking
  /\ calls = {LoadOf(1, "")}

UserOnPage ==
  \/ Type \/ ChooseTab \/ TurnPage \/ ResizePage \/ Create \/ Fill \/ Cancel \/ Submit
  \/ Dismiss \/ Confirm
  \/ \E r \in Rows : Edit(r) \/ AskRemove(r) \/ ToggleFavorite(r)

Serve(c) == ServeLoad(c) \/ ServeSave(c) \/ ServeRemove(c) \/ ServeToggle(c)

Answer(c) == \/ \E ok \in BOOLEAN : Loaded(c, ok)
             \/ Saved(c) \/ SaveFailed(c)
             \/ Removed(c) \/ RemoveFailed(c)
             \/ Toggled(c) \/ ToggleFailed(c)

PageNext ==
  \/ UserOnPage \/ Debounced \/ OthersWrite
  \/ \E c \in calls : Serve(c) \/ Answer(c)

PageSpec == PageInit /\ [][PageNext]_pageVars

-----------------------------------------------------------------------------
PageTypeOK ==
  /\ table \in Snapshot
  /\ clock \in 0..MaxWrites
  /\ list \in [search: Texts, debounced: Texts, loaded: BOOLEAN, items: Snapshot,
               at: 0..MaxWrites, error: BOOLEAN, page: 1..Size, size: {1, 2},
               tab: TabNames, latest: 1..MaxLoads,
               wrote: [row: Rows \cup {0}, value: Values, shown: Values, at: 0..MaxWrites]]
  /\ form \in [open: BOOLEAN, row: Rows \cup {0}, value: Values, shown: Values, saving: BOOLEAN]

Quiet == calls = {} /\ list.search = list.debounced

(* While it stays mounted, a list of the hook never goes back to an older   *)
(* state of the table, however late the answers of earlier searches and     *)
(* reloads arrive.                                                          *)
NeverBackInTime ==
  [][Page.hook /\ list.loaded /\ list'.loaded => list'.at >= list.at]_pageVars

(* When nothing is under way any more, a list of the hook is at least as    *)
(* new as the last thing this user saved, deleted or toggled on the page.   *)
OwnWritesShown ==
  Page.hook /\ Quiet /\ ~list.error => list.at >= list.wrote.at

(* A field that the user changed in a form, or emptied, and saved, is shown *)
(* in the list as it was typed, unless somebody wrote since.  Not so the    *)
(* fields that a form omits when they are empty.                            *)
SavedIsShown ==
  LET w == list.wrote
  IN  Page.hook /\ Quiet /\ ~list.error /\ w.row \in Listed /\ w.at = clock
        /\ w.value # w.shown /\ Field # "omitted"
      => list.items[w.row] = w.value

(* On the pages of the hook a table is never without rows: the current page *)
(* exists, whatever was deleted, searched, turned or resized.  Except under *)
(* leads and pipeline of the contacts, which leave rows out after the hook  *)
(* has cut the page: there the table may be empty, its rows on another page.*)
PageShowsRows ==
  /\ Page.hook /\ TableShown
  /\ Page.tabs => list.tab = "followups"
  => RowsShown # {}

(* A form has one save under way at most, however often its dialog is       *)
(* closed and opened again.                                                 *)
OneSaveAtATime == Cardinality({c \in calls : c.kind = "save"}) <= 1

(* When nothing is under way, the list holds what the search box asks for.  *)
SearchedListShown ==
  Quiet /\ ~list.error => \A r \in Listed : Found(list.search, r)
=============================================================================
