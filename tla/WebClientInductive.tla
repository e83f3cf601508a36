------------------------- MODULE WebClientInductive -------------------------
(***************************************************************************)
(* What WebClient knows of the requests that are under way, without which  *)
(* its invariants are not inductive.  TLC checks WebInv as an invariant;   *)
(* WebClientProofs proves that every step preserves it.                    *)
(***************************************************************************)
EXTENDS WebClient

-----------------------------------------------------------------------------
(* A list page *)

Loads == {c \in calls : c.kind = "load"}
Saves == {c \in calls : c.kind = "save"}
SentWrites == {c \in Writes : c.state = "sent"}
Newest(c) == c.kind = "load" /\ c.id = list.latest

LoadCalls == [kind: {"load"}, id: Nat, q: Texts, state: {"sent", "done"},
              rows: Snapshot, at: Nat]
WriteCalls == [kind: {"save", "remove", "toggle"}, row: Rows \cup {0},
               value: Values, shown: Values, q: Texts, state: {"sent", "done"},
               at: Nat]
ListStates == [search: Texts, debounced: Texts, loaded: BOOLEAN, items: Snapshot,
               at: Nat, error: BOOLEAN, page: Nat \ {0}, size: {1, 2}, tab: TabNames,
               latest: Nat \ {0},
               wrote: [row: Rows \cup {0}, value: Values, shown: Values, at: Nat]]
FormStates == [open: BOOLEAN, row: Rows \cup {0}, value: Values, shown: Values,
               saving: BOOLEAN]
AskStates == [row: Rows \cup {0}, phase: {"none", "asking", "removing", "reloading"},
              load: Nat]

(* The shapes, without the bounds of the instances. *)
PageShape ==
  /\ shows \in Observed \cup {Landing}
  /\ table \in Snapshot
  /\ clock \in Nat
  /\ list \in ListStates
  /\ form \in FormStates
  /\ asks \in AskStates
  /\ IsFiniteSet(calls)
  /\ calls \subseteq LoadCalls \cup WriteCalls

(* The bounds count what is under way: Spare has set it aside.             *)
PageBounds ==
  /\ clock + Cardinality(SentWrites) <= MaxWrites
  /\ list.latest + Cardinality(Writes) <= MaxLoads
  /\ list.search # list.debounced => list.latest + Cardinality(Writes) < MaxLoads

(* Nothing carries a state of the table that is still to come.             *)
NothingAhead ==
  /\ list.at <= clock /\ list.wrote.at <= clock
  /\ \A c \in calls : c.at <= clock

(* Loads are told apart by their numbers, and the last number is the       *)
(* newest load's.                                                          *)
LoadsNumbered ==
  /\ \A c \in Loads : c.id <= list.latest
  /\ \A c, d \in Loads : c.id = d.id => c = d

(* The newest load was sent after the last acknowledged write, and, on a   *)
(* page of the hook, after the server had made whatever is shown.          *)
NewestIsNewer ==
  \A c \in calls : Newest(c) /\ c.state = "done" =>
    /\ c.at >= list.wrote.at
    /\ Page.hook => c.at >= list.at

(* Until it is answered, the list may be older than that write.            *)
NewestAwaited ==
  Page.hook => \/ \E c \in calls : Newest(c)
               \/ list.error
               \/ list.at >= list.wrote.at

(* Whatever carries the present state of the table agrees with it.         *)
Agrees(rows) == \A r \in Rows : rows[r] \in {Gone, table[r]}
Stored(w) == Field # "omitted" /\ w.value # w.shown /\ w.row \in Rows
               => table[w.row] = w.value
UpToDate ==
  /\ list.at = clock => Agrees(list.items)
  /\ \A c \in Loads : c.state = "done" /\ c.at = clock => Agrees(c.rows)
  /\ list.wrote.at = clock => Stored(list.wrote)
  /\ \A c \in Saves : c.state = "done" /\ c.at = clock => Stored(c)

(* A form that has a save under way knows it, also when it is closed.      *)
SaveIsKnown ==
  /\ Saves # {} => form.saving
  /\ \A c, d \in Saves : c = d

PageExists == list.page <= PageCount(Cardinality(Listed), list.size)

PageInv ==
  /\ PageShape /\ PageBounds
  /\ NothingAhead /\ LoadsNumbered /\ NewestIsNewer /\ NewestAwaited
  /\ UpToDate /\ SaveIsKnown /\ PageExists

-----------------------------------------------------------------------------
(* The session: before another tab has intervened, everything this tab     *)
(* keeps or waits for belongs to its token.                                *)
SessionInv ==
  /\ {token, stored, storedName, tenantName, me, logging} \subseteq Firms \cup {Nobody}
  /\ alone \in BOOLEAN /\ route \in {"login", "list", "new"}
  /\ logging # Nobody => route = "login"
  /\ route = "login" => token = Nobody
  /\ alone => stored = token /\ {storedName, tenantName, me} \subseteq {token, Nobody}

-----------------------------------------------------------------------------
(* The page of a new invoice *)

Creations == {o \in orders : o.kind = "create"}

InvoiceStates == [lists: {"loading", "ready", "failed"}, lines: 1 .. MaxLines,
                  shown: Invoices \cup {0}, status: {"none", "draft", "issued"},
                  submitting: BOOLEAN, issuing: BOOLEAN, drafts: Nat]
OrderStates == [kind: {"create", "issue", "quick"}, by: Pickers \cup {"form"},
                of: Invoices \cup {0}, state: {"sent", "done"}, live: BOOLEAN]

FormShape ==
  /\ invoice \in InvoiceStates /\ lost \in Nat
  /\ orders \subseteq OrderStates
  /\ \A o \in orders : o.kind # "quick" => o.of \in Invoices

(* A form has one creation under way, and is not submitted meanwhile; a    *)
(* draft made before that was lost.                                        *)
DraftInv ==
  /\ Creations # {} => invoice.submitting
  /\ \A o, p \in Creations : o = p
  /\ \A o \in Creations : o.state = "sent" => invoice.drafts <= lost
  /\ invoice.shown = 0 /\ ~invoice.submitting => invoice.drafts <= lost
  /\ invoice.drafts <= lost + 1

InvoiceInv == FormShape /\ DraftInv

WebInv == PageInv /\ SessionInv /\ InvoiceInv
=============================================================================
