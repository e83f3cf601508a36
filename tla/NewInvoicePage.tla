--------------------------- MODULE NewInvoicePage ---------------------------
(* The page that makes an invoice: the lists its pickers offer, the quick   *)
(* creators of a company, a series and a product, the lines, the draft that *)
(* is created and then issued, and "another invoice".  Handlers run to an   *)
(* await; answers come in any order, or not at all.                         *)
EXTENDS FiniteSets, Integers

CONSTANTS
  Pickers,      \* the quick creators that are used
  MaxInvoices,  \* bound: invoices the server makes
  MaxLines      \* bound: lines of a form

Invoices == 1..MaxInvoices

(* What a quick creator does with its new row: offer it, or choose it too.  *)
CompanyPicker == [chooses |-> TRUE]
SeriesPicker == [chooses |-> TRUE]
QuickCreateProduct == [chooses |-> FALSE]
PickerOf == [company |-> CompanyPicker, series |-> SeriesPicker,
             product |-> QuickCreateProduct]

NewInvoiceConstants ==
  /\ Pickers \subseteq DOMAIN PickerOf
  /\ MaxInvoices \in Nat \ {0}
  /\ MaxLines \in Nat \ {0}
ASSUME NewInvoiceConstants

VARIABLES
  invoice,   \* the state of the page
  picker,    \* the state of each quick creator
  orders,    \* its requests under way
  made,      \* the invoices on the server: "none", "draft" or "issued"
  lost       \* history: creations of this form that were made unanswered

invoiceVars == <<invoice, picker, orders, made, lost>>

(* The lists load when the page is mounted; a picker without anything to    *)
(* offer opens its creator at once.                                         *)
BlankInvoice == [lists |-> "loading", lines |-> 1, shown |-> 0, status |-> "none",
                 submitting |-> FALSE, issuing |-> FALSE, drafts |-> 0]
IdlePicker == [open |-> FALSE, saving |-> FALSE, chosen |-> "none"]

OnForm == invoice.lists = "ready" /\ invoice.shown = 0
Order(kind, i) == [kind |-> kind, by |-> "form", of |-> i, state |-> "sent", live |-> TRUE]
QuickOrder(k) == [Order("quick", 0) EXCEPT !.by = k]
CarriedOut(o) == (orders \ {o}) \cup {[o EXCEPT !.state = "done"]}

-----------------------------------------------------------------------------
(* reloadLists, when the page is mounted: the first company and series of   *)
(* the lists are chosen unless one is chosen already.                       *)
ListsLoaded ==
  /\ invoice.lists = "loading"
  /\ invoice' = [invoice EXCEPT !.lists = "ready"]
  /\ \E nonempty \in SUBSET Pickers :
       picker' = [k \in Pickers |->
                    [IdlePicker EXCEPT
                       !.open = k \notin nonempty /\ PickerOf[k].chooses,
                       !.chosen = IF k \in nonempty /\ PickerOf[k].chooses
                                  THEN "offered" ELSE "none"]]
  /\ UNCHANGED <<orders, made, lost>>

ListsFailed ==
  /\ invoice.lists = "loading"
  /\ invoice' = [invoice EXCEPT !.lists = "failed"]
  /\ UNCHANGED <<picker, orders, made, lost>>

(* addLine and removeLine: the last line stays. *)
ChangeLines ==
  /\ OnForm
  /\ \E n \in {invoice.lines - 1, invoice.lines + 1} :
       n \in 1..MaxLines /\ invoice' = [invoice EXCEPT !.lines = n]
  /\ UNCHANGED <<picker, orders, made, lost>>

-----------------------------------------------------------------------------
(* The quick creators *)

(* An invoice on the screen unmounts the form and its creators: those of    *)
(* the next form start afresh, and the answers to the old ones find nobody. *)
FormLeft(rest) ==
  /\ orders' = {IF o.kind = "quick" THEN [o EXCEPT !.live = FALSE] ELSE o : o \in rest}
  /\ picker' = [k \in Pickers |-> [picker[k] EXCEPT
                  !.saving = FALSE,
                  !.open = PickerOf[k].chooses /\ picker[k].chosen = "none"]]

(* "+ Client nou" and "Anulează", which works while the creator saves; it   *)
(* is only there when there is something else to choose.                    *)
OpenOrCancel(k) ==
  /\ OnForm
  /\ picker[k].open /\ PickerOf[k].chooses => picker[k].chosen # "none"
  /\ picker' = [picker EXCEPT ![k].open = ~@]
  /\ UNCHANGED <<invoice, orders, made, lost>>

Choose(k) ==
  /\ OnForm /\ ~picker[k].open /\ PickerOf[k].chooses
  /\ picker[k].chosen = "created"
  /\ picker' = [picker EXCEPT ![k].chosen = "offered"]
  /\ UNCHANGED <<invoice, orders, made, lost>>

QuickCreate(k) ==
  /\ OnForm /\ picker[k].open /\ ~picker[k].saving
  /\ \A o \in orders : o.by = k => o.live    \* bound: one unmounted at most
  /\ picker' = [picker EXCEPT ![k].saving = TRUE]
  /\ orders' = orders \cup {QuickOrder(k)}
  /\ UNCHANGED <<invoice, made, lost>>

(* onCreated: whatever has been chosen since, the new row is chosen now.    *)
QuickCreated(o) ==
  /\ o.kind = "quick"
  /\ orders' = orders \ {o}
  /\ picker' = [picker EXCEPT ![o.by] =
                  [open |-> @.open /\ ~o.live, saving |-> @.saving /\ ~o.live,
                   chosen |-> IF PickerOf[o.by].chooses THEN "created" ELSE @.chosen]]
  /\ UNCHANGED <<invoice, made, lost>>

QuickFailed(o) ==
  /\ o.kind = "quick"
  /\ orders' = orders \ {o}
  /\ picker' = [picker EXCEPT ![o.by].saving = @ /\ ~o.live]
  /\ UNCHANGED <<invoice, made, lost>>

-----------------------------------------------------------------------------
(* The draft *)

(* Mutant of SubmitInvoice: the button stays enabled while it is submitted. *)
SubmitInvoiceAgain ==
  /\ OnForm
  /\ \A k \in Pickers : PickerOf[k].chooses => picker[k].chosen # "none"
  /\ \E i \in Invoices : made[i] = "none" /\ orders' = orders \cup {Order("create", i)}
  /\ invoice' = [invoice EXCEPT !.submitting = TRUE]
  /\ UNCHANGED <<picker, made, lost>>

(* handleSubmit: a company and a series are chosen; a creator may be open.  *)
SubmitInvoice ==
  /\ OnForm /\ ~invoice.submitting
  /\ \A k \in Pickers : PickerOf[k].chooses => picker[k].chosen # "none"
  /\ \E i \in Invoices : made[i] = "none" /\ orders' = orders \cup {Order("create", i)}
  /\ invoice' = [invoice EXCEPT !.submitting = TRUE]
  /\ UNCHANGED <<picker, made, lost>>

ServeCreate(o) ==
  /\ o.kind = "create" /\ o.state = "sent" /\ made[o.of] = "none"
  /\ made' = [made EXCEPT ![o.of] = "draft"]
  /\ orders' = CarriedOut(o)
  /\ invoice' = [invoice EXCEPT !.drafts = @ + 1]
  /\ UNCHANGED <<picker, lost>>

InvoiceCreated(o) ==
  /\ o.kind = "create" /\ o.state = "done"
  /\ FormLeft(orders \ {o})
  /\ invoice' = [invoice EXCEPT !.shown = o.of, !.status = "draft", !.submitting = FALSE]
  /\ UNCHANGED <<made, lost>>

CreateFailed(o) ==
  /\ o.kind = "create"
  /\ orders' = orders \ {o}
  /\ invoice' = [invoice EXCEPT !.submitting = FALSE]
  /\ lost' = lost + (IF o.state = "done" THEN 1 ELSE 0)
  /\ UNCHANGED <<picker, made>>

-----------------------------------------------------------------------------
(* Issue, and another invoice *)

IssueInvoice ==
  /\ invoice.shown # 0 /\ invoice.status = "draft" /\ ~invoice.issuing
  /\ orders' = orders \cup {Order("issue", invoice.shown)}
  /\ invoice' = [invoice EXCEPT !.issuing = TRUE]
  /\ UNCHANGED <<picker, made, lost>>

ServeIssue(o) ==
  /\ o.kind = "issue" /\ o.state = "sent" /\ made[o.of] = "draft"
  /\ made' = [made EXCEPT ![o.of] = "issued"]
  /\ orders' = CarriedOut(o)
  /\ UNCHANGED <<invoice, picker, lost>>

(* The answer shows its invoice, whatever is on the screen by now. *)
InvoiceIssued(o) ==
  /\ o.kind = "issue" /\ o.state = "done"
  /\ FormLeft(orders \ {o})
  /\ invoice' = [invoice EXCEPT !.shown = o.of, !.status = "issued", !.issuing = FALSE]
  /\ UNCHANGED <<made, lost>>

IssueFailed(o) ==
  /\ o.kind = "issue"
  /\ orders' = orders \ {o}
  /\ invoice' = [invoice EXCEPT !.issuing = FALSE]
  /\ UNCHANGED <<picker, made, lost>>

(* startOver: a blank form again; company, series and lists are kept. *)
StartOver ==
  /\ invoice.shown # 0
  /\ invoice' = [invoice EXCEPT !.shown = 0, !.status = "none", !.lines = 1, !.drafts = 0]
  /\ lost' = 0
  /\ UNCHANGED <<picker, orders, made>>

-----------------------------------------------------------------------------
InvoiceMounted ==
  /\ invoice' = BlankInvoice
  /\ picker' = [k \in Pickers |-> IdlePicker]
  /\ orders' = {}
  /\ made' = [i \in Invoices |-> "none"]
  /\ lost' = 0

UserOnInvoice ==
  \/ ChangeLines \/ SubmitInvoice \/ IssueInvoice \/ StartOver
  \/ \E k \in Pickers : OpenOrCancel(k) \/ Choose(k) \/ QuickCreate(k)

InvoiceNext ==
  \/ UserOnInvoice \/ ListsLoaded \/ ListsFailed
  \/ \E o \in orders :
       \/ ServeCreate(o) \/ InvoiceCreated(o) \/ CreateFailed(o)
       \/ ServeIssue(o) \/ InvoiceIssued(o) \/ IssueFailed(o)
       \/ QuickCreated(o) \/ QuickFailed(o)
=============================================================================
