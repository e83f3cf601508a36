------------------------------ MODULE WebPages ------------------------------
(* The pages of the web client and the forms of their dialogs, as data for  *)
(* ListPage.  A form says how each of its fields is sent:                   *)
(*   "value"     always as it is                                            *)
(*   "null"      empty is sent as null, which clears the column             *)
(*   "omitted"   empty is left out of the body, which changes nothing       *)
(*   "changed"   sent, empty or not, when it differs from the row           *)
(* what input each field has:                                               *)
(*   "required"  the browser refuses to submit it empty                     *)
(*   "choice"    one of several values, never empty                         *)
(*   "free"      it may be empty: a text, a set, an unchecked box, or a     *)
(*               choice with none among its values                          *)
(* and which fields have a value already when the form opens for a new row. *)

CompanyForm ==
  [name |-> "value", taxId |-> "changed", address |-> "null",
   postalCode |-> "null", city |-> "null", isVatPayer |-> "value",
   website |-> "null", email |-> "null", phone |-> "null",
   description |-> "null", categories |-> "value",
   connectionStrength |-> "omitted", estimatedRevenueRange |-> "omitted",
   teamUserIds |-> "value"]
CompanyInputs ==
  [name |-> "required", taxId |-> "free", website |-> "free",
   email |-> "free", phone |-> "free", address |-> "free", city |-> "free",
   postalCode |-> "free", description |-> "free", categories |-> "free",
   connectionStrength |-> "free", estimatedRevenueRange |-> "free",
   teamUserIds |-> "free", isVatPayer |-> "free"]
CompanyPrefilled == {"isVatPayer"}

ContactForm ==
  [name |-> "value", email |-> "null", phone |-> "null",
   address |-> "null", position |-> "null", companyId |-> "null",
   socialLinks |-> "value"]
ContactInputs ==
  [name |-> "required", position |-> "free", email |-> "free",
   phone |-> "free", address |-> "free", companyId |-> "free",
   socialLinks |-> "free"]
ContactPrefilled == {}

DealForm ==
  [title |-> "value", contactId |-> "null", companyId |-> "null",
   totalValue |-> "value", status |-> "value", priority |-> "value",
   dealDate |-> "value", expectedCloseDate |-> "null",
   discountPercent |-> "omitted", paymentMethod |-> "null",
   invoiceId |-> "null"]
DealInputs ==
  [title |-> "required", contactId |-> "free", companyId |-> "free",
   totalValue |-> "required", discountPercent |-> "free",
   status |-> "choice", priority |-> "choice", dealDate |-> "required",
   expectedCloseDate |-> "free", paymentMethod |-> "free",
   invoiceId |-> "free"]
DealPrefilled == {"totalValue", "status", "priority", "dealDate"}

TaskForm ==
  [title |-> "value", description |-> "null", dueAt |-> "null",
   priority |-> "value", status |-> "value", companyId |-> "null",
   contactId |-> "null", dealId |-> "null", assigneeUserIds |-> "value"]
TaskInputs ==
  [title |-> "required", description |-> "free", dueAt |-> "free",
   priority |-> "choice", status |-> "choice", companyId |-> "free",
   contactId |-> "free", dealId |-> "free", assigneeUserIds |-> "free"]
TaskPrefilled == {"priority", "status"}

NoteForm ==
  [title |-> "value", content |-> "null", category |-> "null",
   priority |-> "value", status |-> "value", companyId |-> "null",
   contactId |-> "null", dealId |-> "null", assigneeUserIds |-> "value"]
NoteInputs ==
  [title |-> "required", content |-> "free", category |-> "free",
   priority |-> "choice", status |-> "choice", companyId |-> "free",
   contactId |-> "free", dealId |-> "free", assigneeUserIds |-> "free"]
NotePrefilled == {"priority", "status"}

ProductForm ==
  [description |-> "value", unitOfMeasure |-> "value",
   defaultTaxType |-> "value", unitPrice |-> "null",
   revenueAccount |-> "value"]
ProductInputs ==
  [description |-> "required", unitOfMeasure |-> "required",
   defaultTaxType |-> "choice", unitPrice |-> "free",
   revenueAccount |-> "required"]
ProductPrefilled == {"unitOfMeasure", "defaultTaxType", "revenueAccount"}

SeriesForm == [seriesCode |-> "value", documentType |-> "value"]
SeriesInputs == [seriesCode |-> "required", documentType |-> "choice"]
SeriesPrefilled == {"documentType"}

-----------------------------------------------------------------------------
(* A page: whether its list is useListPage's (searched, paged, late answers *)
(* ignored) or a plain reload of everything, whether tabs between the hook  *)
(* and the table leave rows out, and what the user can change on it.  A     *)
(* dialog that edits, creates; every page that writes, removes.             *)

CompaniesPage == [hook |-> TRUE, tabs |-> FALSE, writes |-> {"create", "update", "remove"},
                  form |-> CompanyForm, inputs |-> CompanyInputs,
                  prefilled |-> CompanyPrefilled]
ContactsPage == [hook |-> TRUE, tabs |-> TRUE, writes |-> {"create", "update", "remove"},
                 form |-> ContactForm, inputs |-> ContactInputs,
                 prefilled |-> ContactPrefilled]
ProductsPage == [hook |-> TRUE, tabs |-> FALSE, writes |-> {"create", "update", "remove"},
                 form |-> ProductForm, inputs |-> ProductInputs,
                 prefilled |-> ProductPrefilled]

(* A series is never edited. *)
InvoiceSeriesPage == [hook |-> TRUE, tabs |-> FALSE, writes |-> {"create", "remove"},
                      form |-> SeriesForm, inputs |-> SeriesInputs,
                      prefilled |-> SeriesPrefilled]

DealsPage == [hook |-> FALSE, tabs |-> FALSE, writes |-> {"create", "update", "remove"},
              form |-> DealForm, inputs |-> DealInputs,
              prefilled |-> DealPrefilled]
TasksPage == [hook |-> FALSE, tabs |-> FALSE, writes |-> {"create", "update", "remove"},
              form |-> TaskForm, inputs |-> TaskInputs,
              prefilled |-> TaskPrefilled]

(* The star of a note is toggled from its row, without a dialog. *)
NotesPage == [hook |-> FALSE, tabs |-> FALSE,
              writes |-> {"create", "update", "remove", "toggle"},
              form |-> NoteForm, inputs |-> NoteInputs,
              prefilled |-> NotePrefilled]

(* Read once when mounted, and never written from the page. *)
NoForm == [id |-> "value"]
NoInputs == [id |-> "free"]
InvoicesPage == [hook |-> FALSE, tabs |-> FALSE, writes |-> {},
                  form |-> NoForm, inputs |-> NoInputs, prefilled |-> {}]
CrmDashboardPage == [hook |-> FALSE, tabs |-> FALSE, writes |-> {},
                  form |-> NoForm, inputs |-> NoInputs, prefilled |-> {}]
CompanyDetailPage == [hook |-> FALSE, tabs |-> FALSE, writes |-> {},
                  form |-> NoForm, inputs |-> NoInputs, prefilled |-> {}]

AppRoutes ==
  [invoices |-> InvoicesPage, products |-> ProductsPage,
   series |-> InvoiceSeriesPage, crm |-> CrmDashboardPage,
   contacts |-> ContactsPage, companies |-> CompaniesPage,
   company |-> CompanyDetailPage, deals |-> DealsPage, tasks |-> TasksPage,
   notes |-> NotesPage]
=============================================================================
