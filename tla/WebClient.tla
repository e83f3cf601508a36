----------------------------- MODULE WebClient ------------------------------
(* One tab of the web client: the session of AuthContext, LoginPage and     *)
(* RequireAuth around the one page that is mounted.  A tab keeps its token  *)
(* in the state of AuthProvider and in localStorage, which other tabs share *)
(* and from which every request takes it.                                   *)
EXTENDS ListPage, NewInvoicePage

CONSTANTS
  Firms,     \* a token is told from another by its firm
  Nobody     \* no token, no name

ASSUME FirmsAssumption == Nobody \notin Firms

VARIABLES
  route,      \* "login", "list" (the page that shows) or "new"
  token,      \* AuthProvider's token
  tenantName, \* ...and the firm it names in the header
  stored,     \* localStorage: the token...
  storedName, \* ...and the name
  me,         \* the token of the GET /auth/me under way
  logging,    \* the firm of the login under way
  alone       \* history: since its last logout no other tab has logged in or out

session == <<token, tenantName, stored, storedName, me, logging, alone>>
vars == <<route, session, pageVars, invoiceVars>>

Landing == <<"invoices", "id">>

-----------------------------------------------------------------------------
(* Mounting and unmounting: the state of a page goes with it, and so do the *)
(* answers it waits for.  What the tables hold when a page is mounted is    *)
(* left open.                                                               *)

MountList(o) ==
  /\ shows' = o
  /\ table' \in [Rows -> Storable(o) \cup {Gone}]
  /\ clock' = 0
  /\ list' = Mounted /\ form' = ClosedForm /\ asks' = NotAsking
  /\ calls' = {LoadOf(1, "")}

UnmountList ==
  /\ shows' = Landing /\ table' = NoRows /\ clock' = 0
  /\ list' = Mounted /\ form' = ClosedForm /\ asks' = NotAsking
  /\ calls' = {}

(* Bound: the pages with dialogs are entered by loading the address; what   *)
(* other tabs do, reloads, and the answers about the name of the firm come  *)
(* while another page, or none, is shown.                                   *)
OnLanding == route = "list" /\ Page.writes = {}
AwayFromDialogs == route = "list" => OnLanding

-----------------------------------------------------------------------------
(* Login and logout *)

Login ==
  /\ route = "login" /\ logging = Nobody
  /\ \E f \in Firms : logging' = f
  /\ UNCHANGED <<route, token, tenantName, stored, storedName, me, alone,
                 pageVars, invoiceVars>>

(* The token is new, so the effect asks for the name; the page behind the   *)
(* login is the list of invoices.                                           *)
LoggedIn ==
  /\ logging # Nobody
  /\ token' = logging /\ stored' = logging /\ me' = logging
  /\ logging' = Nobody
  /\ route' = "list" /\ MountList(Landing)
  /\ UNCHANGED <<tenantName, storedName, alone, invoiceVars>>

LoginFailed ==
  /\ logging # Nobody
  /\ logging' = Nobody
  /\ UNCHANGED <<route, token, tenantName, stored, storedName, me, alone,
                 pageVars, invoiceVars>>

(* Mutant of Logout: the name of the firm stays. *)
LogoutKeepingName ==
  /\ route # "login"
  /\ token' = Nobody /\ stored' = Nobody /\ me' = Nobody
  /\ route' = "login" /\ UnmountList /\ InvoiceMounted
  /\ alone' = TRUE
  /\ UNCHANGED <<logging, tenantName, storedName>>

(* RequireAuth sends a tab without a token to the login; the effect of the  *)
(* token that is gone cancels its GET /auth/me.                             *)
Logout ==
  /\ route # "login"
  /\ token' = Nobody /\ stored' = Nobody /\ me' = Nobody
  /\ tenantName' = Nobody /\ storedName' = Nobody
  /\ route' = "login" /\ UnmountList /\ InvoiceMounted
  /\ alone' = TRUE
  /\ UNCHANGED logging

Named ==
  /\ me # Nobody /\ AwayFromDialogs
  /\ tenantName' = me /\ storedName' = me
  /\ me' = Nobody
  /\ UNCHANGED <<route, token, stored, logging, alone, pageVars, invoiceVars>>

(* Cosmetic, says the code, and drops the error. *)
NotNamed ==
  /\ me # Nobody /\ AwayFromDialogs
  /\ me' = Nobody
  /\ UNCHANGED <<route, token, tenantName, stored, storedName, logging, alone,
                 pageVars, invoiceVars>>

-----------------------------------------------------------------------------
(* Other tabs, and loading the application again *)

OtherTab ==
  /\ OnLanding
  /\ \/ \E f \in Firms \ {stored} : stored' = f /\ UNCHANGED storedName
     \/ stored # Nobody /\ storedName' = stored /\ UNCHANGED stored
     \/ stored # Nobody /\ stored' = Nobody /\ storedName' = Nobody
  /\ alone' = FALSE
  /\ UNCHANGED <<route, token, tenantName, me, logging, pageVars, invoiceVars>>

LoadApplication ==
  /\ OnLanding
  /\ token' = stored /\ tenantName' = storedName /\ me' = stored
  /\ IF stored = Nobody THEN route' = "login" /\ UnmountList
                        ELSE route' = "list" /\ MountList(Landing)
  /\ UNCHANGED <<stored, storedName, logging, alone, invoiceVars>>

-----------------------------------------------------------------------------
(* The pages *)

GoToNewInvoice ==
  /\ OnLanding /\ alone
  /\ route' = "new" /\ UnmountList /\ InvoiceMounted
  /\ UNCHANGED session

GoToInvoices ==
  /\ route = "new"
  /\ route' = "list" /\ MountList(Landing) /\ InvoiceMounted
  /\ UNCHANGED session

StepOfList ==
  /\ route = "list" /\ PageNext
  /\ UNCHANGED <<route, session, invoiceVars>>

StepOfNewInvoice ==
  /\ route = "new" /\ InvoiceNext
  /\ UNCHANGED <<route, session, pageVars>>

(* The browser opens an address with a token left by an earlier visit.      *)
Init ==
  /\ route = "list" /\ PageInit
  /\ invoice = BlankInvoice
  /\ picker = [k \in Pickers |-> IdlePicker]
  /\ orders = {} /\ made = [i \in Invoices |-> "none"] /\ lost = 0
  /\ token \in Firms /\ stored = token /\ me = token
  /\ tenantName \in {token, Nobody} /\ storedName = tenantName
  /\ OnLanding \/ tenantName = token
  /\ logging = Nobody
  /\ alone = TRUE

Next ==
  \/ Login \/ LoggedIn \/ LoginFailed \/ Logout \/ Named \/ NotNamed
  \/ OtherTab \/ LoadApplication
  \/ GoToNewInvoice \/ GoToInvoices
  \/ StepOfList \/ StepOfNewInvoice

Spec == Init /\ [][Next]_vars

-----------------------------------------------------------------------------
(* Everything has the shape the code gives it. *)
TypeOK ==
  /\ PageTypeOK
  /\ shows \in Observed \cup {Landing}
  /\ route \in {"login", "list", "new"}
  /\ {token, stored, storedName, tenantName, me, logging} \subseteq Firms \cup {Nobody}
  /\ alone \in BOOLEAN
  /\ invoice.lines \in 1..MaxLines /\ invoice.shown \in Invoices \cup {0}

(* Until another tab logs in or out, and again after this one has logged    *)
(* out, the firm in the header is the firm that the requests of this tab    *)
(* are made for, or none: late answers for an earlier token and names       *)
(* cached for it do not get there.                                          *)
HeaderNamesTheFirm ==
  alone /\ token # Nobody => stored = token /\ tenantName \in {token, Nobody}

(* One filled form makes one draft on the server, and another only after    *)
(* the answer of the first was lost.                                        *)
OneDraftPerForm == route = "new" => invoice.drafts <= 1 + lost
=============================================================================
