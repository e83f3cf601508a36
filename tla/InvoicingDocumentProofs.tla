----------------------- MODULE InvoicingDocumentProofs -----------------------
(***************************************************************************)
(* Theorems about the life of a document of Invoicing: what it refers to   *)
(* stays there, and it is transmitted and logged at most once.             *)
(***************************************************************************)
EXTENDS InvoicingProofs, FiniteSetTheorems, WellFoundedInduction

-----------------------------------------------------------------------------
(* The steps of issue between the transition it won and its end. *)
Issuing == {"submit", "finish"}

(* Only the winner of the transition of an invoice, and nobody else, goes  *)
(* on to transmit and to log it.                                           *)
LEMMA TransmissionStep == TransmissionInv /\ [Next]_vars => TransmissionInv'
<1> SUFFICES ASSUME TransmissionInv, [Next]_vars
             PROVE  TransmissionInv'
  OBVIOUS
<1>a. NumberingInv
  BY DEF TransmissionInv
<1>b. TypeOK
  BY <1>a DEF NumberingInv
<1>c. TransmittedOnce /\ IssuerAlone
  BY DEF TransmissionInv
<1>d. NumberingInv'
  BY <1>a, NumberingStep
(* A step that neither writes a row nor lets a request pass a transition. *)
<1>1. ASSUME UNCHANGED <<invoices, audit, submissions>>,
             \A q \in Requests : job'[q].step \in Issuing => job'[q] = job[q]
      PROVE  TransmittedOnce' /\ IssuerAlone'
  BY <1>c, <1>1 DEF TransmittedOnce, IssuerAlone, Issuing, Exists
<1>2. ASSUME NEW r \in Requests, BeginDraft(r) \/ BeginCreditNote(r) \/ BeginIssue(r)
      PROVE  TransmittedOnce' /\ IssuerAlone'
  BY <1>b, <1>1, <1>2 DEF TypeOK, BeginDraft, BeginCreditNote, BeginIssue, tables, Issuing
<1>3. ASSUME NEW r \in Requests, FindSeries(r)
      PROVE  TransmittedOnce' /\ IssuerAlone'
  <2>1. \A q \in Requests : job'[q].step \in Issuing => job'[q] = job[q]
    BY <1>a, <1>3, FindSeriesEffect DEF Issuing
  <2>2. QED
    BY <1>1, <1>3, <2>1 DEF FindSeries, tables
<1>4. ASSUME NEW r \in Requests, AllocateNumber(r)
      PROVE  TransmittedOnce' /\ IssuerAlone'
  <2>1. \A q \in Requests : job'[q].step \in Issuing => job'[q] = job[q]
    BY <1>a, <1>4, AllocateEffect DEF Issuing
  <2>2. QED
    BY <1>1, <1>4, <2>1 DEF AllocateNumber, tables
<1>5. ASSUME NEW r \in Requests,
             \/ SeriesNotFound(r) \/ RejectLines(r) \/ RejectCap(r) \/ SeriesGone(r)
             \/ InsertRejected(r) \/ CasLost(r) \/ Crash(r)
      PROVE  TransmittedOnce' /\ IssuerAlone'
  BY <1>b, <1>1, <1>5 DEF TypeOK, SeriesNotFound, RejectLines, RejectCap, SeriesGone,
     InsertRejected, CasLost, Crash, Finish, Idle, tables, Issuing
<1>6. ASSUME NEW r \in Requests, ResolveLines(r) \/ CheckCap(r) \/ InsertInvoice(r)
      PROVE  TransmittedOnce' /\ IssuerAlone'
  <2>1. /\ job'[r].step \notin Issuing
        /\ \A q \in Requests : q # r => job'[q] = job[q]
    BY <1>b, <1>6, JobShape
       DEF TypeOK, ResolveLines, CheckCap, InsertInvoice, Goto, Issuing,
           DraftJob, DraftSteps, BeforeInsert, HoldsLock
  <2>2. QED
    BY <1>1, <1>6, <2>1 DEF ResolveLines, CheckCap, InsertInvoice, tables
<1>7. ASSUME NEW r \in Requests, Commit(r)
      PROVE  TransmittedOnce' /\ IssuerAlone'
  <2> DEFINE i == job[r].id
  <2>1. /\ i \in InvoiceIds /\ ~Exists(i)
        /\ invoices'[i].status \in {"draft", "issued"}
        /\ \A k \in InvoiceIds : k # i => invoices'[k] = invoices[k]
        /\ \A q \in Requests : q # r => job'[q] = job[q]
        /\ job'[r].step = "idle"
    BY <1>a, <1>7, CommitEffect DEF InvoiceRow
  <2>2. /\ audit'[i].created = audit[i].created + 1
        /\ audit'[i].issued = audit[i].issued
        /\ \A k \in InvoiceIds : k # i => audit'[k] = audit[k]
        /\ submissions' = submissions
    BY <1>b, <1>7, <2>1 DEF Commit, TypeOK
  <2> HIDE DEF i
  <2>3. TransmittedOnce'
    BY <1>b, <1>c, <2>1, <2>2 DEF TransmittedOnce, Exists, TypeOK
  <2>4. \A q \in Requests : job[q].step \in Issuing =>
          job[q].id \in InvoiceIds /\ job[q].id # i
    BY <1>a, <1>b, <2>1, JobShape
       DEF NumberingInv, JobsConsistent, IssueTargetExists, IssueJob, IssueSteps, Issuing
  <2>5. IssuerAlone'
    BY <1>c, <2>1, <2>2, <2>4 DEF IssuerAlone, Issuing
  <2>6. QED
    BY <2>3, <2>5
<1>8. ASSUME NEW r \in Requests, CasIssue(r)
      PROVE  TransmittedOnce' /\ IssuerAlone'
  <2> DEFINE i == job[r].id
  <2>1. /\ i \in InvoiceIds /\ invoices[i] \in InvoiceRow
        /\ invoices[i].status = "draft" /\ job[r] \in IssueJob
    BY <1>a, <1>b, <1>8, JobShape, RowShape
       DEF CasIssue, NumberingInv, JobsConsistent, IssueTargetExists, IssueJob, IssueSteps
  <2>2. /\ invoices'[i].status = "issued"
        /\ \A k \in InvoiceIds : k # i => invoices'[k] = invoices[k]
        /\ UNCHANGED <<audit, submissions>>
    BY <1>b, <1>8, <2>1 DEF CasIssue, TypeOK, InvoiceRow
  <2>3. /\ job'[r].step = "submit" /\ job'[r].id = i
        /\ \A q \in Requests : q # r => job'[q] = job[q]
    BY <1>b, <1>8, <2>1 DEF CasIssue, Goto, TypeOK, IssueJob
  <2> HIDE DEF i
  <2>4. submissions[i] = 0 /\ audit[i].issued = 0
    BY <1>b, <1>c, <2>1 DEF TransmittedOnce, TypeOK
  <2>5. TransmittedOnce'
    BY <1>b, <1>c, <2>1, <2>2, <2>4 DEF TransmittedOnce, Exists, TypeOK
  <2>6. \A q \in Requests : job[q].step \in Issuing =>
          job[q].id \in InvoiceIds /\ job[q].id # i
    BY <1>b, <1>c, <2>1, JobShape DEF IssuerAlone, IssueJob, IssueSteps, Issuing
  <2>7. IssuerAlone'
    BY <1>c, <2>2, <2>3, <2>4, <2>6 DEF IssuerAlone, Issuing
  <2>8. QED
    BY <2>5, <2>7
<1>9. ASSUME NEW r \in Requests, Submit(r)
      PROVE  TransmittedOnce' /\ IssuerAlone'
  <2> DEFINE i == job[r].id
  <2>1. i \in InvoiceIds /\ job[r].step = "submit" /\ job[r] \in IssueJob
    BY <1>b, <1>9, JobShape DEF Submit, IssueJob, IssueSteps
  <2>2. /\ submissions'[i] = submissions[i] + 1
        /\ \A k \in InvoiceIds : k # i => submissions'[k] = submissions[k]
        /\ UNCHANGED <<invoices, audit>>
    BY <1>b, <1>9, <2>1 DEF Submit, TypeOK
  <2>3. /\ job'[r].step = "finish" /\ job'[r].id = i
        /\ \A q \in Requests : q # r => job'[q] = job[q]
    BY <1>b, <1>9, <2>1 DEF Submit, Goto, TypeOK, IssueJob
  <2> HIDE DEF i
  <2>4. /\ submissions[i] = 0 /\ invoices[i].status = "issued" /\ audit[i].issued = 0
        /\ \A q \in Requests : q # r /\ job[q].step \in Issuing => job[q].id # i
    BY <1>c, <2>1 DEF IssuerAlone, Issuing, i
  <2>5. TransmittedOnce'
    BY <1>c, <2>1, <2>2, <2>4 DEF TransmittedOnce, Exists
  <2>6. \A q \in Requests : job[q].step \in Issuing => job[q].id \in InvoiceIds
    BY <1>b, JobShape DEF IssueJob, IssueSteps, Issuing
  <2>7. IssuerAlone'
    BY <1>c, <2>2, <2>3, <2>4, <2>6 DEF IssuerAlone, Issuing
  <2>8. QED
    BY <2>5, <2>7
<1>10. ASSUME NEW r \in Requests, FinishIssue(r)
       PROVE  TransmittedOnce' /\ IssuerAlone'
  <2> DEFINE i == job[r].id
  <2>1. i \in InvoiceIds /\ job[r].step = "finish" /\ invoices[i] \in InvoiceRow
    BY <1>a, <1>b, <1>10, JobShape, RowShape
       DEF FinishIssue, NumberingInv, JobsConsistent, IssueTargetExists, IssueJob, IssueSteps
  <2>2. /\ invoices'[i].status = invoices[i].status
        /\ \A k \in InvoiceIds : k # i => invoices'[k] = invoices[k]
    BY <1>b, <1>10, <2>1 DEF FinishIssue, TypeOK, InvoiceRow
  <2>3. /\ audit'[i].created = audit[i].created
        /\ audit'[i].issued = audit[i].issued + 1
        /\ \A k \in InvoiceIds : k # i => audit'[k] = audit[k]
        /\ submissions' = submissions
    BY <1>b, <1>10, <2>1 DEF FinishIssue, TypeOK
  <2>4. /\ job'[r].step = "idle"
        /\ \A q \in Requests : q # r => job'[q] = job[q]
    BY <1>b, <1>10, <2>1 DEF FinishIssue, Finish, Idle, TypeOK
  <2> HIDE DEF i
  <2>5. /\ submissions[i] = 1 /\ audit[i].issued = 0
        /\ \A q \in Requests : q # r /\ job[q].step \in Issuing => job[q].id # i
    BY <1>c, <2>1 DEF IssuerAlone, Issuing, i
  <2>6. TransmittedOnce'
    BY <1>c, <2>1, <2>2, <2>3, <2>5 DEF TransmittedOnce, Exists
  <2>7. \A q \in Requests : job[q].step \in Issuing => job[q].id \in InvoiceIds
    BY <1>b, JobShape DEF IssueJob, IssueSteps, Issuing
  <2>8. IssuerAlone'
    BY <1>c, <2>2, <2>3, <2>4, <2>5, <2>7 DEF IssuerAlone, Issuing
  <2>9. QED
    BY <2>6, <2>8
<1>11. ASSUME \/ UNCHANGED vars
              \/ CreateSeries
              \/ \E s \in SeriesIds : RemoveSeries(s)
              \/ \E c \in Companies : RemoveCompany(c)
              \/ \E p \in Products : RemoveProduct(p)
       PROVE  TransmittedOnce' /\ IssuerAlone'
  BY <1>1, <1>11 DEF vars, CreateSeries, RemoveSeries, RemoveCompany, RemoveProduct
<1>12. QED
  BY <1>d, <1>2, <1>3, <1>4, <1>5, <1>6, <1>7, <1>8, <1>9, <1>10, <1>11
     DEF TransmissionInv, Next, Step

(* Two clicks on "issue", a retry or a crash never make the service submit *)
(* an invoice twice or log it twice; nothing is submitted before the       *)
(* transition of InvoicesService.issue was won.                            *)
THEOREM AtMostOneTransmission == Spec => []TransmittedOnce
<1>1. Init => TransmissionInv
  BY NumberingInit DEF Init, TransmissionInv, TransmittedOnce, IssuerAlone, Exists,
     NoInvoice, Idle
<1>2. TransmissionInv => TransmittedOnce
  BY DEF TransmissionInv
<1>3. QED
  BY <1>1, <1>2, TransmissionStep, PTL DEF Spec

-----------------------------------------------------------------------------
(* What a row in the making refers to is decided when its request starts;  *)
(* a later step writes only its series and its number.                     *)
LEMMA DocKept ==
  ASSUME NumberingInv, NEW r \in Requests, Step(r), NEW q \in Requests, Drafting(q)'
  PROVE  /\ Drafting(q)
         /\ job'[q].doc.status = job[q].doc.status
         /\ job'[q].doc.type = job[q].doc.type
         /\ job'[q].doc.reversed = job[q].doc.reversed
         /\ job'[q].doc.company = job[q].doc.company
         /\ job'[q].doc.product = job[q].doc.product
         /\ job'[q].doc.amount = job[q].doc.amount
         /\ job'[q].cap = job[q].cap
<1> DEFINE Kept == /\ Drafting(q)
                   /\ job'[q].doc.status = job[q].doc.status
                   /\ job'[q].doc.type = job[q].doc.type
                   /\ job'[q].doc.reversed = job[q].doc.reversed
                   /\ job'[q].doc.company = job[q].doc.company
                   /\ job'[q].doc.product = job[q].doc.product
                   /\ job'[q].doc.amount = job[q].doc.amount
                   /\ job'[q].cap = job[q].cap
<1>a. TypeOK
  BY DEF NumberingInv
<1>1. ASSUME job'[q] = job[q]
      PROVE  Kept
  BY <1>1 DEF Drafting
<1>2. CASE FindSeries(r)
  <2>1. CASE q = r
    <3>1. PICK s \in SeriesIds : job'[r].doc = [job[r].doc EXCEPT !.series = s]
      BY <1>2, FindSeriesEffect
    <3>2. job[r].doc \in InvoiceRow /\ Drafting(r) /\ job'[r].cap = job[r].cap
      BY <1>2, FindSeriesEffect DEF Drafting, DraftSteps, BeforeInsert
    <3>3. QED
      BY <2>1, <3>1, <3>2 DEF InvoiceRow
  <2>2. CASE q # r
    BY <1>1, <1>2, <2>2, FindSeriesEffect
  <2>3. QED
    BY <2>1, <2>2
<1>3. CASE AllocateNumber(r)
  <2>1. CASE q = r
    <3>1. job'[r].doc = [job[r].doc EXCEPT !.number = series[job[r].doc.series].nextNumber]
      BY <1>3, AllocateEffect
    <3>2. job[r].doc \in InvoiceRow /\ Drafting(r) /\ job'[r].cap = job[r].cap
      BY <1>3, AllocateEffect DEF Drafting, DraftSteps, BeforeInsert
    <3>3. QED
      BY <2>1, <3>1, <3>2 DEF InvoiceRow
  <2>2. CASE q # r
    BY <1>1, <1>3, <2>2, AllocateEffect
  <2>3. QED
    BY <2>1, <2>2
<1>4. CASE ResolveLines(r) \/ CheckCap(r) \/ InsertInvoice(r)
  <2>1. CASE q = r
    BY <1>a, <1>4, <2>1, JobShape
       DEF TypeOK, ResolveLines, CheckCap, InsertInvoice, Goto, Drafting, DraftJob,
           DraftSteps, BeforeInsert, HoldsLock
  <2>2. CASE q # r
    <3>1. job'[q] = job[q]
      BY <1>a, <1>4, <2>2 DEF TypeOK, ResolveLines, CheckCap, InsertInvoice, Goto
    <3>2. QED
      BY <1>1, <3>1
  <2>3. QED
    BY <2>1, <2>2
<1>5. CASE \/ SeriesNotFound(r) \/ RejectLines(r) \/ RejectCap(r) \/ SeriesGone(r)
           \/ InsertRejected(r) \/ Commit(r) \/ CasLost(r) \/ FinishIssue(r)
  <2>1. job' = [job EXCEPT ![r] = Idle]
    BY <1>5 DEF SeriesNotFound, RejectLines, RejectCap, SeriesGone, InsertRejected, Commit,
       CasLost, FinishIssue, Finish
  <2>2. q # r /\ job'[q] = job[q]
    BY <1>a, <2>1 DEF TypeOK, Drafting, Idle, DraftSteps, BeforeInsert, HoldsLock
  <2>3. QED
    BY <1>1, <2>2
<1>6. CASE CasIssue(r) \/ Submit(r)
  <2>1. job[r] \in IssueJob
    BY <1>a, <1>6, JobShape DEF CasIssue, Submit, IssueSteps
  <2>2. q # r /\ job'[q] = job[q]
    BY <1>a, <1>6, <2>1
       DEF TypeOK, CasIssue, Submit, Goto, IssueJob, Drafting, DraftSteps, BeforeInsert, HoldsLock
  <2>3. QED
    BY <1>1, <2>2
<1>7. QED
  BY <1>2, <1>3, <1>4, <1>5, <1>6 DEF Step

(* An issued invoice stays issued, and no invoice changes what it refers to. *)
LEMMA RowsKept ==
  ASSUME NumberingInv, [Next]_vars, NEW i \in InvoiceIds, Exists(i)
  PROVE  /\ Exists(i)'
         /\ invoices[i].status = "issued" => invoices'[i].status = "issued"
         /\ invoices'[i].series = invoices[i].series
         /\ invoices'[i].code = invoices[i].code
         /\ invoices'[i].number = invoices[i].number
         /\ invoices'[i].amount = invoices[i].amount
         /\ invoices'[i].company = invoices[i].company
         /\ invoices'[i].product = invoices[i].product
         /\ invoices'[i].type = invoices[i].type
         /\ invoices'[i].reversed = invoices[i].reversed
<1> DEFINE Kept == /\ Exists(i)'
                   /\ invoices[i].status = "issued" => invoices'[i].status = "issued"
                   /\ invoices'[i].series = invoices[i].series
                   /\ invoices'[i].code = invoices[i].code
                   /\ invoices'[i].number = invoices[i].number
                   /\ invoices'[i].amount = invoices[i].amount
                   /\ invoices'[i].company = invoices[i].company
                   /\ invoices'[i].product = invoices[i].product
                   /\ invoices'[i].type = invoices[i].type
                   /\ invoices'[i].reversed = invoices[i].reversed
<1>a. TypeOK
  BY DEF NumberingInv
<1>b. invoices[i] \in InvoiceRow
  BY <1>a, RowShape
<1>1. ASSUME invoices'[i] = invoices[i]
      PROVE  Kept
  BY <1>1 DEF Exists
<1>2. ASSUME NEW r \in Requests, Commit(r)
      PROVE  Kept
  BY <1>1, <1>2, CommitEffect
<1>3. ASSUME NEW r \in Requests, CasIssue(r)
      PROVE  Kept
  <2>1. CASE job[r].id = i
    <3>1. invoices'[i] = [invoices[i] EXCEPT !.status = "issued"]
      BY <1>a, <1>3, <2>1 DEF CasIssue, TypeOK
    <3>2. QED
      BY <1>b, <3>1 DEF InvoiceRow, Exists
  <2>2. CASE job[r].id # i
    <3>1. invoices'[i] = invoices[i]
      BY <1>a, <1>3, <2>2 DEF CasIssue, TypeOK
    <3>2. QED
      BY <1>1, <3>1
  <2>3. QED
    BY <2>1, <2>2
<1>4. ASSUME NEW r \in Requests, FinishIssue(r)
      PROVE  Kept
  <2>1. CASE job[r].id = i
    <3>1. invoices'[i] = [invoices[i] EXCEPT !.eInvoice = "pending"]
      BY <1>a, <1>4, <2>1 DEF FinishIssue, TypeOK
    <3>2. QED
      BY <1>b, <3>1 DEF InvoiceRow, Exists
  <2>2. CASE job[r].id # i
    <3>1. invoices'[i] = invoices[i]
      BY <1>a, <1>4, <2>2 DEF FinishIssue, TypeOK
    <3>2. QED
      BY <1>1, <3>1
  <2>3. QED
    BY <2>1, <2>2
<1>5. CASE invoices' = invoices
  BY <1>1, <1>5
(* No other action writes an invoice. *)
<1>6. QED
  BY <1>2, <1>3, <1>4, <1>5
     DEF vars, tables, Next, Step, BeginDraft, BeginCreditNote, BeginIssue, FindSeries,
         SeriesNotFound, ResolveLines, RejectLines, CheckCap, RejectCap, AllocateNumber,
         SeriesGone, InsertInvoice, InsertRejected, CasLost, Submit, Crash, CreateSeries,
         RemoveSeries, RemoveCompany, RemoveProduct

(* Foreign keys hold from the moment they are checked: the locks of an     *)
(* uncommitted insert and the rows of committed invoices keep everything   *)
(* they name alive, and a credit note's original stays issued.             *)
LEMMA ReferencesStep == ReferencesInv /\ [Next]_vars => ReferencesInv'
<1> SUFFICES ASSUME ReferencesInv, [Next]_vars
             PROVE  ReferencesInv'
  OBVIOUS
<1>a. NumberingInv /\ TypeOK
  BY DEF ReferencesInv, NumberingInv
<1>b. ReferencesLive /\ InsertedRefersToLive /\ OriginalIssued
  BY DEF ReferencesInv
<1>c. NumberingInv'
  BY <1>a, NumberingStep
(* The making of a credit note: its original stays issued. *)
<1>1. OriginalIssued'
  <2> SUFFICES ASSUME NEW q \in Requests, Drafting(q)', job'[q].doc.type = "CreditNote"
               PROVE  /\ job'[q].doc.reversed \in InvoiceIds
                      /\ invoices'[job'[q].doc.reversed].status = "issued"
                      /\ invoices'[job'[q].doc.reversed].company = job'[q].doc.company
    BY DEF OriginalIssued
  <2>1. ASSUME Drafting(q), job'[q].doc.type = job[q].doc.type,
               job'[q].doc.reversed = job[q].doc.reversed,
               job'[q].doc.company = job[q].doc.company
        PROVE  /\ job'[q].doc.reversed \in InvoiceIds
               /\ invoices'[job'[q].doc.reversed].status = "issued"
               /\ invoices'[job'[q].doc.reversed].company = job'[q].doc.company
    <3> DEFINE o == job[q].doc.reversed
    <3>1. o \in InvoiceIds /\ invoices[o].status = "issued" /\ invoices[o].company = job[q].doc.company
      BY <1>b, <2>1 DEF OriginalIssued
    <3>2. invoices'[o].status = "issued" /\ invoices'[o].company = invoices[o].company
      BY <1>a, <3>1, RowsKept DEF Exists
    <3>3. QED
      BY <2>1, <3>1, <3>2
  <2>2. ASSUME job'[q] = job[q]
        PROVE  /\ job'[q].doc.reversed \in InvoiceIds
               /\ invoices'[job'[q].doc.reversed].status = "issued"
               /\ invoices'[job'[q].doc.reversed].company = job'[q].doc.company
    BY <2>1, <2>2 DEF Drafting
  <2>3. ASSUME NEW r \in Requests, Step(r)
        PROVE  /\ job'[q].doc.reversed \in InvoiceIds
               /\ invoices'[job'[q].doc.reversed].status = "issued"
               /\ invoices'[job'[q].doc.reversed].company = job'[q].doc.company
    BY <1>a, <2>1, <2>3, DocKept
  <2>4. ASSUME NEW r \in Requests, BeginCreditNote(r)
        PROVE  /\ job'[q].doc.reversed \in InvoiceIds
               /\ invoices'[job'[q].doc.reversed].status = "issued"
               /\ invoices'[job'[q].doc.reversed].company = job'[q].doc.company
    <3>1. CASE q = r
      <4>1. PICK original \in InvoiceIds :
              /\ Exists(original) /\ invoices[original].status # "draft"
              /\ job'[r].doc.reversed = original
              /\ job'[r].doc.company = invoices[original].company
        BY <1>a, <2>4 DEF BeginCreditNote, NewDoc, TypeOK
      <4>2. invoices[original].status = "issued"
        BY <1>a, <4>1, RowShape DEF InvoiceRow
      <4>3. QED
        BY <2>4, <3>1, <4>1, <4>2 DEF BeginCreditNote, tables
    <3>2. CASE q # r
      <4>1. job'[q] = job[q]
        BY <1>a, <2>4, <3>2 DEF BeginCreditNote, TypeOK
      <4>2. QED
        BY <2>2, <4>1
    <3>3. QED
      BY <3>1, <3>2
  <2>5. ASSUME NEW r \in Requests, BeginDraft(r)
        PROVE  q # r /\ job'[q] = job[q]
    BY <1>a, <2>5 DEF BeginDraft, NewDoc, TypeOK
  <2>6. ASSUME NEW r \in Requests, BeginIssue(r) \/ Crash(r)
        PROVE  q # r /\ job'[q] = job[q]
    BY <1>a, <2>6 DEF BeginIssue, Crash, Finish, Idle, TypeOK, Drafting, DraftSteps,
                     BeforeInsert, HoldsLock
  <2>7. CASE job' = job
    BY <2>2, <2>7
  <2>8. QED
    BY <2>2, <2>3, <2>4, <2>5, <2>6, <2>7
       DEF Next, vars, CreateSeries, RemoveSeries, RemoveCompany, RemoveProduct
(* Uncommitted inserts keep the rows they name. *)
<1>2. InsertedRefersToLive'
  <2> SUFFICES ASSUME NEW q \in Requests, job'[q].step = "commit"
               PROVE  /\ job'[q].doc.company \in companies'
                      /\ job'[q].doc.product \in (products \cup {None})'
    BY DEF InsertedRefersToLive
  <2>1. ASSUME NEW r \in Requests, Step(r), ~(InsertInvoice(r) /\ q = r)
        PROVE  job'[q] = job[q] /\ UNCHANGED <<companies, products>>
    <3>1. CASE FindSeries(r)
      BY <1>a, <3>1, FindSeriesEffect DEF tables
    <3>2. CASE AllocateNumber(r)
      BY <1>a, <3>2, AllocateEffect DEF tables
    <3>3. CASE ResolveLines(r) \/ CheckCap(r) \/ CasIssue(r) \/ Submit(r)
      BY <1>a, <3>3, JobShape
         DEF TypeOK, ResolveLines, CheckCap, CasIssue, Submit, Goto, tables,
             DraftJob, IssueJob, DraftSteps, BeforeInsert, HoldsLock, IssueSteps
    <3>4. CASE InsertInvoice(r)
      BY <1>a, <2>1, <3>4 DEF TypeOK, InsertInvoice, Goto, tables
    <3>5. CASE \/ SeriesNotFound(r) \/ RejectLines(r) \/ RejectCap(r) \/ SeriesGone(r)
               \/ InsertRejected(r) \/ Commit(r) \/ CasLost(r) \/ FinishIssue(r)
      <4>1. job' = [job EXCEPT ![r] = Idle] /\ UNCHANGED <<companies, products>>
        BY <3>5 DEF SeriesNotFound, RejectLines, RejectCap, SeriesGone, InsertRejected,
           Commit, CasLost, FinishIssue, Finish, tables
      <4>2. QED
        BY <1>a, <4>1 DEF TypeOK, Idle
    <3>6. QED
      BY <2>1, <3>1, <3>2, <3>3, <3>4, <3>5 DEF Step
  <2>2. ASSUME job'[q] = job[q], UNCHANGED <<companies, products>>
        PROVE  /\ job'[q].doc.company \in companies'
               /\ job'[q].doc.product \in (products \cup {None})'
    BY <1>b, <2>2 DEF InsertedRefersToLive
  <2>3. ASSUME InsertInvoice(q)
        PROVE  /\ job'[q].doc.company \in companies'
               /\ job'[q].doc.product \in (products \cup {None})'
    <3>1. /\ job'[q].doc = job[q].doc
          /\ UNCHANGED <<companies, products>>
      BY <1>a, <2>3, JobShape
         DEF TypeOK, InsertInvoice, Goto, tables, DraftJob, DraftSteps, HoldsLock
    <3>2. QED
      BY <2>3, <3>1 DEF InsertInvoice, Insertable
  <2>4. ASSUME NEW r \in Requests,
               BeginDraft(r) \/ BeginCreditNote(r) \/ BeginIssue(r) \/ Crash(r)
        PROVE  job'[q] = job[q] /\ UNCHANGED <<companies, products>>
    BY <1>a, <2>4 DEF TypeOK, BeginDraft, BeginCreditNote, BeginIssue, Crash, Finish, Idle, tables
  <2>5. ASSUME NEW c \in Companies, RemoveCompany(c)
        PROVE  /\ job'[q].doc.company \in companies'
               /\ job'[q].doc.product \in (products \cup {None})'
    BY <1>b, <2>5 DEF RemoveCompany, KeyShared, InsertedRefersToLive
  <2>6. ASSUME NEW p \in Products, RemoveProduct(p)
        PROVE  /\ job'[q].doc.company \in companies'
               /\ job'[q].doc.product \in (products \cup {None})'
    BY <1>b, <2>6 DEF RemoveProduct, KeyShared, InsertedRefersToLive
  <2>7. CASE UNCHANGED <<job, companies, products>>
    BY <2>2, <2>7
  <2>8. QED
    BY <2>1, <2>2, <2>3, <2>4, <2>5, <2>6, <2>7 DEF Next, vars, CreateSeries, RemoveSeries
(* Committed invoices keep the rows they name. *)
<1>3. ReferencesLive'
  <2> SUFFICES ASSUME NEW i \in InvoiceIds, Exists(i)'
               PROVE  /\ invoices'[i].series \in SeriesIds
                      /\ series'[invoices'[i].series].state = "live"
                      /\ series'[invoices'[i].series].code = invoices'[i].code
                      /\ invoices'[i].company \in companies'
                      /\ invoices'[i].product \in (products \cup {None})'
                      /\ invoices'[i].type = "CreditNote" =>
                           /\ invoices'[i].reversed \in InvoiceIds
                           /\ invoices'[i].reversed # i
                           /\ invoices'[invoices'[i].reversed].status = "issued"
                           /\ invoices'[invoices'[i].reversed].company = invoices'[i].company
    BY DEF ReferencesLive, Live
  <2>1. /\ invoices'[i].series \in SeriesIds
        /\ series'[invoices'[i].series].state = "live"
        /\ series'[invoices'[i].series].code = invoices'[i].code
    BY <1>c DEF NumberingInv, RowsConsistent, RowsNumbered, Live
  <2>2. CASE Exists(i)
    <3>1. /\ invoices'[i].company = invoices[i].company
          /\ invoices'[i].product = invoices[i].product
          /\ invoices'[i].type = invoices[i].type
          /\ invoices'[i].reversed = invoices[i].reversed
      BY <1>a, <2>2, RowsKept
    <3>2. invoices[i].company \in companies' /\ invoices[i].product \in (products \cup {None})'
      <4>1. invoices[i].company \in companies /\ invoices[i].product \in products \cup {None}
        BY <1>b, <2>2 DEF ReferencesLive
      <4>2. ASSUME NEW c \in Companies, RemoveCompany(c)
            PROVE  invoices[i].company # c /\ companies' = companies \ {c} /\ products' = products
        BY <2>2, <4>2 DEF RemoveCompany, Referenced
      <4>3. ASSUME NEW p \in Products, RemoveProduct(p)
            PROVE  invoices[i].product # p /\ products' = products \ {p} /\ companies' = companies
        BY <2>2, <4>3 DEF RemoveProduct, Referenced
      <4>4. CASE UNCHANGED <<companies, products>>
        BY <4>1, <4>4
      <4>5. CASE \E c \in Companies : RemoveCompany(c)
        BY <4>1, <4>2, <4>5
      <4>6. CASE \E p \in Products : RemoveProduct(p)
        BY <4>1, <4>3, <4>6
      <4>7. QED
        BY <4>4, <4>5, <4>6
           DEF vars, tables, Next, Step, BeginDraft, BeginCreditNote, BeginIssue, FindSeries,
               SeriesNotFound, ResolveLines, RejectLines, CheckCap, RejectCap, AllocateNumber,
               SeriesGone, InsertInvoice, InsertRejected, Commit, CasIssue, CasLost, Submit,
               FinishIssue, Crash, CreateSeries, RemoveSeries
    <3>3. invoices[i].type = "CreditNote" =>
            /\ invoices[i].reversed \in InvoiceIds
            /\ invoices[i].reversed # i
            /\ invoices'[invoices[i].reversed].status = "issued"
            /\ invoices'[invoices[i].reversed].company = invoices[i].company
      BY <1>a, <1>b, <2>2, RowsKept DEF ReferencesLive, Exists
    <3>4. QED
      BY <2>1, <3>1, <3>2, <3>3
  <2>3. CASE ~Exists(i)
    <3>1. PICK r \in Requests : Commit(r) /\ job[r].id = i
      <4>1. invoices'[i] # invoices[i]
        BY <2>3 DEF Exists
      <4>2. ASSUME NEW r \in Requests, CasIssue(r) \/ FinishIssue(r)
            PROVE  invoices'[i] = invoices[i]
        <5>1. job[r].id # i
          BY <1>a, <2>3, <4>2 DEF CasIssue, FinishIssue, NumberingInv, JobsConsistent,
             IssueTargetExists, IssueSteps
        <5>2. QED
          BY <1>a, <4>2, <5>1 DEF CasIssue, FinishIssue, TypeOK
      <4>3. ASSUME NEW r \in Requests, Commit(r)
            PROVE  job[r].id = i
        BY <1>a, <4>1, <4>3, CommitEffect
      <4>4. invoices' # invoices
        BY <4>1
      <4>5. QED
        BY <4>1, <4>2, <4>3, <4>4
           DEF vars, tables, Next, Step, BeginDraft, BeginCreditNote, BeginIssue, FindSeries,
               SeriesNotFound, ResolveLines, RejectLines, CheckCap, RejectCap, AllocateNumber,
               SeriesGone, InsertInvoice, InsertRejected, CasLost, Submit, Crash,
               CreateSeries, RemoveSeries, RemoveCompany, RemoveProduct
    <3>2. /\ invoices'[i] = job[r].doc /\ job[r].step = "commit" /\ Drafting(r)
          /\ UNCHANGED <<companies, products>>
      <4>1. invoices'[i] = job[r].doc /\ job[r].step = "commit"
        BY <1>a, <3>1, CommitEffect
      <4>2. QED
        BY <3>1, <4>1 DEF Commit, Drafting, DraftSteps, HoldsLock
    <3>3. invoices'[i].company \in companies' /\ invoices'[i].product \in (products \cup {None})'
      BY <1>b, <3>2 DEF InsertedRefersToLive
    <3>4. invoices'[i].type = "CreditNote" =>
            /\ invoices'[i].reversed \in InvoiceIds
            /\ invoices'[i].reversed # i
            /\ invoices'[invoices'[i].reversed].status = "issued"
            /\ invoices'[invoices'[i].reversed].company = invoices'[i].company
      <4> SUFFICES ASSUME job[r].doc.type = "CreditNote"
                   PROVE  /\ job[r].doc.reversed \in InvoiceIds
                          /\ job[r].doc.reversed # i
                          /\ invoices'[job[r].doc.reversed].status = "issued"
                          /\ invoices'[job[r].doc.reversed].company = job[r].doc.company
        BY <3>2
      <4> DEFINE o == job[r].doc.reversed
      <4>1. o \in InvoiceIds /\ invoices[o].status = "issued" /\ invoices[o].company = job[r].doc.company
        BY <1>b, <3>2 DEF OriginalIssued
      <4>2. Exists(o) /\ o # i
        BY <2>3, <4>1 DEF Exists
      <4>3. QED
        BY <1>a, <4>1, <4>2, RowsKept
    <3>5. QED
      BY <2>1, <3>3, <3>4
  <2>4. QED
    BY <2>2, <2>3
<1>4. QED
  BY <1>c, <1>1, <1>2, <1>3 DEF ReferencesInv

(* A committed invoice never points at a deleted series, company or        *)
(* product, although createDraft and createDraftInvoice read them long     *)
(* before the insert; the original of a credit note stays issued and is of *)
(* the same company.                                                       *)
THEOREM LiveReferences == Spec => []ReferencesLive
<1>1. Init => ReferencesInv
  BY NumberingInit DEF Init, ReferencesInv, ReferencesLive, InsertedRefersToLive,
     OriginalIssued, Exists, NoInvoice, Idle, Drafting, DraftSteps, BeforeInsert, HoldsLock
<1>2. ReferencesInv => ReferencesLive
  BY DEF ReferencesInv
<1>3. QED
  BY <1>1, <1>2, ReferencesStep, PTL DEF Spec

(* Nobody issues a row in the making.                                      *)
LEMMA DraftsStep == NumberingInv /\ DraftsUnissued /\ [Next]_vars => DraftsUnissued'
<1> SUFFICES ASSUME NumberingInv, DraftsUnissued, [Next]_vars,
                    NEW q \in Requests, Drafting(q)'
             PROVE  job'[q].doc.status = "draft"
  BY DEF DraftsUnissued
<1>a. TypeOK
  BY DEF NumberingInv
<1>1. ASSUME Drafting(q), job'[q] = job[q]
      PROVE  job'[q].doc.status = "draft"
  BY <1>1 DEF DraftsUnissued
<1>2. CASE job' = job
  BY <1>1, <1>2 DEF Drafting
<1>3. ASSUME NEW r \in Requests, Step(r)
      PROVE  job'[q].doc.status = "draft"
  BY <1>3, DocKept DEF DraftsUnissued
<1>4. ASSUME NEW r \in Requests, BeginDraft(r)
      PROVE  job'[q].doc.status = "draft"
  BY <1>a, <1>1, <1>4 DEF BeginDraft, NewDoc, TypeOK, Drafting
<1>5. ASSUME NEW r \in Requests, BeginCreditNote(r)
      PROVE  job'[q].doc.status = "draft"
  BY <1>a, <1>1, <1>5 DEF BeginCreditNote, NewDoc, TypeOK, Drafting
<1>6. ASSUME NEW r \in Requests, BeginIssue(r)
      PROVE  job'[q].doc.status = "draft"
  BY <1>a, <1>1, <1>6
     DEF BeginIssue, TypeOK, Drafting, DraftSteps, BeforeInsert, HoldsLock
<1>7. ASSUME NEW r \in Requests, Crash(r)
      PROVE  job'[q].doc.status = "draft"
  BY <1>a, <1>1, <1>7
     DEF Crash, Finish, Idle, TypeOK, Drafting, DraftSteps, BeforeInsert, HoldsLock
<1>8. QED
  BY <1>2, <1>3, <1>4, <1>5, <1>6, <1>7
     DEF Next, vars, CreateSeries, RemoveSeries, RemoveCompany, RemoveProduct

(* The whole inductive invariant holds in every reachable state of the     *)
(* engine: numbers, references, transmissions, locks and jobs.             *)
THEOREM InvoicingInvariant == Spec => []InvoicingInv
<1>1. Init => ReferencesInv
  BY NumberingInit DEF Init, ReferencesInv, ReferencesLive, InsertedRefersToLive,
     OriginalIssued, Exists, NoInvoice, Idle, Drafting, DraftSteps, BeforeInsert, HoldsLock
<1>2. Init => TransmissionInv
  BY NumberingInit DEF Init, TransmissionInv, TransmittedOnce, IssuerAlone, Exists,
     NoInvoice, Idle
<1>3. Init => DraftsUnissued
  BY DEF Init, DraftsUnissued, Idle, Drafting, DraftSteps, BeforeInsert, HoldsLock
<1>4. ReferencesInv => NumberingInv
  BY DEF ReferencesInv
<1>5. QED
  BY <1>1, <1>2, <1>3, <1>4, ReferencesStep, TransmissionStep, DraftsStep, PTL
     DEF Spec, InvoicingInv

-----------------------------------------------------------------------------
(* Where no handler dies, whoever wins the transition of an invoice writes *)
(* its status and its log, and nobody else works on it until then.         *)
LEMMA LoggedStep ==
  ASSUME Faults = FALSE
  PROVE  TransmissionInv /\ DraftsUnissued /\ IssuedIsLogged /\ [Next]_vars
           => IssuedIsLogged'
<1> SUFFICES ASSUME TransmissionInv, DraftsUnissued, IssuedIsLogged, [Next]_vars
             PROVE  IssuedIsLogged'
  OBVIOUS
<1>a. NumberingInv /\ IssuerAlone
  BY DEF TransmissionInv
<1>b. TypeOK
  BY <1>a DEF NumberingInv
(* A step that writes no row and takes no request out of its issue. *)
<1>1. ASSUME UNCHANGED <<invoices, audit>>,
             \A q \in Requests : job[q].step \in Issuing =>
               job'[q].step \in Issuing /\ job'[q].id = job[q].id
      PROVE  IssuedIsLogged'
  BY <1>1 DEF IssuedIsLogged, Issuing
<1>2. ASSUME NEW r \in Requests, UNCHANGED <<invoices, audit>>,
             job[r].step \notin Issuing,
             \A q \in Requests : q # r => job'[q] = job[q]
      PROVE  IssuedIsLogged'
  BY <1>1, <1>2 DEF Issuing
<1>3. ASSUME NEW r \in Requests, BeginDraft(r) \/ BeginCreditNote(r) \/ BeginIssue(r)
      PROVE  IssuedIsLogged'
  BY <1>b, <1>2, <1>3
     DEF TypeOK, BeginDraft, BeginCreditNote, BeginIssue, tables, Idle, Issuing
<1>4. ASSUME NEW r \in Requests, FindSeries(r)
      PROVE  IssuedIsLogged'
  BY <1>a, <1>2, <1>4, FindSeriesEffect DEF tables, Issuing
<1>5. ASSUME NEW r \in Requests, AllocateNumber(r)
      PROVE  IssuedIsLogged'
  BY <1>a, <1>2, <1>5, AllocateEffect DEF tables, Issuing
<1>6. ASSUME NEW r \in Requests,
             \/ SeriesNotFound(r) \/ RejectLines(r) \/ RejectCap(r) \/ SeriesGone(r)
             \/ InsertRejected(r) \/ CasLost(r)
      PROVE  IssuedIsLogged'
  BY <1>b, <1>2, <1>6 DEF TypeOK, SeriesNotFound, RejectLines, RejectCap, SeriesGone,
     InsertRejected, CasLost, Finish, tables, Issuing
<1>7. ASSUME NEW r \in Requests, ResolveLines(r) \/ CheckCap(r) \/ InsertInvoice(r)
      PROVE  IssuedIsLogged'
  BY <1>b, <1>2, <1>7
     DEF TypeOK, ResolveLines, CheckCap, InsertInvoice, Goto, tables, Issuing
(* A row appears as a draft. *)
<1>8. ASSUME NEW r \in Requests, Commit(r)
      PROVE  IssuedIsLogged'
  <2> DEFINE i == job[r].id
  <2>1. /\ i \in InvoiceIds
        /\ invoices'[i] = job[r].doc
        /\ \A k \in InvoiceIds : k # i => invoices'[k] = invoices[k]
        /\ \A q \in Requests : q # r => job'[q] = job[q]
        /\ job[r].step = "commit"
    BY <1>a, <1>8, CommitEffect
  <2>2. \A k \in InvoiceIds : k # i => audit'[k] = audit[k]
    BY <1>b, <1>8, <2>1 DEF Commit, TypeOK
  <2>3. invoices'[i].status = "draft"
    BY <2>1 DEF DraftsUnissued, Drafting, DraftSteps, HoldsLock
  <2> HIDE DEF i
  <2>4. QED
    BY <2>1, <2>2, <2>3 DEF IssuedIsLogged
(* A row becomes issued, and its winner is at work. *)
<1>9. ASSUME NEW r \in Requests, CasIssue(r)
      PROVE  IssuedIsLogged'
  <2> DEFINE i == job[r].id
  <2>1. job[r].step = "cas" /\ job[r] \in IssueJob /\ i \in InvoiceIds
    BY <1>b, <1>9, JobShape DEF CasIssue, IssueJob, IssueSteps
  <2>2. /\ \A k \in InvoiceIds : k # i => invoices'[k] = invoices[k]
        /\ audit' = audit
    BY <1>b, <1>9, <2>1 DEF CasIssue, TypeOK
  <2>3. /\ job'[r].step = "submit" /\ job'[r].id = i
        /\ \A q \in Requests : q # r => job'[q] = job[q]
    BY <1>b, <1>9, <2>1 DEF CasIssue, Goto, TypeOK, IssueJob
  <2> HIDE DEF i
  <2>4. QED
    BY <2>1, <2>2, <2>3 DEF IssuedIsLogged
<1>10. ASSUME NEW r \in Requests, Submit(r)
       PROVE  IssuedIsLogged'
  <2>1. job[r].step = "submit" /\ job[r] \in IssueJob
    BY <1>b, <1>10, JobShape DEF Submit, IssueSteps
  <2>2. /\ job'[r].step = "finish" /\ job'[r].id = job[r].id
        /\ \A q \in Requests : q # r => job'[q] = job[q]
    BY <1>b, <1>10, <2>1 DEF Submit, Goto, TypeOK, IssueJob
  <2>3. QED
    BY <1>1, <1>10, <2>2 DEF Submit, Issuing
(* The winner leaves its invoice with a status and a log. *)
<1>11. ASSUME NEW r \in Requests, FinishIssue(r)
       PROVE  IssuedIsLogged'
  <2> DEFINE i == job[r].id
  <2>1. i \in InvoiceIds /\ job[r].step = "finish" /\ invoices[i] \in InvoiceRow
    BY <1>a, <1>b, <1>11, JobShape, RowShape
       DEF FinishIssue, NumberingInv, JobsConsistent, IssueTargetExists, IssueJob, IssueSteps
  <2>2. /\ invoices'[i].eInvoice = "pending"
        /\ \A k \in InvoiceIds : k # i => invoices'[k] = invoices[k]
    BY <1>b, <1>11, <2>1 DEF FinishIssue, TypeOK, InvoiceRow
  <2>3. audit[i].issued = 0
    BY <1>a, <2>1 DEF IssuerAlone
  <2>4. /\ audit'[i].issued = 1
        /\ \A k \in InvoiceIds : k # i => audit'[k] = audit[k]
    BY <1>b, <1>11, <2>1, <2>3 DEF FinishIssue, TypeOK
  <2>5. \A q \in Requests : q # r => job'[q] = job[q]
    BY <1>b, <1>11 DEF FinishIssue, Finish, TypeOK
  <2> HIDE DEF i
  <2>6. \A k \in InvoiceIds : k # i => job[r].id # k
    BY DEF i
  <2>7. QED
    BY <2>2, <2>4, <2>5, <2>6 DEF IssuedIsLogged
<1>12. ASSUME \/ UNCHANGED vars
              \/ CreateSeries
              \/ \E s \in SeriesIds : RemoveSeries(s)
              \/ \E c \in Companies : RemoveCompany(c)
              \/ \E p \in Products : RemoveProduct(p)
       PROVE  IssuedIsLogged'
  BY <1>1, <1>12 DEF vars, CreateSeries, RemoveSeries, RemoveCompany, RemoveProduct
<1>13. ASSUME NEW r \in Requests, Crash(r)
       PROVE  FALSE
  BY <1>13 DEF Crash
<1>14. QED
  BY <1>3, <1>4, <1>5, <1>6, <1>7, <1>8, <1>9, <1>10, <1>11, <1>12, <1>13
     DEF Next, Step

(* Where no handler dies between the two transactions of                   *)
(* InvoicesService.issue, an invoice nobody is issuing any more has its    *)
(* transmission status and its mandatory audit row, whatever requests      *)
(* overlap.                                                                *)
THEOREM IssueIsLogged ==
  ASSUME Faults = FALSE
  PROVE  Spec => []IssuedIsLogged
<1>1. Init => IssuedIsLogged
  BY DEF Init, IssuedIsLogged, NoInvoice
<1>2. InvoicingInv => TransmissionInv /\ DraftsUnissued
  BY DEF InvoicingInv
<1>3. TransmissionInv /\ DraftsUnissued /\ IssuedIsLogged /\ [Next]_vars
        => IssuedIsLogged'
  BY LoggedStep
<1>4. QED
  BY <1>1, <1>2, <1>3, InvoicingInvariant, PTL DEF Spec

-----------------------------------------------------------------------------
(* The sum over the credit notes is defined by recursion.  It is the       *)
(* number of units credited: one pair for every unit of every note.        *)
Units(rows, s) == UNION {{i} \X (1 .. rows[i].amount) : i \in s}

Pick(s) == CHOOSE x \in s : TRUE

IsSum(rows, S, sum) ==
  sum = [s \in SUBSET S |-> IF s = {} THEN 0
                            ELSE rows[Pick(s)].amount + sum[s \ {Pick(s)}]]

LEMMA UpTo ==
  ASSUME NEW n \in Nat
  PROVE  IsFiniteSet(1 .. n) /\ Cardinality(1 .. n) = n
<1>1. 1 \in Int /\ n \in Int
  OBVIOUS
<1>2. IsFiniteSet(1 .. n) /\ Cardinality(1 .. n) = IF 1 > n THEN 0 ELSE n - 1 + 1
  BY <1>1, FS_Interval, Zenon
<1>3. QED
  BY <1>2

LEMMA UnitsFinite ==
  ASSUME NEW rows, NEW S, IsFiniteSet(S), \A i \in S : rows[i].amount \in Nat
  PROVE  IsFiniteSet(Units(rows, S))
<1> DEFINE F == {{i} \X (1 .. rows[i].amount) : i \in S}
           f == [i \in S |-> {i} \X (1 .. rows[i].amount)]
<1>1. IsFiniteSet(F)
  <2>1. f \in [S -> F] /\ \A T \in F : \E i \in S : f[i] = T
    OBVIOUS
  <2> HIDE DEF f, F
  <2>2. f \in Surjection(S, F)
    BY <2>1 DEF Surjection
  <2>3. QED
    BY <2>2, FS_Surjection
<1>2. \A T \in F : IsFiniteSet(T)
  <2> SUFFICES ASSUME NEW i \in S
               PROVE  IsFiniteSet({i} \X (1 .. rows[i].amount))
    OBVIOUS
  <2>1. IsFiniteSet({i})
    BY FS_Singleton
  <2>2. IsFiniteSet(1 .. rows[i].amount)
    BY UpTo
  <2>3. QED
    BY <2>1, <2>2, FS_Product
<1> HIDE DEF F
<1>3. IsFiniteSet(UNION F)
  BY <1>1, <1>2, FS_UNION
<1>4. QED
  BY <1>3 DEF F, Units

LEMMA UnitsGrow ==
  ASSUME NEW rows, NEW S, IsFiniteSet(S), NEW x, x \notin S,
         \A i \in S \cup {x} : rows[i].amount \in Nat
  PROVE  Cardinality(Units(rows, S \cup {x})) =
           Cardinality(Units(rows, S)) + rows[x].amount
<1> DEFINE T == {x} \X (1 .. rows[x].amount)
<1>1. IsFiniteSet(Units(rows, S)) /\ Cardinality(Units(rows, S)) \in Nat
  BY UnitsFinite, FS_CardinalityType
<1>2. IsFiniteSet(T) /\ Cardinality(T) = rows[x].amount
  <2>1. IsFiniteSet({x}) /\ Cardinality({x}) = 1
    BY FS_Singleton
  <2>2. IsFiniteSet(1 .. rows[x].amount) /\ Cardinality(1 .. rows[x].amount) = rows[x].amount
    BY UpTo
  <2>3. IsFiniteSet(T) /\ Cardinality(T) = 1 * Cardinality(1 .. rows[x].amount)
    BY <2>1, <2>2, FS_Product
  <2>4. QED
    BY <2>2, <2>3
<1>3. Units(rows, S \cup {x}) = Units(rows, S) \cup T
  BY DEF Units
<1>4. Units(rows, S) \cap T = {}
  BY DEF Units
<1> HIDE DEF T
<1>5. Cardinality(Units(rows, S) \cup T) =
        Cardinality(Units(rows, S)) + Cardinality(T) - Cardinality(Units(rows, S) \cap T)
  BY <1>1, <1>2, FS_Union
<1>6. Cardinality(Units(rows, S) \cap T) = 0
  BY <1>4, FS_EmptySet
<1>7. PICK m \in Nat, n \in Nat : Cardinality(Units(rows, S)) = m /\ rows[x].amount = n
  BY <1>1
<1>8. Cardinality(Units(rows, S) \cup T) = m + n - 0
  BY <1>2, <1>5, <1>6, <1>7
<1>9. Cardinality(Units(rows, S \cup {x})) = m + n
  <2>1. m + n - 0 = m + n
    OBVIOUS
  <2>2. QED
    BY <1>3, <1>8, <2>1, Zenon
<1>10. QED
  BY <1>7, <1>9, Zenon

LEMMA SumIsUnits ==
  ASSUME NEW rows, NEW S, IsFiniteSet(S), \A i \in S : rows[i].amount \in Nat
  PROVE  (CHOOSE sum : IsSum(rows, S, sum))[S] = Cardinality(Units(rows, S))
<1> DEFINE count == [s \in SUBSET S |-> Cardinality(Units(rows, s))]
           sum == CHOOSE f : IsSum(rows, S, f)
<1>1. Cardinality(Units(rows, {})) = 0
  <2>1. Units(rows, {}) = {}
    BY DEF Units
  <2>2. QED
    BY <2>1, FS_EmptySet
<1>2. ASSUME NEW s \in SUBSET S, s # {}
      PROVE  /\ Pick(s) \in s
             /\ s \ {Pick(s)} \in SUBSET S /\ s \ {Pick(s)} # s
             /\ Cardinality(Units(rows, s)) =
                  rows[Pick(s)].amount + Cardinality(Units(rows, s \ {Pick(s)}))
  <2> DEFINE x == Pick(s)
             t == s \ {x}
  <2>1. x \in s
    BY <1>2 DEF Pick
  <2> HIDE DEF x
  <2>2. s = t \cup {x} /\ x \notin t /\ t \in SUBSET S /\ t # s
    BY <2>1
  <2>3. IsFiniteSet(t) /\ \A i \in t : rows[i].amount \in Nat
    BY <2>2, FS_Subset
  <2>4. Cardinality(Units(rows, t)) \in Nat
    BY <2>3, UnitsFinite, FS_CardinalityType
  <2> HIDE DEF t
  <2>5. Cardinality(Units(rows, t \cup {x})) = Cardinality(Units(rows, t)) + rows[x].amount
    BY <2>1, <2>2, <2>3, UnitsGrow
  <2>6. rows[x].amount \in Nat
    BY <2>1
  <2>7. Cardinality(Units(rows, s)) = rows[x].amount + Cardinality(Units(rows, t))
    BY <2>2, <2>4, <2>5, <2>6
  <2>8. QED
    BY <2>1, <2>2, <2>7 DEF t, x
(* The count satisfies the equation, so something does... *)
<1>3. IsSum(rows, S, count)
  <2>1. ASSUME NEW s \in SUBSET S
        PROVE  count[s] = IF s = {} THEN 0
                          ELSE rows[Pick(s)].amount + count[s \ {Pick(s)}]
    <3>1. CASE s = {}
      BY <1>1, <3>1
    <3>2. CASE s # {}
      BY <1>2, <3>2
    <3>3. QED
      BY <3>1, <3>2
  <2>2. count = [s \in SUBSET S |->
                  IF s = {} THEN 0 ELSE rows[Pick(s)].amount + count[s \ {Pick(s)}]]
    BY <2>1
  <2> HIDE DEF count
  <2>3. QED
    BY <2>2 DEF IsSum
<1>4. IsSum(rows, S, sum)
  BY <1>3
<1> HIDE DEF sum
(* ...and nothing else does: a least set on which they differ has no       *)
(* first element.                                                          *)
<1>5. \A s \in SUBSET S : sum[s] = Cardinality(Units(rows, s))
  <2> DEFINE B == {s \in SUBSET S : sum[s] # Cardinality(Units(rows, s))}
             R == StrictSubsetOrdering(S)
  <2> SUFFICES ASSUME B # {}
               PROVE  FALSE
    OBVIOUS
  <2>1. IsWellFoundedOn(R, SUBSET S)
    BY FS_StrictSubsetOrderingWellFounded, FS_FiniteSubsetsOfFinite
  <2>2. \A s, t \in SUBSET S : t \subseteq s /\ t # s => <<t, s>> \in R
    BY DEF StrictSubsetOrdering
  <2>3. B \subseteq SUBSET S
    OBVIOUS
  <2> HIDE DEF R, B
  <2>4. PICK s \in B : \A t \in B : ~(<<t, s>> \in R)
    BY <2>1, <2>3, WFMin
  <2>5. s \in SUBSET S /\ sum[s] # Cardinality(Units(rows, s))
    BY DEF B
  <2>6. sum[s] = IF s = {} THEN 0 ELSE rows[Pick(s)].amount + sum[s \ {Pick(s)}]
    <3>1. sum = [u \in SUBSET S |->
                  IF u = {} THEN 0 ELSE rows[Pick(u)].amount + sum[u \ {Pick(u)}]]
      BY <1>4 DEF IsSum
    <3>2. QED
      BY <2>5, <3>1
  <2>7. s # {}
    BY <1>1, <2>5, <2>6
  <2>8. s \ {Pick(s)} \in SUBSET S /\ s \ {Pick(s)} \notin B
    BY <1>2, <2>2, <2>4, <2>5, <2>7
  <2>9. sum[s \ {Pick(s)}] = Cardinality(Units(rows, s \ {Pick(s)}))
    BY <2>8 DEF B
  <2>10. QED
    BY <1>2, <2>5, <2>6, <2>7, <2>9
<1>6. QED
  BY <1>5 DEF sum

(* What the aggregate of createDraftInvoice returns, before and after a    *)
(* step.                                                                   *)
LEMMA CreditedIsUnits ==
  ASSUME TypeOK, RowsFinite, NEW o
  PROVE  /\ IsFiniteSet(CreditNotesOf(o))
         /\ \A i \in CreditNotesOf(o) : invoices[i].amount \in Nat
         /\ Credited(o) = Cardinality(Units(invoices, CreditNotesOf(o)))
<1>1. IsFiniteSet(CreditNotesOf(o))
  BY FS_Subset DEF CreditNotesOf, RowsFinite
<1>2. \A i \in CreditNotesOf(o) : invoices[i].amount \in Nat
  <2>1. \A i \in CreditNotesOf(o) : invoices[i] \in InvoiceRow
    BY DEF TypeOK, CreditNotesOf, Exists, NoInvoice
  <2>2. QED
    BY <2>1, AmountsAssumption DEF InvoiceRow
<1>3. Credited(o) = (CHOOSE sum : IsSum(invoices, CreditNotesOf(o), sum))[CreditNotesOf(o)]
  BY DEF Credited, MapThenSumSet, MapThenFoldSet, IsSum, Pick
<1>4. QED
  BY <1>1, <1>2, <1>3, SumIsUnits

LEMMA CreditedIsUnitsAfter ==
  ASSUME TypeOK', RowsFinite', NEW o
  PROVE  /\ IsFiniteSet(CreditNotesOf(o)')
         /\ \A i \in CreditNotesOf(o)' : invoices'[i].amount \in Nat
         /\ Credited(o)' = Cardinality(Units(invoices', CreditNotesOf(o)'))
<1>1. IsFiniteSet(CreditNotesOf(o)')
  BY FS_Subset DEF CreditNotesOf, RowsFinite
<1>2. \A i \in CreditNotesOf(o)' : invoices'[i].amount \in Nat
  <2>1. \A i \in CreditNotesOf(o)' : invoices'[i] \in InvoiceRow
    BY DEF TypeOK, CreditNotesOf, Exists, NoInvoice
  <2>2. QED
    BY <2>1, AmountsAssumption DEF InvoiceRow
<1>3. Credited(o)' = (CHOOSE sum : IsSum(invoices', CreditNotesOf(o)', sum))[CreditNotesOf(o)']
  BY DEF Credited, MapThenSumSet, MapThenFoldSet, IsSum, Pick
<1>4. QED
  BY <1>1, <1>2, <1>3, SumIsUnits

(* Only a commit enters a row. *)
LEMMA EntersByCommit ==
  ASSUME NumberingInv, [Next]_vars, \A r \in Requests : ~Commit(r),
         NEW i \in InvoiceIds, Exists(i)'
  PROVE  Exists(i)
<1>a. TypeOK
  BY DEF NumberingInv
<1>1. ASSUME NEW r \in Requests, CasIssue(r) \/ FinishIssue(r)
      PROVE  Exists(i)
  <2>1. Exists(job[r].id)
    BY <1>1 DEF CasIssue, FinishIssue, NumberingInv, JobsConsistent, IssueTargetExists,
                IssueSteps
  <2>2. i # job[r].id => invoices'[i] = invoices[i]
    BY <1>a, <1>1 DEF CasIssue, FinishIssue, TypeOK
  <2>3. QED
    BY <2>1, <2>2 DEF Exists
<1>2. CASE invoices' = invoices
  BY <1>2 DEF Exists
<1>3. QED
  BY <1>1, <1>2
     DEF vars, tables, Next, Step, BeginDraft, BeginCreditNote, BeginIssue, FindSeries,
         SeriesNotFound, ResolveLines, RejectLines, CheckCap, RejectCap, AllocateNumber,
         SeriesGone, InsertInvoice, InsertRejected, CasLost, Submit, Crash, CreateSeries,
         RemoveSeries, RemoveCompany, RemoveProduct

(* A step that enters no row leaves every sum alone. *)
LEMMA SumsKept ==
  ASSUME NumberingInv, RowsFinite, [Next]_vars, \A r \in Requests : ~Commit(r)
  PROVE  RowsFinite' /\ \A o \in InvoiceIds : Credited(o)' = Credited(o)
<1>a. TypeOK /\ TypeOK'
  BY NumberingStep DEF NumberingInv
<1>1. \A i \in InvoiceIds : Exists(i)' => Exists(i)
  BY EntersByCommit
<1>2. RowsFinite'
  <2>1. {i \in InvoiceIds : Exists(i)'} \in SUBSET {i \in InvoiceIds : Exists(i)}
    BY <1>1
  <2>2. IsFiniteSet({i \in InvoiceIds : Exists(i)'})
    BY <2>1, FS_Subset DEF RowsFinite
  <2>3. QED
    BY <2>2 DEF RowsFinite
<1>3. ASSUME NEW o \in InvoiceIds
      PROVE  Credited(o)' = Credited(o)
  <2>1. \A i \in InvoiceIds : Exists(i) =>
          /\ Exists(i)' /\ invoices'[i].amount = invoices[i].amount
          /\ invoices'[i].type = invoices[i].type
          /\ invoices'[i].reversed = invoices[i].reversed
    BY RowsKept
  <2>2. CreditNotesOf(o)' = CreditNotesOf(o)
    BY <1>1, <2>1 DEF CreditNotesOf
  <2>3. \A i \in CreditNotesOf(o) : invoices'[i].amount = invoices[i].amount
    BY <2>1 DEF CreditNotesOf
  <2>4. Units(invoices', CreditNotesOf(o)) = Units(invoices, CreditNotesOf(o))
    BY <2>3 DEF Units
  <2>5. QED
    BY <1>a, <1>2, <2>2, <2>4, CreditedIsUnits, CreditedIsUnitsAfter
<1>4. QED
  BY <1>2, <1>3

(* A commit raises the sum of its original, and no other. *)
LEMMA SumAfterCommit ==
  ASSUME NumberingInv, RowsFinite, NEW r \in Requests, Commit(r)
  PROVE  /\ RowsFinite'
         /\ \A o \in InvoiceIds :
              /\ Credited(o) \in Nat
              /\ Credited(o)' = IF job[r].doc.type = "CreditNote" /\ job[r].doc.reversed = o
                                THEN Credited(o) + job[r].doc.amount
                                ELSE Credited(o)
<1> DEFINE i == job[r].id
           doc == job[r].doc
<1>0. [Next]_vars
  BY DEF Next, Step
<1>a. TypeOK /\ TypeOK'
  BY <1>0, NumberingStep DEF NumberingInv
<1>1. /\ i \in InvoiceIds /\ ~Exists(i) /\ doc \in InvoiceRow
      /\ invoices'[i] = doc
      /\ \A k \in InvoiceIds : k # i => invoices'[k] = invoices[k]
  BY CommitEffect
<1> HIDE DEF i, doc
<1>2. doc.amount \in Nat /\ doc.status # "none"
  BY <1>1, AmountsAssumption DEF InvoiceRow
<1>3. RowsFinite'
  <2>1. {k \in InvoiceIds : Exists(k)'} = {k \in InvoiceIds : Exists(k)} \cup {i}
    BY <1>1, <1>2 DEF Exists
  <2>2. IsFiniteSet({k \in InvoiceIds : Exists(k)'})
    BY <2>1, FS_AddElement DEF RowsFinite
  <2>3. QED
    BY <2>2 DEF RowsFinite
<1>4. ASSUME NEW o \in InvoiceIds
      PROVE  /\ Credited(o) \in Nat
             /\ Credited(o)' = IF doc.type = "CreditNote" /\ doc.reversed = o
                               THEN Credited(o) + doc.amount
                               ELSE Credited(o)
  <2> DEFINE notes == CreditNotesOf(o)
  <2>1. /\ IsFiniteSet(notes)
        /\ \A k \in notes : invoices[k].amount \in Nat
        /\ Credited(o) = Cardinality(Units(invoices, notes))
        /\ Credited(o)' = Cardinality(Units(invoices', CreditNotesOf(o)'))
    BY <1>a, <1>3, CreditedIsUnits, CreditedIsUnitsAfter
  <2>2. Credited(o) \in Nat
    BY <2>1, UnitsFinite, FS_CardinalityType
  <2>3. i \notin notes /\ \A k \in notes : invoices'[k] = invoices[k]
    BY <1>1 DEF CreditNotesOf
  <2>4. Units(invoices', notes) = Units(invoices, notes)
    BY <2>3 DEF Units
  <2>5. CASE doc.type = "CreditNote" /\ doc.reversed = o
    <3>1. CreditNotesOf(o)' = notes \cup {i}
      BY <1>1, <1>2, <2>5 DEF CreditNotesOf, Exists
    <3>2. invoices'[i].amount = doc.amount
      BY <1>1
    <3>3. \A k \in notes \cup {i} : invoices'[k].amount \in Nat
      BY <1>2, <2>1, <2>3, <3>2
    <3> HIDE DEF notes
    <3>4. Cardinality(Units(invoices', notes \cup {i})) =
            Cardinality(Units(invoices', notes)) + invoices'[i].amount
      BY <2>1, <2>3, <3>3, UnitsGrow
    <3>5. QED
      BY <2>1, <2>2, <2>4, <2>5, <3>1, <3>2, <3>4
  <2>6. CASE ~(doc.type = "CreditNote" /\ doc.reversed = o)
    <3>1. CreditNotesOf(o)' = notes
      BY <1>1, <2>6 DEF CreditNotesOf, Exists
    <3>2. QED
      BY <2>1, <2>2, <2>4, <2>6, <3>1
  <2>7. QED
    BY <2>2, <2>5, <2>6
<1>5. QED
  BY <1>3, <1>4 DEF doc

(* A note gets past the cap by the check, or by having no original. *)
LEMMA PassesCap ==
  ASSUME NumberingInv, NEW r \in Requests, Step(r), NEW q \in Requests, PastCap(q)'
  PROVE  \/ PastCap(q)
         \/ q = r /\ CheckCap(r)
         \/ q = r /\ ResolveLines(r) /\ job[r].doc.reversed = None
<1>a. TypeOK
  BY DEF NumberingInv
<1>b. Drafting(q) /\ job'[q].doc.type = job[q].doc.type
  BY DocKept DEF PastCap, Drafting, DraftSteps, BeforeInsert
<1>1. CASE job'[q] = job[q]
  BY <1>1 DEF PastCap
<1>2. CASE FindSeries(r)
  BY <1>1, <1>2, FindSeriesEffect DEF PastCap, HoldsLock
<1>3. CASE ResolveLines(r)
  <2>1. CASE q # r
    BY <1>a, <1>1, <1>3, <2>1 DEF ResolveLines, Goto, TypeOK
  <2>2. CASE job[r].doc.reversed # None
    <3>1. job'[r].step = "cap"
      BY <1>a, <1>3, <2>2, JobShape DEF ResolveLines, Goto, TypeOK, DraftJob, DraftSteps, BeforeInsert
    <3>2. QED
      BY <2>1, <3>1 DEF PastCap, HoldsLock
  <2>3. QED
    BY <1>3, <2>1, <2>2
<1>4. CASE CheckCap(r)
  <2>1. CASE q # r
    BY <1>a, <1>1, <1>4, <2>1 DEF CheckCap, Goto, TypeOK
  <2>2. QED
    BY <1>4, <2>1
<1>5. CASE AllocateNumber(r)
  <2>1. CASE q # r
    BY <1>1, <1>5, <2>1, AllocateEffect
  <2>2. QED
    BY <1>b, <1>5, <2>1 DEF PastCap, AllocateNumber
<1>6. CASE InsertInvoice(r)
  <2>1. CASE q # r
    BY <1>a, <1>1, <1>6, <2>1 DEF InsertInvoice, Goto, TypeOK
  <2>2. QED
    BY <1>b, <1>6, <2>1 DEF PastCap, InsertInvoice, HoldsLock
<1>7. CASE \/ SeriesNotFound(r) \/ RejectLines(r) \/ RejectCap(r) \/ SeriesGone(r)
           \/ InsertRejected(r) \/ Commit(r) \/ CasLost(r) \/ FinishIssue(r)
  <2>1. job' = [job EXCEPT ![r] = Idle]
    BY <1>7 DEF SeriesNotFound, RejectLines, RejectCap, SeriesGone, InsertRejected, Commit,
       CasLost, FinishIssue, Finish
  <2>2. job'[q] = job[q]
    BY <1>a, <2>1 DEF TypeOK, Idle, PastCap, HoldsLock
  <2>3. QED
    BY <1>1, <2>2
<1>8. CASE CasIssue(r) \/ Submit(r)
  <2>1. q # r
    BY <1>b, <1>8 DEF CasIssue, Submit, Drafting, DraftSteps, BeforeInsert, HoldsLock
  <2>2. job'[q] = job[q]
    BY <1>a, <1>8, <2>1 DEF TypeOK, CasIssue, Submit, Goto
  <2>3. QED
    BY <1>1, <2>2
<1>9. QED
  BY <1>2, <1>3, <1>4, <1>5, <1>6, <1>7, <1>8 DEF Step

(* As long as no two notes on one original are between the check of the    *)
(* cap and the commit, every note that passed the check still fits.        *)
LEMMA CapStep == CapInv /\ CapChecksApart /\ [Next]_vars => CapInv'
<1> SUFFICES ASSUME CapInv, CapChecksApart, [Next]_vars
             PROVE  CapInv'
  OBVIOUS
<1>a. /\ NumberingInv /\ TypeOK /\ OriginalIssued /\ ReferencesLive
      /\ RowsFinite /\ CapIsCurrent /\ CapStillHolds /\ CreditNotesWithinOriginal
  BY DEF CapInv, ReferencesInv, NumberingInv
<1>b. [Next]_vars
  OBVIOUS
<1>d. ReferencesInv' /\ NumberingInv' /\ TypeOK'
  BY <1>b, ReferencesStep DEF CapInv, ReferencesInv, NumberingInv
<1>e. \A q \in Requests : Drafting(q) /\ job[q].doc.type = "CreditNote" =>
        /\ job[q].doc.reversed \in InvoiceIds
        /\ Exists(job[q].doc.reversed)
        /\ invoices'[job[q].doc.reversed].amount = invoices[job[q].doc.reversed].amount
  <2> SUFFICES ASSUME NEW q \in Requests, Drafting(q), job[q].doc.type = "CreditNote"
               PROVE  /\ job[q].doc.reversed \in InvoiceIds
                      /\ Exists(job[q].doc.reversed)
                      /\ invoices'[job[q].doc.reversed].amount =
                           invoices[job[q].doc.reversed].amount
    OBVIOUS
  <2>1. job[q].doc.reversed \in InvoiceIds /\ Exists(job[q].doc.reversed)
    BY <1>a DEF OriginalIssued, Exists
  <2>2. QED
    BY <1>a, <1>b, <2>1, RowsKept
<1>f. \A q \in Requests : PastCap(q) => Drafting(q) /\ job[q].doc.type = "CreditNote"
  BY DEF PastCap, Drafting, DraftSteps, BeforeInsert
<1>g. \A r \in Requests : Commit(r) =>
        /\ job'[r].step = "idle"
        /\ \A q \in Requests : q # r => job'[q] = job[q]
        /\ job[r].doc.type = "CreditNote" => PastCap(r)
        /\ Drafting(r)
  BY <1>a, CommitEffect DEF PastCap, HoldsLock, Drafting, DraftSteps
<1>1. RowsFinite'
  BY <1>a, <1>b, SumsKept, SumAfterCommit
(* The amount of an original is immutable. *)
<1>2. CapIsCurrent'
  <2> SUFFICES ASSUME NEW q \in Requests, Drafting(q)', job'[q].doc.type = "CreditNote"
               PROVE  job'[q].cap = invoices'[job'[q].doc.reversed].amount
    BY DEF CapIsCurrent
  <2>1. ASSUME Drafting(q), job'[q].doc.type = job[q].doc.type,
               job'[q].doc.reversed = job[q].doc.reversed, job'[q].cap = job[q].cap
        PROVE  job'[q].cap = invoices'[job'[q].doc.reversed].amount
    BY <1>a, <1>e, <2>1 DEF CapIsCurrent
  <2>2. ASSUME job'[q] = job[q]
        PROVE  job'[q].cap = invoices'[job'[q].doc.reversed].amount
    BY <2>1, <2>2 DEF Drafting
  <2>3. ASSUME NEW r \in Requests, Step(r)
        PROVE  job'[q].cap = invoices'[job'[q].doc.reversed].amount
    BY <1>a, <2>1, <2>3, DocKept
  <2>4. ASSUME NEW r \in Requests, BeginCreditNote(r)
        PROVE  job'[q].cap = invoices'[job'[q].doc.reversed].amount
    <3>1. CASE q = r
      BY <1>a, <2>4, <3>1 DEF BeginCreditNote, NewDoc, TypeOK, tables
    <3>2. CASE q # r
      <4>1. job'[q] = job[q]
        BY <1>a, <2>4, <3>2 DEF BeginCreditNote, TypeOK
      <4>2. QED
        BY <2>2, <4>1
    <3>3. QED
      BY <3>1, <3>2
  <2>5. ASSUME NEW r \in Requests, BeginDraft(r)
        PROVE  q # r /\ job'[q] = job[q]
    BY <1>a, <2>5 DEF BeginDraft, NewDoc, TypeOK
  <2>6. ASSUME NEW r \in Requests, BeginIssue(r) \/ Crash(r)
        PROVE  q # r /\ job'[q] = job[q]
    BY <1>a, <2>6 DEF BeginIssue, Crash, Finish, Idle, TypeOK, Drafting, DraftSteps,
                     BeforeInsert, HoldsLock
  <2>7. CASE job' = job
    BY <2>2, <2>7
  <2>8. QED
    BY <1>b, <2>2, <2>3, <2>4, <2>5, <2>6, <2>7
       DEF Next, vars, CreateSeries, RemoveSeries, RemoveCompany, RemoveProduct
(* What another request commits counts for another original. *)
<1>3. CapStillHolds'
  <2> SUFFICES ASSUME NEW q \in Requests, NEW o \in InvoiceIds,
                      PastCap(q)', job'[q].doc.reversed = o
               PROVE  Credited(o)' + job'[q].doc.amount <= job'[q].cap
    BY DEF CapStillHolds
  <2>1. ASSUME PastCap(q), job'[q].doc.reversed = job[q].doc.reversed,
               job'[q].doc.amount = job[q].doc.amount, job'[q].cap = job[q].cap,
               Credited(o)' = Credited(o)
        PROVE  Credited(o)' + job'[q].doc.amount <= job'[q].cap
    BY <1>a, <2>1 DEF CapStillHolds
  <2>2. ASSUME NEW r \in Requests, Commit(r)
        PROVE  Credited(o)' + job'[q].doc.amount <= job'[q].cap
    <3>1. q # r /\ job'[q] = job[q] /\ PastCap(q)
      BY <1>g, <2>2 DEF PastCap, HoldsLock
    <3>2. ~(job[r].doc.type = "CreditNote" /\ job[r].doc.reversed = o)
      BY <1>g, <2>2, <3>1 DEF CapChecksApart
    <3>3. Credited(o)' = Credited(o)
      BY <1>a, <2>2, <3>2, SumAfterCommit
    <3>4. QED
      BY <2>1, <3>1, <3>3
  <2>3. CASE \A r \in Requests : ~Commit(r)
    <3>1. Credited(o)' = Credited(o)
      BY <1>a, <1>b, <2>3, SumsKept
    <3>2. CASE job'[q] = job[q]
      BY <2>1, <3>1, <3>2 DEF PastCap
    <3>3. ASSUME NEW r \in Requests, Step(r)
          PROVE  Credited(o)' + job'[q].doc.amount <= job'[q].cap
      <4>1. Drafting(q)'
        BY DEF PastCap, Drafting, DraftSteps, BeforeInsert
      <4>2. /\ Drafting(q)
            /\ job'[q].doc.type = job[q].doc.type
            /\ job'[q].doc.reversed = job[q].doc.reversed
            /\ job'[q].doc.amount = job[q].doc.amount
            /\ job'[q].cap = job[q].cap
        BY <1>a, <3>3, <4>1, DocKept
      <4>3. CASE PastCap(q)
        BY <2>1, <3>1, <4>2, <4>3
      <4>4. CASE q = r /\ CheckCap(r)
        <5>1. Credited(job[q].doc.reversed) + job[q].doc.amount <= job[q].cap
          BY <4>4 DEF CheckCap
        <5>2. Credited(o) + job[q].doc.amount <= job[q].cap
          BY <4>2, <5>1
        <5>3. QED
          BY <3>1, <4>2, <5>2
      <4>5. CASE q = r /\ ResolveLines(r) /\ job[r].doc.reversed = None
        <5>1. job[q].doc.type = "CreditNote"
          BY <4>2 DEF PastCap
        <5>2. QED
          BY <1>e, <4>2, <4>5, <5>1, NoneAssumption
      <4>6. QED
        BY <1>a, <3>3, <4>3, <4>4, <4>5, PassesCap
    <3>4. ASSUME NEW r \in Requests,
                 BeginDraft(r) \/ BeginCreditNote(r) \/ BeginIssue(r) \/ Crash(r)
          PROVE  job'[q] = job[q]
      BY <1>a, <3>4 DEF BeginDraft, BeginCreditNote, BeginIssue, Crash, Finish, Idle, TypeOK,
                       PastCap, HoldsLock
    <3>5. CASE job' = job
      BY <3>2, <3>5
    <3>6. QED
      BY <1>b, <3>2, <3>3, <3>4, <3>5
         DEF Next, vars, CreateSeries, RemoveSeries, RemoveCompany, RemoveProduct
  <2>4. QED
    BY <2>2, <2>3
<1>4. CreditNotesWithinOriginal'
  <2> SUFFICES ASSUME NEW i \in InvoiceIds, Exists(i)'
               PROVE  Credited(i)' <= invoices'[i].amount
    BY DEF CreditNotesWithinOriginal
  <2>1. ASSUME Exists(i), Credited(i)' = Credited(i)
        PROVE  Credited(i)' <= invoices'[i].amount
    BY <1>a, <1>b, <2>1, RowsKept DEF CreditNotesWithinOriginal
  <2>2. ASSUME NEW r \in Requests, Commit(r), Exists(i)
        PROVE  Credited(i)' <= invoices'[i].amount
    <3>1. CASE job[r].doc.type = "CreditNote" /\ job[r].doc.reversed = i
      <4>1. Credited(i)' = Credited(i) + job[r].doc.amount
        BY <1>a, <2>2, <3>1, SumAfterCommit
      <4>2. Credited(i) + job[r].doc.amount <= job[r].cap
        BY <1>a, <1>g, <2>2, <3>1 DEF CapStillHolds
      <4>3. job[r].cap = invoices[i].amount
        BY <1>a, <1>g, <2>2, <3>1 DEF CapIsCurrent
      <4>4. invoices'[i].amount = invoices[i].amount
        BY <1>a, <1>b, <2>2, RowsKept
      <4>5. QED
        BY <4>1, <4>2, <4>3, <4>4
    <3>2. CASE ~(job[r].doc.type = "CreditNote" /\ job[r].doc.reversed = i)
      <4>1. Credited(i)' = Credited(i)
        BY <1>a, <2>2, <3>2, SumAfterCommit
      <4>2. QED
        BY <2>1, <2>2, <4>1
    <3>3. QED
      BY <3>1, <3>2
  (* Nothing reverses an invoice that was not there. *)
  <2>3. ASSUME NEW r \in Requests, Commit(r), ~Exists(i)
        PROVE  Credited(i)' <= invoices'[i].amount
    <3>1. invoices'[i].amount \in Nat
      <4>1. invoices'[i] \in InvoiceRow
        BY <1>d DEF TypeOK, Exists, NoInvoice
      <4>2. QED
        BY <4>1, AmountsAssumption DEF InvoiceRow
    <3>2. CreditNotesOf(i) = {}
      BY <1>a, <2>3 DEF CreditNotesOf, ReferencesLive, Exists
    <3>3. Credited(i) = 0
      <4>1. Credited(i) = Cardinality(Units(invoices, CreditNotesOf(i)))
        BY <1>a, CreditedIsUnits
      <4>2. Units(invoices, CreditNotesOf(i)) = {}
        BY <3>2 DEF Units
      <4>3. QED
        BY <4>1, <4>2, FS_EmptySet
    <3>4. ~(job[r].doc.type = "CreditNote" /\ job[r].doc.reversed = i)
      BY <1>e, <1>g, <2>3
    <3>5. Credited(i)' = Credited(i)
      BY <1>a, <2>3, <3>4, SumAfterCommit
    <3>6. QED
      BY <3>1, <3>3, <3>5
  <2>4. CASE \A r \in Requests : ~Commit(r)
    <3>1. Credited(i)' = Credited(i)
      BY <1>a, <1>b, <2>4, SumsKept
    <3>2. CASE Exists(i)
      BY <2>1, <3>1, <3>2
    <3>3. CASE ~Exists(i)
      BY <1>a, <1>b, <2>4, <3>3, EntersByCommit
    <3>4. QED
      BY <3>2, <3>3
  <2>5. QED
    BY <2>2, <2>3, <2>4
<1>5. QED
  BY <1>1, <1>2, <1>3, <1>4, <1>d DEF CapInv

(* What is known of the notes under way and of the sums holds in every     *)
(* state of the engine in which no two checks of createDraftInvoice on one *)
(* original overlap, whatever else interleaves and wherever handlers die.  *)
THEOREM CapInvariant == Spec /\ []CapChecksApart => []CapInv
<1>1. Init => CapInv
  <2> SUFFICES ASSUME Init
               PROVE  CapInv
    OBVIOUS
  <2>1. ReferencesInv
    BY NumberingInit DEF Init, ReferencesInv, ReferencesLive, InsertedRefersToLive,
       OriginalIssued, Exists, NoInvoice, Idle, Drafting, DraftSteps, BeforeInsert, HoldsLock
  <2>2. \A i \in InvoiceIds : ~Exists(i)
    BY DEF Init, Exists, NoInvoice
  <2>3. \A r \in Requests : ~Drafting(r) /\ ~PastCap(r)
    BY DEF Init, Idle, Drafting, PastCap, DraftSteps, BeforeInsert, HoldsLock
  <2>4. RowsFinite
    <3>1. {i \in InvoiceIds : Exists(i)} = {}
      BY <2>2
    <3>2. QED
      BY <3>1, FS_EmptySet DEF RowsFinite
  <2>5. QED
    BY <2>1, <2>2, <2>3, <2>4
       DEF CapInv, CapIsCurrent, CapStillHolds, CreditNotesWithinOriginal
<1>2. QED
  BY <1>1, CapStep, PTL DEF Spec

(* Where no two credit notes on one original overlap between the check of  *)
(* the cap and the commit, the credit notes of an invoice never exceed it, *)
(* whatever else interleaves and wherever handlers die.  So a lock on the  *)
(* original in createDraftInvoice is all the cap lacks.                    *)
THEOREM CapKept == Spec => CapWhereApart
<1>1. CapInv => CreditNotesWithinOriginal
  BY DEF CapInv
<1>2. QED
  BY <1>1, CapInvariant, PTL DEF CapWhereApart
=============================================================================
