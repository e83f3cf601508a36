---------------------------- MODULE InvoicingProofs --------------------------
(***************************************************************************)
(* Theorems about Invoicing, for every set of requests, keys, codes and    *)
(* amounts, with and without crashes.                                      *)
(***************************************************************************)
EXTENDS InvoicingInductive, TLAPS

USE AmountsAssumption, FaultsAssumption, NoneAssumption

-----------------------------------------------------------------------------
(* What the current step of a job says about its shape. *)
LEMMA JobShape ==
  ASSUME TypeOK, NEW r \in Requests
  PROVE  /\ job[r].step \in DraftSteps => job[r] \in DraftJob
         /\ job[r].step \in IssueSteps => job[r] \in IssueJob
         /\ job[r].step \in {"idle"} \cup DraftSteps \cup IssueSteps
  BY DEF TypeOK, Idle, DraftJob, IssueJob, DraftSteps, BeforeInsert, HoldsLock, IssueSteps

(* A row that is there has all its columns. *)
LEMMA RowShape ==
  ASSUME TypeOK
  PROVE  /\ \A i \in InvoiceIds : Exists(i) => invoices[i] \in InvoiceRow
         /\ \A s \in SeriesIds : Live(s) => series[s] \in SeriesRow
         /\ \A s \in SeriesIds : ~Live(s) => series[s] \in {UnusedSeries, DeletedSeries}
  BY DEF TypeOK, Exists, Live, NoInvoice, InvoiceRow, SeriesRow, UnusedSeries, DeletedSeries

(* The row a handler prepares for its draft is a row of the table.         *)
LEMMA NewDocType ==
  ASSUME NEW type \in {"Normal", "CreditNote"}, NEW code \in Codes,
         NEW c \in Companies, NEW p \in Products \cup {None},
         NEW a \in Amounts, NEW original \in InvoiceIds \cup {None}
  PROVE  NewDoc(type, code, c, p, a, original) \in InvoiceRow
  BY DEF NewDoc, InvoiceRow

(* What the validation of the bodies guarantees.                           *)
LEMMA Validated ==
  /\ \A dto \in CreateInvoiceDto : /\ dto.seriesCode \in Codes
                                  /\ dto.companyId \in Companies
                                  /\ dto.lines.productId \in Products \cup {None}
                                  /\ dto.lines.total \in Amounts
  /\ \A dto \in CreateCreditNoteDto : /\ dto.seriesCode \in Codes
                                     /\ dto.lines.productId \in Products \cup {None}
                                     /\ dto.lines.total \in Amounts
  /\ \A dto \in CreateInvoiceSeriesDto : /\ dto.seriesCode \in Codes
                                        /\ dto.documentType \in DocTypes
  BY DEF CreateInvoiceDto, CreateCreditNoteDto, CreateInvoiceLineDto,
         CreateInvoiceSeriesDto

(* Writing a column of a row, or of a row in the making, keeps its shape. *)
LEMMA RowUpdate ==
  ASSUME NEW row \in InvoiceRow
  PROVE  /\ [row EXCEPT !.status = "issued"] \in InvoiceRow
         /\ [row EXCEPT !.eInvoice = "pending"] \in InvoiceRow
         /\ \A s \in SeriesIds : [row EXCEPT !.series = s] \in InvoiceRow
         /\ \A n \in Nat : [row EXCEPT !.number = n] \in InvoiceRow
<1>1. [row EXCEPT !.status = "issued"] \in InvoiceRow
  BY DEF InvoiceRow
<1>2. [row EXCEPT !.eInvoice = "pending"] \in InvoiceRow
  BY DEF InvoiceRow
<1>3. ASSUME NEW s \in SeriesIds PROVE [row EXCEPT !.series = s] \in InvoiceRow
  BY DEF InvoiceRow
<1>4. ASSUME NEW n \in Nat PROVE [row EXCEPT !.number = n] \in InvoiceRow
  BY DEF InvoiceRow
<1>5. QED
  BY <1>1, <1>2, <1>3, <1>4

(* Remembering the series that was found keeps the shape of the job.       *)
LEMMA DraftUpdate ==
  ASSUME NEW j \in DraftJob
  PROVE  \A s \in SeriesIds :
           [j EXCEPT !.step = "lines", !.doc.series = s] \in DraftJob
<1>1. j.doc \in InvoiceRow
  BY DEF DraftJob
<1>2. ASSUME NEW s \in SeriesIds
      PROVE  [j EXCEPT !.step = "lines", !.doc.series = s] \in DraftJob
  BY <1>1, RowUpdate DEF DraftJob, DraftSteps, BeforeInsert
<1>3. QED
  BY <1>2

(* Every statement of every handler leaves rows and jobs in their shape.   *)
LEMMA TypeStep == NumberingInv /\ [Next]_vars => TypeOK'
<1> SUFFICES ASSUME NumberingInv, [Next]_vars
             PROVE  TypeOK'
  OBVIOUS
<1> USE DEF NumberingInv, RowsConsistent, JobsConsistent
<1>1. CASE UNCHANGED vars
  BY <1>1 DEF vars, TypeOK
<1>2. ASSUME NEW r \in Requests, BeginDraft(r)
      PROVE  TypeOK'
  <2>1. PICK i \in FreeIds, dto \in CreateInvoiceDto :
          job' = [job EXCEPT ![r] =
                    [step |-> "series", id |-> i, cap |-> 0,
                     doc |-> NewDoc("Normal", dto.seriesCode, dto.companyId,
                                    dto.lines.productId, dto.lines.total, None)]]
    BY <1>2 DEF BeginDraft
  <2>2. NewDoc("Normal", dto.seriesCode, dto.companyId,
               dto.lines.productId, dto.lines.total, None) \in InvoiceRow
    BY NewDocType, Validated
  <2>3. job'[r] \in DraftJob
    BY <2>1, <2>2 DEF TypeOK, FreeIds, DraftJob, DraftSteps, BeforeInsert
  <2>4. QED
    BY <1>2, <2>1, <2>3 DEF BeginDraft, TypeOK, tables
<1>3. ASSUME NEW r \in Requests, BeginCreditNote(r)
      PROVE  TypeOK'
  <2>1. PICK original \in InvoiceIds, i \in FreeIds, dto \in CreateCreditNoteDto :
          /\ Exists(original)
          /\ job' = [job EXCEPT ![r] =
                       [step |-> "series", id |-> i,
                        cap |-> invoices[original].amount,
                        doc |-> NewDoc("CreditNote", dto.seriesCode,
                                       invoices[original].company,
                                       dto.lines.productId, dto.lines.total,
                                       original)]]
    BY <1>3 DEF BeginCreditNote
  <2>2. invoices[original].company \in Companies /\ invoices[original].amount \in Nat
    BY <2>1, RowShape DEF InvoiceRow
  <2>3. NewDoc("CreditNote", dto.seriesCode, invoices[original].company,
               dto.lines.productId, dto.lines.total, original) \in InvoiceRow
    BY <2>2, NewDocType, Validated
  <2>4. job'[r] \in DraftJob
    BY <2>1, <2>2, <2>3 DEF TypeOK, FreeIds, DraftJob, DraftSteps, BeforeInsert
  <2>5. QED
    BY <1>3, <2>1, <2>4 DEF BeginCreditNote, TypeOK, tables
<1>4. ASSUME NEW r \in Requests, BeginIssue(r)
      PROVE  TypeOK'
  BY <1>4 DEF BeginIssue, TypeOK, tables, IssueJob, IssueSteps
<1>5. ASSUME NEW r \in Requests, FindSeries(r)
      PROVE  TypeOK'
  <2>1. job[r] \in DraftJob
    BY <1>5, JobShape DEF FindSeries, DraftSteps, BeforeInsert
  <2>2. PICK s \in SeriesIds :
          job' = [job EXCEPT ![r] = [job[r] EXCEPT !.step = "lines", !.doc.series = s]]
    BY <1>5 DEF FindSeries, TypeOK
  <2>3. QED
    BY <1>5, <2>1, <2>2, DraftUpdate DEF FindSeries, TypeOK, tables
<1>6. ASSUME NEW r \in Requests, SeriesNotFound(r)
      PROVE  TypeOK'
  BY <1>6 DEF SeriesNotFound, Finish, TypeOK, tables
<1>7. ASSUME NEW r \in Requests, ResolveLines(r)
      PROVE  TypeOK'
  BY <1>7, JobShape DEF ResolveLines, Goto, TypeOK, tables, DraftJob, DraftSteps, BeforeInsert
<1>8. ASSUME NEW r \in Requests, RejectLines(r)
      PROVE  TypeOK'
  BY <1>8 DEF RejectLines, Finish, TypeOK, tables
<1>9. ASSUME NEW r \in Requests, CheckCap(r)
      PROVE  TypeOK'
  BY <1>9, JobShape DEF CheckCap, Goto, TypeOK, tables, DraftJob, DraftSteps, BeforeInsert
<1>10. ASSUME NEW r \in Requests, RejectCap(r)
      PROVE  TypeOK'
  BY <1>10 DEF RejectCap, Finish, TypeOK, tables
<1>11. ASSUME NEW r \in Requests, AllocateNumber(r)
      PROVE  TypeOK'
  <2> DEFINE s == job[r].doc.series
  <2>1. job[r] \in DraftJob
    BY <1>11, JobShape DEF AllocateNumber, DraftSteps, BeforeInsert
  <2>2. s \in SeriesIds /\ series[s].nextNumber \in Nat
    BY <1>11, RowShape DEF AllocateNumber, SeriesFound, SeriesRow, DraftSteps, BeforeInsert
  <2>3. job' = [q \in Requests |-> IF q = r THEN job'[r] ELSE job[q]]
    <3>1. job \in [Requests -> {Idle} \cup DraftJob \cup IssueJob]
      BY DEF TypeOK
    <3>2. PICK n : job' = [job EXCEPT ![r].step = "insert", ![r].doc.number = n]
      BY <1>11, Zenon DEF AllocateNumber
    <3>3. QED
      BY <3>1, <3>2
  <2>4. seriesLock' \in [SeriesIds -> Requests \cup {None}]
    BY <1>11, <2>2 DEF AllocateNumber, TypeOK
  <2>5. job'[r] = [job[r] EXCEPT !.step = "insert",
                             !.doc = [job[r].doc EXCEPT !.number = series[s].nextNumber]]
    BY <1>11, <2>1 DEF AllocateNumber, TypeOK, DraftJob
  <2>6. job'[r] \in DraftJob
    <3>1. [job[r].doc EXCEPT !.number = series[s].nextNumber] \in InvoiceRow
      BY <2>1, <2>2 DEF DraftJob, InvoiceRow
    <3>2. QED
      BY <2>1, <2>5, <3>1 DEF DraftJob, DraftSteps, HoldsLock
  <2>7. QED
    BY <1>11, <2>3, <2>4, <2>6 DEF AllocateNumber, TypeOK, tables
<1>12. ASSUME NEW r \in Requests, SeriesGone(r)
      PROVE  TypeOK'
  BY <1>12 DEF SeriesGone, Finish, TypeOK, tables
<1>13. ASSUME NEW r \in Requests, InsertInvoice(r)
      PROVE  TypeOK'
  BY <1>13, JobShape DEF InsertInvoice, Goto, TypeOK, tables, DraftJob, DraftSteps, HoldsLock
<1>14. ASSUME NEW r \in Requests, InsertRejected(r)
      PROVE  TypeOK'
  BY <1>14 DEF InsertRejected, Finish, Unlock, TypeOK, tables
<1>15. ASSUME NEW r \in Requests, Commit(r)
      PROVE  TypeOK'
  <2> DEFINE s == job[r].doc.series
             i == job[r].id
  <2>1. job[r].doc \in InvoiceRow /\ i \in InvoiceIds
    BY <1>15, JobShape DEF Commit, DraftSteps, HoldsLock, DraftJob
  <2>2. s \in SeriesIds /\ series[s] \in SeriesRow
    BY <1>15, RowShape DEF Commit, SeriesFound, LockedByAllocator, DraftSteps, BeforeInsert, HoldsLock
  <2>3. [series[s] EXCEPT !.nextNumber = @ + 1] \in SeriesRow
    BY <2>2 DEF SeriesRow
  <2>4. series' = [series EXCEPT ![s] = [series[s] EXCEPT !.nextNumber = @ + 1]]
    BY <1>15 DEF Commit
  <2>5. audit' \in [InvoiceIds -> [created: Nat, issued: Nat]]
    BY <1>15, <2>1 DEF Commit, TypeOK
  <2>6. QED
    BY <1>15, <2>1, <2>2, <2>3, <2>4, <2>5 DEF Commit, Unlock, Finish, TypeOK
<1>16. ASSUME NEW r \in Requests, CasIssue(r)
      PROVE  TypeOK'
  <2>1. job[r] \in IssueJob /\ job[r].id \in InvoiceIds
    BY <1>16, JobShape DEF CasIssue, IssueSteps, IssueJob
  <2>2. invoices[job[r].id] \in InvoiceRow
    BY <1>16, <2>1, RowShape DEF CasIssue, IssueTargetExists, IssueSteps
  <2>3. job' \in [Requests -> {Idle} \cup DraftJob \cup IssueJob]
    BY <1>16, <2>1 DEF CasIssue, Goto, TypeOK, IssueJob, IssueSteps
  <2>4. invoices' = [invoices EXCEPT ![job[r].id] =
                       [invoices[job[r].id] EXCEPT !.status = "issued"]]
    BY <1>16 DEF CasIssue
  <2>5. QED
    BY <1>16, <2>1, <2>2, <2>3, <2>4, RowUpdate DEF CasIssue, TypeOK
<1>17. ASSUME NEW r \in Requests, CasLost(r)
      PROVE  TypeOK'
  BY <1>17 DEF CasLost, Finish, TypeOK, tables
<1>18. ASSUME NEW r \in Requests, Submit(r)
      PROVE  TypeOK'
  BY <1>18, JobShape DEF Submit, Goto, TypeOK, IssueJob, IssueSteps
<1>19. ASSUME NEW r \in Requests, FinishIssue(r)
      PROVE  TypeOK'
  <2>1. job[r].id \in InvoiceIds
    BY <1>19, JobShape DEF FinishIssue, IssueSteps, IssueJob
  <2>2. invoices[job[r].id] \in InvoiceRow
    BY <1>19, <2>1, RowShape DEF FinishIssue, IssueTargetExists, IssueSteps
  <2>3. invoices' = [invoices EXCEPT ![job[r].id] =
                       [invoices[job[r].id] EXCEPT !.eInvoice = "pending"]]
    BY <1>19 DEF FinishIssue
  <2>4. audit' \in [InvoiceIds -> [created: Nat, issued: Nat]]
    BY <1>19, <2>1 DEF FinishIssue, TypeOK
  <2>5. invoices' \in [InvoiceIds -> InvoiceRow \cup {NoInvoice}]
    BY <2>1, <2>2, <2>3, RowUpdate DEF TypeOK
  <2>6. job' \in [Requests -> {Idle} \cup DraftJob \cup IssueJob]
    BY <1>19 DEF FinishIssue, Finish, TypeOK
  <2>7. QED
    BY <1>19, <2>4, <2>5, <2>6 DEF FinishIssue, TypeOK
<1>20. ASSUME NEW r \in Requests, Crash(r)
      PROVE  TypeOK'
  BY <1>20 DEF Crash, Finish, Unlock, TypeOK, tables
<1>21. ASSUME CreateSeries
      PROVE  TypeOK'
  BY <1>21, Validated DEF CreateSeries, TypeOK, SeriesRow
<1>22. ASSUME NEW s \in SeriesIds, RemoveSeries(s)
      PROVE  TypeOK'
  BY <1>22 DEF RemoveSeries, TypeOK
<1>23. ASSUME NEW c \in Companies, RemoveCompany(c)
      PROVE  TypeOK'
  BY <1>23 DEF RemoveCompany, TypeOK
<1>24. ASSUME NEW p \in Products, RemoveProduct(p)
      PROVE  TypeOK'
  BY <1>24 DEF RemoveProduct, TypeOK
<1>25. QED
  BY <1>1, <1>2, <1>3, <1>4, <1>5, <1>6, <1>7, <1>8, <1>9, <1>10, <1>11, <1>12, <1>13, <1>14, <1>15, <1>16, <1>17, <1>18, <1>19, <1>20, <1>21, <1>22, <1>23, <1>24 DEF Next, Step

(* What finding the series changes. *)
LEMMA FindSeriesEffect ==
  ASSUME NumberingInv, NEW r \in Requests, FindSeries(r)
  PROVE  /\ job[r] \in DraftJob /\ job[r].step = "series" /\ job[r].doc \in InvoiceRow
         /\ job'[r].step = "lines" /\ job'[r].id = job[r].id /\ job'[r].cap = job[r].cap
         /\ \E s \in SeriesIds : /\ Live(s) /\ series[s].code = job[r].doc.code
                                  /\ job'[r].doc = [job[r].doc EXCEPT !.series = s]
         /\ \A q \in Requests : q # r => job'[q] = job[q]
         /\ UNCHANGED <<tables, seriesLock>>
<1> USE DEF NumberingInv
<1>1. job[r] \in DraftJob /\ job[r].step = "series" /\ job[r].doc \in InvoiceRow
  BY JobShape DEF FindSeries, DraftSteps, BeforeInsert, DraftJob
<1>2. PICK s \in SeriesIds :
        /\ Live(s) /\ series[s].code = job[r].doc.code
        /\ job' = [job EXCEPT ![r] = [job[r] EXCEPT !.step = "lines", !.doc.series = s]]
  BY DEF FindSeries, TypeOK
<1>3. job'[r] = [job[r] EXCEPT !.step = "lines", !.doc = [job[r].doc EXCEPT !.series = s]]
  BY <1>1, <1>2 DEF TypeOK, DraftJob
<1>4. /\ job'[r].step = "lines" /\ job'[r].id = job[r].id /\ job'[r].cap = job[r].cap
      /\ job'[r].doc = [job[r].doc EXCEPT !.series = s]
  BY <1>1, <1>3 DEF DraftJob
<1>5. \A q \in Requests : q # r => job'[q] = job[q]
  BY <1>2 DEF TypeOK
<1>6. UNCHANGED <<tables, seriesLock>>
  BY DEF FindSeries
<1>7. QED
  BY <1>1, <1>2, <1>4, <1>5, <1>6

(* What allocating the number changes. *)
LEMMA AllocateEffect ==
  ASSUME NumberingInv, NEW r \in Requests, AllocateNumber(r),
         NEW s, s = job[r].doc.series
  PROVE  /\ job[r] \in DraftJob /\ job[r].step = "number" /\ job[r].doc \in InvoiceRow
         /\ s \in SeriesIds /\ Live(s) /\ seriesLock[s] = None
         /\ seriesLock' = [seriesLock EXCEPT ![s] = r]
         /\ job'[r].step = "insert" /\ job'[r].id = job[r].id /\ job'[r].cap = job[r].cap
         /\ job'[r].doc = [job[r].doc EXCEPT !.number = series[s].nextNumber]
         /\ \A q \in Requests : q # r => job'[q] = job[q]
         /\ UNCHANGED tables
<1> USE DEF NumberingInv, JobsConsistent
<1>1. job[r] \in DraftJob /\ job[r].step = "number" /\ job[r].doc \in InvoiceRow
  BY JobShape DEF AllocateNumber, DraftSteps, BeforeInsert, DraftJob
<1>2. s \in SeriesIds /\ Live(s) /\ seriesLock[s] = None
  BY DEF AllocateNumber, SeriesFound, DraftSteps, BeforeInsert
<1>3. /\ seriesLock' = [seriesLock EXCEPT ![s] = r]
      /\ UNCHANGED tables
  BY DEF AllocateNumber
<1>4. \A q \in Requests : q # r => job'[q] = job[q]
  <2>1. job \in [Requests -> {Idle} \cup DraftJob \cup IssueJob]
    BY DEF TypeOK
  <2>2. PICK n : job' = [job EXCEPT ![r].step = "insert", ![r].doc.number = n]
    BY Zenon DEF AllocateNumber
  <2>3. QED
    BY <2>1, <2>2
<1>5. job'[r] = [job[r] EXCEPT !.step = "insert",
                           !.doc = [job[r].doc EXCEPT !.number = series[s].nextNumber]]
  BY <1>1 DEF AllocateNumber, TypeOK, DraftJob
<1>6. /\ job'[r].step = "insert" /\ job'[r].id = job[r].id /\ job'[r].cap = job[r].cap
      /\ job'[r].doc = [job[r].doc EXCEPT !.number = series[s].nextNumber]
  BY <1>1, <1>5 DEF DraftJob
<1>7. QED
  BY <1>1, <1>2, <1>3, <1>4, <1>6

(* What the commit of a draft changes: its series' counter, its own row    *)
(* and log, its locks and its job, and nothing else.                       *)
LEMMA CommitEffect ==
  ASSUME NumberingInv, NEW r \in Requests, Commit(r),
         NEW s, s = job[r].doc.series, NEW i, i = job[r].id
  PROVE  /\ s \in SeriesIds /\ i \in InvoiceIds
         /\ job[r] \in DraftJob /\ job[r].step = "commit"
         /\ job[r].doc \in InvoiceRow
         /\ Live(s) /\ series[s] \in SeriesRow
         /\ seriesLock[s] = r
         /\ ~Exists(i)
         /\ job[r].doc.code = series[s].code
         /\ job[r].doc.number = series[s].nextNumber
         /\ \A t \in SeriesIds : t # s => series'[t] = series[t]
         /\ series'[s].state = "live" /\ series'[s].code = series[s].code
         /\ series'[s].nextNumber = series[s].nextNumber + 1
         /\ \A k \in InvoiceIds : k # i => invoices'[k] = invoices[k]
         /\ invoices'[i] = job[r].doc
         /\ \A q \in Requests : q # r => job'[q] = job[q]
         /\ job'[r].step = "idle"
<1> USE DEF NumberingInv, RowsConsistent, JobsConsistent
<1>1. job[r] \in DraftJob /\ job[r].step = "commit" /\ i \in InvoiceIds /\ job[r].doc \in InvoiceRow
  BY JobShape DEF Commit, DraftSteps, HoldsLock, DraftJob
<1>2. /\ s \in SeriesIds /\ Live(s) /\ seriesLock[s] = r /\ series[s] \in SeriesRow
      /\ job[r].doc.code = series[s].code /\ job[r].doc.number = series[s].nextNumber
  BY <1>1, RowShape DEF SeriesFound, LockedByAllocator, DraftSteps, BeforeInsert, HoldsLock
<1>3. ~Exists(i)
  BY <1>1 DEF KeysReserved, Drafting, DraftSteps, HoldsLock
<1>4. series' = [series EXCEPT ![s] = [series[s] EXCEPT !.nextNumber = @ + 1]]
  BY DEF Commit
<1>5. /\ \A t \in SeriesIds : t # s => series'[t] = series[t]
      /\ series'[s].state = "live" /\ series'[s].code = series[s].code
      /\ series'[s].nextNumber = series[s].nextNumber + 1
  BY <1>2, <1>4 DEF TypeOK, SeriesRow
<1>6. /\ \A q \in Requests : q # r => job'[q] = job[q]
      /\ job'[r].step = "idle"
  BY DEF Commit, Finish, TypeOK, Idle
<1>7. /\ \A k \in InvoiceIds : k # i => invoices'[k] = invoices[k]
      /\ invoices'[i] = job[r].doc
  BY <1>1 DEF Commit, TypeOK
<1>8. QED
  BY <1>1, <1>2, <1>3, <1>5, <1>6, <1>7

(* Locks, keys and numbers in flight stay consistent with the rows. *)
LEMMA JobsStep == NumberingInv /\ [Next]_vars => JobsConsistent'
<1> SUFFICES ASSUME NumberingInv, [Next]_vars
             PROVE  JobsConsistent'
  OBVIOUS
<1> USE DEF NumberingInv, RowsConsistent, JobsConsistent
<1>1. CASE UNCHANGED vars
  BY <1>1 DEF vars, SeriesFound, LockedByAllocator, HolderAllocates, KeysReserved, IssueTargetExists, Live, Exists, Drafting
<1>2. ASSUME NEW r \in Requests, BeginDraft(r)
      PROVE  JobsConsistent'
  BY <1>2, JobShape DEF BeginDraft, FreeIds, NewDoc, tables, SeriesFound, LockedByAllocator, HolderAllocates, KeysReserved, IssueTargetExists, Live, Exists, Drafting, TypeOK, DraftSteps, BeforeInsert, HoldsLock, IssueSteps, Idle
<1>3. ASSUME NEW r \in Requests, BeginCreditNote(r)
      PROVE  JobsConsistent'
  BY <1>3, JobShape DEF BeginCreditNote, FreeIds, NewDoc, tables, SeriesFound, LockedByAllocator, HolderAllocates, KeysReserved, IssueTargetExists, Live, Exists, Drafting, TypeOK, DraftSteps, BeforeInsert, HoldsLock, IssueSteps, Idle
<1>4. ASSUME NEW r \in Requests, BeginIssue(r)
      PROVE  JobsConsistent'
  BY <1>4, JobShape DEF BeginIssue, tables, SeriesFound, LockedByAllocator, HolderAllocates, KeysReserved, IssueTargetExists, Live, Exists, Drafting, TypeOK, DraftSteps, BeforeInsert, HoldsLock, IssueSteps, Idle
<1>5. ASSUME NEW r \in Requests, FindSeries(r)
      PROVE  JobsConsistent'
  <2>1. PICK s \in SeriesIds : /\ Live(s) /\ series[s].code = job[r].doc.code
                               /\ job'[r].doc = [job[r].doc EXCEPT !.series = s]
    BY <1>5, FindSeriesEffect
  <2>2. job[r].doc \in InvoiceRow
    BY <1>5, FindSeriesEffect
  <2>3. /\ job'[r].step = "lines" /\ job'[r].id = job[r].id
        /\ job'[r].doc.series = s /\ job'[r].doc.code = job[r].doc.code
        /\ \A q \in Requests : q # r => job'[q] = job[q]
    <3>1. /\ job'[r].step = "lines" /\ job'[r].id = job[r].id
          /\ \A q \in Requests : q # r => job'[q] = job[q]
      BY <1>5, FindSeriesEffect
    <3>2. job'[r].doc.series = s /\ job'[r].doc.code = job[r].doc.code
      BY <2>1, <2>2 DEF InvoiceRow
    <3>3. QED
      BY <3>1, <3>2
  <2>4. /\ job[r].step = "series"
        /\ UNCHANGED <<series, seriesLock, invoices>>
    BY <1>5 DEF FindSeries, tables
  <2>5. SeriesFound'
    <3>1. /\ s \in SeriesIds /\ series[s] # UnusedSeries
          /\ series[s].code = job'[r].doc.code
      BY <2>1, <2>3 DEF Live, UnusedSeries
    <3>2. QED
      BY <2>3, <2>4, <3>1 DEF SeriesFound, Live
  <2>6. LockedByAllocator'
    BY <2>1, <2>3, <2>4 DEF LockedByAllocator, Live, Exists, Drafting, UnusedSeries, TypeOK, DraftSteps, BeforeInsert, HoldsLock, IssueSteps
  <2>7. HolderAllocates'
    BY <2>1, <2>3, <2>4 DEF HolderAllocates, Live, Exists, Drafting, UnusedSeries, TypeOK, DraftSteps, BeforeInsert, HoldsLock, IssueSteps
  <2>8. KeysReserved'
    BY <2>1, <2>3, <2>4 DEF KeysReserved, Live, Exists, Drafting, UnusedSeries, TypeOK, DraftSteps, BeforeInsert, HoldsLock, IssueSteps
  <2>9. IssueTargetExists'
    BY <2>1, <2>3, <2>4 DEF IssueTargetExists, Live, Exists, Drafting, UnusedSeries, TypeOK, DraftSteps, BeforeInsert, HoldsLock, IssueSteps
  <2>10. QED
    BY <2>5, <2>6, <2>7, <2>8, <2>9
<1>6. ASSUME NEW r \in Requests, SeriesNotFound(r)
      PROVE  JobsConsistent'
  BY <1>6, JobShape DEF SeriesNotFound, tables, Finish, SeriesFound, LockedByAllocator, HolderAllocates, KeysReserved, IssueTargetExists, Live, Exists, Drafting, TypeOK, DraftSteps, BeforeInsert, HoldsLock, IssueSteps, Idle
<1>7. ASSUME NEW r \in Requests, ResolveLines(r)
      PROVE  JobsConsistent'
  BY <1>7, JobShape DEF ResolveLines, tables, Goto, SeriesFound, LockedByAllocator, HolderAllocates, KeysReserved, IssueTargetExists, Live, Exists, Drafting, TypeOK, DraftSteps, BeforeInsert, HoldsLock, IssueSteps, Idle
<1>8. ASSUME NEW r \in Requests, RejectLines(r)
      PROVE  JobsConsistent'
  BY <1>8, JobShape DEF RejectLines, tables, Finish, SeriesFound, LockedByAllocator, HolderAllocates, KeysReserved, IssueTargetExists, Live, Exists, Drafting, TypeOK, DraftSteps, BeforeInsert, HoldsLock, IssueSteps, Idle
<1>9. ASSUME NEW r \in Requests, CheckCap(r)
      PROVE  JobsConsistent'
  BY <1>9, JobShape DEF CheckCap, tables, Goto, SeriesFound, LockedByAllocator, HolderAllocates, KeysReserved, IssueTargetExists, Live, Exists, Drafting, TypeOK, DraftSteps, BeforeInsert, HoldsLock, IssueSteps, Idle
<1>10. ASSUME NEW r \in Requests, RejectCap(r)
      PROVE  JobsConsistent'
  BY <1>10, JobShape DEF RejectCap, tables, Finish, SeriesFound, LockedByAllocator, HolderAllocates, KeysReserved, IssueTargetExists, Live, Exists, Drafting, TypeOK, DraftSteps, BeforeInsert, HoldsLock, IssueSteps, Idle
<1>11. ASSUME NEW r \in Requests, AllocateNumber(r)
      PROVE  JobsConsistent'
  <2> DEFINE s == job[r].doc.series
  <2>1. job[r] \in DraftJob /\ job[r].step = "number"
    BY <1>11, AllocateEffect
  <2>2. s \in SeriesIds /\ Live(s) /\ seriesLock[s] = None
    BY <1>11, AllocateEffect
  <2>3. /\ seriesLock' = [seriesLock EXCEPT ![s] = r]
        /\ UNCHANGED <<series, invoices>>
    BY <1>11, AllocateEffect DEF tables
  <2>4. \A q \in Requests : q # r => job'[q] = job[q]
    BY <1>11, AllocateEffect
  <2>6. job'[r].step = "insert" /\ job'[r].id = job[r].id
    BY <1>11, AllocateEffect
  <2>7. /\ job'[r].doc.series = s /\ job'[r].doc.code = job[r].doc.code
        /\ job'[r].doc.number = series[s].nextNumber
    <3>1. /\ job[r].doc \in InvoiceRow
          /\ job'[r].doc = [job[r].doc EXCEPT !.number = series[s].nextNumber]
      BY <1>11, AllocateEffect
    <3>2. QED
      BY <3>1 DEF InvoiceRow
  <2> HIDE DEF s
  <2>8. SeriesFound'
    <3> SUFFICES ASSUME NEW q \in Requests, job'[q].step \in DraftSteps \ {"series"}
                 PROVE  /\ job'[q].doc.series \in SeriesIds
                        /\ series[job'[q].doc.series] # UnusedSeries
                        /\ series[job'[q].doc.series].state = "live"
                             => series[job'[q].doc.series].code = job'[q].doc.code
      BY <2>3 DEF SeriesFound, Live
    <3>1. job[q].step \in DraftSteps \ {"series"}
      BY <2>1, <2>4 DEF DraftSteps, BeforeInsert
    <3>2. job'[q].doc.series = job[q].doc.series /\ job'[q].doc.code = job[q].doc.code
      BY <2>4, <2>7 DEF s
    <3>3. QED
      BY <3>1, <3>2 DEF SeriesFound, Live
  <2>9. LockedByAllocator'
    <3> SUFFICES ASSUME NEW q \in Requests, job'[q].step \in HoldsLock
                 PROVE  /\ seriesLock'[job'[q].doc.series] = q
                        /\ series[job'[q].doc.series].state = "live"
                        /\ job'[q].doc.number = series[job'[q].doc.series].nextNumber
      BY <2>3 DEF LockedByAllocator, Live
    <3>1. CASE q = r
      BY <2>2, <2>3, <2>7, <3>1 DEF Live, TypeOK
    <3>2. CASE q # r
      <4>1. job'[q] = job[q]
        BY <2>4, <3>2
      <4>2. job[q].doc.series \in SeriesIds /\ seriesLock[job[q].doc.series] = q
        BY <4>1 DEF LockedByAllocator, SeriesFound, HoldsLock, DraftSteps, BeforeInsert
      <4>3. QED
        BY <2>2, <2>3, <4>1, <4>2 DEF LockedByAllocator, Live, TypeOK
    <3>3. QED
      BY <3>1, <3>2
  <2>10. HolderAllocates'
    <3> SUFFICES ASSUME NEW t \in SeriesIds, seriesLock'[t] # None
                 PROVE  /\ job'[seriesLock'[t]].step \in HoldsLock
                        /\ job'[seriesLock'[t]].doc.series = t
      BY DEF HolderAllocates
    <3>1. CASE t = s
      BY <2>2, <2>3, <2>6, <2>7, <3>1 DEF TypeOK, HoldsLock
    <3>2. CASE t # s
      <4>1. seriesLock'[t] = seriesLock[t] /\ seriesLock[t] \in Requests
        BY <2>3, <3>2 DEF TypeOK
      <4>2. job[seriesLock[t]].step \in HoldsLock /\ job[seriesLock[t]].doc.series = t
        BY <4>1 DEF HolderAllocates
      <4>3. seriesLock[t] # r
        BY <2>1, <4>2 DEF HoldsLock
      <4>4. QED
        BY <2>4, <4>1, <4>2, <4>3
    <3>3. QED
      BY <3>1, <3>2
  <2>11. KeysReserved'
    BY <2>1, <2>2, <2>3, <2>4, <2>6, <2>7 DEF KeysReserved, Live, Exists, Drafting, TypeOK, DraftSteps, BeforeInsert, HoldsLock, IssueSteps
  <2>12. IssueTargetExists'
    BY <2>1, <2>2, <2>3, <2>4, <2>6, <2>7 DEF IssueTargetExists, Live, Exists, Drafting, TypeOK, DraftSteps, BeforeInsert, HoldsLock, IssueSteps
  <2>13. QED
    BY <2>8, <2>9, <2>10, <2>11, <2>12
<1>12. ASSUME NEW r \in Requests, SeriesGone(r)
      PROVE  JobsConsistent'
  BY <1>12, JobShape DEF SeriesGone, tables, Finish, SeriesFound, LockedByAllocator, HolderAllocates, KeysReserved, IssueTargetExists, Live, Exists, Drafting, TypeOK, DraftSteps, BeforeInsert, HoldsLock, IssueSteps, Idle
<1>13. ASSUME NEW r \in Requests, InsertInvoice(r)
      PROVE  JobsConsistent'
  BY <1>13, JobShape DEF InsertInvoice, tables, Goto, SeriesFound, LockedByAllocator, HolderAllocates, KeysReserved, IssueTargetExists, Live, Exists, Drafting, TypeOK, DraftSteps, BeforeInsert, HoldsLock, IssueSteps, Idle
<1>14. ASSUME NEW r \in Requests, InsertRejected(r)
      PROVE  JobsConsistent'
  BY <1>14, JobShape DEF InsertRejected, tables, Finish, Unlock, SeriesFound, LockedByAllocator, HolderAllocates, KeysReserved, IssueTargetExists, Live, Exists, Drafting, TypeOK, DraftSteps, BeforeInsert, HoldsLock, IssueSteps, Idle
<1>15. ASSUME NEW r \in Requests, Commit(r)
      PROVE  JobsConsistent'
  <2> DEFINE s == job[r].doc.series
             i == job[r].id
  <2>1. job[r].step = "commit" /\ i \in InvoiceIds
    BY <1>15, CommitEffect
  <2>2. s \in SeriesIds /\ Live(s) /\ seriesLock[s] = r
    BY <1>15, CommitEffect
  <2>4. /\ \A t \in SeriesIds : t # s => series'[t] = series[t]
        /\ series'[s].state = "live" /\ series'[s].code = series[s].code
    BY <1>15, CommitEffect
  <2>5. /\ \A q \in Requests : q # r => job'[q] = job[q]
        /\ job'[r].step = "idle"
    BY <1>15, CommitEffect
  <2>6. \A t \in SeriesIds : seriesLock'[t] = IF seriesLock[t] = r THEN None ELSE seriesLock[t]
    BY <1>15 DEF Commit, Unlock
  <2>7. \A k \in InvoiceIds : k # i => invoices'[k] = invoices[k]
    BY <1>15, CommitEffect
  <2>8. invoices'[i].status # "none"
    BY <1>15, CommitEffect DEF InvoiceRow
  <2> HIDE DEF s, i
  <2>9. SeriesFound'
    BY <2>2, <2>4, <2>5, JobShape DEF SeriesFound, Live, UnusedSeries, DraftSteps, BeforeInsert, HoldsLock
  <2>10. LockedByAllocator'
    <3> SUFFICES ASSUME NEW q \in Requests, job'[q].step \in HoldsLock
                 PROVE  LET t == job'[q].doc.series
                        IN  /\ seriesLock'[t] = q
                            /\ series'[t].state = "live"
                            /\ job'[q].doc.number = series'[t].nextNumber
      BY DEF LockedByAllocator, Live
    <3>1. q # r /\ job'[q] = job[q]
      BY <2>5 DEF HoldsLock
    <3>2. /\ job[q].doc.series \in SeriesIds
          /\ seriesLock[job[q].doc.series] = q
      BY <3>1 DEF LockedByAllocator, SeriesFound, HoldsLock, DraftSteps, BeforeInsert
    <3>3. job[q].doc.series # s
      BY <2>2, <3>1, <3>2
    <3>4. QED
      BY <2>4, <2>6, <3>1, <3>2, <3>3 DEF LockedByAllocator, Live
  <2>11. HolderAllocates'
    BY <2>5, <2>6 DEF HolderAllocates, TypeOK
  <2>12. KeysReserved'
    <3> SUFFICES ASSUME NEW q \in Requests, Drafting(q)'
                 PROVE  /\ ~Exists(job[q].id)'
                        /\ \A u \in Requests : Drafting(u)' /\ u # q => job'[u].id # job'[q].id
      BY DEF KeysReserved
    <3>1. q # r /\ job'[q] = job[q] /\ Drafting(q)
      BY <2>5 DEF Drafting, DraftSteps, BeforeInsert, HoldsLock
    <3>2. job[q].id \in InvoiceIds
      BY <3>1, JobShape DEF Drafting, DraftJob
    <3>3. Drafting(r)
      BY <2>1 DEF Drafting, DraftSteps, HoldsLock
    <3>4. job[q].id # i
      BY <3>1, <3>3 DEF KeysReserved, i
    <3>5. ~Exists(job[q].id)'
      BY <2>7, <3>1, <3>2, <3>4 DEF KeysReserved, Exists
    <3>6. ASSUME NEW u \in Requests, Drafting(u)', u # q
          PROVE  job'[u].id # job'[q].id
      BY <2>5, <3>1, <3>6 DEF KeysReserved, Drafting, DraftSteps, BeforeInsert, HoldsLock
    <3>7. QED
      BY <3>5, <3>6
  <2>13. IssueTargetExists'
    BY <2>5, <2>7, <2>8, JobShape DEF IssueTargetExists, IssueSteps, Exists, IssueJob
  <2>14. QED
    BY <2>9, <2>10, <2>11, <2>12, <2>13
<1>16. ASSUME NEW r \in Requests, CasIssue(r)
      PROVE  JobsConsistent'
  BY <1>16, JobShape DEF CasIssue, tables, Goto, SeriesFound, LockedByAllocator, HolderAllocates, KeysReserved, IssueTargetExists, Live, Exists, Drafting, TypeOK, DraftSteps, BeforeInsert, HoldsLock, IssueSteps, Idle
<1>17. ASSUME NEW r \in Requests, CasLost(r)
      PROVE  JobsConsistent'
  BY <1>17, JobShape DEF CasLost, tables, Finish, SeriesFound, LockedByAllocator, HolderAllocates, KeysReserved, IssueTargetExists, Live, Exists, Drafting, TypeOK, DraftSteps, BeforeInsert, HoldsLock, IssueSteps, Idle
<1>18. ASSUME NEW r \in Requests, Submit(r)
      PROVE  JobsConsistent'
  BY <1>18, JobShape DEF Submit, tables, Goto, SeriesFound, LockedByAllocator, HolderAllocates, KeysReserved, IssueTargetExists, Live, Exists, Drafting, TypeOK, DraftSteps, BeforeInsert, HoldsLock, IssueSteps, Idle
<1>19. ASSUME NEW r \in Requests, FinishIssue(r)
      PROVE  JobsConsistent'
  BY <1>19, JobShape DEF FinishIssue, tables, Finish, SeriesFound, LockedByAllocator, HolderAllocates, KeysReserved, IssueTargetExists, Live, Exists, Drafting, TypeOK, DraftSteps, BeforeInsert, HoldsLock, IssueSteps, Idle
<1>20. ASSUME NEW r \in Requests, Crash(r)
      PROVE  JobsConsistent'
  BY <1>20, JobShape DEF Crash, tables, Finish, Unlock, SeriesFound, LockedByAllocator, HolderAllocates, KeysReserved, IssueTargetExists, Live, Exists, Drafting, TypeOK, DraftSteps, BeforeInsert, HoldsLock, IssueSteps, Idle
<1>21. ASSUME CreateSeries
      PROVE  JobsConsistent'
  BY <1>21, JobShape DEF CreateSeries, SeriesFound, LockedByAllocator, HolderAllocates, KeysReserved, IssueTargetExists, Live, Exists, Drafting, TypeOK, DraftSteps, BeforeInsert, HoldsLock, IssueSteps, Idle
<1>22. ASSUME NEW s \in SeriesIds, RemoveSeries(s)
      PROVE  JobsConsistent'
  <2>1. /\ \A t \in SeriesIds : t # s => series'[t] = series[t]
        /\ series'[s] = DeletedSeries
        /\ seriesLock[s] = None
        /\ UNCHANGED <<seriesLock, invoices, job>>
    BY <1>22 DEF RemoveSeries, TypeOK
  <2>2. SeriesFound'
    BY <2>1 DEF SeriesFound, Live, UnusedSeries, DeletedSeries
  <2>3. LockedByAllocator'
    <3> SUFFICES ASSUME NEW q \in Requests, job[q].step \in HoldsLock
                 PROVE  LET t == job[q].doc.series
                        IN  /\ seriesLock[t] = q
                            /\ Live(t)'
                            /\ job[q].doc.number = series'[t].nextNumber
      BY <2>1 DEF LockedByAllocator
    <3>1. job[q].doc.series \in SeriesIds
      BY DEF SeriesFound, DraftSteps, BeforeInsert, HoldsLock
    <3>2. seriesLock[job[q].doc.series] = q
      BY DEF LockedByAllocator
    <3>3. QED
      BY <2>1, <3>1, <3>2 DEF LockedByAllocator, Live
  <2>4. HolderAllocates' /\ KeysReserved' /\ IssueTargetExists'
    BY <2>1 DEF HolderAllocates, KeysReserved, IssueTargetExists, Drafting, Exists
  <2>5. QED
    BY <2>2, <2>3, <2>4
<1>23. ASSUME NEW c \in Companies, RemoveCompany(c)
      PROVE  JobsConsistent'
  BY <1>23, JobShape DEF RemoveCompany, SeriesFound, LockedByAllocator, HolderAllocates, KeysReserved, IssueTargetExists, Live, Exists, Drafting, TypeOK, DraftSteps, BeforeInsert, HoldsLock, IssueSteps, Idle
<1>24. ASSUME NEW p \in Products, RemoveProduct(p)
      PROVE  JobsConsistent'
  BY <1>24, JobShape DEF RemoveProduct, SeriesFound, LockedByAllocator, HolderAllocates, KeysReserved, IssueTargetExists, Live, Exists, Drafting, TypeOK, DraftSteps, BeforeInsert, HoldsLock, IssueSteps, Idle
<1>25. QED
  BY <1>1, <1>2, <1>3, <1>4, <1>5, <1>6, <1>7, <1>8, <1>9, <1>10, <1>11, <1>12, <1>13, <1>14, <1>15, <1>16, <1>17, <1>18, <1>19, <1>20, <1>21, <1>22, <1>23, <1>24 DEF Next, Step

(* Committed rows stay numbered 1, 2, ... in each series. *)
LEMMA RowsStep == NumberingInv /\ [Next]_vars => RowsConsistent'
<1> SUFFICES ASSUME NumberingInv, [Next]_vars
             PROVE  RowsConsistent'
  OBVIOUS
<1> USE DEF NumberingInv, RowsConsistent, JobsConsistent
<1>1. CASE UNCHANGED <<series, invoices>>
  BY <1>1 DEF CodesUnique, RowsNumbered, NumbersDistinct, NumbersTaken, Live, Exists
<1>2. ASSUME NEW r \in Requests, Commit(r)
      PROVE  RowsConsistent'
  <2> DEFINE s == job[r].doc.series
             i == job[r].id
  <2>1. /\ s \in SeriesIds /\ i \in InvoiceIds
        /\ Live(s) /\ series[s] \in SeriesRow
        /\ ~Exists(i)
    BY <1>2, CommitEffect
  <2>2. /\ \A t \in SeriesIds : t # s => series'[t] = series[t]
        /\ series'[s].state = "live" /\ series'[s].code = series[s].code
        /\ series'[s].nextNumber = series[s].nextNumber + 1
    BY <1>2, CommitEffect
  <2>3. \A k \in InvoiceIds : k # i => invoices'[k] = invoices[k]
    BY <1>2, CommitEffect
  <2>4. /\ invoices'[i].status # "none"
        /\ invoices'[i].series = s
        /\ invoices'[i].code = series[s].code
        /\ invoices'[i].number = series[s].nextNumber
    BY <1>2, CommitEffect DEF InvoiceRow
  <2>5. series[s].nextNumber \in Nat \ {0}
    BY <2>1 DEF SeriesRow
  <2> HIDE DEF s, i
  <2>6. CodesUnique'
    BY <2>1, <2>2 DEF CodesUnique, Live
  <2>7. RowsNumbered'
    <3> SUFFICES ASSUME NEW k \in InvoiceIds, invoices'[k].status # "none"
                 PROVE  /\ invoices'[k].series \in SeriesIds
                        /\ series'[invoices'[k].series].state = "live"
                        /\ invoices'[k].code = series'[invoices'[k].series].code
                        /\ invoices'[k].number \in 1 .. (series'[invoices'[k].series].nextNumber - 1)
      BY DEF RowsNumbered, Exists, Live
    <3>1. CASE k = i
      BY <2>1, <2>2, <2>4, <2>5, <3>1
    <3>2. CASE k # i
      <4>1. invoices'[k] = invoices[k]
        BY <2>3, <3>2
      <4>2. /\ invoices[k].series \in SeriesIds
            /\ Live(invoices[k].series)
            /\ invoices[k].code = series[invoices[k].series].code
            /\ invoices[k].number \in 1 .. (series[invoices[k].series].nextNumber - 1)
        BY <4>1 DEF RowsNumbered, Exists
      <4>3. CASE invoices[k].series = s
        BY <2>2, <2>5, <4>1, <4>2, <4>3
      <4>4. CASE invoices[k].series # s
        BY <2>2, <4>1, <4>2, <4>4 DEF Live
      <4>5. QED
        BY <4>3, <4>4
    <3>3. QED
      BY <3>1, <3>2
  <2>8. \A k \in InvoiceIds : Exists(k) /\ invoices[k].series = s
                             => invoices[k].number # series[s].nextNumber
    BY <2>5 DEF RowsNumbered
  <2>9. NumbersDistinct'
    <3> SUFFICES ASSUME NEW k \in InvoiceIds, NEW l \in InvoiceIds, k # l,
                        invoices'[k].status # "none", invoices'[l].status # "none",
                        invoices'[k].series = invoices'[l].series
                 PROVE  invoices'[k].number # invoices'[l].number
      BY DEF NumbersDistinct, Exists
    <3>1. CASE k = i
      BY <2>3, <2>4, <2>8, <3>1 DEF Exists
    <3>2. CASE l = i
      BY <2>3, <2>4, <2>8, <3>2 DEF Exists
    <3>3. CASE k # i /\ l # i
      BY <2>3, <3>3 DEF NumbersDistinct, Exists
    <3>4. QED
      BY <3>1, <3>2, <3>3
  <2>10. NumbersTaken'
    <3> SUFFICES ASSUME NEW t \in SeriesIds, series'[t].state = "live",
                        NEW n \in 1 .. (series'[t].nextNumber - 1)
                 PROVE  \E k \in InvoiceIds : /\ invoices'[k].status # "none"
                                               /\ invoices'[k].series = t
                                               /\ invoices'[k].number = n
      BY DEF NumbersTaken, Exists, Live
    <3>1. CASE t = s /\ n = series[s].nextNumber
      BY <2>1, <2>4, <3>1
    <3>2. CASE ~(t = s /\ n = series[s].nextNumber)
      <4>1. Live(t) /\ n \in 1 .. (series[t].nextNumber - 1)
        <5>1. CASE t = s
          BY <2>1, <2>2, <2>5, <3>2, <5>1
        <5>2. CASE t # s
          BY <2>2, <5>2 DEF Live
        <5>3. QED
          BY <5>1, <5>2
      <4>2. PICK k \in InvoiceIds : Exists(k) /\ invoices[k].series = t /\ invoices[k].number = n
        BY <4>1 DEF NumbersTaken
      <4>3. k # i
        BY <2>1, <4>2
      <4>4. QED
        BY <2>3, <4>2, <4>3 DEF Exists
    <3>3. QED
      BY <3>1, <3>2
  <2>11. QED
    BY <2>6, <2>7, <2>9, <2>10
(* The two updates of issue touch neither number nor series. *)
<1>3. ASSUME NEW r \in Requests, CasIssue(r) \/ FinishIssue(r)
      PROVE  RowsConsistent'
  <2> DEFINE i == job[r].id
  <2>1. i \in InvoiceIds /\ invoices[i] \in InvoiceRow
    BY <1>3, JobShape, RowShape DEF CasIssue, FinishIssue, IssueTargetExists, IssueSteps, IssueJob
  <2>2. \E row \in InvoiceRow :
          /\ invoices' = [invoices EXCEPT ![i] = row]
          /\ row.series = invoices[i].series
          /\ row.code = invoices[i].code
          /\ row.number = invoices[i].number
    <3>1. CASE CasIssue(r)
      <4> DEFINE row == [invoices[i] EXCEPT !.status = "issued"]
      <4>1. invoices' = [invoices EXCEPT ![i] = row]
        BY <3>1 DEF CasIssue
      <4>2. row \in InvoiceRow
        BY <2>1, RowUpdate
      <4>3. /\ row.series = invoices[i].series
            /\ row.code = invoices[i].code
            /\ row.number = invoices[i].number
        BY <2>1 DEF InvoiceRow
      <4> HIDE DEF row
      <4>4. QED
        BY <4>1, <4>2, <4>3
    <3>2. CASE FinishIssue(r)
      <4> DEFINE row == [invoices[i] EXCEPT !.eInvoice = "pending"]
      <4>1. invoices' = [invoices EXCEPT ![i] = row]
        BY <3>2 DEF FinishIssue
      <4>2. row \in InvoiceRow
        BY <2>1, RowUpdate
      <4>3. /\ row.series = invoices[i].series
            /\ row.code = invoices[i].code
            /\ row.number = invoices[i].number
        BY <2>1 DEF InvoiceRow
      <4> HIDE DEF row
      <4>4. QED
        BY <4>1, <4>2, <4>3
    <3>3. QED
      BY <1>3, <3>1, <3>2
  <2>3. \A k \in InvoiceIds :
          /\ Exists(k)' <=> Exists(k)
          /\ Exists(k) => /\ invoices'[k].series = invoices[k].series
                          /\ invoices'[k].code = invoices[k].code
                          /\ invoices'[k].number = invoices[k].number
    BY <2>1, <2>2 DEF Exists, TypeOK, InvoiceRow
  <2>4. series' = series
    BY <1>3 DEF CasIssue, FinishIssue
  <2>5. CodesUnique' /\ RowsNumbered'
    BY <2>3, <2>4 DEF CodesUnique, RowsNumbered, Live
  <2>6. NumbersDistinct'
    BY <2>3 DEF NumbersDistinct
  <2>7. NumbersTaken'
    BY <2>3, <2>4 DEF NumbersTaken, Live
  <2>8. QED
    BY <2>5, <2>6, <2>7
<1>4. ASSUME CreateSeries
      PROVE  RowsConsistent'
  <2>1. PICK s \in SeriesIds, code \in Codes, d \in DocTypes :
          /\ series[s] = UnusedSeries
          /\ ~\E t \in SeriesIds : Live(t) /\ series[t].code = code
          /\ series' = [series EXCEPT ![s] =
                          [state |-> "live", code |-> code, docType |-> d,
                           nextNumber |-> 1]]
    BY <1>4, Validated DEF CreateSeries
  <2>2. invoices' = invoices
    BY <1>4 DEF CreateSeries
  <2>3. /\ series'[s].state = "live" /\ series'[s].code = code /\ series'[s].nextNumber = 1
        /\ ~Live(s)
        /\ \A t \in SeriesIds : t # s => series'[t] = series[t]
    BY <2>1 DEF TypeOK, Live, UnusedSeries
  <2>4. CodesUnique'
    BY <2>1, <2>3 DEF CodesUnique, Live
  <2>5. RowsNumbered'
    BY <2>2, <2>3 DEF RowsNumbered, Live, Exists
  <2>6. NumbersDistinct'
    BY <2>2 DEF NumbersDistinct, Exists
  <2>7. NumbersTaken'
    BY <2>2, <2>3 DEF NumbersTaken, Live, Exists
  <2>8. QED
    BY <2>4, <2>5, <2>6, <2>7
<1>5. ASSUME NEW s \in SeriesIds, RemoveSeries(s)
      PROVE  RowsConsistent'
  <2>1. /\ series'[s].state # "live"
        /\ \A t \in SeriesIds : t # s => series'[t] = series[t]
        /\ invoices' = invoices
    BY <1>5 DEF RemoveSeries, TypeOK, DeletedSeries
  <2>2. \A k \in InvoiceIds : Exists(k) => invoices[k].series # s
    BY <1>5 DEF RemoveSeries, Referenced
  <2>3. CodesUnique' /\ NumbersDistinct' /\ NumbersTaken'
    BY <2>1 DEF CodesUnique, NumbersDistinct, NumbersTaken, Live, Exists
  <2>4. RowsNumbered'
    BY <2>1, <2>2 DEF RowsNumbered, Live, Exists
  <2>5. QED
    BY <2>3, <2>4
(* No other action writes a series or an invoice. *)
<1>6. QED
  BY <1>1, <1>2, <1>3, <1>4, <1>5
     DEF vars, tables, Next, Step, BeginDraft, BeginCreditNote, BeginIssue, FindSeries,
         SeriesNotFound, ResolveLines, RejectLines, CheckCap, RejectCap, AllocateNumber,
         SeriesGone, InsertInvoice, InsertRejected, CasLost, Submit, Crash,
         RemoveCompany, RemoveProduct

(* The empty database satisfies the inductive invariant. *)
LEMMA NumberingInit == Init => NumberingInv
<1> SUFFICES ASSUME Init PROVE NumberingInv
  OBVIOUS
<1>1. TypeOK
  BY DEF Init, TypeOK
<1>2. RowsConsistent
  BY DEF Init, RowsConsistent, CodesUnique, RowsNumbered, NumbersDistinct, NumbersTaken,
         Live, Exists, UnusedSeries, NoInvoice
<1>3. JobsConsistent
  BY DEF Init, JobsConsistent, SeriesFound, LockedByAllocator, HolderAllocates, KeysReserved,
         IssueTargetExists, Drafting, Idle, DraftSteps, BeforeInsert, HoldsLock, IssueSteps
<1>4. QED
  BY <1>1, <1>2, <1>3 DEF NumberingInv

(* Every step preserves it. *)
LEMMA NumberingStep == NumberingInv /\ [Next]_vars => NumberingInv'
  BY TypeStep, JobsStep, RowsStep DEF NumberingInv

(* Numbers, locks, keys and counters fit together in every reachable state *)
(* of createDraft, createCreditNote, issue and the series administration.  *)
THEOREM NumberingInvariant == Spec => []NumberingInv
  BY NumberingInit, NumberingStep, PTL DEF Spec

(* Every row and every job always has the shape the code gives it. *)
THEOREM TypeCorrect == Spec => []TypeOK
<1>1. NumberingInv => TypeOK
  BY DEF NumberingInv
<1>2. QED
  BY <1>1, NumberingInvariant, PTL

(* "Numerotare fara goluri", for any number of overlapping requests, lost  *)
(* connections and rolled back inserts: createDraftInvoice increments the  *)
(* counter and inserts the invoice in one transaction under the row lock.  *)
THEOREM GapFree == Spec => []GapFreeNumbering
<1>1. NumberingInv => GapFreeNumbering
  <2> SUFFICES ASSUME NumberingInv, NEW s \in SeriesIds, Live(s)
               PROVE  NumbersOn(s) = 1 .. (series[s].nextNumber - 1)
    BY DEF GapFreeNumbering
  <2>1. \A n \in NumbersOn(s) : n \in 1 .. (series[s].nextNumber - 1)
    BY DEF NumberingInv, RowsConsistent, RowsNumbered, NumbersOn
  <2>2. \A n \in 1 .. (series[s].nextNumber - 1) : n \in NumbersOn(s)
    BY DEF NumberingInv, RowsConsistent, NumbersTaken, NumbersOn
  <2>3. QED
    BY <2>1, <2>2
<1>2. QED
  BY <1>1, NumberingInvariant, PTL

(* No two invoices of a tenant ever show the same invoiceNo, although the  *)
(* unique key includes the series and codes may be freed and used again.   *)
THEOREM UniqueNumbers == Spec => []UniqueInvoiceNo
<1>1. NumberingInv => UniqueInvoiceNo
  <2> SUFFICES ASSUME NumberingInv,
                      NEW i \in InvoiceIds, NEW j \in InvoiceIds, Exists(i), Exists(j),
                      invoices[i].code = invoices[j].code,
                      invoices[i].number = invoices[j].number
               PROVE  i = j
    BY DEF UniqueInvoiceNo
  <2>1. invoices[i].series = invoices[j].series
    BY DEF NumberingInv, RowsConsistent, RowsNumbered, CodesUnique
  <2>2. QED
    BY <2>1 DEF NumberingInv, RowsConsistent, NumbersDistinct
<1>2. QED
  BY <1>1, NumberingInvariant, PTL

=============================================================================
