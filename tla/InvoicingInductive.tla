-------------------------- MODULE InvoicingInductive -------------------------
(***************************************************************************)
(* The safety invariants of Invoicing are not inductive: they do not say   *)
(* what a request that is under way has already read, locked or reserved.  *)
(* This module strengthens them with that knowledge, one named part at a   *)
(* time.  TLC checks the parts as invariants and InvoicingProofs proves    *)
(* that every step preserves them.                                         *)
(***************************************************************************)
EXTENDS Invoicing

(* The unique key [tenantId, seriesCode]. *)
CodesUnique ==
  \A s, t \in SeriesIds :
    Live(s) /\ Live(t) /\ series[s].code = series[t].code => s = t

(* From its first step inside the transaction on, a draft knows a series   *)
(* that existed; if it still exists it has the code that was asked for.    *)
SeriesFound ==
  \A r \in Requests : job[r].step \in (DraftSteps \ {"series"}) =>
    LET s == job[r].doc.series
    IN  /\ s \in SeriesIds
        /\ series[s] # UnusedSeries
        /\ Live(s) => series[s].code = job[r].doc.code

(* A request that has allocated its number holds the lock of that series,  *)
(* the series is live, and its committed counter is the allocated number.  *)
LockedByAllocator ==
  \A r \in Requests : job[r].step \in HoldsLock =>
    LET s == job[r].doc.series
    IN  /\ seriesLock[s] = r
        /\ Live(s)
        /\ job[r].doc.number = series[s].nextNumber

(* Conversely, every lock is held by a request that will give it back.     *)
HolderAllocates ==
  \A s \in SeriesIds : seriesLock[s] # None =>
    /\ job[seriesLock[s]].step \in HoldsLock
    /\ job[seriesLock[s]].doc.series = s

(* A key generated for a row in the making is generated once.              *)
KeysReserved ==
  \A r \in Requests : Drafting(r) =>
    /\ ~Exists(job[r].id)
    /\ \A q \in Requests : Drafting(q) /\ q # r => job[q].id # job[r].id

(* issue works on a row that was read; invoices are never deleted.         *)
IssueTargetExists ==
  \A r \in Requests : job[r].step \in IssueSteps => Exists(job[r].id)

(* A committed invoice is numbered below the counter of its live series... *)
RowsNumbered ==
  \A i \in InvoiceIds : Exists(i) =>
    LET s == invoices[i].series
    IN  /\ s \in SeriesIds
        /\ Live(s)
        /\ invoices[i].code = series[s].code
        /\ invoices[i].number \in 1 .. (series[s].nextNumber - 1)

(* ...with a number no other invoice of the series has...                  *)
NumbersDistinct ==
  \A i, j \in InvoiceIds :
    Exists(i) /\ Exists(j) /\ i # j /\ invoices[i].series = invoices[j].series
      => invoices[i].number # invoices[j].number

(* ...and every number below the counter is taken.                         *)
NumbersTaken ==
  \A s \in SeriesIds : Live(s) =>
    \A n \in 1 .. (series[s].nextNumber - 1) :
      \E i \in InvoiceIds : /\ Exists(i)
                            /\ invoices[i].series = s
                            /\ invoices[i].number = n

(* The committed rows...                                                   *)
RowsConsistent ==
  /\ CodesUnique
  /\ RowsNumbered
  /\ NumbersDistinct
  /\ NumbersTaken

(* ...and the numbers, locks and keys in flight fit together, whatever     *)
(* requests overlap and wherever they die.                                 *)
JobsConsistent ==
  /\ SeriesFound
  /\ LockedByAllocator
  /\ HolderAllocates
  /\ KeysReserved
  /\ IssueTargetExists

NumberingInv ==
  /\ TypeOK
  /\ RowsConsistent
  /\ JobsConsistent

-----------------------------------------------------------------------------
(* An insert that passed its foreign keys keeps the rows they name alive.  *)
InsertedRefersToLive ==
  \A r \in Requests : job[r].step = "commit" =>
    /\ job[r].doc.company \in companies
    /\ job[r].doc.product \in products \cup {None}

(* The original of a credit note in the making is issued, whatever happens *)
(* between reading it and committing the note.                             *)
OriginalIssued ==
  \A r \in Requests : Drafting(r) /\ job[r].doc.type = "CreditNote" =>
    LET original == job[r].doc.reversed
    IN  /\ original \in InvoiceIds
        /\ invoices[original].status = "issued"
        /\ invoices[original].company = job[r].doc.company

ReferencesInv ==
  /\ NumberingInv
  /\ ReferencesLive
  /\ InsertedRefersToLive
  /\ OriginalIssued

-----------------------------------------------------------------------------
(* Who has won the transition of an invoice and not yet finished is alone, *)
(* and nothing was logged for that invoice so far.                         *)
IssuerAlone ==
  \A r \in Requests :
    job[r].step \in {"submit", "finish"} =>
      /\ invoices[job[r].id].status = "issued"
      /\ submissions[job[r].id] = IF job[r].step = "submit" THEN 0 ELSE 1
      /\ audit[job[r].id].issued = 0
      /\ \A q \in Requests : /\ job[q].step \in {"submit", "finish"}
                             /\ q # r
                             => job[q].id # job[r].id

TransmissionInv ==
  /\ NumberingInv
  /\ TransmittedOnce
  /\ IssuerAlone

-----------------------------------------------------------------------------
(* A row in the making is a draft.                                         *)
DraftsUnissued ==
  \A r \in Requests : Drafting(r) => job[r].doc.status = "draft"

(* All of it together. *)
InvoicingInv == ReferencesInv /\ TransmissionInv /\ DraftsUnissued

-----------------------------------------------------------------------------
(* The cap on the credit notes of an invoice.                              *)

(* A credit note that has passed the cap and is not committed yet.         *)
PastCap(r) ==
  /\ job[r].step \in {"number"} \cup HoldsLock
  /\ job[r].doc.type = "CreditNote"

(* The one overlap that breaks the cap (inv_cap_race shows it): two notes  *)
(* on the same original between check and commit.  It is absent where a    *)
(* lock on the row of the original would forbid it.                        *)
CapChecksApart ==
  \A q, r \in Requests :
    PastCap(q) /\ PastCap(r) /\ q # r => job[q].doc.reversed # job[r].doc.reversed

(* Without that overlap the credit notes of an original never exceed it,   *)
(* partial notes and notes on notes included: what the check inside the    *)
(* transaction of createDraftInvoice is there for.                         *)
CapWhereApart == []CapChecksApart => []CreditNotesWithinOriginal

(* The sums are sums of finitely many rows...                              *)
RowsFinite == IsFiniteSet({i \in InvoiceIds : Exists(i)})

(* ...the amount of the original, once read, is not outdated...            *)
CapIsCurrent ==
  \A r \in Requests : Drafting(r) /\ job[r].doc.type = "CreditNote" =>
    job[r].cap = invoices[job[r].doc.reversed].amount

(* ...and a note that passed the check still fits when it is committed.    *)
CapStillHolds ==
  \A r \in Requests, original \in InvoiceIds :
    PastCap(r) /\ job[r].doc.reversed = original =>
      Credited(original) + job[r].doc.amount <= job[r].cap

CapInv ==
  /\ ReferencesInv
  /\ RowsFinite
  /\ CapIsCurrent
  /\ CapStillHolds
  /\ CreditNotesWithinOriginal

=============================================================================
