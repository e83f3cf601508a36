---------------------- MODULE InvoicingRefinementProofs ----------------------
(***************************************************************************)
(* Invoicing implements InvoiceLedger: what a request reads, locks and     *)
(* prepares is invisible in the books, and each of its commits is one step *)
(* of the ledger or none.                                                  *)
(***************************************************************************)
EXTENDS InvoicingDocumentProofs, SequenceTheorems

-----------------------------------------------------------------------------
(* The books, read through the rows instead of the CHOOSEs that define     *)
(* them: every invoice is the document at its number in the book of its    *)
(* code, and there is no other document.                                   *)

Item(i) == [content |-> Content(invoices[i]),
            issued |-> invoices[i].status = "issued",
            transmissions |-> submissions[i]]

BookInv ==
  /\ OpenCodes \subseteq Codes
  /\ \A s \in SeriesIds : Live(s) =>
       /\ series[s].code \in OpenCodes
       /\ Len(Book[series[s].code]) = series[s].nextNumber - 1
  /\ \A c \in OpenCodes : \E s \in SeriesIds : Live(s) /\ series[s].code = c
  /\ Book \in [Codes -> Seq(Ledger!Document)]
  /\ \A c \in Codes \ OpenCodes : Book[c] = <<>>
  /\ \A i \in InvoiceIds : Exists(i) =>
       /\ invoices[i].number \in 1 .. Len(Book[invoices[i].code])
       /\ Book[invoices[i].code][invoices[i].number] = Item(i)
  /\ \A c \in Codes : \A n \in 1 .. Len(Book[c]) :
       \E i \in InvoiceIds : Exists(i) /\ invoices[i].code = c /\ invoices[i].number = n

(* A function on 1..n is the sequence of its values.                       *)
LEMMA SeqOfFunction ==
  ASSUME NEW S, NEW n \in Nat, NEW f \in [1 .. n -> S]
  PROVE  f \in Seq(S) /\ Len(f) = n
<1>1. f \in Seq(S)
  BY SeqDef
<1>2. DOMAIN f = 1 .. n /\ DOMAIN f = 1 .. Len(f) /\ Len(f) \in Nat
  BY <1>1, LenProperties
<1>3. QED
  BY <1>2

LEMMA BookShape == InvoicingInv => BookInv
<1> SUFFICES ASSUME InvoicingInv PROVE BookInv
  OBVIOUS
<1>1. NumberingInv /\ TypeOK /\ RowsConsistent
  BY DEF InvoicingInv, ReferencesInv, NumberingInv
<1>2. OpenCodes \subseteq Codes
  BY DEF OpenCodes
<1>3. ASSUME NEW s \in SeriesIds, Live(s)
      PROVE  /\ series[s] \in SeriesRow /\ series[s].code \in OpenCodes
             /\ SeriesOf(series[s].code) = s
  <2>1. series[s] \in SeriesRow
    BY <1>1, <1>3, RowShape
  <2>2. \A t \in SeriesIds : Live(t) /\ series[t].code = series[s].code => t = s
    BY <1>1, <1>3 DEF RowsConsistent, CodesUnique
  <2>3. QED
    BY <1>3, <2>1, <2>2 DEF OpenCodes, SeriesOf, SeriesRow
<1>4. \A c \in OpenCodes : \E s \in SeriesIds : Live(s) /\ series[s].code = c
  BY DEF OpenCodes
<1>5. ASSUME NEW i \in InvoiceIds, Exists(i)
      PROVE  /\ invoices[i].series \in SeriesIds /\ Live(invoices[i].series)
             /\ invoices[i].code = series[invoices[i].series].code
             /\ invoices[i].number \in 1 .. (series[invoices[i].series].nextNumber - 1)
             /\ Entry(invoices[i].series, invoices[i].number) = Item(i)
             /\ Item(i) \in Ledger!Document
  <2>1. /\ invoices[i].series \in SeriesIds /\ Live(invoices[i].series)
        /\ invoices[i].code = series[invoices[i].series].code
        /\ invoices[i].number \in 1 .. (series[invoices[i].series].nextNumber - 1)
    BY <1>1, <1>5 DEF RowsConsistent, RowsNumbered
  <2>2. ASSUME NEW j \in InvoiceIds, Exists(j), invoices[j].series = invoices[i].series,
               invoices[j].number = invoices[i].number
        PROVE  j = i
    BY <1>1, <1>5, <2>2 DEF RowsConsistent, NumbersDistinct
  <2>3. i = CHOOSE j \in InvoiceIds : /\ Exists(j)
                                      /\ invoices[j].series = invoices[i].series
                                      /\ invoices[j].number = invoices[i].number
    BY <1>5, <2>2
  <2>4. Entry(invoices[i].series, invoices[i].number) = Item(i)
    BY <2>3, Zenon DEF Entry, Item
  <2>5. invoices[i] \in InvoiceRow /\ submissions[i] \in Nat
    BY <1>1, <1>5, RowShape DEF TypeOK
  <2>6. Item(i) \in Ledger!Document
    BY <2>5 DEF Item, Content, Ledger!Document, InvoiceRow
  <2>7. QED
    BY <2>1, <2>4, <2>6
<1>6. ASSUME NEW s \in SeriesIds, Live(s), NEW n \in 1 .. (series[s].nextNumber - 1)
      PROVE  \E i \in InvoiceIds : /\ Exists(i) /\ invoices[i].series = s
                                   /\ invoices[i].code = series[s].code
                                   /\ invoices[i].number = n
                                   /\ Entry(s, n) \in Ledger!Document
  <2>1. PICK i \in InvoiceIds : Exists(i) /\ invoices[i].series = s /\ invoices[i].number = n
    BY <1>1, <1>6 DEF RowsConsistent, NumbersTaken
  <2>2. QED
    BY <1>5, <2>1
<1>7. ASSUME NEW s \in SeriesIds, Live(s)
      PROVE  /\ Book[series[s].code] = [n \in 1 .. (series[s].nextNumber - 1) |-> Entry(s, n)]
             /\ Book[series[s].code] \in Seq(Ledger!Document)
             /\ Len(Book[series[s].code]) = series[s].nextNumber - 1
  <2> DEFINE k == series[s].nextNumber - 1
             f == [n \in 1 .. k |-> Entry(s, n)]
  <2>1. k \in Nat /\ series[s].code \in Codes /\ series[s].code \in OpenCodes
    BY <1>3, <1>7 DEF SeriesRow
  <2>2. Book[series[s].code] = f
    BY <1>3, <1>7, <2>1 DEF Book
  <2>3. f \in [1 .. k -> Ledger!Document]
    BY <1>6, <1>7
  <2>4. f \in Seq(Ledger!Document) /\ Len(f) = k
    <3> HIDE DEF f, k
    <3> QED
      BY <2>1, <2>3, SeqOfFunction
  <2>5. QED
    BY <2>2, <2>4
<1>8. ASSUME NEW c \in Codes \ OpenCodes
      PROVE  Book[c] = <<>> /\ Book[c] \in Seq(Ledger!Document) /\ Len(Book[c]) = 0
  BY <1>8, EmptySeq DEF Book
<1>9. Book \in [Codes -> Seq(Ledger!Document)]
  <2>1. \A c \in Codes : Book[c] \in Seq(Ledger!Document)
    BY <1>4, <1>7, <1>8
  <2>2. Book = [c \in Codes |-> Book[c]]
    BY DEF Book
  <2>3. QED
    BY <2>1, <2>2
<1>10. ASSUME NEW i \in InvoiceIds, Exists(i)
       PROVE  /\ invoices[i].number \in 1 .. Len(Book[invoices[i].code])
              /\ Book[invoices[i].code][invoices[i].number] = Item(i)
  <2> DEFINE s == invoices[i].series
             n == invoices[i].number
             k == series[s].nextNumber - 1
  <2>1. /\ s \in SeriesIds /\ Live(s) /\ invoices[i].code = series[s].code
        /\ n \in 1 .. k /\ Entry(s, n) = Item(i)
    BY <1>5, <1>10
  <2>2. Book[series[s].code] = [m \in 1 .. k |-> Entry(s, m)] /\ Len(Book[series[s].code]) = k
    BY <1>7, <2>1
  <2>3. Book[series[s].code][n] = Item(i)
    BY <2>1, <2>2
  <2>4. QED
    BY <2>1, <2>2, <2>3
<1>11. ASSUME NEW c \in Codes, NEW n \in 1 .. Len(Book[c])
       PROVE  \E i \in InvoiceIds : Exists(i) /\ invoices[i].code = c /\ invoices[i].number = n
  <2>1. c \in OpenCodes
    BY <1>8, <1>11
  <2>2. PICK s \in SeriesIds : Live(s) /\ series[s].code = c
    BY <1>4, <2>1
  <2>3. n \in 1 .. (series[s].nextNumber - 1)
    BY <1>7, <1>11, <2>2
  <2>4. QED
    BY <1>6, <2>2, <2>3
<1>12. QED
  BY <1>2, <1>3, <1>4, <1>7, <1>8, <1>9, <1>10, <1>11 DEF BookInv

LEMMA BookShapeAfter == InvoicingInv' => BookInv'
  BY BookShape, PTL

-----------------------------------------------------------------------------
(* What a step leaves of the books. *)

(* Unless it is issued or transmitted, a document stays as it is.          *)
ItemKept(i) == /\ (invoices[i].status = "issued")' = (invoices[i].status = "issued")
               /\ submissions'[i] = submissions[i]

LEMMA ContentKept ==
  ASSUME InvoicingInv, [Next]_vars, NEW i \in InvoiceIds, Exists(i)
  PROVE  /\ Exists(i)'
         /\ invoices'[i].code = invoices[i].code
         /\ invoices'[i].number = invoices[i].number
         /\ Item(i)' = [content |-> Content(invoices[i]),
                        issued |-> (invoices[i].status = "issued")',
                        transmissions |-> submissions'[i]]
         /\ ItemKept(i) => Item(i)' = Item(i)
<1>1. NumberingInv
  BY DEF InvoicingInv, ReferencesInv
<1>2. Content(invoices[i])' = Content(invoices[i])
  BY <1>1, RowsKept DEF Content
<1>3. QED
  BY <1>1, <1>2, RowsKept DEF Item, ItemKept

(* A book as long as before, of documents that stay, is the same book.     *)
LEMMA BookKept ==
  ASSUME InvoicingInv, InvoicingInv', [Next]_vars, NEW c \in Codes,
         Len(Book[c])' = Len(Book[c]),
         \A i \in InvoiceIds : Exists(i) /\ invoices[i].code = c => ItemKept(i)
  PROVE  Book'[c] = Book[c]
<1>1. BookInv /\ BookInv'
  BY BookShape, BookShapeAfter
<1>2. Book[c] \in Seq(Ledger!Document) /\ Book'[c] \in Seq(Ledger!Document)
  BY <1>1 DEF BookInv
<1>3. ASSUME NEW n \in 1 .. Len(Book[c]) PROVE Book'[c][n] = Book[c][n]
  <2>1. PICK i \in InvoiceIds : Exists(i) /\ invoices[i].code = c /\ invoices[i].number = n
    BY <1>1 DEF BookInv
  <2>2. /\ Exists(i)' /\ invoices'[i].code = c /\ invoices'[i].number = n
        /\ Item(i)' = Item(i)
    BY <2>1, ContentKept
  <2>3. Book[c][n] = Item(i)
    BY <1>1, <2>1 DEF BookInv
  <2>4. Book'[c][n] = Item(i)'
    BY <1>1, <2>2 DEF BookInv
  <2>5. QED
    BY <2>2, <2>3, <2>4
<1>4. QED
  BY <1>2, <1>3, SeqEqual

(* While the series stay, the same books are open, as long as before.      *)
LEMMA SeriesKept ==
  ASSUME InvoicingInv, InvoicingInv', series' = series
  PROVE  /\ OpenCodes' = OpenCodes
         /\ \A c \in Codes : Len(Book[c])' = Len(Book[c])
<1>1. BookInv /\ BookInv'
  BY BookShape, BookShapeAfter
<1>2. OpenCodes' = OpenCodes
  BY DEF OpenCodes, Live
<1>3. ASSUME NEW c \in OpenCodes PROVE Len(Book[c])' = Len(Book[c])
  <2>1. PICK s \in SeriesIds : Live(s) /\ series[s].code = c
    BY <1>1 DEF BookInv
  <2>2. Live(s)' /\ series'[s].code = c
    BY <2>1 DEF Live
  <2>3. QED
    BY <1>1, <2>1, <2>2 DEF BookInv
<1>4. ASSUME NEW c \in Codes \ OpenCodes PROVE Len(Book[c])' = Len(Book[c])
  BY <1>1, <1>2 DEF BookInv
<1>5. QED
  BY <1>2, <1>3, <1>4

(* Two books of all codes are the same when they are, code by code.        *)
LEMMA SameBooks ==
  ASSUME InvoicingInv, InvoicingInv', \A c \in Codes : Book'[c] = Book[c]
  PROVE  Book' = Book
<1>1. BookInv /\ BookInv'
  BY BookShape, BookShapeAfter
<1>2. Book \in [Codes -> Seq(Ledger!Document)] /\ Book' \in [Codes -> Seq(Ledger!Document)]
  BY <1>1 DEF BookInv
<1>3. QED
  BY <1>2

(* A step that writes neither a counter, a status nor a transmission is    *)
(* none of the ledger.                                                     *)
LEMMA Unseen ==
  ASSUME InvoicingInv, InvoicingInv', [Next]_vars, series' = series,
         \A i \in InvoiceIds : Exists(i) => ItemKept(i)
  PROVE  UNCHANGED <<OpenCodes, Book>>
<1>1. \A c \in Codes : Book'[c] = Book[c]
  BY SeriesKept, BookKept
<1>2. QED
  BY <1>1, SeriesKept, SameBooks

(* A step that issues or transmits an invoice rewrites one document.       *)
LEMMA OneDocument ==
  ASSUME InvoicingInv, InvoicingInv', [Next]_vars, series' = series,
         NEW i \in InvoiceIds, Exists(i),
         \A k \in InvoiceIds \ {i} : Exists(k) => ItemKept(k),
         NEW c, c = invoices[i].code, NEW n, n = invoices[i].number
  PROVE  /\ c \in Codes /\ n \in 1 .. Len(Book[c])
         /\ Book[c][n] = Item(i)
         /\ OpenCodes' = OpenCodes
         /\ Book' = [Book EXCEPT ![c] = [Book[c] EXCEPT ![n] = Item(i)']]
<1>1. BookInv /\ BookInv'
  BY BookShape, BookShapeAfter
<1>2. c \in Codes /\ n \in 1 .. Len(Book[c]) /\ Book[c][n] = Item(i)
  <2>1. invoices[i] \in InvoiceRow
    BY RowShape DEF InvoicingInv, ReferencesInv, NumberingInv
  <2>2. QED
    BY <1>1, <2>1 DEF BookInv, InvoiceRow
<1>3. /\ Book \in [Codes -> Seq(Ledger!Document)]
      /\ Book' \in [Codes -> Seq(Ledger!Document)]
  BY <1>1 DEF BookInv
<1>4. OpenCodes' = OpenCodes /\ Len(Book[c])' = Len(Book[c])
  BY <1>2, SeriesKept
<1>5. ASSUME NEW d \in Codes, d # c PROVE Book'[d] = Book[d]
  BY <1>5, BookKept, SeriesKept
<1>6. /\ Book'[c][n] = Item(i)' /\ Item(i)' \in Ledger!Document
  <2>1. Exists(i)' /\ invoices'[i].code = c /\ invoices'[i].number = n
    BY ContentKept
  <2>2. Book'[c][n] = Item(i)'
    BY <1>1, <2>1 DEF BookInv
  <2>3. QED
    BY <1>2, <1>3, <1>4, <2>2, ElementOfSeq
<1>7. ASSUME NEW m \in 1 .. Len(Book[c]), m # n PROVE Book'[c][m] = Book[c][m]
  <2>0. \A d \in Codes : \A l \in 1 .. Len(Book[d]) :
          \E k \in InvoiceIds : Exists(k) /\ invoices[k].code = d /\ invoices[k].number = l
    BY <1>1 DEF BookInv
  <2>1. PICK k \in InvoiceIds : Exists(k) /\ invoices[k].code = c /\ invoices[k].number = m
    BY <1>2, <2>0
  <2>2. k # i
    BY <1>7, <2>1
  <2>3. /\ Exists(k)' /\ invoices'[k].code = c /\ invoices'[k].number = m
        /\ Item(k)' = Item(k)
    BY <2>1, <2>2, ContentKept
  <2>4. Book[c][m] = Item(k)
    BY <1>1, <2>1 DEF BookInv
  <2>5. Book'[c][m] = Item(k)'
    BY <1>1, <2>3 DEF BookInv
  <2>6. QED
    BY <2>3, <2>4, <2>5
<1>8. Book'[c] = [Book[c] EXCEPT ![n] = Item(i)']
  <2> DEFINE old == Book[c]
             new == Book'[c]
             item == Item(i)'
  <2>1. /\ old \in Seq(Ledger!Document) /\ new \in Seq(Ledger!Document)
        /\ item \in Ledger!Document /\ n \in 1 .. Len(old) /\ Len(new) = Len(old)
        /\ new[n] = item /\ \A m \in 1 .. Len(old) : m # n => new[m] = old[m]
    BY <1>2, <1>3, <1>4, <1>6, <1>7
  <2> HIDE DEF old, new, item
  <2>2. /\ [old EXCEPT ![n] = item] \in Seq(Ledger!Document)
        /\ Len([old EXCEPT ![n] = item]) = Len(old)
        /\ \A m \in 1 .. Len(old) : [old EXCEPT ![n] = item][m] = IF m = n THEN item ELSE old[m]
    BY <2>1, ExceptSeq
  <2>3. new = [old EXCEPT ![n] = item]
    BY <2>1, <2>2, SeqEqual
  <2>4. QED
    BY <2>3 DEF old, new, item
<1>9. QED
  BY <1>2, <1>3, <1>4, <1>5, <1>8
-----------------------------------------------------------------------------
(* The steps of the engine that are steps of the ledger. *)

(* The transition that was won issues a document.                          *)
LEMMA CasIssues ==
  ASSUME InvoicingInv, InvoicingInv', [Next]_vars, NEW r \in Requests, CasIssue(r)
  PROVE  Ledger!Next
<1>0. PICK i, c, n : i = job[r].id /\ c = invoices[i].code /\ n = invoices[i].number
  OBVIOUS
<1>1. NumberingInv /\ TypeOK
  BY DEF InvoicingInv, ReferencesInv, NumberingInv
<1>2. i \in InvoiceIds /\ Exists(i) /\ invoices[i] \in InvoiceRow
  <2>1. i \in InvoiceIds
    BY <1>0, <1>1, JobShape DEF CasIssue, IssueSteps, IssueJob
  <2>2. Exists(i)
    BY <1>0, <1>1 DEF NumberingInv, JobsConsistent, IssueTargetExists, CasIssue, IssueSteps
  <2>3. QED
    BY <1>1, <2>1, <2>2, RowShape
<1>3. /\ invoices[i].status = "draft" /\ invoices'[i].status = "issued"
      /\ \A k \in InvoiceIds \ {i} : invoices'[k] = invoices[k]
      /\ series' = series /\ submissions' = submissions
  BY <1>0, <1>1, <1>2 DEF CasIssue, TypeOK, InvoiceRow
<1>4. \A k \in InvoiceIds \ {i} : ItemKept(k)
  BY <1>3 DEF ItemKept
<1>5. Item(i)' = [Item(i) EXCEPT !.issued = TRUE] /\ ~Item(i).issued
  <2>1. Item(i)' = [content |-> Content(invoices[i]),
                    issued |-> (invoices[i].status = "issued")',
                    transmissions |-> submissions'[i]]
    BY <1>2, ContentKept
  <2>2. (invoices[i].status = "issued")' = TRUE
    BY <1>3
  <2>3. Item(i) = [content |-> Content(invoices[i]), issued |-> FALSE,
                   transmissions |-> submissions[i]]
    BY <1>3 DEF Item
  <2>4. Item(i)' = [content |-> Content(invoices[i]), issued |-> TRUE,
                    transmissions |-> submissions[i]]
    BY <1>3, <2>1, <2>2
  <2>5. \A flag : [Item(i) EXCEPT !.issued = flag]
                     = [content |-> Content(invoices[i]), issued |-> flag,
                        transmissions |-> submissions[i]]
    BY <2>3
  <2>6. Item(i)' = [Item(i) EXCEPT !.issued = TRUE]
    BY <2>4, <2>5, Zenon
  <2>7. Item(i).issued = FALSE
    BY <2>3
  <2>8. QED
    BY <2>6, <2>7
<1>6. /\ c \in Codes /\ n \in 1 .. Len(Book[c])
      /\ Book[c][n] = Item(i)
      /\ OpenCodes' = OpenCodes
      /\ Book' = [Book EXCEPT ![c] = [Book[c] EXCEPT ![n] = Item(i)']]
  <2>1. \A k \in InvoiceIds \ {i} : Exists(k) => ItemKept(k)
    BY <1>4
  <2>2. series' = series /\ i \in InvoiceIds /\ Exists(i)
    BY <1>2, <1>3
  <2>3. QED
    BY <1>0, <2>1, <2>2, OneDocument
<1>7. Ledger!Issue(c, n)
  BY <1>5, <1>6 DEF Ledger!Issue
<1>8. QED
  BY <1>6, <1>7 DEF Ledger!Next

(* The call of the adapter transmits a document.                           *)
LEMMA SubmitTransmits ==
  ASSUME InvoicingInv, InvoicingInv', [Next]_vars, NEW r \in Requests, Submit(r)
  PROVE  Ledger!Next
<1>0. PICK i, c, n : i = job[r].id /\ c = invoices[i].code /\ n = invoices[i].number
  OBVIOUS
<1>1. NumberingInv /\ TypeOK
  BY DEF InvoicingInv, ReferencesInv, NumberingInv
<1>2. i \in InvoiceIds /\ Exists(i)
  <2>1. i \in InvoiceIds
    BY <1>0, <1>1, JobShape DEF Submit, IssueSteps, IssueJob
  <2>2. Exists(i)
    BY <1>0, <1>1 DEF NumberingInv, JobsConsistent, IssueTargetExists, Submit, IssueSteps
  <2>3. QED
    BY <2>1, <2>2
<1>3. invoices[i].status = "issued" /\ submissions[i] = 0
  BY <1>0 DEF InvoicingInv, TransmissionInv, IssuerAlone, Submit
<1>4. /\ submissions'[i] = 1 /\ invoices' = invoices /\ series' = series
      /\ \A k \in InvoiceIds \ {i} : submissions'[k] = submissions[k]
  BY <1>0, <1>1, <1>2, <1>3 DEF Submit, TypeOK
<1>5. \A k \in InvoiceIds \ {i} : ItemKept(k)
  BY <1>4 DEF ItemKept
<1>6. Item(i)' = [Item(i) EXCEPT !.transmissions = 1]
  <2>1. Item(i)' = [content |-> Content(invoices[i]),
                    issued |-> (invoices[i].status = "issued")',
                    transmissions |-> submissions'[i]]
    BY <1>2, ContentKept
  <2>2. (invoices[i].status = "issued")' = (invoices[i].status = "issued")
    BY <1>4
  <2>3. Item(i) = [content |-> Content(invoices[i]),
                   issued |-> invoices[i].status = "issued",
                   transmissions |-> submissions[i]]
    BY DEF Item
  <2>4. QED
    BY <1>4, <2>1, <2>2, <2>3
<1>7. Item(i).issued /\ Item(i).transmissions = 0
  BY <1>3 DEF Item
<1>8. /\ c \in Codes /\ n \in 1 .. Len(Book[c])
      /\ Book[c][n] = Item(i)
      /\ OpenCodes' = OpenCodes
      /\ Book' = [Book EXCEPT ![c] = [Book[c] EXCEPT ![n] = Item(i)']]
  <2>1. \A k \in InvoiceIds \ {i} : Exists(k) => ItemKept(k)
    BY <1>5
  <2>2. series' = series /\ i \in InvoiceIds /\ Exists(i)
    BY <1>2, <1>4
  <2>3. QED
    BY <1>0, <2>1, <2>2, OneDocument
<1>9. Ledger!Transmit(c, n)
  BY <1>6, <1>7, <1>8 DEF Ledger!Transmit
<1>10. QED
  BY <1>8, <1>9 DEF Ledger!Next

(* A new series opens its book, which is empty.                            *)
LEMMA CreateOpens ==
  ASSUME InvoicingInv, InvoicingInv', [Next]_vars, CreateSeries
  PROVE  Ledger!Next
<1>1. TypeOK /\ BookInv /\ BookInv'
  BY BookShape, BookShapeAfter DEF InvoicingInv, ReferencesInv, NumberingInv
<1>2. PICK s \in SeriesIds, c \in Codes :
        /\ ~Live(s)
        /\ ~\E t \in SeriesIds : Live(t) /\ series[t].code = c
        /\ series'[s].state = "live" /\ series'[s].code = c /\ series'[s].nextNumber = 1
        /\ \A t \in SeriesIds \ {s} : series'[t] = series[t]
  BY <1>1, Validated DEF CreateSeries, TypeOK, Live, UnusedSeries
<1>3. invoices' = invoices /\ submissions' = submissions
  BY DEF CreateSeries
<1>4. c \notin OpenCodes
  BY <1>2 DEF OpenCodes
<1>5. Live(s)' /\ \A t \in SeriesIds \ {s} : Live(t)' = Live(t)
  BY <1>2 DEF Live
<1>6. OpenCodes' = OpenCodes \cup {c}
  BY <1>2, <1>5 DEF OpenCodes
<1>7. Len(Book[c])' = 0 /\ Book[c] = <<>>
  BY <1>1, <1>2, <1>4, <1>5 DEF BookInv
<1>8. ASSUME NEW d \in Codes PROVE Len(Book[d])' = Len(Book[d])
  <2>1. CASE d = c
    BY <1>7, <2>1, EmptySeq
  <2>2. CASE d # c /\ d \in OpenCodes
    <3>1. PICK t \in SeriesIds : Live(t) /\ series[t].code = d
      BY <1>1, <2>2 DEF BookInv
    <3>2. t # s /\ Live(t)' /\ series'[t] = series[t]
      BY <1>2, <1>5, <3>1
    <3>3. QED
      <4>1. Len(Book[d]) = series[t].nextNumber - 1
        BY <1>1, <3>1 DEF BookInv
      <4>2. Len(Book[d])' = series'[t].nextNumber - 1
        BY <1>1, <3>1, <3>2 DEF BookInv
      <4>3. QED
        BY <3>2, <4>1, <4>2
  <2>3. CASE d # c /\ d \notin OpenCodes
    BY <1>1, <1>6, <2>3 DEF BookInv
  <2>4. QED
    BY <2>1, <2>2, <2>3
<1>9. \A i \in InvoiceIds : ItemKept(i)
  BY <1>3 DEF ItemKept
<1>10. Book' = Book
  BY <1>8, <1>9, BookKept, SameBooks
<1>11. Ledger!Open(c)
  BY <1>4, <1>6, <1>10 DEF Ledger!Open
<1>12. QED
  BY <1>2, <1>11 DEF Ledger!Next

(* A series that no invoice refers to has an empty book, and closes it.    *)
LEMMA RemoveCloses ==
  ASSUME InvoicingInv, InvoicingInv', [Next]_vars, NEW s \in SeriesIds, RemoveSeries(s)
  PROVE  Ledger!Next
<1>0. PICK c : c = series[s].code
  OBVIOUS
<1>1. NumberingInv /\ TypeOK /\ BookInv /\ BookInv'
  BY BookShape, BookShapeAfter DEF InvoicingInv, ReferencesInv, NumberingInv
<1>2. /\ Live(s) /\ ~Live(s)'
      /\ \A t \in SeriesIds \ {s} : series'[t] = series[t]
      /\ \A i \in InvoiceIds : Exists(i) => invoices[i].series # s
      /\ invoices' = invoices /\ submissions' = submissions
  BY <1>1 DEF RemoveSeries, Referenced, DeletedSeries, Live, TypeOK
<1>3. \A t \in SeriesIds \ {s} : Live(t)' = Live(t) /\ (Live(t) => series[t].code # c)
  BY <1>0, <1>1, <1>2 DEF Live, NumberingInv, RowsConsistent, CodesUnique
<1>4. c \in OpenCodes /\ c \in Codes
  BY <1>0, <1>1, <1>2 DEF BookInv
<1>5. OpenCodes' = OpenCodes \ {c}
  BY <1>0, <1>2, <1>3 DEF OpenCodes
<1>6. Book[c] = <<>>
  <2>1. series[s] \in SeriesRow
    BY <1>1, <1>2, RowShape
  <2>2. 1 .. (series[s].nextNumber - 1) = {}
    BY <1>1, <1>2 DEF NumberingInv, RowsConsistent, NumbersTaken
  <2>3. series[s].nextNumber - 1 = 0
    <3>1. series[s].nextNumber \in Nat /\ series[s].nextNumber # 0
      BY <2>1 DEF SeriesRow
    <3>2. ~(1 <= series[s].nextNumber - 1)
      BY <2>2, <3>1
    <3>3. QED
      BY <3>1, <3>2
  <2>4. Len(Book[c]) = 0 /\ Book[c] \in Seq(Ledger!Document)
    BY <1>0, <1>1, <1>2, <1>4, <2>3 DEF BookInv
  <2>5. QED
    BY <2>4, EmptySeq
<1>7. ASSUME NEW d \in Codes PROVE Len(Book[d])' = Len(Book[d])
  <2>1. CASE d = c
    BY <1>1, <1>5, <1>6, <2>1 DEF BookInv
  <2>2. CASE d # c /\ d \in OpenCodes
    <3>1. PICK t \in SeriesIds : Live(t) /\ series[t].code = d
      BY <1>1, <2>2 DEF BookInv
    <3>2. t # s /\ Live(t)' /\ series'[t] = series[t]
      BY <1>0, <1>2, <1>3, <2>2, <3>1
    <3>3. QED
      BY <1>1, <3>1, <3>2 DEF BookInv
  <2>3. CASE d # c /\ d \notin OpenCodes
    BY <1>1, <1>5, <2>3 DEF BookInv
  <2>4. QED
    BY <2>1, <2>2, <2>3
<1>8. \A i \in InvoiceIds : ItemKept(i)
  BY <1>2 DEF ItemKept
<1>9. Book' = Book
  BY <1>7, <1>8, BookKept, SameBooks
<1>10. Ledger!Close(c)
  BY <1>4, <1>5, <1>6, <1>9 DEF Ledger!Close
<1>11. QED
  BY <1>4, <1>10 DEF Ledger!Next

(* The commit of a draft enters a document at the end of its book: its     *)
(* number is the committed counter, whose lock it holds.                   *)
LEMMA CommitEnters ==
  ASSUME InvoicingInv, InvoicingInv', [Next]_vars, NEW r \in Requests, Commit(r)
  PROVE  Ledger!Next
<1>0. PICK s, i, c : s = job[r].doc.series /\ i = job[r].id /\ c = series[s].code
  OBVIOUS
<1> DEFINE old == Book[c]
           new == Book'[c]
           item == Item(i)'
<1>1. NumberingInv /\ TypeOK /\ BookInv /\ BookInv'
  BY BookShape, BookShapeAfter DEF InvoicingInv, ReferencesInv, NumberingInv
<1>2. /\ s \in SeriesIds /\ i \in InvoiceIds
      /\ job[r].doc \in InvoiceRow /\ job[r].step = "commit"
      /\ Live(s) /\ ~Exists(i)
      /\ job[r].doc.code = c /\ job[r].doc.number = series[s].nextNumber
      /\ \A t \in SeriesIds : t # s => series'[t] = series[t]
      /\ series'[s].state = "live" /\ series'[s].code = c
      /\ series'[s].nextNumber = series[s].nextNumber + 1
      /\ \A k \in InvoiceIds : k # i => invoices'[k] = invoices[k]
      /\ invoices'[i] = job[r].doc
  BY <1>0, <1>1, CommitEffect
<1>3. submissions' = submissions /\ submissions[i] = 0
  <2>1. submissions[i] \in Nat /\ submissions[i] <= 0
    BY <1>1, <1>2 DEF InvoicingInv, TransmissionInv, TransmittedOnce, TypeOK, Exists
  <2>2. submissions' = submissions
    BY DEF Commit
  <2>3. QED
    BY <2>1, <2>2
<1>4. job[r].doc.status = "draft"
  BY <1>2 DEF InvoicingInv, DraftsUnissued, Drafting, DraftSteps, HoldsLock
<1>5. \A t \in SeriesIds : Live(t)' = Live(t) /\ series'[t].code = series[t].code
  BY <1>0, <1>2 DEF Live
<1>6. OpenCodes' = OpenCodes
  BY <1>5 DEF OpenCodes
<1>7. c \in OpenCodes /\ c \in Codes /\ Len(old) = series[s].nextNumber - 1
  BY <1>0, <1>1, <1>2 DEF BookInv
<1>8. series[s].nextNumber \in Nat
  BY <1>1, <1>2, RowShape DEF SeriesRow
<1>9. Len(new) = Len(old) + 1 /\ series[s].nextNumber = Len(old) + 1
  <2>1. Live(s)'
    BY <1>2, <1>5
  <2>2. Len(new) = series'[s].nextNumber - 1
    BY <1>1, <1>2, <2>1 DEF BookInv
  <2>3. QED
    BY <1>2, <1>7, <1>8, <2>2
<1>10. \A k \in InvoiceIds : Exists(k) => k # i /\ ItemKept(k)
  BY <1>2, <1>3 DEF ItemKept
<1>11. ASSUME NEW d \in Codes, d # c PROVE Book'[d] = Book[d]
  <2>1. Len(Book[d])' = Len(Book[d])
    <3>1. CASE d \in OpenCodes
      <4>1. PICK t \in SeriesIds : Live(t) /\ series[t].code = d
        BY <1>1, <3>1 DEF BookInv
      <4>2. t # s /\ Live(t)' /\ series'[t] = series[t]
        BY <1>0, <1>2, <1>5, <1>11, <4>1
      <4>3. Len(Book[d]) = series[t].nextNumber - 1
        BY <1>1, <4>1 DEF BookInv
      <4>4. Len(Book[d])' = series'[t].nextNumber - 1
        BY <1>1, <4>1, <4>2 DEF BookInv
      <4>5. QED
        BY <4>2, <4>3, <4>4
    <3>2. CASE d \notin OpenCodes
      BY <1>1, <1>6, <3>2 DEF BookInv
    <3>3. QED
      BY <3>1, <3>2
  <2>2. QED
    BY <1>10, <2>1, BookKept
<1>12. new[Len(old) + 1] = item
  <2>1. Exists(i)' /\ invoices'[i].code = c /\ invoices'[i].number = Len(old) + 1
    BY <1>2, <1>4, <1>9 DEF Exists
  <2>2. QED
    BY <1>1, <1>2, <2>1 DEF BookInv
<1>13. ASSUME NEW m \in 1 .. Len(old) PROVE new[m] = old[m]
  <2>1. \A d \in Codes : \A l \in 1 .. Len(Book[d]) :
          \E k \in InvoiceIds : Exists(k) /\ invoices[k].code = d /\ invoices[k].number = l
    BY <1>1 DEF BookInv
  <2>2. PICK k \in InvoiceIds : Exists(k) /\ invoices[k].code = c /\ invoices[k].number = m
    BY <1>7, <2>1
  <2>3. /\ Exists(k)' /\ invoices'[k].code = c /\ invoices'[k].number = m
        /\ Item(k)' = Item(k)
    BY <1>10, <2>2, ContentKept
  <2>4. old[m] = Item(k)
    BY <1>1, <2>2 DEF BookInv
  <2>5. new[m] = Item(k)'
    BY <1>1, <2>3 DEF BookInv
  <2>6. QED
    BY <2>3, <2>4, <2>5
<1>14. item \in Ledger!NewDocument /\ item \in Ledger!Document
  <2>1. item = [content |-> Content(job[r].doc), issued |-> FALSE, transmissions |-> 0]
    BY <1>2, <1>3, <1>4 DEF Item, Content
  <2>2. QED
    BY <1>2, <2>1 DEF Ledger!NewDocument, Ledger!Document, Content, InvoiceRow
<1>15. /\ Book \in [Codes -> Seq(Ledger!Document)]
       /\ Book' \in [Codes -> Seq(Ledger!Document)]
  BY <1>1 DEF BookInv
<1>16. new = Append(old, item)
  <2>1. old \in Seq(Ledger!Document) /\ new \in Seq(Ledger!Document)
    BY <1>7, <1>15
  <2> HIDE DEF old, new, item
  <2>2. /\ Append(old, item) \in Seq(Ledger!Document)
        /\ Len(Append(old, item)) = Len(old) + 1
        /\ \A m \in 1 .. Len(old) : Append(old, item)[m] = old[m]
        /\ Append(old, item)[Len(old) + 1] = item
    BY <1>14, <2>1, AppendProperties
  <2>3. \A m \in 1 .. Len(new) : new[m] = Append(old, item)[m]
    <3>1. Len(old) \in Nat
      BY <2>1, LenProperties
    <3>2. \A m \in 1 .. Len(new) : m \in 1 .. Len(old) \/ m = Len(old) + 1
      BY <1>9, <3>1
    <3>3. QED
      BY <1>12, <1>13, <2>2, <3>2
  <2>4. QED
    BY <1>9, <2>1, <2>2, <2>3, SeqEqual
<1>17. Book' = [Book EXCEPT ![c] = Append(Book[c], Book'[c][Len(Book'[c])])]
  <2>1. new[Len(new)] = item
    BY <1>9, <1>12
  <2>2. QED
    BY <1>7, <1>11, <1>15, <1>16, <2>1
<1>18. Ledger!Enter(c)
  BY <1>6, <1>7, <1>9, <1>12, <1>14, <1>17 DEF Ledger!Enter
<1>19. QED
  BY <1>7, <1>18 DEF Ledger!Next

-----------------------------------------------------------------------------
(* No other step shows.                                                    *)
LEMMA OthersUnseen ==
  ASSUME InvoicingInv, InvoicingInv', [Next]_vars,
         \/ UNCHANGED <<series, invoices, submissions>>
         \/ \E r \in Requests : FinishIssue(r)
  PROVE  UNCHANGED <<OpenCodes, Book>>
<1>1. TypeOK
  BY DEF InvoicingInv, ReferencesInv, NumberingInv
<1>2. CASE UNCHANGED <<series, invoices, submissions>>
  <2>1. \A i \in InvoiceIds : ItemKept(i)
    BY <1>2 DEF ItemKept
  <2>2. QED
    BY <1>2, <2>1, Unseen
<1>3. ASSUME NEW r \in Requests, FinishIssue(r)
      PROVE  UNCHANGED <<OpenCodes, Book>>
  <2>1. ASSUME NEW i \in InvoiceIds, Exists(i) PROVE ItemKept(i)
    <3>1. invoices[i] \in InvoiceRow
      BY <1>1, <2>1, RowShape
    <3>2. invoices'[i].status = invoices[i].status
      BY <1>1, <1>3, <3>1 DEF FinishIssue, TypeOK, InvoiceRow
    <3>3. submissions' = submissions
      BY <1>3 DEF FinishIssue
    <3>4. QED
      BY <3>2, <3>3 DEF ItemKept
  <2>2. series' = series
    BY <1>3 DEF FinishIssue
  <2>3. QED
    BY <2>1, <2>2, Unseen
<1>4. QED
  BY <1>2, <1>3

LEMMA LedgerStep ==
  InvoicingInv /\ InvoicingInv' /\ [Next]_vars => [Ledger!Next]_(Ledger!vars)
<1> SUFFICES ASSUME InvoicingInv, InvoicingInv', [Next]_vars
             PROVE  Ledger!Next \/ UNCHANGED <<OpenCodes, Book>>
  BY DEF Ledger!vars
<1>1. ASSUME NEW r \in Requests, Step(r)
      PROVE  Ledger!Next \/ UNCHANGED <<OpenCodes, Book>>
  <2>1. \/ Commit(r) \/ CasIssue(r) \/ Submit(r) \/ FinishIssue(r)
        \/ UNCHANGED <<series, invoices, submissions>>
    BY <1>1
       DEF Step, tables, FindSeries, SeriesNotFound, ResolveLines, RejectLines, CheckCap,
           RejectCap, AllocateNumber, SeriesGone, InsertInvoice, InsertRejected, CasLost
  <2>2. QED
    BY <2>1, CommitEnters, CasIssues, SubmitTransmits, OthersUnseen
<1>2. ASSUME NEW r \in Requests,
             BeginDraft(r) \/ BeginCreditNote(r) \/ BeginIssue(r) \/ Crash(r)
      PROVE  UNCHANGED <<OpenCodes, Book>>
  BY <1>2, OthersUnseen DEF tables, BeginDraft, BeginCreditNote, BeginIssue, Crash
<1>3. ASSUME NEW c, RemoveCompany(c) \/ RemoveProduct(c) \/ UNCHANGED vars
      PROVE  UNCHANGED <<OpenCodes, Book>>
  BY <1>3, OthersUnseen DEF RemoveCompany, RemoveProduct, vars
<1>4. QED
  BY <1>1, <1>2, <1>3, CreateOpens, RemoveCloses DEF Next

(* Before the first request all books are closed and empty.                *)
LEMMA LedgerInit == Init => Ledger!Init
<1> SUFFICES ASSUME Init PROVE Ledger!Init
  OBVIOUS
<1>1. OpenCodes = {}
  BY DEF Init, OpenCodes, Live, UnusedSeries
<1>2. Book = [c \in Codes |-> <<>>]
  BY <1>1 DEF Book
<1>3. QED
  BY <1>1, <1>2 DEF Ledger!Init

(* The engine implements the ledger: whatever requests overlap and die, a  *)
(* number is entered once, at the end of its book, its content is fixed    *)
(* from then on, it is issued and transmitted at most once, and a series   *)
(* in use is not closed (createDraftInvoice, issue, InvoiceSeriesService). *)
THEOREM LedgerImplemented == Spec => ImplementsLedger
<1>1. Spec => []InvoicingInv
  BY InvoicingInvariant
<1>2. QED
  BY <1>1, LedgerInit, LedgerStep, PTL DEF Spec, ImplementsLedger, Ledger!Spec
=============================================================================
