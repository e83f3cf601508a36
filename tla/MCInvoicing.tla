----------------------------- MODULE MCInvoicing -----------------------------
(* Finite instances of Invoicing for TLC. *)
EXTENDS InvoicingInductive, TLC

CONSTANTS r1, r2, i1, i2, i3, s1, s2, fact, storno, c1, p1

OneRequest == {r1}
TwoRequests == {r1, r2}
TwoInvoices == {i1, i2}
ThreeInvoices == {i1, i2, i3}
OneSeries == {s1}
TwoSeries == {s1, s2}

(* Keys are interchangeable, and so are the requests.  Sound for the       *)
(* invariants and step properties; not used where liveness is checked.     *)
Symmetry == Permutations(Requests) \cup Permutations(InvoiceIds)
              \cup Permutations(SeriesIds)
=============================================================================
