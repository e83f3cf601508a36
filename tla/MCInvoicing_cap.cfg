SPECIFICATION Spec
CONSTANTS
  r1 = r1
  r2 = r2
  i1 = i1
  i2 = i2
  i3 = i3
  s1 = s1
  s2 = s2
  fact = fact
  storno = storno
  c1 = c1
  p1 = p1
  None = None
  Requests <- TwoRequests
  InvoiceIds <- ThreeInvoices
  SeriesIds <- OneSeries
  Codes = {fact}
  DocTypes = {"invoice"}
  Companies = {c1}
  Products = {p1}
  Amounts = {1}
  Faults = FALSE
SYMMETRY Symmetry
INVARIANT CreditNotesWithinOriginal
CHECK_DEADLOCK FALSE
