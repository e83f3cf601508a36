SPECIFICATION Spec
CONSTANTS
  fa = fa
  fb = fb
  Nobody = Nobody
  Firms <- SomeFirms
  Observed <- ProductsOnly
  Size = 2
  Matching = {1}
  Leads = {1}
  MaxLoads = 3
  MaxWrites = 1
  Pickers <- SomePickers
  MaxInvoices = 1
  MaxLines = 2
SYMMETRY FirmSymmetry
INVARIANTS SearchedListShown
CHECK_DEADLOCK FALSE
