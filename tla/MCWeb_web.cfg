SPECIFICATION Spec
CONSTANTS
  fa = fa
  fb = fb
  Nobody = Nobody
  Firms <- SomeFirms
  Observed <- SomePages
  Size = 2
  Matching = {1}
  Leads = {1}
  MaxLoads = 3
  MaxWrites = 2
  Pickers <- SomePickers
  MaxInvoices = 2
  MaxLines = 2
SYMMETRY FirmSymmetry
INVARIANTS OwnWritesShown SavedIsShown PageShowsRows OneSaveAtATime HeaderNamesTheFirm OneDraftPerForm WebInv
PROPERTIES NeverBackInTime
CHECK_DEADLOCK FALSE
