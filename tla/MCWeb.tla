------------------------------- MODULE MCWeb --------------------------------
(* Two firms, two rows and the first loads of: a page with useListPage, a   *)
(* page without, with the star of the notes, and the list of invoices that  *)
(* a login lands on.                                                        *)
EXTENDS WebClientInductive, TLC

CONSTANTS fa, fb

SomePages == {<<"contacts", "companyId">>,
              <<"notes", "content">>, Landing}
ProductsOnly == {<<"products", "description">>}
SomeFirms == {fa, fb}
SomePickers == {"company", "product"}
FirmSymmetry == Permutations(SomeFirms)
=============================================================================
