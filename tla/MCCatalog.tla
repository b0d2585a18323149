----------------------------- MODULE MCCatalog -----------------------------
(* Model-checking instance of Catalog.  Requests are interchangeable.  Two   *)
(* repositories share a name.  Admins enter both times of an exam, or one.   *)
EXTENDS Catalog, TLC

Repositories   == {<<"o1", "p1">>, <<"o2", "p1">>, <<"o1", "p2">>}
RepositoryFirst == {<<"o1", "p1">>}
TimesEntered   == {<<1, 4>>, <<2, NoTime>>}
CatalogSymmetry == Permutations(Request)
=============================================================================
