------------------------------ MODULE MCBasket ------------------------------
EXTENDS Basket, TLC

CONSTANTS f1, f2, f3, r1, r2

\* Two foods of one restaurant and one of another.
TwoKitchens == f1 :> r1 @@ f2 :> r1 @@ f3 :> r2

Symmetry ==
  Permutations(Ids) \union Permutations(Handlers) \union Permutations({f1, f2})
=============================================================================
