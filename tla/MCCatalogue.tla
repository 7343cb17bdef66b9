---------------------------- MODULE MCCatalogue ----------------------------
EXTENDS Catalogue, TLC

CONSTANTS r1, r2, c1, c2, f1

\* Two restaurants with a category each, and a food of the first.
TwoKitchens == c1 :> r1 @@ c2 :> r2 @@ f1 :> r1

Symmetry == Permutations(Handlers)
=============================================================================
