------------------------ MODULE MCDeliveryPayments ------------------------
EXTENDS DeliveryPayments, TLC

Symmetry == Permutations(Keys) \union Permutations(Handlers)
=============================================================================
