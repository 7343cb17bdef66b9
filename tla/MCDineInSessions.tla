-------------------------- MODULE MCDineInSessions --------------------------
EXTENDS DineInSessions, TLC

Symmetry == Permutations(Guests) \union Permutations(Tables)
  \union Permutations(Sessions) \union Permutations(Handlers)
=============================================================================
