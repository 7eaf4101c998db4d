---------------------------- MODULE MCBadgerStore ----------------------------
EXTENDS BadgerStoreProperties, TLC

Symmetry == Permutations(Clients) \cup Permutations(Data) \cup Permutations(Documents) \cup Permutations(Keys) \cup Permutations(AccountIds)
==============================================================================
