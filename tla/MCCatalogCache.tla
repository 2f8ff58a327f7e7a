-------------------------- MODULE MCCatalogCache --------------------------
EXTENDS CatalogCache, TLC

Symmetry == Permutations(Names) \cup Permutations(Schemas) \cup Permutations(Dbs)
=============================================================================
