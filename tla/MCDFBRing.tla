----------------------------- MODULE MCDFBRing ------------------------------
EXTENDS DFBRing, TLC

Symmetry == Permutations(Producers) \union Permutations(Consumers)
              \union Permutations(Values)
=============================================================================
