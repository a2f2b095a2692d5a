------------------------- MODULE MCInterpretaciones -------------------------
EXTENDS Interpretaciones, TLC
Simetria == Permutations(Peticiones)
=============================================================================
