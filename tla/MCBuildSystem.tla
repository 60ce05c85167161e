--------------------------- MODULE MCBuildSystem ---------------------------
EXTENDS BuildSystem, TLC
MCCapable == [p \in Platforms |-> Builders]

\* One job that two builders may do, and one for the first of them alone.
MCOnePair ==
  [p \in Platforms |-> IF p = CHOOSE q \in Platforms : TRUE
                         THEN Builders ELSE {CHOOSE b \in Builders : TRUE}]

Symmetry == Permutations(Builders) \union Permutations(Platforms)
=============================================================================
