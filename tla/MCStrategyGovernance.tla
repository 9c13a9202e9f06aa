------------------------ MODULE MCStrategyGovernance ------------------------
EXTENDS StrategyGovernance, TLC

CONSTANTS s1, s2

Symmetry == Permutations({s1, s2})
=============================================================================
