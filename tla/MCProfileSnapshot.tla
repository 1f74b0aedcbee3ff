-------------------------- MODULE MCProfileSnapshot --------------------------
EXTENDS ProfileSnapshot, TLC

Symmetry == Permutations(Container)

=============================================================================
