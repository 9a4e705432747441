---------------------------- MODULE MCProjectApply ----------------------------
EXTENDS ProjectApply, TLC

Sym == Permutations(Client)
=============================================================================
