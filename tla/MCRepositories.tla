---------------------------- MODULE MCRepositories ----------------------------
(* Repositories with two installations, a public and a private repository. *)
EXTENDS Repositories, TLC

CONSTANTS i1, i2, r1, r2, s1

InstallationSymmetry == Permutations(Installation)
===============================================================================
