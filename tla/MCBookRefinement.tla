-------------------------- MODULE MCBookRefinement --------------------------
(* Model values and symmetry for checking BookRefinement.                  *)
EXTENDS BookRefinement, TLC

NonceSymmetry == Permutations(Nonce)
=============================================================================
