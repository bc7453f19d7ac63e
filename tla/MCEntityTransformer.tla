------------------------ MODULE MCEntityTransformer ------------------------
(* Instances of EntityTransformer for TLC. *)
EXTENDS EntityTransformer, TLC

Symmetry == Permutations(Adapters)
=============================================================================
