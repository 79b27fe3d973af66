--------------------------- MODULE MCFileStorage ---------------------------
(***************************************************************************)
(* FileStorage for TLC: an import beside the tasks of MCGeneratedFiles, of *)
(* which the exports are interchangeable.                                  *)
(***************************************************************************)
EXTENDS FileStorage, MCGeneratedFiles

ExportSymmetry == Permutations(Exports)

=============================================================================
