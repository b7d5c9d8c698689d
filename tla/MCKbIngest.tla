----------------------------- MODULE MCKbIngest -----------------------------
(***************************************************************************)
(* Model checking of KbIngest: the ids, contents, folders and upload slots   *)
(* are interchangeable.                                                     *)
(***************************************************************************)
EXTENDS KbIngest, TLC

Symmetry ==
    Permutations(Docs) \union Permutations(Contents)
      \union Permutations(Folders) \union Permutations(Slots)

=============================================================================
