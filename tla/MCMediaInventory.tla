-------------------------- MODULE MCMediaInventory --------------------------
(* MediaInventory with symmetric paths, fingerprints and row identifiers. *)
EXTENDS MediaInventory, TLC

InterchangeableValues ==
  Permutations(Path) \cup Permutations(Ident) \cup Permutations(Row)

=============================================================================
