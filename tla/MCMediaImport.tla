---------------------------- MODULE MCMediaImport ----------------------------
(* MediaImport with symmetric identifiers, and with users who change little. *)
EXTENDS MediaImport, TLC

InterchangeableValues ==
  Permutations(Path) \cup Permutations(Ident) \cup Permutations(Row)
    \cup Permutations(Target) \cup Permutations(Artifact) \cup Permutations(Config)

FullInit == ImportInit /\ \A p \in Path : disk[p] # None

\* Every path shows a file from the start, and keeps it.
StillSources ==
  /\ FullInit
  /\ [][ImportNext /\ UNCHANGED disk]_importVars
=============================================================================
