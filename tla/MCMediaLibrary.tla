--------------------------- MODULE MCMediaLibrary ---------------------------
(* What becomes of the library's files in three histories, each too long to be   *)
(* checked together with the others: sources that share a file go, one source    *)
(* is replaced, and a series is reviewed.                                        *)
EXTENDS MediaCleanup, SeriesReview, TLC

VARIABLE history

libraryVars == <<cleanupVars, preview, newer, history>>

InterchangeableValues ==
  Permutations(Path) \cup Permutations(Ident) \cup Permutations(Row)
    \cup Permutations(Target) \cup Permutations(Artifact) \cup Permutations(Config)

Sources == {p \in Path : disk[p] # None}

LibraryInit ==
  /\ CleanupInit /\ SeriesInit
  /\ \/ history = "gone" /\ Sources = Path /\ Cardinality(Range(disk)) = 1
     \/ history = "replaced" /\ Cardinality(Sources) = 1
     \/ history = "series" /\ Sources = Path /\ Cardinality(Range(disk)) = 2

\* A series takes one review more than the other histories.
Reviews(n) == \A s \in Row : dec'[s].rev <= n

\* The files of the first scan, two names of one file, are all there will ever be.
Going == CleanupNext /\ Reviews(2) /\ \A p \in Path : disk'[p] \in {disk[p], None}

\* A file goes and comes back as often as it likes; once it shows something else than
\* its first row recorded, it stays.
UntilReplaced == \A r \in Known : disk[row[r].path] \in {None, row[r].fp}
Replacing ==
  /\ ImportNext /\ Reviews(2)
  /\ UNCHANGED disk \/ UntilReplaced
  /\ \A p \in Path : disk'[p] # disk[p] => \E r \in Known : row[r].path = p

\* Two files of a series stay, and the process does not die.
Reviewing == SeriesNext /\ UNCHANGED <<crashes, disk>>

LibraryNext ==
  /\ \/ history = "gone"     /\ Going     /\ UNCHANGED <<preview, newer>>
     \/ history = "replaced" /\ Replacing /\ UNCHANGED <<manifest, sweep, preview, newer>>
     \/ history = "series"   /\ Reviewing /\ UNCHANGED <<manifest, sweep>>
  /\ UNCHANGED history

LibrarySpec == LibraryInit /\ [][LibraryNext]_libraryVars
=============================================================================
