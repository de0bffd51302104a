--------------------------- MODULE MCMediaCleanup ---------------------------
(* MediaCleanup with symmetric identifiers, in two histories: people edit the *)
(* library, or the configuration changes.                                     *)
EXTENDS MediaCleanup, TLC

VARIABLE history

historyVars == <<cleanupVars, history>>

InterchangeableValues ==
  Permutations(Path) \cup Permutations(Ident) \cup Permutations(Row)
    \cup Permutations(Target) \cup Permutations(Artifact) \cup Permutations(Config)

HistoryInit == CleanupInit /\ history \in {"edited", "configured"}

\* A step that leaves the engine where it is and changes the library is a user's.
HistoryNext ==
  /\ CleanupNext
  /\ \/ history = "edited" /\ UNCHANGED cfg
     \/ history = "configured" /\ (UNCHANGED lib \/ me' # me)
  /\ UNCHANGED history

HistorySpec == HistoryInit /\ [][HistoryNext]_historyVars
=============================================================================
