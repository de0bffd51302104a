--------------------------- MODULE MCDownloadBudget ---------------------------
(* DownloadBudget with constants small enough for TLC.                          *)
EXTENDS DownloadBudget, TLC

Symmetry == Permutations(User)

=============================================================================
