---------------------------- MODULE MCSubtitleJobs ----------------------------
(* SubtitleJobs with constants small enough for TLC: two languages with a    *)
(* candidate each, and a sidecar, all with bytes of their own.                   *)
EXTENDS SubtitleJobs, TLC

CONSTANTS j1, j2, c1, c2, s1

MCFits == j1 :> {c1} @@ j2 :> {c2}
MCDigest == c1 :> "d1" @@ c2 :> "d2" @@ s1 :> "d3"

=============================================================================
