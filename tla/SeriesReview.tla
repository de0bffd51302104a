---------------------------- MODULE SeriesReview ----------------------------
(***************************************************************************)
(* A review of a whole series (Engine.series_preview and series_apply) on  *)
(* top of the importer: the operator is shown what a mapping would do to   *)
(* every source of the series, and applies it later, when sources may have *)
(* been scanned, planned, imported, replaced or reviewed one by one.       *)
(*                                                                         *)
(* All sources that are mapped belong to one series; every change of the   *)
(* configuration is one of the naming.  Old previews stay in               *)
(* media_events; one at a time is enough here, since showing another one   *)
(* changes nothing for the first.                                          *)
(***************************************************************************)
EXTENDS MediaImport

VARIABLES
  preview,   \* the payload of the latest 'series_review_preview'
  newer      \* sources that were reviewed one by one since then

seriesVars == <<importVars, preview, newer>>

\* Sources that are there, with a mapping.
Series == {s \in Live : row[s].missing = 0 /\ job[s].target # None}

\* The baseline of a source: its plan and its decision.
BaseOfPlan(s) == [target |-> job[s].target, rev |-> job[s].rev, dec |-> NoDec]  \* mutant
Base(s) == [target |-> job[s].target, rev |-> job[s].rev, dec |-> dec[s]]

NoPreview == [of |-> {}, cfg |-> None, entry |-> <<>>]

SeriesInit == ImportInit /\ preview = NoPreview /\ newer = {}

\* The chosen series keeps each source's season and episodes: a new name for each target.
SeriesPreview ==
  /\ me.pc = "idle" /\ Series # {}
  /\ \E name \in [Target -> Target] :
        preview' = [of |-> Series, cfg |-> cfg,
                    entry |-> [s \in Series |-> [new |-> name[job[s].target], base |-> Base(s)]]]
  /\ newer' = {}
  /\ UNCHANGED importVars

\* "preview again": the naming, the set of files, a plan or a decision changed, or a file.
StillAsShown ==
  /\ preview.cfg = cfg
  /\ preview.of = Series
  /\ \A s \in Series : preview.entry[s].base = Base(s) /\ ShowsSource(s)

Reviewed(s) == (IF job[s].rev > dec[s].rev THEN job[s].rev ELSE dec[s].rev) + 1

\* All decisions in one transaction.  No preview that was applied fits a second time.
SeriesApply ==
  /\ me.pc = "idle" /\ preview # NoPreview
  /\ StillAsShown
  /\ \A s \in Series : Reviewed(s) <= MaxRevision
  /\ dec' = [s \in Row |-> IF s \in Series
               THEN [target |-> preview.entry[s].new, rev |-> Reviewed(s)] ELSE dec[s]]
  /\ job' = [s \in Row |-> IF s \in Series THEN [job[s] EXCEPT !.status = "open"] ELSE job[s]]
  /\ preview' = NoPreview /\ newer' = {}
  /\ UNCHANGED <<inventoryVars, lib, temp, art, pub, ref, cfg, me, crashes>>

SeriesNext ==
  \/ ImportNext /\ newer' = newer \cup {s \in preview.of : dec'[s] # dec[s]} /\ UNCHANGED preview
  \/ SeriesPreview \/ SeriesApply

SeriesSpec == SeriesInit /\ [][SeriesNext]_seriesVars

-----------------------------------------------------------------------------
(* Properties. *)

\* A decision on one source that was made after the preview was shown is not overwritten
\* by applying it.
NewerReviewKept == [][SeriesApply => \A s \in newer : dec'[s] = dec[s]]_seriesVars
=============================================================================
