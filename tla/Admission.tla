----------------------------- MODULE Admission -----------------------------
(***************************************************************************)
(* The end of a scheduled cycle: the discovery of torrents on the tracker, *)
(* the check of each before its download link is asked for, the gate of    *)
(* the download budget, and the downloads that are added                   *)
(* (cli._run_once_payload, actions/pt.py, actions/qb.enqueue_candidates).  *)
(* With TrackerEvidence, which begins the cycle, it is a whole cycle.      *)
(*                                                                         *)
(* Scores only order the candidates.  The limits of the pool, of the disk  *)
(* and of active downloads work like the one of bytes left, and the prune  *)
(* for capacity is in SeedPool.  A torrent that was added is listed by the *)
(* downloader before anyone lists them again.                              *)
(***************************************************************************)
EXTENDS TrackerEvidence

CONSTANTS
  Size,            \* [Torrent -> its bytes]
  MaxLeft          \* pt_filters.max_total_amount_left_gb

ASSUME AdmissionAssumption == Size \in [Torrent -> Nat \ {0}] /\ MaxLeft \in Nat

VARIABLES
  plan,            \* the discovery of a cycle
  mine             \* torrents this program added

admissionVars == <<where, rows, seen, older, recent, backoff, cycle, plan, mine>>

PlanRec == [fit   : SUBSET Torrent,                  \* accepted, with a download link
            twice : SUBSET Torrent,                  \* accepted from the second site
            asked : 0..Cardinality(Torrent),         \* candidates that were checked
            added : SUBSET Torrent]                  \* decisions of the batch

NoPlan == [fit |-> {}, twice |-> {}, asked |-> 0, added |-> {}]

AdmissionInit == Init /\ plan = NoPlan /\ mine = {}

\* _download_liability_bytes.
Liability(set) == FoldFunctionOnSet(+, 0, Size, set)

-----------------------------------------------------------------------------
(* The discovery. *)

\* MTeamApiResponseError: what asks for a rest, and what does not.
Retriable == {"limited", "down"}
Failure == Retriable \cup {"error"}

\* discover_torrents: all pages of a site's list, of every mode, or an error.
Listing == [Torrent -> Offer \cup {"no"}]
Listed(listing) == {t \in Torrent : listing[t] # "no"}

\* _apply_free_window_safety: free, and for longer than until the next check.
Accepted(listing) == {t \in Torrent : listing[t] = "free"}

\* prune_stale_candidates: of discoveries that are not listed any more, all or none are old.
Stale(listing) == {{}, Torrent \ Listed(listing)}

\* discover_candidates: a candidate that is known is written again; the accepted ones of
\* the tracker are checked next.
Discover ==
  /\ At("discover")
  /\ \E listing \in Listing, twice \in SUBSET (Live \cap Doubles) :
        LET known == {t \in Listed(listing) : Own(rows[t])}
        IN  /\ rows' = [t \in Torrent |->
                         IF t \in known THEN Put(rows[t], listing[t]) ELSE rows[t]]
            /\ \E stale \in Stale(listing) :
                  seen' = [t \in Torrent |-> CASE t \in Listed(listing) \ known -> listing[t]
                                              [] t \in stale -> "no"
                                              [] OTHER -> seen[t]]
            /\ older' = Later(known)
            /\ recent' = recent \cup known
            /\ plan' = [plan EXCEPT !.twice = twice]
            /\ \E best \in SetToSeqs(Accepted(listing)) :
                  cycle' = [Idle EXCEPT !.pc = "detail", !.todo = best, !.rest = cycle.rest]
  /\ UNCHANGED <<where, backoff, mine>>

\* The tracker's own list fails; the other site's does not.
DiscoverFails ==
  /\ At("discover")
  /\ \E twice \in SUBSET (Live \cap Doubles) : plan' = [plan EXCEPT !.twice = twice]
  /\ \E failure \in Failure :
        LET failed == [Idle EXCEPT !.pc = "detail", !.rest = cycle.rest]
        IN  cycle' = IF failure \in Retriable THEN Rested(failed) ELSE failed
  /\ UNCHANGED <<where, rows, seen, older, recent, backoff, mine>>

-----------------------------------------------------------------------------
(* The check of the candidates. *)

\* fetch_torrent_detail and fetch_download_url.
DetailAnswer == Offer \cup {"none"} \cup Failure
LinkAnswer == {"link", "none"} \cup Failure

\* _revalidate_mteam_candidate: the link is asked for only when the detail says free.
Verdict(detail, link) == IF detail = "free" THEN link ELSE detail

Checking == At("detail") /\ cycle.todo # <<>>
Checked == plan.asked + 1

\* resolve_deferred_download_urls: a limit or an outage rejects the candidates that were
\* not checked, and a candidate that is not free any more is written so.
Check ==
  /\ Checking
  /\ \E detail \in DetailAnswer, link \in LinkAnswer :
        LET verdict == Verdict(detail, link)
            over == verdict = "over"
        IN  /\ cycle' = IF verdict \in Retriable THEN Rested([cycle EXCEPT !.todo = <<>>])
                        ELSE [cycle EXCEPT !.todo = Tail(@)]
            /\ plan' = [plan EXCEPT !.asked = Checked,
                                    !.fit = IF verdict = "link" THEN @ \cup {First} ELSE @]
            /\ rows' = IF over /\ Own(rows[First])
                       THEN [rows EXCEPT ![First] = Put(@, "over")] ELSE rows
            /\ seen' = IF over /\ seen[First] # "no" THEN [seen EXCEPT ![First] = "over"] ELSE seen
  /\ UNCHANGED <<where, older, recent, backoff, mine>>

\* The rows of the accepted get their checked values; torrents that are in the downloader
\* are linked, by hash or by title; one whose own row has had a hash is not added again.
Resolved ==
  /\ At("detail") /\ cycle.todo = <<>>
  /\ LET linked(t) == IF t \in Linked \/ t \in plan.fit \cap Live
                      THEN Put(rows[t], IF t \in plan.fit THEN "free" ELSE seen[t])
                      ELSE rows[t]
         doubled(t) == IF t \in plan.twice \cap Live THEN PutOther(linked(t), "free") ELSE linked(t)
     IN  Learned([t \in Linked \cup (Live \cap (plan.fit \cup plan.twice)) |-> doubled(t)])
  /\ plan' = [plan EXCEPT !.fit = {t \in @ \ Live : ~Own(rows[t])}]
  /\ cycle' = [cycle EXCEPT !.pc = "gate"]
  /\ UNCHANGED <<where, backoff, mine>>

-----------------------------------------------------------------------------
(* The downloads. *)

\* _enqueue_candidate_batches: the best first, those that fit with what was planned before.
\* So no other candidate fits beside the batch, and every such batch has its scores.
PlannedAlone(batch) == Liability(Left)      \* mutant: nothing is reserved
Planned(batch) == Liability(Left) + Liability(batch)
Fits(batch, t) == Planned(batch \ {t}) + Size[t] <= MaxLeft
Gate ==
  /\ At("gate")
  /\ \E batch \in SUBSET plan.fit :
        /\ \A t \in plan.fit : t \in batch <=> Fits(batch, t)
        /\ \E best \in SetToSeqs(batch) : cycle' = [cycle EXCEPT !.pc = "add", !.todo = best]
  /\ UNCHANGED <<where, rows, seen, older, recent, backoff, plan, mine>>

Adding == At("add") /\ cycle.todo # <<>>
Taken(t) == where' = [where EXCEPT ![t] = "left"] /\ mine' = mine \cup {t}

\* add_url: the downloader may have the torrent already, from someone else.
Add ==
  /\ Adding
  /\ IF First \in Live THEN UNCHANGED <<where, mine>> ELSE Taken(First)
  /\ cycle' = [cycle EXCEPT !.todo = Tail(@)]
  /\ plan' = [plan EXCEPT !.added = @ \cup {First}]
  /\ UNCHANGED <<rows, seen, older, recent, backoff>>

\* An error ends the batch, whether the downloader took the torrent or not.
AddFails ==
  /\ Adding
  /\ (First \notin Live /\ Taken(First)) \/ UNCHANGED <<where, mine>>
  /\ cycle' = [cycle EXCEPT !.todo = <<>>]
  /\ UNCHANGED <<rows, seen, older, recent, backoff, plan>>

\* _persist_enqueue_state, and the end of the cycle.
Keep ==
  /\ At("add") /\ cycle.todo = <<>>
  /\ Learned([t \in plan.added |-> Put(rows[t], "free")])
  /\ backoff' = (backoff \/ cycle.met)
  /\ cycle' = Idle /\ plan' = NoPlan
  /\ UNCHANGED <<where, mine>>

\* The scheduler dies between two downloads, or before it wrote what it added.
Dies ==
  /\ At("add")
  /\ cycle' = Idle /\ plan' = NoPlan
  /\ UNCHANGED <<where, rows, seen, older, recent, backoff, mine>>

Admit == Discover \/ DiscoverFails \/ Check \/ Resolved \/ Gate \/ Add \/ AddFails \/ Keep

Step == (Backfill /\ UNCHANGED <<plan, mine>>) \/ Admit

AdmissionNext == Step \/ Dies \/ (World /\ UNCHANGED <<plan, mine>>)

\* The scheduler goes on, and a torrent that is to be deleted again and again goes.
Fairness ==
  /\ WF_admissionVars(Step)
  /\ \A t \in Torrent : SF_admissionVars(Prune /\ where'[t] = "gone" /\ UNCHANGED <<plan, mine>>)

AdmissionSpec == AdmissionInit /\ [][AdmissionNext]_admissionVars /\ Fairness

-----------------------------------------------------------------------------
(* Properties. *)

\* The types of the discovery's state: only a cycle that adds has decisions.
AdmissionTypeOK ==
  /\ TrackerTypeOK
  /\ plan \in PlanRec /\ mine \subseteq Torrent
  /\ plan.added # {} => At("add")

\* A step that calls the tracker: the snapshot, a request of the fallback, the list of the
\* discovery, the check of a candidate.
Asks == \/ At("batch") /\ cycle'.pc = "scan" /\ cycle.todo # <<>>
        \/ cycle'.used > cycle.used
        \/ At("discover") /\ cycle'.pc = "detail"
        \/ plan'.asked > plan.asked

\* Once the tracker asks for a rest (in the snapshot, for a torrent, in its list or for a
\* candidate), or when a rest of an earlier cycle lasts, no later call of the cycle goes
\* to it, in this phase or in those that follow.  A snapshot that fails after it listed
\* every target is set apart.
RestIsKept == [][cycle.rest = "due" => ~Asks]_admissionVars

\* docs/ai/modules/mteam.md: "HTTP 429 and service/network failures stop later tracker
\* calls in the cycle": whichever call failed.
FailuresStopCalls == [][cycle.rest # "none" => ~Asks]_admissionVars

\* What this program has added never exceeds the limit of bytes left, whatever batch
\* fails, whatever torrent was taken though its add failed, whenever the scheduler dies.
LimitKept == Liability(mine \cap Left) <= MaxLeft

\* The types, and the limit of bytes left.
AdmissionWithinLimit == AdmissionTypeOK /\ LimitKept
=============================================================================
