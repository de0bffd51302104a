-------------------------- MODULE TrackerEvidence --------------------------
(***************************************************************************)
(* What the tracker says of the torrents that are downloading: the         *)
(* backfill at the begin of a scheduled cycle, the rows of candidates that *)
(* keep what it learned, and the part of the prune after it that deletes   *)
(* an incomplete torrent before its download is charged                    *)
(* (cli._backfill_tracker_sources, sites/mteam.py,                         *)
(* state.apply_torrent_runtime, policies/cleanup._free_window_decision).   *)
(*                                                                         *)
(* All torrents are of one tracker with an API; the capacity rules of the  *)
(* prune are in SeedPool, and the discovery that ends a cycle and brings    *)
(* new torrents is in Admission.  What the tracker offers is free or not, a *)
(* free window that ends before the next check counts as over, and it may   *)
(* be another between any two answers.  The size of pages, the pacing of    *)
(* requests and the matching of titles are left out.                        *)
(***************************************************************************)
EXTENDS Integers, SequencesExt

CONSTANTS
  Torrent,         \* hashes, in the order of added_at
  MaxRequests,     \* scheduler.tracker_backfill_max_api_requests
  Searches,        \* requests of the fallback for one torrent: its detail, then keywords
  Doubles          \* torrents that a second site lists under the same title

\* The limit lets the fallback finish at least one torrent; the default is 20 requests,
\* and one torrent takes 7 at most.
ASSUME TrackerAssumption ==
  /\ Torrent \subseteq Nat /\ IsFiniteSet(Torrent) /\ Doubles \subseteq Torrent
  /\ {MaxRequests, Searches} \subseteq Nat \ {0}
  /\ Searches <= MaxRequests

VARIABLES
  where,           \* [Torrent -> place of the torrent: not yet added, downloading, done, gone]
  rows,            \* [Torrent -> its rows in candidates but for site "qb"]
  seen,            \* [Torrent -> what the row of a discovery without a hash says]
  older,           \* pairs of torrents with rows: the evidence of the first is the older one
  recent,          \* torrents with evidence of the last six hours
  backoff,         \* a backoff of the tracker is active
  cycle            \* the scheduled cycle

vars == <<where, rows, seen, older, recent, backoff, cycle>>

Place == {"new", "left", "done", "gone"}
Offer == {"free", "over"}
\* What the tracker's row and the second site's say, and which of them is the older one.
Rows   == [own : Offer \cup {"no"}, other : Offer \cup {"no"}, oldest : {"own", "other"}]
NoRows == [own |-> "no", other |-> "no", oldest |-> "own"]

CycleRec == [pc      : {"idle", "batch", "scan", "prune", "discover", "detail", "gate", "add"},
             todo    : {<<>>},                         \* targets not yet looked at: Seq(Torrent)
             open    : SUBSET Torrent,                 \* incomplete when they were listed
             listed  : [Torrent -> Offer \cup {"no"}], \* the snapshot of the user's torrents
             batch   : {"ok", "limited", "down", "error"},
             left    : 0..MaxRequests,                 \* request_budget
             asked   : 0..Searches,                    \* requests for the first of todo
             used    : 0..MaxRequests,                 \* requests after the snapshot
             met     : BOOLEAN,                        \* a backoff is or will be noted
             rest    : {"none", "overlooked", "due"},  \* history: the tracker asked for a rest
             risk    : SUBSET Torrent,                 \* unknown_free_risk_hashes
             doomed  : SUBSET Torrent,                 \* what the prune has deleted
             refused : SUBSET Torrent]                 \* what the downloader did not delete

Unlisted == [t \in Torrent |-> "no"]
Idle == [pc |-> "idle", todo |-> <<>>, open |-> {}, listed |-> Unlisted, batch |-> "ok",
         left |-> MaxRequests, asked |-> 0, used |-> 0, met |-> FALSE, rest |-> "none",
         risk |-> {}, doomed |-> {}, refused |-> {}]

Init ==
  /\ where = [t \in Torrent |-> "new"]
  /\ rows = [t \in Torrent |-> NoRows] /\ seen = [t \in Torrent |-> "no"]
  /\ older = {} /\ recent = {}
  /\ backoff = FALSE /\ cycle = Idle

At(pc) == cycle.pc = pc
Left == {t \in Torrent : where[t] = "left"}
Live == {t \in Torrent : where[t] \in {"left", "done"}}

-----------------------------------------------------------------------------
(* The rows. *)

Own(rs)   == rs.own # "no"
Other(rs) == rs.other # "no"
Known(t)  == Own(rows[t]) \/ Other(rows[t])

\* upsert_candidate: a row that is written becomes the newest.
PutOther(rs, o) == [rs EXCEPT !.other = o, !.oldest = IF Own(rs) THEN "own" ELSE "other"]
PutOnce(rs, o)  ==                \* mutant: INSERT OR IGNORE
  IF Own(rs) THEN rs ELSE [rs EXCEPT !.own = o, !.oldest = IF Other(rs) THEN "other" ELSE "own"]
Put(rs, o)      == [rs EXCEPT !.own = o, !.oldest = IF Other(rs) THEN "other" ELSE "own"]

\* Evidence for a set of torrents at once, in the order of added_at.
Later(ids) ==
  {pair \in older : pair[1] \notin ids /\ pair[2] \notin ids}
    \cup (({t \in Torrent : Known(t)} \ ids) \X ids)
    \cup {pair \in ids \X ids : pair[1] < pair[2]}

\* The row of a discovery gets the hash.
Learned(new) ==
  LET ids == DOMAIN new
  IN  /\ rows' = [t \in Torrent |-> IF t \in ids THEN new[t] ELSE rows[t]]
      /\ seen' = [t \in Torrent |-> IF t \in ids /\ Own(new[t]) THEN "no" ELSE seen[t]]
      /\ older' = Later(ids) /\ recent' = recent \cup ids

\* _persist_live_torrent_candidates: a torrent without a row takes the one of its discovery.
Linked == {t \in Live : ~Known(t) /\ seen[t] # "no"}
LinkLive == Learned([t \in Linked |-> Put(NoRows, seen[t])])

\* apply_torrent_runtime: the first row that says something.
Shown(t) == IF rows[t].oldest = "own" THEN rows[t].own ELSE rows[t].other

-----------------------------------------------------------------------------
(* The backfill. *)

\* _qb_only_backfill_targets: incomplete ones, and those of which nothing is known.
Targets == {t \in Live : where[t] = "left" \/ ~Known(t)}

\* _qb_only_backfill_priority: the risk, then the age of the evidence.  What is left to
\* download, the time and the name order those without evidence: any order.
Staler(t, u) == ~Known(t) \/ <<t, u>> \in older
Ahead(t, u) ==
  \/ t \in Left /\ u \notin Left
  \/ (t \in Left <=> u \in Left) /\ Staler(t, u)
Sorted(set) ==
  {q \in SetToSeqs(set) : \A i, j \in DOMAIN q : i < j => Ahead(q[i], q[j])}

\* The tracker asks for a rest, or asked for it in an earlier cycle.
Rested(c) == [c EXCEPT !.met = TRUE, !.rest = "due"]

\* A cycle begins: a backoff skips the tracker, and not the prune.
Begin ==
  /\ At("idle") /\ ~backoff
  /\ UNCHANGED <<where, backoff>> /\ LinkLive
  /\ \E best \in Sorted(Targets)' :
        cycle' = [Idle EXCEPT !.pc = "batch", !.todo = best, !.open = Left]

BeginAtRest ==
  /\ At("idle") /\ backoff
  /\ cycle' = Rested([Idle EXCEPT !.pc = "prune"])
  /\ UNCHANGED <<where, rows, seen, older, recent, backoff>>

\* A failure of the snapshot is noted only with a target that it does not list.
SnapshotRest(batch, listed) ==
  CASE batch \notin {"limited", "down"}           -> "none"
    [] \A t \in ToSet(cycle.todo) : listed[t] # "no" -> "overlooked"
    [] OTHER                                     -> "due"

\* fetch_user_torrent_snapshot, account after account, of those with targets: a failure
\* keeps the accounts before it, and its own account has a target, too.  What a snapshot
\* says of others than targets is not used.
Batch ==
  /\ At("batch")
  /\ \E batch \in {"ok", "limited", "down", "error"}, listed \in [Torrent -> Offer \cup {"no"}] :
        /\ cycle.todo = <<>> => batch = "ok"
        /\ batch # "ok" /\ Len(cycle.todo) = 1 => listed = Unlisted
        /\ \A t \in Torrent \ ToSet(cycle.todo) : listed[t] = "no"
        /\ cycle' = [cycle EXCEPT !.pc = "scan", !.batch = batch, !.listed = listed,
                                  !.rest = SnapshotRest(batch, listed)]
  /\ UNCHANGED <<where, rows, seen, older, recent, backoff>>

First == Head(cycle.todo)
Scanning == At("scan") /\ cycle.todo # <<>>
InBatch == cycle.listed[First] # "no"

\* A result for the first torrent.  Incomplete ones that the tracker leaves open become
\* a risk; not those that it was not asked for, or could not answer.
Open == {"not_found", "ambiguous", "error", "batch_miss_cached"}
Result(status) ==
  [cycle EXCEPT !.todo = Tail(@), !.asked = 0,
                !.risk = IF status \in Open /\ First \in cycle.open THEN @ \cup {First} ELSE @,
                !.met = @ \/ status \in {"rate_limited", "unavailable"}]

FromBatch ==
  /\ Scanning /\ InBatch
  /\ Learned([t \in {First} |-> Put(rows[t], cycle.listed[t])])
  /\ cycle' = Result("matched")
  /\ UNCHANGED <<where, backoff>>

BatchStatus == CASE cycle.batch = "limited" -> "rate_limited"
                 [] cycle.batch = "down"    -> "unavailable"
                 [] OTHER                   -> cycle.batch

BatchFailed ==
  /\ Scanning /\ ~InBatch /\ cycle.batch # "ok"
  /\ cycle' = Result(BatchStatus)
  /\ UNCHANGED <<where, rows, seen, older, recent, backoff>>

\* The fallback is cooling down, or its requests are used up.
Cooling == Known(First) /\ First \in recent
Cached ==
  /\ Scanning /\ ~InBatch /\ cycle.batch = "ok" /\ cycle.asked = 0 /\ Cooling
  /\ cycle' = Result("batch_miss_cached")
  /\ UNCHANGED <<where, rows, seen, older, recent, backoff>>

Spent == cycle.left = 0
Asking == Scanning /\ ~InBatch /\ cycle.batch = "ok" /\ (cycle.asked > 0 \/ ~Cooling)

Skipped ==
  /\ Asking /\ Spent
  /\ cycle' = Result("skipped")
  /\ UNCHANGED <<where, rows, seen, older, recent, backoff>>

\* _find_mteam_match_for_torrent: a request, and what it brings.
Found ==
  /\ Asking /\ ~Spent
  /\ \E o \in Offer : Learned([t \in {First} |-> Put(rows[t], o)])
  /\ cycle' = [Result("matched") EXCEPT !.left = @ - 1, !.used = @ + 1]
  /\ UNCHANGED <<where, backoff>>

NotFound ==
  /\ Asking /\ ~Spent
  /\ cycle' = [IF cycle.asked + 1 = Searches THEN Result("not_found")
               ELSE [cycle EXCEPT !.asked = @ + 1] EXCEPT !.left = @ - 1, !.used = @ + 1]
  /\ UNCHANGED <<where, rows, seen, older, recent, backoff>>

\* Several titles match, or an error that is neither a limit nor an outage.
Unclear ==
  /\ Asking /\ ~Spent
  /\ cycle' = [Result("ambiguous") EXCEPT !.left = @ - 1, !.used = @ + 1]
  /\ UNCHANGED <<where, rows, seen, older, recent, backoff>>

\* A limit of the tracker or a network failure ends the requests of the cycle.
Fails ==
  /\ Asking /\ ~Spent
  /\ cycle' = Rested([Result("unavailable") EXCEPT !.left = 0, !.used = @ + 1])
  /\ UNCHANGED <<where, rows, seen, older, recent, backoff>>

Scanned ==
  /\ At("scan") /\ cycle.todo = <<>>
  /\ backoff' = (backoff \/ cycle.met)
  /\ cycle' = [cycle EXCEPT !.pc = "prune"]
  /\ UNCHANGED <<where, rows, seen, older, recent>>

-----------------------------------------------------------------------------
(* The prune. *)

\* _free_window_decision: what is incomplete and a risk, or not free any more.  During a
\* backoff the torrents of which nothing is known are a risk, too.
RiskEver == cycle.risk            \* mutant: the backoff alone does not matter
Risk == cycle.risk \cup (IF cycle.met THEN {t \in Left : ~Known(t)} ELSE {})
Doomed == {t \in Left : t \in Risk \/ Shown(t) = "over"}

\* A cycle goes on to the discovery without a backoff and without an error of the prune.
GoesOnAnyway(refused) == refused = {}     \* mutant: the backfill's backoff is forgotten
GoesOn(refused) == ~cycle.met /\ refused = {}

\* Torrents are linked after the rows were applied to them, and before the deletions.
Prune ==
  /\ At("prune")
  /\ LinkLive
  /\ \E refused \in SUBSET Doomed :
        /\ where' = [t \in Torrent |-> IF t \in Doomed \ refused THEN "gone" ELSE where[t]]
        /\ cycle' = [Idle EXCEPT !.pc = IF GoesOn(refused) THEN "discover" ELSE "idle",
                                 !.rest = IF GoesOn(refused) THEN cycle.rest ELSE "none",
                                 !.open = cycle.open, !.listed = cycle.listed,
                                 !.doomed = Doomed \ refused, !.refused = refused]
  /\ UNCHANGED backoff

Backfill ==
  \/ Begin \/ BeginAtRest \/ Batch \/ FromBatch \/ BatchFailed \/ Cached \/ Skipped
  \/ Found \/ NotFound \/ Unclear \/ Fails \/ Scanned \/ Prune

-----------------------------------------------------------------------------
(* Time, the tracker and the downloader. *)

\* Six hours, and the deadline of a backoff.
Cools(t) ==
  /\ t \in recent /\ recent' = recent \ {t}
  /\ UNCHANGED <<where, rows, seen, older, backoff, cycle>>

BackoffEnds ==
  /\ backoff /\ backoff' = FALSE
  /\ UNCHANGED <<where, rows, seen, older, recent, cycle>>

Adds(t) ==
  /\ where[t] = "new" /\ where' = [where EXCEPT ![t] = "left"]
  /\ UNCHANGED <<rows, seen, older, recent, backoff, cycle>>

Completes(t) ==
  /\ where[t] = "left" /\ where' = [where EXCEPT ![t] = "done"]
  /\ UNCHANGED <<rows, seen, older, recent, backoff, cycle>>

World == BackoffEnds \/ \E t \in Torrent : Cools(t) \/ Adds(t) \/ Completes(t)

-----------------------------------------------------------------------------
(* Properties. *)

\* The evidence of two torrents never has the same age.
OneAfterTheOther ==
  LET known == {t \in Torrent : Known(t)}
  IN  /\ older \subseteq known \X known
      /\ \A t, u \in known : t # u => <<t, u>> \in older \/ <<u, t>> \in older
      /\ \A t, u \in known : <<t, u>> \in older => <<u, t>> \notin older
      /\ \A t, u, v \in known : <<t, u>> \in older /\ <<u, v>> \in older => <<t, v>> \in older

\* The types, and the books of one cycle: the requests that were made and those that
\* may still be made never exceed the limit, and only incomplete targets are a risk.
TrackerTypeOK ==
  /\ where \in [Torrent -> Place]
  /\ rows \in [Torrent -> Rows] /\ \A t \in Torrent : Known(t) => Shown(t) # "no"
  /\ seen \in [Torrent -> Offer \cup {"no"}] /\ \A t \in Torrent : Own(rows[t]) => seen[t] = "no"
  /\ OneAfterTheOther
  /\ recent \subseteq {t \in Torrent : Known(t)} /\ backoff \in BOOLEAN
  /\ [cycle EXCEPT !.todo = <<>>] \in CycleRec /\ cycle.todo \in Seq(Torrent)
  /\ cycle.used + cycle.left <= MaxRequests /\ cycle.risk \subseteq cycle.open

\* What the snapshot of this cycle lists as over and is incomplete does not go on, unless
\* the downloader refuses to delete it or the row of a second site calls it free; what it
\* lists as free is not deleted, unless the row of a second site says that it is over.
SnapshotIsActedOn ==
  cycle.pc \in {"discover", "idle"} =>
    \A t \in cycle.open :
      /\ cycle.listed[t] = "over" /\ rows[t].other # "free" =>
           where[t] # "left" \/ t \in cycle.refused
      /\ cycle.listed[t] = "free" /\ rows[t].other # "over" => t \notin cycle.doomed

\* docs/ai/modules/mteam.md: "a batch match refreshes promotion state immediately": the
\* same, whatever the row of a second site says.
BatchMatchIsActedOn ==
  cycle.pc \in {"discover", "idle"} =>
    \A t \in cycle.open :
      /\ cycle.listed[t] = "over" => where[t] # "left" \/ t \in cycle.refused
      /\ cycle.listed[t] = "free" => t \notin cycle.doomed

\* A torrent that downloads without evidence does not stay so: it is found, completes or
\* goes, however many others are never found, and whatever the tracker does.
UnknownEnds ==
  \A t \in Torrent : where[t] = "left" /\ ~Known(t) ~> where[t] # "left" \/ Known(t)
=============================================================================
