-------------------------- MODULE Admission_proofs --------------------------
(***************************************************************************)
(* Theorems about what a scheduled cycle asks of the tracker, for any      *)
(* torrents and sizes and any number of requests.                          *)
(***************************************************************************)
EXTENDS Admission, FiniteSums, SequenceTheorems

Fields == {"pc", "todo", "open", "listed", "batch", "left", "asked", "used", "met",
           "rest", "risk", "doomed", "refused"}
PlanFields == {"fit", "twice", "asked", "added"}

\* The books of a cycle: what was asked, and what may still be asked.
BooksOK ==
  /\ DOMAIN cycle = Fields /\ DOMAIN plan = PlanFields
  /\ cycle.left \in Nat /\ cycle.used \in Nat /\ cycle.used + cycle.left <= MaxRequests
  /\ plan.asked \in Nat
  /\ cycle.risk \subseteq cycle.open
  /\ cycle.met \in BOOLEAN
  /\ At("batch") \/ At("scan") => cycle.todo \in Seq(Torrent)

\* The snapshot failed, and one of the targets it does not list is not yet looked at.
Missed == /\ cycle.batch \in {"limited", "down"}
          /\ \E t \in ToSet(cycle.todo) : cycle.listed[t] = "no"

\* Once a rest is due nothing is left to be asked: the backfill has no snapshot to wait
\* for and no requests, the discovery does not begin, or has no candidates left.
RestOK ==
  cycle.rest = "due" =>
    /\ ~At("batch") /\ ~At("discover")
    /\ At("scan") => (cycle.batch # "ok" \/ Spent) /\ (cycle.met \/ Missed)
    /\ At("prune") => cycle.met
    /\ At("detail") => cycle.todo = <<>>

\* The inductive invariant.
CycleInv == BooksOK /\ RestOK

\* What RestIsKept says of a step.
Rests == cycle.rest = "due" => ~Asks

-----------------------------------------------------------------------------
LEMMA Limits == MaxRequests \in Nat
BY TrackerAssumption

LEMMA InitCycle == AdmissionInit => CycleInv
BY Limits DEF AdmissionInit, Init, Idle, NoPlan, CycleInv, BooksOK, RestOK, Fields, PlanFields, At

\* A result keeps the place and the books, and asks nothing.
LEMMA ResultKeeps ==
  ASSUME DOMAIN cycle = Fields, cycle.met \in BOOLEAN, NEW status
  PROVE  /\ DOMAIN Result(status) = Fields
         /\ Result(status).pc = cycle.pc /\ Result(status).batch = cycle.batch
         /\ Result(status).left = cycle.left /\ Result(status).used = cycle.used
         /\ Result(status).open = cycle.open /\ Result(status).listed = cycle.listed
         /\ Result(status).todo = Tail(cycle.todo) /\ Result(status).rest = cycle.rest
         /\ Result(status).risk \subseteq cycle.risk \cup cycle.open
         /\ Result(status).met = (cycle.met \/ status \in {"rate_limited", "unavailable"})
BY DEF Result, Fields

\* What is not the first of a sequence is in its tail.
LEMMA FirstOrLater ==
  ASSUME NEW q \in Seq(Torrent), q # <<>>
  PROVE  Tail(q) \in Seq(Torrent) /\ ToSet(q) \subseteq {Head(q)} \cup ToSet(Tail(q))
<1>1. /\ Len(q) \in Nat \ {0} /\ DOMAIN q = 1..Len(q) /\ Head(q) = q[1]
      /\ Tail(q) \in Seq(Torrent) /\ DOMAIN Tail(q) = 1..(Len(q) - 1)
      /\ \A i \in 1..(Len(q) - 1) : Tail(q)[i] = q[i + 1]
  OBVIOUS
<1> SUFFICES ASSUME NEW i \in 1..Len(q), i # 1
             PROVE  q[i] \in ToSet(Tail(q))
  BY <1>1 DEF ToSet
<1>2. i - 1 \in 1..(Len(q) - 1) /\ Tail(q)[i - 1] = q[i]
  BY <1>1
<1> QED BY <1>1, <1>2 DEF ToSet

\* A set in some order.
LEMMA InSomeOrder ==
  ASSUME NEW S \in SUBSET Torrent, NEW q \in SetToSeqs(S)
  PROVE  q \in Seq(Torrent) /\ IsInjective(q) /\ ToSet(q) \subseteq S
<1>1. IsFiniteSet(S)
  BY TrackerAssumption, FS_Subset
<1>2. Cardinality(S) \in Nat
  BY <1>1, FS_CardinalityType
<1>3. /\ q \in [1..Cardinality(S) -> S]
      /\ \A i, j \in 1..Cardinality(S) : i # j => q[i] # q[j]
  BY DEF SetToSeqs
<1>4. q \in [1..Cardinality(S) -> Torrent]
  BY <1>3
<1>5. q \in Seq(Torrent)
  BY <1>2, <1>4
<1> QED BY <1>3, <1>5 DEF IsInjective, ToSet

-----------------------------------------------------------------------------
(* The backfill and the prune. *)

\* A torrent is looked at without a request.  The first that the failed snapshot does not
\* list brings the backoff.
LEMMA Looked ==
  ASSUME CycleInv, Scanning, NEW status, cycle' = Result(status), plan' = plan,
         InBatch \/ cycle.batch = "ok" \/ status = BatchStatus
  PROVE  CycleInv' /\ Rests
<1> DEFINE todo == cycle.todo
<1>1. /\ DOMAIN cycle = Fields /\ cycle.met \in BOOLEAN /\ cycle.pc = "scan"
      /\ todo \in Seq(Torrent) /\ todo # <<>>
      /\ cycle.rest = "due" => (cycle.batch # "ok" \/ Spent) /\ (cycle.met \/ Missed)
  BY DEF CycleInv, BooksOK, RestOK, Scanning, At
<1>2. /\ DOMAIN cycle' = Fields /\ cycle'.pc = "scan" /\ cycle'.batch = cycle.batch
      /\ cycle'.left = cycle.left /\ cycle'.used = cycle.used /\ cycle'.open = cycle.open
      /\ cycle'.listed = cycle.listed /\ cycle'.todo = Tail(todo) /\ cycle'.rest = cycle.rest
      /\ cycle'.risk \subseteq cycle.risk \cup cycle.open
      /\ cycle'.met = (cycle.met \/ status \in {"rate_limited", "unavailable"})
  BY <1>1, ResultKeeps
<1>3. Tail(todo) \in Seq(Torrent) /\ ToSet(todo) \subseteq {First} \cup ToSet(Tail(todo))
  BY <1>1, FirstOrLater DEF First
<1>4. BooksOK'
  BY <1>2, <1>3 DEF CycleInv, BooksOK, At
<1>5. Missed /\ ~cycle'.met => Missed'
  <2> SUFFICES ASSUME Missed, ~cycle'.met PROVE Missed'
    OBVIOUS
  <2>1. PICK t \in ToSet(todo) : cycle.listed[t] = "no"
    BY DEF Missed
  <2>2. cycle.batch \in {"limited", "down"} /\ status \notin {"rate_limited", "unavailable"}
    BY <1>2 DEF Missed
  <2>3. InBatch
    BY <2>2 DEF BatchStatus
  <2>4. t \in ToSet(Tail(todo))
    BY <1>3, <2>1, <2>3 DEF InBatch
  <2> QED BY <1>2, <2>1, <2>2, <2>4 DEF Missed
<1>6. cycle'.rest = "due" => (cycle'.batch # "ok" \/ Spent') /\ (cycle'.met \/ Missed')
  BY <1>1, <1>2, <1>5 DEF Spent
<1>7. RestOK'
  BY <1>2, <1>6 DEF RestOK, At
<1>8. Rests
  BY <1>1, <1>2 DEF CycleInv, BooksOK, Rests, Asks, At
<1> QED BY <1>4, <1>7, <1>8 DEF CycleInv

\* A request: no rest is due before it.
LEMMA Requested ==
  ASSUME CycleInv, Asking, ~Spent, plan' = plan,
         NEW now, NEW left \in 0..(cycle.left - 1),
         DOMAIN now = Fields, now.pc = "scan", now.used = cycle.used,
         now.open = cycle.open, now.risk \subseteq cycle.risk \cup cycle.open,
         now.met \in BOOLEAN, now.todo \in Seq(Torrent), now.rest = cycle.rest,
         LET next == [now EXCEPT !.left = left, !.used = @ + 1]
         IN  cycle' = next \/ (left = 0 /\ cycle' = Rested(next))
  PROVE  CycleInv' /\ Rests
<1>1. /\ cycle.pc = "scan" /\ cycle.batch = "ok" /\ cycle.rest # "due"
      /\ cycle.left \in Nat /\ cycle.used \in Nat /\ cycle.used + cycle.left <= MaxRequests
  BY DEF Asking, Scanning, CycleInv, BooksOK, RestOK, At
<1>2. /\ DOMAIN cycle' = Fields /\ cycle'.pc = "scan" /\ cycle'.left = left
      /\ cycle'.used = cycle.used + 1 /\ cycle'.open = cycle.open
      /\ cycle'.risk \subseteq cycle.risk \cup cycle.open
      /\ cycle'.met \in BOOLEAN /\ cycle'.todo \in Seq(Torrent)
      /\ cycle'.rest = "due" => cycle'.met = TRUE /\ cycle'.left = 0
  <2> DEFINE next == [now EXCEPT !.left = left, !.used = @ + 1]
  <2>1. /\ DOMAIN next = Fields /\ next.pc = "scan" /\ next.left = left
        /\ next.used = cycle.used + 1 /\ next.open = cycle.open
        /\ next.risk \subseteq cycle.risk \cup cycle.open
        /\ next.met \in BOOLEAN /\ next.todo \in Seq(Torrent) /\ next.rest = cycle.rest
    BY DEF Fields
  <2>2. cycle' = next \/ (left = 0 /\ cycle' = Rested(next))
    OBVIOUS
  <2> HIDE DEF next
  <2>3. CASE cycle' = next
    BY <1>1, <2>1, <2>3
  <2>4. CASE left = 0 /\ cycle' = Rested(next)
    BY <2>1, <2>4 DEF Rested, Fields
  <2> QED BY <2>2, <2>3, <2>4
<1>3. left \in Nat /\ cycle.used + 1 + left <= MaxRequests
  BY <1>1, Limits
<1>4. BooksOK'
  BY <1>1, <1>2, <1>3 DEF CycleInv, BooksOK, At
<1>5. RestOK'
  BY <1>2 DEF RestOK, Spent, At
<1> QED BY <1>1, <1>4, <1>5 DEF CycleInv, Rests

LEMMA BackfillStep ==
  ASSUME CycleInv, Backfill, UNCHANGED <<plan, mine>>
  PROVE  CycleInv' /\ Rests
<1>0. /\ plan' = plan /\ MaxRequests \in Nat
      /\ DOMAIN cycle = Fields /\ cycle.met \in BOOLEAN
      /\ At("scan") => cycle.todo \in Seq(Torrent)
  BY Limits DEF CycleInv, BooksOK
<1>1. CASE Begin
  <2>1. PICK best \in Sorted(Targets)' :
          cycle' = [Idle EXCEPT !.pc = "batch", !.todo = best, !.open = Left]
    BY <1>1 DEF Begin
  <2>2. best \in Seq(Torrent)
    <3>1. Targets' \in SUBSET Torrent /\ best \in SetToSeqs(Targets')
      BY <2>1 DEF Targets, Live, Sorted
    <3> QED BY <3>1, InSomeOrder
  <2>3. cycle.pc = "idle"
    BY <1>1 DEF Begin, At
  <2> HIDE DEF Left
  <2>4. BooksOK' /\ cycle'.rest # "due" /\ cycle'.used = 0
    BY <1>0, <2>1, <2>2 DEF CycleInv, BooksOK, Idle, Fields, At
  <2> QED BY <1>0, <2>3, <2>4 DEF CycleInv, BooksOK, RestOK, Rests, Asks, At
<1>2. CASE BeginAtRest
  <2>1. cycle.pc = "idle" /\ cycle' = Rested([Idle EXCEPT !.pc = "prune"])
    BY <1>2 DEF BeginAtRest, At
  <2>2. /\ BooksOK' /\ cycle'.pc = "prune" /\ cycle'.met = TRUE /\ cycle'.used = 0
    BY <1>0, <2>1 DEF CycleInv, BooksOK, Rested, Idle, Fields, At
  <2> QED BY <1>0, <2>1, <2>2 DEF CycleInv, BooksOK, RestOK, Rests, Asks, At
<1>3. CASE Batch
  <2>1. PICK batch, listed :
          cycle' = [cycle EXCEPT !.pc = "scan", !.batch = batch, !.listed = listed,
                                 !.rest = SnapshotRest(batch, listed)]
    BY <1>3 DEF Batch
  <2>2. cycle.pc = "batch" /\ cycle.rest # "due"
    BY <1>3 DEF Batch, CycleInv, RestOK, At
  <2>3. /\ DOMAIN cycle' = Fields /\ cycle'.pc = "scan" /\ cycle'.batch = batch
        /\ cycle'.listed = listed /\ cycle'.rest = SnapshotRest(batch, listed)
        /\ cycle'.todo = cycle.todo /\ cycle'.left = cycle.left /\ cycle'.used = cycle.used
        /\ cycle'.open = cycle.open /\ cycle'.risk = cycle.risk /\ cycle'.met = cycle.met
    BY <1>0, <2>1 DEF Fields
  <2>4. BooksOK'
    BY <1>0, <2>2, <2>3 DEF CycleInv, BooksOK, At
  <2>5. cycle'.rest = "due" => cycle'.batch # "ok" /\ Missed'
    BY <2>3 DEF SnapshotRest, Missed
  <2>6. RestOK'
    BY <2>3, <2>5 DEF RestOK, At
  <2> QED BY <2>2, <2>4, <2>6 DEF CycleInv, Rests
<1>4. CASE FromBatch
  <2>1. Scanning /\ InBatch /\ cycle' = Result("matched")
    BY <1>4 DEF FromBatch
  <2> QED BY <1>0, <2>1, Looked
<1>5. CASE BatchFailed
  <2>1. Scanning /\ cycle' = Result(BatchStatus)
    BY <1>5 DEF BatchFailed
  <2> QED BY <1>0, <2>1, Looked
<1>6. CASE Cached
  <2>1. Scanning /\ cycle.batch = "ok" /\ cycle' = Result("batch_miss_cached")
    BY <1>6 DEF Cached
  <2> QED BY <1>0, <2>1, Looked
<1>7. CASE Skipped
  <2>1. Scanning /\ cycle.batch = "ok" /\ cycle' = Result("skipped")
    BY <1>7 DEF Skipped, Asking
  <2> QED BY <1>0, <2>1, Looked
<1>8. CASE Found \/ NotFound \/ Unclear \/ Fails
  <2>1. /\ Asking /\ ~Spent /\ cycle.pc = "scan" /\ cycle.todo \in Seq(Torrent)
        /\ cycle.todo # <<>>
    BY <1>0, <1>8 DEF Found, NotFound, Unclear, Fails, Asking, Scanning, At
  <2>2. cycle.left \in Nat /\ cycle.left # 0
    BY <2>1 DEF CycleInv, BooksOK, Spent
  <2>3. Tail(cycle.todo) \in Seq(Torrent)
    BY <2>1
  <2>4. \A status : LET now == Result(status)
                    IN  /\ DOMAIN now = Fields /\ now.pc = "scan" /\ now.used = cycle.used
                        /\ now.open = cycle.open /\ now.left = cycle.left
                        /\ now.risk \subseteq cycle.risk \cup cycle.open /\ now.met \in BOOLEAN
                        /\ now.todo \in Seq(Torrent) /\ now.rest = cycle.rest
    BY <1>0, <2>1, <2>3, ResultKeeps
  <2>5. LET now == [cycle EXCEPT !.asked = @ + 1]
        IN  /\ DOMAIN now = Fields /\ now.pc = "scan" /\ now.used = cycle.used
            /\ now.open = cycle.open /\ now.left = cycle.left
            /\ now.risk \subseteq cycle.risk \cup cycle.open /\ now.met \in BOOLEAN
            /\ now.todo \in Seq(Torrent) /\ now.rest = cycle.rest
    BY <1>0, <2>1 DEF Fields
  <2>6. 0 \in 0..(cycle.left - 1) /\ cycle.left - 1 \in 0..(cycle.left - 1)
    BY <2>2
  <2>7. CASE Fails
    <3> DEFINE now == Result("unavailable")
    <3>1. cycle' = Rested([now EXCEPT !.left = 0, !.used = @ + 1])
      BY <2>7 DEF Fails
    <3> HIDE DEF now
    <3>2. /\ DOMAIN now = Fields /\ now.pc = "scan" /\ now.used = cycle.used
          /\ now.open = cycle.open /\ now.left = cycle.left
          /\ now.risk \subseteq cycle.risk \cup cycle.open /\ now.met \in BOOLEAN
          /\ now.todo \in Seq(Torrent) /\ now.rest = cycle.rest
      BY <2>4 DEF now
    <3> QED BY <1>0, <2>1, <2>6, <3>1, <3>2, Requested
  <2>8. CASE Found \/ NotFound \/ Unclear
    <3>1. PICK now : /\ DOMAIN now = Fields /\ now.pc = "scan" /\ now.used = cycle.used
                     /\ now.open = cycle.open /\ now.left = cycle.left
                     /\ now.risk \subseteq cycle.risk \cup cycle.open /\ now.met \in BOOLEAN
                     /\ now.todo \in Seq(Torrent) /\ now.rest = cycle.rest
                     /\ cycle' = [now EXCEPT !.left = @ - 1, !.used = @ + 1]
      <4>1. CASE Found
        BY <2>4, <4>1 DEF Found
      <4>2. CASE NotFound
        <5>1. \/ cycle' = [Result("not_found") EXCEPT !.left = @ - 1, !.used = @ + 1]
              \/ cycle' = [[cycle EXCEPT !.asked = @ + 1] EXCEPT !.left = @ - 1, !.used = @ + 1]
          BY <4>2 DEF NotFound
        <5> QED BY <2>4, <2>5, <5>1
      <4>3. CASE Unclear
        BY <2>4, <4>3 DEF Unclear
      <4> QED BY <2>8, <4>1, <4>2, <4>3
    <3>2. cycle' = [now EXCEPT !.left = cycle.left - 1, !.used = @ + 1]
      BY <3>1
    <3> QED BY <1>0, <2>1, <2>6, <3>1, <3>2, Requested
  <2> QED BY <1>8, <2>7, <2>8
<1>9. CASE Scanned
  <2>1. cycle.pc = "scan" /\ cycle.todo = <<>> /\ cycle' = [cycle EXCEPT !.pc = "prune"]
    BY <1>9 DEF Scanned, At
  <2>2. ~Missed
    BY <2>1 DEF Missed, ToSet
  <2> QED BY <1>0, <2>1, <2>2 DEF Fields, CycleInv, BooksOK, RestOK, Rests, Asks, At
<1>10. CASE Prune
  <2>1. PICK refused \in SUBSET Doomed :
          cycle' = [Idle EXCEPT !.pc = IF GoesOn(refused) THEN "discover" ELSE "idle",
                                !.rest = IF GoesOn(refused) THEN cycle.rest ELSE "none",
                                !.open = cycle.open, !.listed = cycle.listed,
                                !.doomed = Doomed \ refused, !.refused = refused]
    BY <1>10 DEF Prune
  <2>2. cycle.pc = "prune" /\ (cycle.rest = "due" => ~GoesOn(refused))
    BY <1>10 DEF Prune, CycleInv, RestOK, GoesOn, At
  <2> HIDE DEF Doomed
  <2>3. BooksOK' /\ cycle'.used = 0 /\ cycle'.pc \in {"discover", "idle"} /\ cycle'.rest # "due"
    BY <1>0, <2>1, <2>2 DEF CycleInv, BooksOK, Idle, Fields, At
  <2> QED BY <1>0, <2>2, <2>3 DEF CycleInv, BooksOK, RestOK, Rests, Asks, At
<1> QED BY <1>1, <1>2, <1>3, <1>4, <1>5, <1>6, <1>7, <1>8, <1>9, <1>10 DEF Backfill

-----------------------------------------------------------------------------
(* The discovery and the downloads. *)

LEMMA AdmitStep ==
  ASSUME CycleInv, Admit
  PROVE  CycleInv' /\ Rests
<1> USE DEF CycleInv, BooksOK, RestOK, Rests, Asks, At, Spent
<1>0. MaxRequests \in Nat
  BY Limits
<1>1. CASE Discover
  <2>1. /\ cycle.pc = "discover"
        /\ \E twice : plan' = [plan EXCEPT !.twice = twice]
        /\ \E todo : cycle' = [Idle EXCEPT !.pc = "detail", !.todo = todo, !.rest = cycle.rest]
    BY <1>1 DEF Discover
  <2> QED BY <1>0, <2>1 DEF Idle, Fields, PlanFields
<1>2. CASE DiscoverFails
  <2> DEFINE failed == [Idle EXCEPT !.pc = "detail", !.rest = cycle.rest]
  <2>1. /\ cycle.pc = "discover" /\ cycle.rest # "due"
        /\ \E twice : plan' = [plan EXCEPT !.twice = twice]
        /\ cycle' = Rested(failed) \/ cycle' = failed
    BY <1>2 DEF DiscoverFails
  <2>2. /\ DOMAIN cycle' = Fields /\ cycle'.pc = "detail" /\ cycle'.todo = <<>>
        /\ cycle'.left = MaxRequests /\ cycle'.used = 0 /\ cycle'.risk = {}
        /\ cycle'.open = {} /\ cycle'.met \in BOOLEAN
    BY <2>1 DEF Rested, Idle, Fields
  <2>3. DOMAIN plan' = PlanFields /\ plan'.asked = plan.asked
    BY <2>1 DEF PlanFields
  <2> QED BY <1>0, <2>1, <2>2, <2>3
<1>3. CASE Check
  <2>1. /\ cycle.pc = "detail" /\ cycle.todo # <<>>
        /\ \/ cycle' = Rested([cycle EXCEPT !.todo = <<>>])
           \/ cycle' = [cycle EXCEPT !.todo = Tail(@)]
        /\ \E fit : plan' = [plan EXCEPT !.asked = Checked, !.fit = fit]
    BY <1>3 DEF Check, Checking
  <2>2. cycle.rest # "due"
    BY <2>1
  <2>3. /\ DOMAIN cycle' = Fields /\ cycle'.pc = "detail"
        /\ cycle'.left = cycle.left /\ cycle'.used = cycle.used
        /\ cycle'.risk = cycle.risk /\ cycle'.open = cycle.open /\ cycle'.met \in BOOLEAN
        /\ cycle'.rest # "due" \/ cycle'.todo = <<>>
    BY <2>1, <2>2 DEF Rested, Fields
  <2>4. DOMAIN plan' = PlanFields /\ plan'.asked = plan.asked + 1
    BY <2>1 DEF Checked, PlanFields
  <2>5. BooksOK'
    BY <1>0, <2>3, <2>4
  <2>6. RestOK'
    BY <2>3
  <2> QED BY <2>2, <2>5, <2>6
<1>4. CASE Resolved
  <2>1. /\ cycle.pc = "detail"
        /\ \E fit : plan' = [plan EXCEPT !.fit = fit]
        /\ cycle' = [cycle EXCEPT !.pc = "gate"]
    BY <1>4 DEF Resolved
  <2> QED BY <1>0, <2>1 DEF Fields, PlanFields
<1>5. CASE Gate
  <2>1. /\ cycle.pc = "gate" /\ plan' = plan
        /\ \E todo : cycle' = [cycle EXCEPT !.pc = "add", !.todo = todo]
    BY <1>5 DEF Gate
  <2> QED BY <1>0, <2>1 DEF Fields
<1>6. CASE Add \/ AddFails
  <2>1. /\ cycle.pc = "add"
        /\ \E added : plan' = [plan EXCEPT !.added = added] \/ plan' = plan
        /\ \E todo : cycle' = [cycle EXCEPT !.todo = todo]
    BY <1>6 DEF Add, AddFails, Adding
  <2> QED BY <1>0, <2>1 DEF Fields, PlanFields
<1>7. CASE Keep
  BY <1>0, <1>7 DEF Keep, Idle, NoPlan, Fields, PlanFields
<1> QED BY <1>1, <1>2, <1>3, <1>4, <1>5, <1>6, <1>7 DEF Admit

-----------------------------------------------------------------------------
LEMMA NextCycle ==
  ASSUME CycleInv, [AdmissionNext]_admissionVars
  PROVE  CycleInv' /\ Rests
<1>1. CASE Step
  BY <1>1, BackfillStep, AdmitStep DEF Step
<1>2. CASE Dies
  BY <1>2, Limits DEF Dies, Idle, NoPlan, CycleInv, BooksOK, RestOK, Rests, Asks, At, Fields,
                      PlanFields
<1>3. CASE (World /\ UNCHANGED <<plan, mine>>) \/ UNCHANGED admissionVars
  <2>1. cycle' = cycle /\ plan' = plan
    BY <1>3 DEF World, BackoffEnds, Cools, Adds, Completes, admissionVars
  <2> QED BY <2>1 DEF CycleInv, BooksOK, RestOK, Rests, Asks, At, Spent, Missed
<1> QED BY <1>1, <1>2, <1>3 DEF AdmissionNext

\* What a scheduled cycle knows of its requests and of the tracker's limits
\* (cli._backfill_tracker_sources, cli._run_once_payload).
THEOREM CycleInvariant == AdmissionSpec => []CycleInv
<1>1. CycleInv /\ [AdmissionNext]_admissionVars => CycleInv'
  BY NextCycle
<1> QED BY InitCycle, <1>1, PTL DEF AdmissionSpec

\* The fallback never makes more requests in a cycle than the operator allows, and its
\* searches leave only incomplete torrents a risk
\* (scheduler.tracker_backfill_max_api_requests).
THEOREM RequestsWithinLimit ==
  AdmissionSpec => [](cycle.used <= MaxRequests /\ cycle.risk \subseteq cycle.open)
<1>1. CycleInv => cycle.used <= MaxRequests /\ cycle.risk \subseteq cycle.open
  BY Limits DEF CycleInv, BooksOK
<1> QED BY CycleInvariant, <1>1, PTL

\* Once the tracker asks for a rest, or while one of an earlier cycle lasts, no later call
\* of the cycle goes to it: no snapshot, no request of the fallback, no discovery and no
\* check of a candidate (cli.schedule_run, cli._backfill_tracker_sources,
\* actions/pt.resolve_deferred_download_urls).
THEOREM RestIsKeptHolds == AdmissionSpec => RestIsKept
<1>1. CycleInv /\ [AdmissionNext]_admissionVars => [cycle.rest = "due" => ~Asks]_admissionVars
  BY NextCycle DEF Rests
<1> QED BY <1>1, CycleInvariant, PTL DEF AdmissionSpec, RestIsKept

-----------------------------------------------------------------------------
(* The downloads. *)

LEMMA Liabilities ==
  ASSUME NEW S \in SUBSET Torrent
  PROVE  /\ Liability(S) \in Nat
         /\ S = {} => Liability(S) = 0
         /\ \A t \in S : Liability(S) = Size[t] + Liability(S \ {t})
         /\ \A T \in SUBSET S : Liability(T) <= Liability(S)
<1>1. IsFiniteSet(S) /\ Size \in [Torrent -> Nat] /\ \A T : Liability(T) = SumOf(Size, T)
  BY TrackerAssumption, AdmissionAssumption, FS_Subset DEF Liability, SumOf
<1>2. Liability(S) \in Nat
  BY <1>1, SumNat
<1>3. S = {} => Liability(S) = 0
  BY <1>1, SumStep
<1>4. \A t \in S : Liability(S) = Size[t] + Liability(S \ {t})
  BY <1>1, SumRemove
<1>5. \A T \in SUBSET S : Liability(T) <= Liability(S)
  BY <1>1, SumSubset
<1> QED BY <1>2, <1>3, <1>4, <1>5

LEMMA OneMore ==
  ASSUME NEW S \in SUBSET Torrent, NEW t \in Torrent
  PROVE  Liability(S \cup {t}) <= Liability(S) + Size[t]
<1>1. S \cup {t} \in SUBSET Torrent /\ S \ {t} \in SUBSET Torrent /\ (S \cup {t}) \ {t} = S \ {t}
  OBVIOUS
<1>2. Size[t] \in Nat
  BY AdmissionAssumption
<1>3. Liability(S \cup {t}) = Size[t] + Liability(S \ {t})
  <2>1. \A u \in S \cup {t} : Liability(S \cup {t}) = Size[u] + Liability((S \cup {t}) \ {u})
    BY <1>1, Liabilities
  <2> QED BY <1>1, <2>1
<1>4. Liability(S \ {t}) <= Liability(S) /\ Liability(S \ {t}) \in Nat /\ Liability(S) \in Nat
  BY <1>1, Liabilities
<1> QED BY <1>2, <1>3, <1>4

LEMMA TheRest ==
  ASSUME NEW q \in Seq(Torrent), IsInjective(q), q # <<>>
  PROVE  /\ Head(q) \in ToSet(q) /\ Head(q) \in Torrent /\ ToSet(q) \in SUBSET Torrent
         /\ Tail(q) \in Seq(Torrent) /\ IsInjective(Tail(q))
         /\ ToSet(Tail(q)) \subseteq ToSet(q) \ {Head(q)}
<1>1. /\ Len(q) \in Nat \ {0} /\ DOMAIN q = 1..Len(q) /\ \A i \in 1..Len(q) : q[i] \in Torrent
      /\ Head(q) = q[1]
  OBVIOUS
<1>2. /\ Tail(q) \in Seq(Torrent) /\ Len(Tail(q)) = Len(q) - 1
      /\ DOMAIN Tail(q) = 1..(Len(q) - 1)
      /\ \A i \in 1..(Len(q) - 1) : Tail(q)[i] = q[i + 1]
  BY <1>1
<1>3. \A i, j \in 1..Len(q) : q[i] = q[j] => i = j
  BY <1>1 DEF IsInjective
<1>4. IsInjective(Tail(q))
  <2> SUFFICES ASSUME NEW i \in 1..(Len(q) - 1), NEW j \in 1..(Len(q) - 1),
                      Tail(q)[i] = Tail(q)[j]
               PROVE  i = j
    BY <1>2 DEF IsInjective
  <2>1. i + 1 \in 1..Len(q) /\ j + 1 \in 1..Len(q)
    BY <1>1
  <2>2. i + 1 = j + 1
    BY <1>2, <1>3, <2>1
  <2> QED BY <2>2
<1>5. ToSet(Tail(q)) \subseteq ToSet(q) \ {Head(q)}
  <2> SUFFICES ASSUME NEW i \in 1..(Len(q) - 1)
               PROVE  Tail(q)[i] \in ToSet(q) /\ Tail(q)[i] # Head(q)
    BY <1>2 DEF ToSet
  <2>1. i + 1 \in 1..Len(q) /\ 1 \in 1..Len(q) /\ i + 1 # 1
    BY <1>1
  <2> QED BY <1>1, <1>2, <1>3, <2>1 DEF ToSet
<1>6. Head(q) \in ToSet(q) /\ ToSet(q) \in SUBSET Torrent
  BY <1>1 DEF ToSet
<1> QED BY <1>1, <1>2, <1>4, <1>5, <1>6

\* The torrents, and the candidates in hand.
HandOK ==
  /\ where \in [Torrent -> Place] /\ mine \in SUBSET Torrent
  /\ \A t \in mine : where[t] # "new"
  /\ plan.fit \subseteq Torrent
  /\ At("detail") \/ At("add") => cycle.todo \in Seq(Torrent)

\* There is room for what is still to be added.
RoomOK ==
  At("add") =>
    /\ IsInjective(cycle.todo)
    /\ Liability(mine \cap Left) + Liability(ToSet(cycle.todo)) <= MaxLeft

\* The inductive invariant of the limit.
LimitInv == CycleInv /\ HandOK /\ RoomOK /\ LimitKept

LEMMA InitLimit == AdmissionInit => LimitInv
<1> SUFFICES ASSUME AdmissionInit PROVE LimitInv
  OBVIOUS
<1>1. mine \cap Left = {} /\ {} \in SUBSET Torrent /\ MaxLeft \in Nat
  BY AdmissionAssumption DEF AdmissionInit
<1>2. Liability(mine \cap Left) = 0
  BY <1>1, Liabilities
<1>3. LimitKept
  BY <1>1, <1>2 DEF LimitKept
<1>4. HandOK /\ RoomOK
  BY DEF AdmissionInit, Init, Idle, NoPlan, HandOK, RoomOK, At, Place
<1> QED BY <1>3, <1>4, InitCycle DEF LimitInv

\* Torrents of ours that complete or go leave more room.
LEMMA Leaves ==
  ASSUME LimitInv, mine' = mine, where' \in [Torrent -> Place],
         \A t \in mine : where'[t] = "left" => where[t] = "left",
         cycle'.pc = "add" => cycle.pc = "add" /\ cycle'.todo = cycle.todo
  PROVE  RoomOK' /\ LimitKept'
<1>1. mine \cap Left \in SUBSET Torrent /\ (mine \cap Left)' \subseteq mine \cap Left
  BY DEF LimitInv, HandOK, Left
<1>2. /\ Liability((mine \cap Left)') <= Liability(mine \cap Left)
      /\ Liability((mine \cap Left)') \in Nat /\ Liability(mine \cap Left) \in Nat
  BY <1>1, Liabilities
<1>3. MaxLeft \in Nat
  BY AdmissionAssumption
<1>4. LimitKept'
  <2>1. Liability(mine \cap Left) <= MaxLeft
    BY DEF LimitInv, LimitKept
  <2>2. Liability((mine \cap Left)') <= MaxLeft
    BY <1>2, <1>3, <2>1
  <2> QED BY <2>2 DEF LimitKept
<1>5. CASE cycle'.pc = "add"
  <2>1. ToSet(cycle.todo) \in SUBSET Torrent
    BY <1>5 DEF LimitInv, HandOK, At, ToSet
  <2>2. Liability(ToSet(cycle.todo)) \in Nat
    BY <2>1, Liabilities
  <2>3. /\ IsInjective(cycle.todo) /\ cycle'.todo = cycle.todo
        /\ Liability(mine \cap Left) + Liability(ToSet(cycle.todo)) <= MaxLeft
    BY <1>5 DEF LimitInv, RoomOK, At
  <2>4. Liability((mine \cap Left)') + Liability(ToSet(cycle.todo)) <= MaxLeft
    BY <1>2, <1>3, <2>2, <2>3
  <2>5. RoomOK'
    BY <2>3, <2>4 DEF RoomOK
  <2> QED BY <1>4, <2>5
<1>6. CASE cycle'.pc # "add"
  BY <1>4, <1>6 DEF RoomOK, At
<1> QED BY <1>5, <1>6

\* The backfill and the prune stay among their places.
LEMMA BackfillPlaces ==
  ASSUME CycleInv, Backfill
  PROVE  /\ cycle.pc \in {"idle", "batch", "scan", "prune"}
         /\ cycle'.pc \in {"idle", "batch", "scan", "prune", "discover"}
<1>6. cycle.pc \in {"idle", "batch", "scan", "prune"}
  BY DEF Backfill, Begin, BeginAtRest, Batch, FromBatch, BatchFailed, Cached, Skipped, Found,
         NotFound, Unclear, Fails, Scanned, Prune, Asking, Scanning, At
<1> SUFFICES cycle'.pc \in {"idle", "batch", "scan", "prune", "discover"}
  BY <1>6
<1>0. DOMAIN cycle = Fields /\ cycle.met \in BOOLEAN
  BY DEF CycleInv, BooksOK
<1>1. CASE Begin \/ BeginAtRest
  BY <1>1 DEF Begin, BeginAtRest, Rested, Idle
<1>2. CASE Batch \/ Scanned
  <2>1. CASE Batch
    BY <1>0, <2>1 DEF Batch, Fields
  <2>2. CASE Scanned
    BY <1>0, <2>2 DEF Scanned, Fields
  <2> QED BY <1>2, <2>1, <2>2
<1>3. CASE FromBatch \/ BatchFailed \/ Cached \/ Skipped
  <2>1. cycle.pc = "scan" /\ \E status : cycle' = Result(status)
    BY <1>3 DEF FromBatch, BatchFailed, Cached, Skipped, Asking, Scanning, At
  <2> QED BY <1>0, <2>1, ResultKeeps
<1>4. CASE Found \/ NotFound \/ Unclear \/ Fails
  <2>1. /\ cycle.pc = "scan"
        /\ \E now, left, used : now.pc = "scan" /\ DOMAIN now = Fields
             /\ cycle' = [now EXCEPT !.left = left, !.used = used]
    <3>1. cycle.pc = "scan"
      BY <1>4 DEF Found, NotFound, Unclear, Fails, Asking, Scanning, At
    <3>2. \A status : Result(status).pc = "scan" /\ DOMAIN Result(status) = Fields
      BY <1>0, <3>1, ResultKeeps
    <3>3. LET again == [cycle EXCEPT !.asked = @ + 1]
          IN  again.pc = "scan" /\ DOMAIN again = Fields
      BY <1>0, <3>1 DEF Fields
    <3>4. CASE Found
      BY <3>1, <3>2, <3>4 DEF Found
    <3>5. CASE NotFound
      BY <3>1, <3>2, <3>3, <3>5 DEF NotFound
    <3>6. CASE Unclear
      BY <3>1, <3>2, <3>6 DEF Unclear
    <3>7. CASE Fails
      <4> DEFINE now == [Result("unavailable") EXCEPT !.met = TRUE, !.rest = "due"]
      <4>1. now.pc = "scan" /\ DOMAIN now = Fields
        BY <3>2 DEF Fields
      <4>2. cycle' = [now EXCEPT !.left = 0, !.used = Result("unavailable").used + 1]
        BY <3>2, <3>7 DEF Fails, Rested, Fields
      <4> HIDE DEF now
      <4> QED BY <3>1, <4>1, <4>2
    <3> QED BY <1>4, <3>4, <3>5, <3>6, <3>7
  <2> QED BY <2>1 DEF Fields
<1>5. CASE Prune
  <2>1. PICK refused \in SUBSET Doomed :
          cycle'.pc = IF GoesOn(refused) THEN "discover" ELSE "idle"
    BY <1>5 DEF Prune, Idle
  <2> QED BY <2>1
<1> QED BY <1>1, <1>2, <1>3, <1>4, <1>5 DEF Backfill

LEMMA BackfillLimit ==
  ASSUME LimitInv, Backfill, UNCHANGED <<plan, mine>>
  PROVE  LimitInv'
<1>1. CycleInv'
  BY BackfillStep DEF LimitInv
<1>2. cycle'.pc \in {"idle", "batch", "scan", "prune", "discover"}
  BY BackfillPlaces DEF LimitInv
<1>3. /\ where' \in [Torrent -> Place]
      /\ \A t \in Torrent : where'[t] = where[t] \/ where'[t] = "gone"
  <2>0. where \in [Torrent -> Place]
    BY DEF LimitInv, HandOK
  <2>1. CASE Prune
    <3>1. PICK going : where' = [t \in Torrent |-> IF t \in going THEN "gone" ELSE where[t]]
      BY <2>1 DEF Prune
    <3> QED BY <2>0, <3>1 DEF Place
  <2>2. CASE ~Prune
    <3>1. where' = where
      BY <2>2 DEF Backfill, Begin, BeginAtRest, Batch, FromBatch, BatchFailed, Cached, Skipped,
                  Found, NotFound, Unclear, Fails, Scanned
    <3> QED BY <2>0, <3>1
  <2> QED BY <2>1, <2>2
<1>4. HandOK'
  BY <1>2, <1>3 DEF LimitInv, HandOK, At
<1>5. RoomOK' /\ LimitKept'
  BY <1>2, <1>3, Leaves DEF LimitInv, HandOK
<1> QED BY <1>1, <1>4, <1>5 DEF LimitInv

\* One torrent that is added takes the room that was kept for it.
LEMMA Takes ==
  ASSUME LimitInv, Adding, cycle'.pc = "add", DOMAIN plan' = PlanFields, plan'.fit = plan.fit,
         (First \notin Live /\ Taken(First)) \/ UNCHANGED <<where, mine>>,
         cycle'.todo = Tail(cycle.todo) \/ cycle'.todo = <<>>
  PROVE  HandOK' /\ RoomOK' /\ LimitKept'
<1>1. /\ cycle.todo \in Seq(Torrent) /\ IsInjective(cycle.todo) /\ cycle.todo # <<>>
      /\ Liability(mine \cap Left) + Liability(ToSet(cycle.todo)) <= MaxLeft
      /\ where \in [Torrent -> Place] /\ mine \in SUBSET Torrent /\ plan.fit \subseteq Torrent
      /\ \A t \in mine : where[t] # "new"
  BY DEF LimitInv, HandOK, RoomOK, Adding, At
<1>2. /\ First \in ToSet(cycle.todo) /\ First \in Torrent /\ ToSet(cycle.todo) \in SUBSET Torrent
      /\ Tail(cycle.todo) \in Seq(Torrent) /\ IsInjective(Tail(cycle.todo))
      /\ ToSet(Tail(cycle.todo)) \subseteq ToSet(cycle.todo) \ {First}
  BY <1>1, TheRest DEF First
<1>3. /\ cycle'.todo \in Seq(Torrent) /\ IsInjective(cycle'.todo)
      /\ ToSet(cycle'.todo) \subseteq ToSet(cycle.todo) \ {First}
  <2>1. CASE cycle'.todo = Tail(cycle.todo)
    BY <1>2, <2>1
  <2>2. CASE cycle'.todo = <<>>
    <3>1. /\ cycle'.todo \in Seq(Torrent) /\ DOMAIN cycle'.todo = {}
      BY <2>2
    <3> QED BY <3>1 DEF IsInjective, ToSet
  <2> QED BY <2>1, <2>2
<1>4. /\ where' \in [Torrent -> Place] /\ mine' \in SUBSET Torrent
      /\ \A t \in mine' : where'[t] # "new"
      /\ (mine \cap Left)' \subseteq (mine \cap Left) \cup {First}
  BY <1>1, <1>2 DEF Taken, Left, Place
<1>5. HandOK'
  BY <1>1, <1>3, <1>4 DEF HandOK
<1>6. MaxLeft \in Nat /\ Size[First] \in Nat
  BY <1>2, AdmissionAssumption
<1> DEFINE ours == mine \cap Left
           todo == ToSet(cycle.todo)
           rest == ToSet(cycle'.todo)
<1>7. /\ ours \in SUBSET Torrent /\ ours \cup {First} \in SUBSET Torrent /\ ours' \in SUBSET Torrent
      /\ todo \in SUBSET Torrent /\ todo \ {First} \in SUBSET Torrent /\ rest \in SUBSET Torrent
      /\ rest \in SUBSET (todo \ {First}) /\ First \in todo
      /\ ours' \in SUBSET (ours \cup {First})
  BY <1>1, <1>2, <1>3, <1>4 DEF Left
<1>8. Liability(ours) + Liability(todo) <= MaxLeft
  BY <1>1
<1> HIDE DEF ours, todo, rest
<1>9. /\ Liability(ours') <= Liability(ours \cup {First})
      /\ Liability(ours \cup {First}) <= Liability(ours) + Size[First]
      /\ Liability(rest) <= Liability(todo \ {First})
      /\ Liability(todo) = Size[First] + Liability(todo \ {First})
  BY <1>2, <1>7, Liabilities, OneMore
<1>10. /\ Liability(ours') \in Nat /\ Liability(ours) \in Nat /\ Liability(todo) \in Nat
       /\ Liability(rest) \in Nat /\ Liability(todo \ {First}) \in Nat
       /\ Liability(ours \cup {First}) \in Nat
  BY <1>7, Liabilities
<1>11. Liability(ours') + Liability(rest) <= MaxLeft /\ Liability(ours') <= MaxLeft
  BY <1>6, <1>8, <1>9, <1>10
<1>12. RoomOK' /\ LimitKept'
  <2>1. RoomOK'
    BY <1>3, <1>11 DEF RoomOK, ours, rest
  <2>2. LimitKept'
    BY <1>11 DEF LimitKept, ours
  <2> QED BY <2>1, <2>2
<1> QED BY <1>5, <1>12

LEMMA AdmitLimit ==
  ASSUME LimitInv, Admit
  PROVE  LimitInv'
<1>1. CycleInv'
  BY AdmitStep DEF LimitInv
<1>2. /\ DOMAIN cycle = Fields /\ DOMAIN plan = PlanFields
      /\ where \in [Torrent -> Place] /\ mine \in SUBSET Torrent /\ plan.fit \subseteq Torrent
      /\ \A t \in mine : where[t] # "new"
  BY DEF LimitInv, CycleInv, BooksOK, HandOK
<1>3. SUFFICES HandOK' /\ RoomOK' /\ LimitKept'
  BY <1>1 DEF LimitInv
<1>4. ASSUME UNCHANGED <<where, mine>>, cycle'.pc # "add", plan'.fit \subseteq Torrent,
             cycle'.pc = "detail" => cycle'.todo \in Seq(Torrent)
      PROVE  HandOK' /\ RoomOK' /\ LimitKept'
  <2>1. HandOK'
    BY <1>2, <1>4 DEF HandOK, At
  <2>2. RoomOK' /\ LimitKept'
    BY <1>2, <1>4, Leaves
  <2> QED BY <2>1, <2>2
<1>5. CASE Discover
  <2>1. PICK listing \in Listing : \E best \in SetToSeqs(Accepted(listing)) :
          cycle' = [Idle EXCEPT !.pc = "detail", !.todo = best, !.rest = cycle.rest]
    BY <1>5 DEF Discover
  <2>2. PICK best \in SetToSeqs(Accepted(listing)) :
          cycle' = [Idle EXCEPT !.pc = "detail", !.todo = best, !.rest = cycle.rest]
    BY <2>1
  <2>3. Accepted(listing) \in SUBSET Torrent
    BY DEF Accepted
  <2>4. cycle'.pc = "detail" /\ cycle'.todo \in Seq(Torrent)
    BY <2>2, <2>3, InSomeOrder DEF Idle
  <2>5. UNCHANGED <<where, mine>> /\ \E twice : plan' = [plan EXCEPT !.twice = twice]
    BY <1>5 DEF Discover
  <2>6. plan'.fit \subseteq Torrent
    BY <1>2, <2>5 DEF PlanFields
  <2> QED BY <1>4, <2>4, <2>5, <2>6
<1>6. CASE DiscoverFails
  <2>1. cycle'.pc = "detail" /\ cycle'.todo = <<>>
    BY <1>6 DEF DiscoverFails, Rested, Idle
  <2>2. UNCHANGED <<where, mine>> /\ \E twice : plan' = [plan EXCEPT !.twice = twice]
    BY <1>6 DEF DiscoverFails
  <2>3. plan'.fit \subseteq Torrent
    BY <1>2, <2>2 DEF PlanFields
  <2> QED BY <1>4, <2>1, <2>2, <2>3
<1>7. CASE Check
  <2>1. /\ cycle.pc = "detail" /\ cycle.todo # <<>> /\ cycle.todo \in Seq(Torrent)
        /\ UNCHANGED <<where, mine>>
    BY <1>7 DEF Check, Checking, At, LimitInv, HandOK
  <2>2. First \in Torrent /\ Tail(cycle.todo) \in Seq(Torrent) /\ <<>> \in Seq(Torrent)
    BY <2>1, HeadTailProperties DEF First
  <2>3. /\ \/ cycle' = Rested([cycle EXCEPT !.todo = <<>>])
           \/ cycle' = [cycle EXCEPT !.todo = Tail(@)]
        /\ \E fit : (fit = plan.fit \/ fit = plan.fit \cup {First})
                     /\ plan' = [plan EXCEPT !.asked = Checked, !.fit = fit]
    BY <1>7 DEF Check
  <2>4. cycle'.pc = "detail" /\ cycle'.todo \in Seq(Torrent)
    BY <1>2, <2>1, <2>2, <2>3 DEF Rested, Fields
  <2>5. plan'.fit \subseteq Torrent
    BY <1>2, <2>2, <2>3 DEF PlanFields
  <2> QED BY <1>4, <2>1, <2>4, <2>5
<1>8. CASE Resolved
  <2>1. /\ UNCHANGED <<where, mine>> /\ cycle' = [cycle EXCEPT !.pc = "gate"]
        /\ \E fit : fit \subseteq plan.fit /\ plan' = [plan EXCEPT !.fit = fit]
    BY <1>8 DEF Resolved
  <2>2. cycle'.pc = "gate" /\ plan'.fit \subseteq Torrent
    BY <1>2, <2>1 DEF Fields, PlanFields
  <2> QED BY <1>4, <2>1, <2>2
<1>9. CASE Gate
  <2>1. PICK batch \in SUBSET plan.fit :
          /\ \A t \in plan.fit : t \in batch <=> Fits(batch, t)
          /\ \E best \in SetToSeqs(batch) : cycle' = [cycle EXCEPT !.pc = "add", !.todo = best]
    BY <1>9 DEF Gate
  <2>2. PICK best \in SetToSeqs(batch) : cycle' = [cycle EXCEPT !.pc = "add", !.todo = best]
    BY <2>1
  <2>3. batch \in SUBSET Torrent /\ mine \cap Left \in SUBSET Left /\ Left \in SUBSET Torrent
    BY <1>2 DEF Left
  <2>4. best \in Seq(Torrent) /\ IsInjective(best) /\ ToSet(best) \in SUBSET batch
    BY <2>3, InSomeOrder
  <2>5. cycle'.pc = "add" /\ cycle'.todo = best /\ UNCHANGED <<where, mine, plan>>
    BY <1>2, <1>9, <2>2 DEF Gate, Fields
  <2>6. HandOK'
    BY <1>2, <2>4, <2>5 DEF HandOK
  <2>7. /\ Liability(ToSet(best)) <= Liability(batch) /\ Liability(mine \cap Left) <= Liability(Left)
        /\ ToSet(best) \in SUBSET Torrent /\ mine \cap Left \in SUBSET Torrent
    BY <2>3, <2>4, Liabilities
  <2>8. /\ Liability(ToSet(best)) \in Nat /\ Liability(batch) \in Nat /\ Liability(Left) \in Nat
        /\ Liability(mine \cap Left) \in Nat /\ MaxLeft \in Nat
    BY <2>3, <2>7, Liabilities, AdmissionAssumption
  <2>9. Liability(mine \cap Left) <= MaxLeft
    BY DEF LimitInv, LimitKept
  <2>10. Liability(mine \cap Left) + Liability(ToSet(best)) <= MaxLeft
    <3>1. CASE batch = {}
      <4>1. Liability(batch) = 0
        BY <2>3, <3>1, Liabilities
      <4> QED BY <2>7, <2>8, <2>9, <4>1
    <3>2. CASE batch # {}
      <4>1. PICK t \in batch : Fits(batch, t)
        BY <2>1, <3>2
      <4>2. Liability(Left) + Liability(batch \ {t}) + Size[t] <= MaxLeft
        BY <4>1 DEF Fits, Planned
      <4>3. Liability(batch) = Size[t] + Liability(batch \ {t})
        BY <2>3, <4>1, Liabilities
      <4>4. Liability(batch \ {t}) \in Nat /\ Size[t] \in Nat
        <5>1. batch \ {t} \in SUBSET Torrent /\ t \in Torrent
          BY <2>3, <4>1
        <5> QED BY <5>1, Liabilities, AdmissionAssumption
      <4> QED BY <2>7, <2>8, <4>2, <4>3, <4>4
    <3> QED BY <3>1, <3>2
  <2>11. RoomOK' /\ LimitKept'
    <3>1. (mine \cap Left)' = mine \cap Left
      BY <2>5 DEF Left
    <3>2. RoomOK'
      BY <2>4, <2>5, <2>10, <3>1 DEF RoomOK
    <3>3. LimitKept'
      BY <2>9, <3>1 DEF LimitKept
    <3> QED BY <3>2, <3>3
  <2> QED BY <2>6, <2>11
<1>10. CASE Add \/ AddFails
  <2>1. /\ Adding /\ cycle.pc = "add"
        /\ (First \notin Live /\ Taken(First)) \/ UNCHANGED <<where, mine>>
    BY <1>10 DEF Add, AddFails, Adding, At
  <2>2. \/ cycle' = [cycle EXCEPT !.todo = Tail(@)]
        \/ cycle' = [cycle EXCEPT !.todo = <<>>]
    BY <1>10 DEF Add, AddFails
  <2>3. plan' = plan \/ \E added : plan' = [plan EXCEPT !.added = added]
    BY <1>10 DEF Add, AddFails
  <2>4. cycle'.pc = "add" /\ (cycle'.todo = Tail(cycle.todo) \/ cycle'.todo = <<>>)
    BY <1>2, <2>1, <2>2 DEF Fields
  <2>5. DOMAIN plan' = PlanFields /\ plan'.fit = plan.fit
    BY <1>2, <2>3 DEF PlanFields
  <2> QED BY <2>1, <2>4, <2>5, Takes
<1>11. CASE Keep
  <2>1. UNCHANGED <<where, mine>> /\ cycle'.pc = "idle" /\ plan'.fit = {}
    BY <1>11 DEF Keep, Idle, NoPlan
  <2> QED BY <1>4, <2>1
<1> QED BY <1>5, <1>6, <1>7, <1>8, <1>9, <1>10, <1>11 DEF Admit

LEMMA NextLimit ==
  ASSUME LimitInv, [AdmissionNext]_admissionVars
  PROVE  LimitInv'
<1>0. /\ where \in [Torrent -> Place] /\ mine \in SUBSET Torrent /\ plan.fit \subseteq Torrent
      /\ \A t \in mine : where[t] # "new"
      /\ At("detail") \/ At("add") => cycle.todo \in Seq(Torrent)
  BY DEF LimitInv, HandOK
<1>1. CycleInv'
  BY NextCycle DEF LimitInv
<1>2. CASE Step
  BY <1>2, BackfillLimit, AdmitLimit DEF Step
<1>3. CASE Dies
  <2>1. UNCHANGED <<where, mine>> /\ cycle'.pc = "idle" /\ plan'.fit = {}
    BY <1>3 DEF Dies, Idle, NoPlan
  <2>2. HandOK'
    BY <1>0, <2>1 DEF HandOK, At
  <2>3. RoomOK' /\ LimitKept'
    BY <1>0, <2>1, Leaves
  <2> QED BY <1>1, <2>2, <2>3 DEF LimitInv
<1>4. CASE (World /\ UNCHANGED <<plan, mine>>) \/ UNCHANGED admissionVars
  <2>1. UNCHANGED <<cycle, plan, mine>>
    BY <1>4 DEF World, BackoffEnds, Cools, Adds, Completes, admissionVars
  <2>2. \/ where' = where
        \/ \E t \in Torrent : /\ where[t] = "new" /\ where' = [where EXCEPT ![t] = "left"]
        \/ \E t \in Torrent : /\ where[t] = "left" /\ where' = [where EXCEPT ![t] = "done"]
    BY <1>4 DEF World, BackoffEnds, Cools, Adds, Completes, admissionVars
  <2>3. /\ where' \in [Torrent -> Place] /\ \A t \in mine : where'[t] # "new"
        /\ \A t \in mine : where'[t] = "left" => where[t] = "left"
    BY <1>0, <2>2 DEF Place
  <2>4. HandOK'
    BY <1>0, <2>1, <2>3 DEF HandOK, At
  <2>5. RoomOK' /\ LimitKept'
    BY <2>1, <2>3, Leaves
  <2> QED BY <1>1, <2>4, <2>5 DEF LimitInv
<1> QED BY <1>2, <1>3, <1>4 DEF AdmissionNext

\* What this program has added and still downloads stays within the limit of bytes left,
\* whatever fails, whatever was taken though its add failed, and whenever the scheduler
\* dies (cli._enqueue_candidate_batches, actions/qb.enqueue_candidates).
THEOREM LimitKeptHolds == AdmissionSpec => []LimitKept
<1>1. LimitInv /\ [AdmissionNext]_admissionVars => LimitInv'
  BY NextLimit
<1>2. LimitInv => LimitKept
  BY DEF LimitInv
<1> QED BY InitLimit, <1>1, <1>2, PTL DEF AdmissionSpec

-----------------------------------------------------------------------------
(* The rows.                                                               *)

\* What a torrent's rows say is said by the older one, if there is any.
Evident(rs) == rs \in Rows /\ IF rs.oldest = "own" THEN Own(rs) ELSE Other(rs)

\* The tables of the tracker's evidence.
TableOK ==
  /\ rows \in [Torrent -> Rows] /\ seen \in [Torrent -> Offer \cup {"no"}]
  /\ \A t \in Torrent : Known(t) => Shown(t) # "no"
  /\ \A t \in Torrent : Own(rows[t]) => seen[t] = "no"
  /\ OneAfterTheOther
  /\ recent \subseteq {t \in Torrent : Known(t)}

LEMMA Puts ==
  ASSUME NEW rs \in Rows, NEW o \in Offer
  PROVE  /\ Put(rs, o) \in Rows /\ Put(rs, o).own = o /\ Put(rs, o).other = rs.other
         /\ Own(Put(rs, o)) /\ Evident(Put(rs, o))
         /\ Other(Put(rs, o)) <=> Other(rs)
BY DEF Put, Rows, Offer, Own, Other, Evident

LEMMA OthersPut ==
  ASSUME NEW rs \in Rows, NEW o \in Offer
  PROVE  /\ PutOther(rs, o) \in Rows /\ Evident(PutOther(rs, o))
BY DEF PutOther, Rows, Offer, Own, Other, Evident

LEMMA NothingPut ==
  NoRows \in Rows /\ ~Own(NoRows) /\ ~Other(NoRows)
BY DEF NoRows, Rows, Own, Other

\* What is written in the order of added_at comes after what was there.
LEMMA StillInOrder ==
  ASSUME OneAfterTheOther, NEW ids \in SUBSET Torrent, older' = Later(ids),
         \A t \in Torrent : Known(t)' <=> Known(t) \/ t \in ids
  PROVE  OneAfterTheOther'
<1> DEFINE before == {t \in Torrent : Known(t)}
           rest   == before \ ids
           known  == {t \in Torrent : Known(t)'}
<1>0. known = rest \cup ids /\ Torrent \subseteq Nat
  BY TrackerAssumption
<1>1. /\ older \subseteq before \X before
      /\ \A t, u \in before : t # u => <<t, u>> \in older \/ <<u, t>> \in older
      /\ \A t, u \in before : <<t, u>> \in older => <<u, t>> \notin older
      /\ \A t, u, v \in before : <<t, u>> \in older /\ <<u, v>> \in older => <<t, v>> \in older
  BY DEF OneAfterTheOther
<1>2. older' = {pair \in older : pair[1] \notin ids /\ pair[2] \notin ids}
                 \cup (rest \X ids) \cup {pair \in ids \X ids : pair[1] < pair[2]}
  BY DEF Later
<1> HIDE DEF before, known
<1>3. \A t, u \in rest : <<t, u>> \in older' <=> <<t, u>> \in older
  BY <1>2
<1>4. \A t \in rest, u \in ids : <<t, u>> \in older' /\ <<u, t>> \notin older'
  BY <1>1, <1>2
<1>5. \A t, u \in ids : <<t, u>> \in older' <=> t < u
  BY <1>1, <1>2
<1>6. \A t, u \in ids : t \in Nat /\ u \in Nat
  BY <1>0
<1>7. older' \subseteq known \X known
  BY <1>0, <1>1, <1>2
<1>8. ASSUME NEW t \in known, NEW u \in known
      PROVE  /\ t # u => <<t, u>> \in older' \/ <<u, t>> \in older'
             /\ <<t, u>> \in older' => <<u, t>> \notin older'
  <2>1. CASE t \in rest /\ u \in rest
    BY <1>1, <1>3, <2>1
  <2>2. CASE t \in ids /\ u \in ids
    BY <1>5, <1>6, <2>2
  <2>3. CASE (t \in rest /\ u \in ids) \/ (t \in ids /\ u \in rest)
    BY <1>4, <2>3
  <2> QED BY <1>0, <2>1, <2>2, <2>3
<1>10. ASSUME NEW t \in known, NEW u \in known, NEW v \in known,
              <<t, u>> \in older', <<u, v>> \in older'
       PROVE  <<t, v>> \in older'
  <2>1. CASE t \in rest /\ v \in ids
    BY <1>4, <2>1
  <2>2. CASE t \in rest /\ v \in rest
    <3>1. u \in rest
      BY <1>0, <1>4, <1>10, <2>2
    <3> QED BY <1>1, <1>3, <1>10, <2>2, <3>1
  <2>3. CASE t \in ids
    <3>1. u \in ids /\ v \in ids
      BY <1>0, <1>4, <1>10, <2>3
    <3> QED BY <1>5, <1>6, <1>10, <2>3, <3>1
  <2> QED BY <1>0, <2>1, <2>2, <2>3
<1> QED BY <1>7, <1>8, <1>10 DEF OneAfterTheOther, known

LEMMA LearnedKeeps ==
  ASSUME TableOK, NEW new, DOMAIN new \in SUBSET Torrent,
         \A t \in DOMAIN new : Evident(new[t]), Learned(new)
  PROVE  TableOK'
<1> DEFINE ids == DOMAIN new
<1>1. /\ rows' = [t \in Torrent |-> IF t \in ids THEN new[t] ELSE rows[t]]
      /\ seen' = [t \in Torrent |-> IF t \in ids /\ Own(new[t]) THEN "no" ELSE seen[t]]
      /\ older' = Later(ids) /\ recent' = recent \cup ids
  BY DEF Learned
<1>2. \A t \in ids : new[t] \in Rows /\ (IF new[t].oldest = "own" THEN Own(new[t]) ELSE Other(new[t]))
  BY DEF Evident
<1>3. rows' \in [Torrent -> Rows] /\ seen' \in [Torrent -> Offer \cup {"no"}]
  BY <1>1, <1>2 DEF TableOK
<1>4. \A t \in Torrent : Known(t)' <=> Known(t) \/ t \in ids
  <2>1. \A t \in Torrent : rows'[t] = IF t \in ids THEN new[t] ELSE rows[t]
    BY <1>1
  <2> QED BY <1>2, <2>1 DEF Known
<1>5. \A t \in Torrent : Known(t)' => Shown(t)' # "no"
  <2> SUFFICES ASSUME NEW t \in Torrent, Known(t)' PROVE Shown(t)' # "no"
    OBVIOUS
  <2>1. CASE t \in ids
    BY <1>1, <1>2, <2>1 DEF Shown, Own, Other
  <2>2. CASE t \notin ids
    BY <1>1, <2>2 DEF Shown, Known, TableOK
  <2> QED BY <2>1, <2>2
<1>6. \A t \in Torrent : Own(rows[t])' => seen'[t] = "no"
  BY <1>1 DEF TableOK, Own
<1>7. OneAfterTheOther'
  BY <1>1, <1>4, StillInOrder DEF TableOK
<1>8. recent' \subseteq {t \in Torrent : Known(t)'}
  BY <1>1, <1>4 DEF TableOK
<1> QED BY <1>3, <1>5, <1>6, <1>7, <1>8 DEF TableOK

LEMMA AllInSomeOrder ==
  ASSUME NEW S \in SUBSET Torrent, NEW q \in SetToSeqs(S)
  PROVE  ToSet(q) = S /\ Len(q) <= Cardinality(Torrent) /\ Cardinality(Torrent) \in Nat
<1>1. IsFiniteSet(S) /\ Cardinality(S) <= Cardinality(Torrent) /\ Cardinality(Torrent) \in Nat
  BY TrackerAssumption, FS_Subset, FS_CardinalityType
<1>2. Cardinality(S) \in Nat
  BY <1>1, FS_CardinalityType
<1>3. /\ q \in [1..Cardinality(S) -> S]
      /\ \A i, j \in 1..Cardinality(S) : i # j => q[i] # q[j]
  BY DEF SetToSeqs
<1>4. q \in Injection(1..Cardinality(S), S)
  BY <1>3 DEF Injection, IsInjective
<1>5. Cardinality(1..Cardinality(S)) = Cardinality(S)
  BY <1>2, FS_Interval
<1>6. q \in Surjection(1..Cardinality(S), S)
  BY <1>1, <1>4, <1>5, FS_Injection
<1>7. ToSet(q) = S
  BY <1>3, <1>6 DEF Surjection, ToSet
<1>8. q \in Seq(S) /\ Len(q) = Cardinality(S)
  BY <1>2, <1>3
<1> QED BY <1>1, <1>2, <1>7, <1>8

-----------------------------------------------------------------------------
(* The types.                                                              *)

\* One request before the last the search for a torrent goes on, or ends.
Cycles == [pc      : {"idle", "batch", "scan", "prune", "discover", "detail", "gate", "add"},
           todo    : Seq(Torrent),
           open    : SUBSET Torrent,
           listed  : [Torrent -> Offer \cup {"no"}],
           batch   : {"ok", "limited", "down", "error"},
           left    : 0..MaxRequests,
           asked   : 0..(Searches - 1),
           used    : 0..MaxRequests,
           met     : BOOLEAN,
           rest    : {"none", "overlooked", "due"},
           risk    : SUBSET Torrent,
           doomed  : SUBSET Torrent,
           refused : SUBSET Torrent]

\* Only a cycle that adds has decisions, and each candidate is checked once.
PlanOK ==
  /\ plan \in PlanRec
  /\ ~At("add") => plan.added = {}
  /\ cycle.pc \in {"idle", "batch", "scan", "prune", "discover"} => plan.asked = 0
  /\ At("detail") => plan.asked + Len(cycle.todo) <= Cardinality(Torrent)

\* The inductive invariant of the types.
TypesInv == LimitInv /\ TableOK /\ cycle \in Cycles /\ PlanOK /\ backoff \in BOOLEAN

LEMMA TypesAre == TypesInv => AdmissionTypeOK
<1> SUFFICES ASSUME TypesInv PROVE AdmissionTypeOK
  OBVIOUS
<1>1. cycle \in Cycles /\ BooksOK /\ TableOK /\ where \in [Torrent -> Place] /\ mine \subseteq Torrent
      /\ PlanOK /\ backoff \in BOOLEAN
  BY DEF TypesInv, LimitInv, CycleInv, HandOK
<1>2. [cycle EXCEPT !.todo = <<>>] \in CycleRec /\ cycle.todo \in Seq(Torrent)
  <2>1. Searches \in Nat /\ 0..(Searches - 1) \subseteq 0..Searches
    BY TrackerAssumption
  <2> QED BY <1>1, <2>1 DEF Cycles, CycleRec
<1>3. cycle.used + cycle.left <= MaxRequests /\ cycle.risk \subseteq cycle.open
  BY <1>1 DEF BooksOK
<1>4. TrackerTypeOK
  BY <1>1, <1>2, <1>3 DEF TableOK, TrackerTypeOK
<1> QED BY <1>1, <1>4 DEF PlanOK, AdmissionTypeOK

LEMMA IdleIs ==
  /\ Idle \in Cycles /\ NoPlan \in PlanRec
  /\ Idle.pc = "idle" /\ Idle.todo = <<>> /\ Idle.open = {}
<1>1. Unlisted \in [Torrent -> Offer \cup {"no"}]
  BY DEF Unlisted
<1>2. MaxRequests \in Nat /\ Searches \in Nat /\ Cardinality(Torrent) \in Nat /\ <<>> \in Seq(Torrent)
  BY TrackerAssumption, FS_CardinalityType
<1>3. 0 \in 0..(Searches - 1)
  BY TrackerAssumption
<1> QED BY <1>1, <1>2, <1>3 DEF Idle, NoPlan, Cycles, PlanRec

LEMMA InitTypes == AdmissionInit => TypesInv
<1> SUFFICES ASSUME AdmissionInit PROVE TypesInv
  OBVIOUS
<1>1. /\ rows = [t \in Torrent |-> NoRows] /\ seen = [t \in Torrent |-> "no"]
      /\ older = {} /\ recent = {} /\ backoff = FALSE /\ cycle = Idle /\ plan = NoPlan
  BY DEF AdmissionInit, Init
<1>2. \A t \in Torrent : ~Known(t) /\ ~Own(rows[t])
  BY <1>1, NothingPut DEF Known
<1>3. OneAfterTheOther
  BY <1>1, <1>2 DEF OneAfterTheOther
<1>4. TableOK
  BY <1>1, <1>2, <1>3, NothingPut DEF TableOK
<1>5. PlanOK
  BY <1>1, IdleIs DEF PlanOK, At, NoPlan
<1> QED BY <1>1, <1>4, <1>5, InitLimit, IdleIs DEF TypesInv

\* What a result does to the cycle.
LEMMA ResultTyped ==
  ASSUME cycle \in Cycles, cycle.todo # <<>>, NEW status
  PROVE  /\ Result(status) \in Cycles /\ First \in Torrent
         /\ Result(status).todo = Tail(cycle.todo)
         /\ Result(status).listed = cycle.listed /\ Result(status).open = cycle.open
         /\ Result(status).risk = IF status \in Open /\ First \in cycle.open
                                  THEN cycle.risk \cup {First} ELSE cycle.risk
<1>1. cycle.todo \in Seq(Torrent) /\ First \in Torrent /\ Tail(cycle.todo) \in Seq(Torrent)
  BY HeadTailProperties DEF Cycles, First
<1> DEFINE risk == IF status \in Open /\ First \in cycle.open THEN cycle.risk \cup {First}
                   ELSE cycle.risk
           met  == cycle.met \/ status \in {"rate_limited", "unavailable"}
<1>2. Result(status) = [cycle EXCEPT !.todo = Tail(cycle.todo), !.asked = 0, !.risk = risk, !.met = met]
  BY DEF Result
<1>3. risk \in SUBSET Torrent /\ met \in BOOLEAN
  BY <1>1 DEF Cycles
<1>4. 0 \in 0..(Searches - 1)
  BY TrackerAssumption
<1>5. risk = IF status \in Open /\ First \in cycle.open THEN cycle.risk \cup {First}
             ELSE cycle.risk
  OBVIOUS
<1> HIDE DEF First, risk, met
<1>6. Result(status) \in Cycles
  BY <1>1, <1>2, <1>3, <1>4 DEF Cycles
<1>7. /\ Result(status).todo = Tail(cycle.todo) /\ Result(status).risk = risk
      /\ Result(status).listed = cycle.listed /\ Result(status).open = cycle.open
  BY <1>2 DEF Cycles
<1> QED BY <1>1, <1>5, <1>6, <1>7

\* A request that was made, and what is left of them.
LEMMA RequestTyped ==
  ASSUME NEW now \in Cycles, NEW left \in 0..MaxRequests, NEW used \in 0..MaxRequests
  PROVE  [now EXCEPT !.left = left, !.used = used] \in Cycles
BY DEF Cycles

LEMMA RestedTyped ==
  ASSUME NEW now \in Cycles
  PROVE  /\ Rested(now) \in Cycles /\ Rested(now).pc = now.pc /\ Rested(now).todo = now.todo
         /\ Rested(now).open = now.open /\ Rested(now).listed = now.listed
         /\ Rested(now).risk = now.risk
BY DEF Rested, Cycles

LEMMA LinkLiveKeeps ==
  ASSUME TableOK, LinkLive
  PROVE  TableOK'
<1> DEFINE new == [t \in Linked |-> Put(NoRows, seen[t])]
<1>1. Learned(new) /\ DOMAIN new \in SUBSET Torrent
  BY DEF LinkLive, Linked, Live
<1>2. \A t \in Linked : seen[t] \in Offer
  BY DEF Linked, Live, TableOK
<1>3. \A t \in Linked : Evident(new[t])
  BY <1>2, NothingPut, Puts
<1> HIDE DEF new
<1>4. DOMAIN new = Linked
  BY DEF new
<1> QED BY <1>1, <1>3, <1>4, LearnedKeeps

LEMMA OneLearned ==
  ASSUME TableOK, NEW t \in Torrent, NEW o \in Offer, Learned([u \in {t} |-> Put(rows[u], o)])
  PROVE  TableOK'
<1> DEFINE new == [u \in {t} |-> Put(rows[u], o)]
<1>1. rows[t] \in Rows
  BY DEF TableOK
<1>2. DOMAIN new = {t} /\ Evident(new[t]) /\ Learned(new)
  BY <1>1, Puts
<1> HIDE DEF new
<1> QED BY <1>2, LearnedKeeps

LEMMA SameTable ==
  ASSUME TableOK, UNCHANGED <<rows, seen, older, recent>>
  PROVE  TableOK'
BY DEF TableOK, Known, Shown, OneAfterTheOther

LEMMA BackfillTyped ==
  ASSUME TypesInv, Backfill, UNCHANGED <<plan, mine>>
  PROVE  TypesInv'
<1>1. /\ LimitInv' /\ CycleInv /\ TableOK /\ cycle \in Cycles /\ PlanOK /\ backoff \in BOOLEAN
      /\ cycle.met \in BOOLEAN
  BY BackfillLimit DEF TypesInv, LimitInv, CycleInv, BooksOK
<1>2. PlanOK'
  <2>1. /\ cycle.pc \in {"idle", "batch", "scan", "prune"}
        /\ cycle'.pc \in {"idle", "batch", "scan", "prune", "discover"}
    BY <1>1, BackfillPlaces
  <2> QED BY <1>1, <2>1 DEF PlanOK, At
<1>3. MaxRequests \in Nat /\ Searches \in Nat \ {0} /\ cycle.used + cycle.left <= MaxRequests
      /\ cycle.used \in Nat /\ cycle.left \in Nat
  BY <1>1, TrackerAssumption DEF CycleInv, BooksOK
<1>4. SUFFICES TableOK' /\ cycle' \in Cycles /\ backoff' \in BOOLEAN
  BY <1>1, <1>2 DEF TypesInv
<1>5. ASSUME Scanning PROVE First \in Torrent /\ \A status : Result(status) \in Cycles
  BY <1>1, <1>5, ResultTyped DEF Scanning
<1>15. ASSUME cycle.left # 0
       PROVE  /\ cycle.left - 1 \in 0..MaxRequests /\ cycle.used + 1 \in 0..MaxRequests
              /\ 0 \in 0..MaxRequests
  BY <1>3, <1>15
<1>6. CASE Begin
  <2>1. LinkLive /\ backoff' = backoff
    BY <1>6 DEF Begin
  <2>2. PICK best \in Sorted(Targets)' :
          cycle' = [Idle EXCEPT !.pc = "batch", !.todo = best, !.open = Left]
    BY <1>6 DEF Begin
  <2>3. best \in SetToSeqs(Targets') /\ Targets' \in SUBSET Torrent /\ Left \in SUBSET Torrent
    BY <2>2 DEF Sorted, Targets, Live, Left
  <2>4. best \in Seq(Torrent)
    BY <2>3, InSomeOrder
  <2>5. cycle' \in Cycles
    BY <2>2, <2>3, <2>4, IdleIs DEF Cycles
  <2> QED BY <1>1, <2>1, <2>5, LinkLiveKeeps
<1>7. CASE BeginAtRest
  <2>1. [Idle EXCEPT !.pc = "prune"] \in Cycles
    BY IdleIs DEF Cycles
  <2>2. cycle' \in Cycles
    BY <1>7, <2>1, RestedTyped DEF BeginAtRest
  <2> QED BY <1>1, <1>7, <2>2, SameTable DEF BeginAtRest
<1>8. CASE Batch
  <2>1. PICK batch \in {"ok", "limited", "down", "error"},
             listed \in [Torrent -> Offer \cup {"no"}] :
          cycle' = [cycle EXCEPT !.pc = "scan", !.batch = batch, !.listed = listed,
                                 !.rest = SnapshotRest(batch, listed)]
    BY <1>8 DEF Batch
  <2>2. SnapshotRest(batch, listed) \in {"none", "overlooked", "due"}
    BY DEF SnapshotRest
  <2>3. cycle' \in Cycles
    BY <1>1, <2>1, <2>2 DEF Cycles
  <2> QED BY <1>1, <1>8, <2>3, SameTable DEF Batch
<1>9. CASE FromBatch
  <2>1. Scanning /\ cycle' = Result("matched") /\ cycle.listed[First] \in Offer /\ backoff' = backoff
    BY <1>1, <1>5, <1>9 DEF FromBatch, InBatch, Cycles
  <2>2. Learned([t \in {First} |-> Put(rows[t], cycle.listed[t])])
    BY <1>9 DEF FromBatch
  <2>3. [t \in {First} |-> Put(rows[t], cycle.listed[t])]
          = [t \in {First} |-> Put(rows[t], cycle.listed[First])]
    OBVIOUS
  <2>4. TableOK'
    BY <1>1, <1>5, <2>1, <2>2, <2>3, OneLearned
  <2> QED BY <1>1, <1>5, <2>1, <2>4
<1>10. CASE BatchFailed \/ Cached \/ Skipped
  <2>1. /\ Scanning /\ UNCHANGED <<rows, seen, older, recent, backoff>>
        /\ \E status : cycle' = Result(status)
    BY <1>10 DEF BatchFailed, Cached, Skipped, Asking
  <2> QED BY <1>1, <1>5, <2>1, SameTable
<1>11. CASE Found
  <2>1. Scanning /\ cycle.left # 0 /\ backoff' = backoff
        /\ cycle' = [Result("matched") EXCEPT !.left = @ - 1, !.used = @ + 1]
    BY <1>11 DEF Found, Asking, Spent
  <2>2. PICK o \in Offer : Learned([t \in {First} |-> Put(rows[t], o)])
    BY <1>11 DEF Found
  <2>3. TableOK'
    BY <1>1, <1>5, <2>1, <2>2, OneLearned
  <2>4. Result("matched").left = cycle.left /\ Result("matched").used = cycle.used
    BY <1>1, ResultKeeps DEF CycleInv, BooksOK
  <2>5. cycle' \in Cycles
    BY <1>5, <1>15, <2>1, <2>4, RequestTyped
  <2> QED BY <1>1, <2>1, <2>3, <2>5
<1>12. CASE NotFound \/ Unclear \/ Fails
  <2>1. Scanning /\ cycle.left # 0 /\ UNCHANGED <<rows, seen, older, recent, backoff>>
    BY <1>12 DEF NotFound, Unclear, Fails, Asking, Spent
  <2>2. \A status : Result(status).left = cycle.left /\ Result(status).used = cycle.used
    BY <1>1, ResultKeeps DEF CycleInv, BooksOK
  <2>3. CASE Unclear
    <3>1. cycle' = [Result("ambiguous") EXCEPT !.left = @ - 1, !.used = @ + 1]
      BY <2>3 DEF Unclear
    <3>2. cycle' \in Cycles
      BY <1>5, <1>15, <2>1, <2>2, <3>1, RequestTyped
    <3> QED BY <1>1, <2>1, <3>2, SameTable
  <2>4. CASE Fails
    <3>1. cycle' = Rested([Result("unavailable") EXCEPT !.left = 0, !.used = @ + 1])
      BY <2>4 DEF Fails
    <3>2. cycle' \in Cycles
      BY <1>5, <1>15, <2>1, <2>2, <3>1, RequestTyped, RestedTyped
    <3> QED BY <1>1, <2>1, <3>2, SameTable
  <2>5. CASE NotFound
    <3>1. CASE cycle.asked + 1 = Searches
      <4>1. cycle' = [Result("not_found") EXCEPT !.left = @ - 1, !.used = @ + 1]
        BY <2>5, <3>1 DEF NotFound
      <4>2. cycle' \in Cycles
        BY <1>5, <1>15, <2>1, <2>2, <4>1, RequestTyped
      <4> QED BY <1>1, <2>1, <4>2, SameTable
    <3>2. CASE cycle.asked + 1 # Searches
      <4> DEFINE again == [cycle EXCEPT !.asked = @ + 1]
      <4>1. cycle' = [again EXCEPT !.left = @ - 1, !.used = @ + 1]
        BY <2>5, <3>2 DEF NotFound
      <4>2. cycle.asked + 1 \in 0..(Searches - 1)
        <5>1. cycle.asked \in 0..(Searches - 1)
          BY <1>1 DEF Cycles
        <5>2. \A asked, n \in Nat : asked <= n - 1 /\ asked + 1 # n => asked + 1 <= n - 1
          OBVIOUS
        <5>3. Searches \in Nat /\ cycle.asked \in Nat /\ cycle.asked <= Searches - 1
          BY <1>3, <5>1
        <5>4. cycle.asked + 1 <= Searches - 1
          BY <3>2, <5>2, <5>3
        <5> QED BY <5>3, <5>4
      <4>3. again \in Cycles /\ again.left = cycle.left /\ again.used = cycle.used
        BY <1>1, <4>2 DEF Cycles
      <4> HIDE DEF again
      <4>4. cycle' \in Cycles
        BY <1>15, <2>1, <4>1, <4>3, RequestTyped
      <4> QED BY <1>1, <2>1, <4>4, SameTable
    <3> QED BY <3>1, <3>2
  <2> QED BY <1>12, <2>3, <2>4, <2>5
<1>13. CASE Scanned
  <2>1. cycle' = [cycle EXCEPT !.pc = "prune"] /\ backoff' = (backoff \/ cycle.met)
        /\ UNCHANGED <<rows, seen, older, recent>>
    BY <1>13 DEF Scanned
  <2>2. cycle' \in Cycles
    BY <1>1, <2>1 DEF Cycles
  <2>3. backoff' \in BOOLEAN
    BY <1>1, <2>1
  <2> QED BY <1>1, <2>1, <2>2, <2>3, SameTable
<1>14. CASE Prune
  <2>1. PICK refused \in SUBSET Doomed :
          cycle' = [Idle EXCEPT !.pc = IF GoesOn(refused) THEN "discover" ELSE "idle",
                                !.rest = IF GoesOn(refused) THEN cycle.rest ELSE "none",
                                !.open = cycle.open, !.listed = cycle.listed,
                                !.doomed = Doomed \ refused, !.refused = refused]
    BY <1>14 DEF Prune
  <2>2. Doomed \in SUBSET Torrent
    BY DEF Doomed, Left
  <2> HIDE DEF Doomed
  <2>3. cycle' \in Cycles
    BY <1>1, <2>1, <2>2, IdleIs DEF Cycles
  <2>4. LinkLive /\ backoff' = backoff
    BY <1>14 DEF Prune
  <2> QED BY <1>1, <2>3, <2>4, LinkLiveKeeps
<1> QED BY <1>6, <1>7, <1>8, <1>9, <1>10, <1>11, <1>12, <1>13, <1>14 DEF Backfill

\* The rows that discovery writes, each after what it replaces.
LEMMA WrittenKeeps ==
  ASSUME TableOK, NEW ids \in SUBSET Torrent,
         rows' \in [Torrent -> Rows], seen' \in [Torrent -> Offer \cup {"no"}],
         \A t \in ids : Evident(rows'[t]),
         \A t \in Torrent \ ids : rows'[t] = rows[t],
         \A t \in Torrent : Own(rows'[t]) => seen'[t] = "no",
         older' = Later(ids), recent' = recent \cup ids
  PROVE  TableOK'
<1>1. \A t \in Torrent : Known(t)' <=> Known(t) \/ t \in ids
  BY DEF Known, Evident
<1>2. \A t \in Torrent : Known(t)' => Shown(t)' # "no"
  <2> SUFFICES ASSUME NEW t \in Torrent, Known(t)' PROVE Shown(t)' # "no"
    OBVIOUS
  <2>1. CASE t \in ids
    BY <2>1 DEF Shown, Own, Other, Evident
  <2>2. CASE t \notin ids
    BY <2>2 DEF Shown, Known, TableOK
  <2> QED BY <2>1, <2>2
<1>3. OneAfterTheOther'
  BY <1>1, StillInOrder DEF TableOK
<1>4. recent' \subseteq {t \in Torrent : Known(t)'}
  BY <1>1 DEF TableOK
<1> QED BY <1>2, <1>3, <1>4 DEF TableOK

LEMMA DiscoverTyped ==
  ASSUME TypesInv, Discover
  PROVE  TableOK' /\ cycle' \in Cycles /\ PlanOK'
<1>1. /\ TableOK /\ PlanOK /\ At("discover")
  BY DEF TypesInv, Discover
<1>2. PICK listing \in Listing, twice \in SUBSET (Live \cap Doubles) :
        LET known == {t \in Listed(listing) : Own(rows[t])}
        IN  /\ rows' = [t \in Torrent |->
                         IF t \in known THEN Put(rows[t], listing[t]) ELSE rows[t]]
            /\ \E stale \in Stale(listing) :
                  seen' = [t \in Torrent |-> CASE t \in Listed(listing) \ known -> listing[t]
                                              [] t \in stale -> "no"
                                              [] OTHER -> seen[t]]
            /\ older' = Later(known)
            /\ recent' = recent \cup known
            /\ plan' = [plan EXCEPT !.twice = twice]
            /\ \E best \in SetToSeqs(Accepted(listing)) :
                  cycle' = [Idle EXCEPT !.pc = "detail", !.todo = best, !.rest = cycle.rest]
  BY DEF Discover
<1> DEFINE known == {t \in Listed(listing) : Own(rows[t])}
<1>3. /\ rows' = [t \in Torrent |-> IF t \in known THEN Put(rows[t], listing[t]) ELSE rows[t]]
      /\ older' = Later(known) /\ recent' = recent \cup known
      /\ plan' = [plan EXCEPT !.twice = twice]
  BY <1>2
<1>4. PICK stale \in Stale(listing) :
        seen' = [t \in Torrent |-> CASE t \in Listed(listing) \ known -> listing[t]
                                    [] t \in stale -> "no"
                                    [] OTHER -> seen[t]]
  BY <1>2
<1>5. PICK best \in SetToSeqs(Accepted(listing)) :
        cycle' = [Idle EXCEPT !.pc = "detail", !.todo = best, !.rest = cycle.rest]
  BY <1>2
<1>6. /\ \A t \in Listed(listing) : t \in Torrent /\ listing[t] \in Offer
      /\ \A t \in known : t \in Listed(listing)
      /\ \A t \in Torrent : t \in known <=> t \in Listed(listing) /\ Own(rows[t])
  BY DEF Listing, Listed
<1>7. known \in SUBSET Torrent /\ Accepted(listing) \in SUBSET Torrent
  BY <1>6 DEF Accepted
<1> HIDE DEF known
<1>8. \A t \in Torrent : rows[t] \in Rows /\ seen[t] \in Offer \cup {"no"}
  BY <1>1 DEF TableOK
<1>9. /\ \A t \in known : rows'[t] \in Rows /\ Evident(rows'[t])
      /\ \A t \in Torrent \ known : rows'[t] = rows[t]
  BY <1>3, <1>6, <1>7, <1>8, Puts
<1>10. rows' \in [Torrent -> Rows]
  <2>1. \A t \in Torrent :
          (IF t \in known THEN Put(rows[t], listing[t]) ELSE rows[t]) \in Rows
    BY <1>6, <1>8, Puts
  <2> QED BY <1>3, <2>1
<1>11. seen' \in [Torrent -> Offer \cup {"no"}]
  BY <1>4, <1>6, <1>8
<1>12. \A t \in Torrent : Own(rows'[t]) => seen'[t] = "no"
  <2> SUFFICES ASSUME NEW t \in Torrent, Own(rows'[t]) PROVE seen'[t] = "no"
    OBVIOUS
  <2>1. t \notin Listed(listing) \ known /\ (t \in known => Own(rows[t]))
    BY <1>6, <1>9
  <2>2. Own(rows[t]) /\ seen[t] = "no"
    BY <1>1, <1>9, <2>1 DEF TableOK
  <2> QED BY <1>4, <2>1, <2>2
<1>13. TableOK'
  BY <1>1, <1>3, <1>7, <1>9, <1>10, <1>11, <1>12, WrittenKeeps
<1>14. best \in Seq(Torrent) /\ Len(best) <= Cardinality(Torrent)
  BY <1>5, <1>7, InSomeOrder, AllInSomeOrder
<1>15. cycle' \in Cycles /\ cycle'.pc = "detail" /\ cycle'.todo = best
  <2>1. cycle.rest \in {"none", "overlooked", "due"}
    BY <1>1 DEF TypesInv, Cycles
  <2> QED BY <1>5, <1>14, <2>1, IdleIs DEF Cycles
<1>16. plan' \in PlanRec /\ plan'.asked = 0 /\ plan'.added = {}
  <2>1. plan \in PlanRec /\ plan.asked = 0 /\ plan.added = {} /\ twice \in SUBSET Torrent
    BY <1>1 DEF PlanOK, At, Live
  <2> QED BY <1>3, <2>1 DEF PlanRec
<1>17. PlanOK'
  <2>1. Len(best) \in Nat
    BY <1>14
  <2> QED BY <1>14, <1>15, <1>16, <2>1 DEF PlanOK, At
<1> QED BY <1>13, <1>15, <1>17

\* A candidate whose row is written again keeps its place among the others.
LEMMA CheckTyped ==
  ASSUME TypesInv, Check
  PROVE  TableOK' /\ cycle' \in Cycles /\ PlanOK'
<1>1. /\ TableOK /\ PlanOK /\ cycle \in Cycles /\ At("detail") /\ cycle.todo # <<>>
      /\ UNCHANGED <<older, recent>>
  BY DEF TypesInv, Check, Checking
<1>2. cycle.todo \in Seq(Torrent) /\ First \in Torrent /\ Tail(cycle.todo) \in Seq(Torrent)
      /\ Len(Tail(cycle.todo)) = Len(cycle.todo) - 1 /\ Len(cycle.todo) \in Nat \ {0}
  <2>1. cycle.todo \in Seq(Torrent)
    BY <1>1 DEF Cycles
  <2> QED BY <1>1, <2>1, HeadTailProperties, EmptySeq DEF First
<1>3. /\ \/ cycle' = Rested([cycle EXCEPT !.todo = <<>>])
         \/ cycle' = [cycle EXCEPT !.todo = Tail(@)]
      /\ \E fit : (fit = plan.fit \/ fit = plan.fit \cup {First})
                   /\ plan' = [plan EXCEPT !.asked = Checked, !.fit = fit]
  BY DEF Check
<1>4. /\ \/ rows' = rows
         \/ Own(rows[First]) /\ rows' = [rows EXCEPT ![First] = Put(@, "over")]
      /\ \/ seen' = seen
         \/ seen[First] # "no" /\ seen' = [seen EXCEPT ![First] = "over"]
  BY DEF Check
<1>5. /\ \A t \in Torrent : rows[t] \in Rows /\ (Own(rows[t]) => seen[t] = "no")
      /\ rows \in [Torrent -> Rows] /\ seen \in [Torrent -> Offer \cup {"no"}] /\ "over" \in Offer
  BY <1>1 DEF TableOK, Offer
<1> HIDE DEF First
<1>6. /\ rows' \in [Torrent -> Rows] /\ seen' \in [Torrent -> Offer \cup {"no"}]
      /\ \A t \in Torrent : rows'[t] = rows[t] \/ (Own(rows[t]) /\ rows'[t] = Put(rows[t], "over"))
      /\ \A t \in Torrent : seen'[t] = seen[t] \/ seen[t] # "no"
  <2>1. Put(rows[First], "over") \in Rows
    BY <1>2, <1>5, Puts
  <2> QED BY <1>2, <1>4, <1>5, <2>1
<1>7. \A t \in Torrent : (Own(rows'[t]) <=> Own(rows[t])) /\ (Known(t)' <=> Known(t))
  <2>1. \A t \in Torrent : (Own(rows'[t]) <=> Own(rows[t])) /\ (Other(rows'[t]) <=> Other(rows[t]))
    BY <1>5, <1>6, Puts
  <2> QED BY <2>1 DEF Known
<1>8. \A t \in Torrent : Known(t)' => Shown(t)' # "no"
  <2> SUFFICES ASSUME NEW t \in Torrent, Known(t)' PROVE Shown(t)' # "no"
    OBVIOUS
  <2>1. CASE rows'[t] = rows[t]
    BY <1>1, <1>7, <2>1 DEF Shown, TableOK
  <2>2. CASE rows'[t] = Put(rows[t], "over")
    <3>1. Evident(rows'[t])
      BY <1>5, <2>2, Puts
    <3> QED BY <3>1 DEF Shown, Own, Other, Evident
  <2> QED BY <1>6, <2>1, <2>2
<1>9. \A t \in Torrent : Own(rows'[t]) => seen'[t] = "no"
  BY <1>5, <1>6, <1>7
<1>10. OneAfterTheOther' /\ recent' \subseteq {t \in Torrent : Known(t)'}
  <2>1. {t \in Torrent : Known(t)'} = {t \in Torrent : Known(t)}
    BY <1>7
  <2>2. UNCHANGED <<older, recent>> /\ OneAfterTheOther /\ recent \subseteq {t \in Torrent : Known(t)}
    BY <1>1 DEF TableOK
  <2> QED BY <2>1, <2>2 DEF OneAfterTheOther
<1>11. TableOK'
  BY <1>6, <1>8, <1>9, <1>10 DEF TableOK
<1>12. /\ cycle' \in Cycles /\ cycle'.pc = "detail"
       /\ cycle'.todo \in Seq(Torrent) /\ Len(cycle'.todo) <= Len(cycle.todo) - 1
  <2>1. <<>> \in Seq(Torrent) /\ Len(<<>>) = 0 /\ cycle.pc = "detail"
    BY <1>1 DEF At
  <2>2. CASE cycle' = Rested([cycle EXCEPT !.todo = <<>>])
    <3> DEFINE now == [cycle EXCEPT !.todo = <<>>]
    <3>1. now \in Cycles /\ now.pc = "detail" /\ now.todo = <<>>
      BY <1>1, <2>1 DEF Cycles
    <3>2. cycle' \in Cycles /\ cycle'.pc = "detail" /\ cycle'.todo = <<>>
      BY <2>2, <3>1, RestedTyped
    <3> QED BY <1>2, <2>1, <3>2
  <2>3. CASE cycle' = [cycle EXCEPT !.todo = Tail(@)]
    <3>1. cycle' \in Cycles /\ cycle'.pc = "detail" /\ cycle'.todo = Tail(cycle.todo)
      BY <1>1, <1>2, <2>1, <2>3 DEF Cycles
    <3> QED BY <1>2, <3>1
  <2> QED BY <1>3, <2>2, <2>3
<1>13. /\ plan \in PlanRec /\ plan.asked \in Nat /\ Cardinality(Torrent) \in Nat /\ plan.added = {}
       /\ plan.asked + Len(cycle.todo) <= Cardinality(Torrent)
  <2>1. plan \in PlanRec /\ plan.added = {} /\ plan.asked + Len(cycle.todo) <= Cardinality(Torrent)
    BY <1>1 DEF PlanOK, At
  <2> QED BY <2>1, TrackerAssumption, FS_CardinalityType DEF PlanRec
<1>14. plan' \in PlanRec /\ plan'.asked = plan.asked + 1 /\ plan'.added = {}
  <2>1. plan.asked + 1 \in 0..Cardinality(Torrent)
    BY <1>2, <1>13
  <2>2. PICK fit : /\ fit = plan.fit \/ fit = plan.fit \cup {First}
                   /\ plan' = [plan EXCEPT !.asked = plan.asked + 1, !.fit = fit]
    BY <1>3 DEF Checked
  <2>3. fit \in SUBSET Torrent
    BY <1>2, <1>13, <2>2 DEF PlanRec
  <2>4. plan' \in PlanRec
    BY <1>13, <2>1, <2>2, <2>3 DEF PlanRec
  <2>5. plan'.asked = plan.asked + 1 /\ plan'.added = plan.added
    BY <1>13, <2>2 DEF PlanRec
  <2> QED BY <1>13, <2>4, <2>5
<1>15. PlanOK'
  <2>1. plan'.asked + Len(cycle'.todo) <= Cardinality(Torrent)
    <3>1. Len(cycle'.todo) \in Nat
      BY <1>12
    <3> QED BY <1>2, <1>12, <1>13, <1>14, <3>1
  <2> QED BY <1>12, <1>14, <2>1 DEF PlanOK, At
<1> QED BY <1>11, <1>12, <1>15

LEMMA ResolvedTyped ==
  ASSUME TypesInv, Resolved
  PROVE  TableOK' /\ cycle' \in Cycles /\ PlanOK'
<1> DEFINE linked(t)  == IF t \in Linked \/ t \in plan.fit \cap Live
                         THEN Put(rows[t], IF t \in plan.fit THEN "free" ELSE seen[t])
                         ELSE rows[t]
           doubled(t) == IF t \in plan.twice \cap Live THEN PutOther(linked(t), "free") ELSE linked(t)
           ids == Linked \cup (Live \cap (plan.fit \cup plan.twice))
           new == [t \in ids |-> doubled(t)]
<1>1. TableOK /\ PlanOK /\ cycle \in Cycles /\ At("detail")
  BY DEF TypesInv, Resolved
<1>2. Learned(new) /\ DOMAIN new = ids /\ ids \in SUBSET Torrent
  BY DEF Resolved, Linked, Live
<1>3. \A t \in ids : rows[t] \in Rows
  BY <1>1, <1>2 DEF TableOK
<1>4. \A t \in Linked : seen[t] \in Offer
  BY <1>1 DEF Linked, Live, TableOK
<1>5. "free" \in Offer
  BY DEF Offer
<1>6. ASSUME NEW t \in ids PROVE Evident(new[t])
  <2>1. t \in Linked \/ t \in plan.fit \cap Live =>
          linked(t) \in Rows /\ Evident(linked(t))
    BY <1>3, <1>4, <1>5, Puts
  <2>2. linked(t) \in Rows
    BY <1>3, <2>1
  <2>3. CASE t \in plan.twice \cap Live
    BY <1>5, <2>2, <2>3, OthersPut
  <2>4. CASE t \notin plan.twice \cap Live
    BY <2>1, <2>4
  <2> QED BY <2>3, <2>4
<1> HIDE DEF new, ids
<1>7. TableOK'
  BY <1>1, <1>2, <1>6, LearnedKeeps
<1>8. /\ cycle' = [cycle EXCEPT !.pc = "gate"]
      /\ \E fit : fit \subseteq plan.fit /\ plan' = [plan EXCEPT !.fit = fit]
  BY DEF Resolved
<1>9. cycle' \in Cycles /\ cycle'.pc = "gate"
  BY <1>1, <1>8 DEF Cycles
<1>10. plan' \in PlanRec /\ plan'.added = {}
  <2>1. plan \in PlanRec /\ plan.added = {}
    BY <1>1 DEF PlanOK, At
  <2> QED BY <1>8, <2>1 DEF PlanRec
<1> QED BY <1>7, <1>9, <1>10 DEF PlanOK, At

LEMMA AdmitTyped ==
  ASSUME TypesInv, Admit
  PROVE  TypesInv'
<1>1. /\ LimitInv' /\ TableOK /\ cycle \in Cycles /\ PlanOK /\ backoff \in BOOLEAN
      /\ cycle.met \in BOOLEAN
  BY AdmitLimit DEF TypesInv, LimitInv, CycleInv, BooksOK
<1>2. backoff' \in BOOLEAN
  BY <1>1 DEF Admit, Discover, DiscoverFails, Check, Resolved, Gate, Add, AddFails, Keep
<1>3. SUFFICES TableOK' /\ cycle' \in Cycles /\ PlanOK'
  BY <1>1, <1>2 DEF TypesInv
<1>4. CASE DiscoverFails
  <2> DEFINE failed == [Idle EXCEPT !.pc = "detail", !.rest = cycle.rest]
  <2>1. /\ UNCHANGED <<rows, seen, older, recent>> /\ At("discover")
        /\ cycle' = Rested(failed) \/ cycle' = failed
    BY <1>4 DEF DiscoverFails
  <2>2. PICK twice \in SUBSET (Live \cap Doubles) : plan' = [plan EXCEPT !.twice = twice]
    BY <1>4 DEF DiscoverFails
  <2>3. cycle' \in Cycles /\ cycle'.pc = "detail" /\ cycle'.todo = <<>>
    <3>1. failed \in Cycles /\ failed.pc = "detail" /\ failed.todo = <<>>
      BY <1>1, IdleIs DEF Cycles
    <3> QED BY <2>1, <3>1, RestedTyped
  <2>4. plan' \in PlanRec /\ plan'.asked = 0 /\ plan'.added = {}
    <3>1. plan \in PlanRec /\ plan.asked = 0 /\ plan.added = {} /\ twice \in SUBSET Torrent
      BY <1>1, <2>1 DEF PlanOK, At, Live
    <3> QED BY <2>2, <3>1 DEF PlanRec
  <2>5. plan'.asked + Len(cycle'.todo) <= Cardinality(Torrent)
    <3>1. Len(<<>>) = 0 /\ Cardinality(Torrent) \in Nat
      BY TrackerAssumption, FS_CardinalityType
    <3> QED BY <2>3, <2>4, <3>1
  <2> QED BY <1>1, <2>1, <2>3, <2>4, <2>5, SameTable DEF PlanOK, At
<1>5. CASE Gate
  <2>1. PICK batch \in SUBSET plan.fit :
          \E best \in SetToSeqs(batch) : cycle' = [cycle EXCEPT !.pc = "add", !.todo = best]
    BY <1>5 DEF Gate
  <2>2. PICK best \in SetToSeqs(batch) : cycle' = [cycle EXCEPT !.pc = "add", !.todo = best]
    BY <2>1
  <2>3. batch \in SUBSET Torrent
    BY <1>1 DEF PlanOK, PlanRec
  <2>4. best \in Seq(Torrent)
    BY <2>3, InSomeOrder
  <2>5. cycle' \in Cycles /\ cycle'.pc = "add" /\ plan' = plan
        /\ UNCHANGED <<rows, seen, older, recent>>
    BY <1>1, <1>5, <2>2, <2>4 DEF Cycles, Gate
  <2> QED BY <1>1, <2>5, SameTable DEF PlanOK, At
<1>6. CASE Add \/ AddFails
  <2>1. /\ Adding /\ cycle.pc = "add" /\ cycle.todo # <<>> /\ UNCHANGED <<rows, seen, older, recent>>
        /\ \/ cycle' = [cycle EXCEPT !.todo = Tail(@)]
           \/ cycle' = [cycle EXCEPT !.todo = <<>>]
        /\ plan' = [plan EXCEPT !.added = @ \cup {First}] \/ plan' = plan
    BY <1>6 DEF Add, AddFails, Adding, At
  <2>2. First \in Torrent /\ Tail(cycle.todo) \in Seq(Torrent) /\ <<>> \in Seq(Torrent)
    <3>1. cycle.todo \in Seq(Torrent)
      BY <1>1 DEF Cycles
    <3> QED BY <2>1, <3>1, HeadTailProperties DEF First
  <2> HIDE DEF First
  <2>3. cycle' \in Cycles /\ cycle'.pc = "add"
    BY <1>1, <2>1, <2>2 DEF Cycles
  <2>4. plan' \in PlanRec
    BY <1>1, <2>1, <2>2 DEF PlanOK, PlanRec
  <2> QED BY <1>1, <2>1, <2>3, <2>4, SameTable DEF PlanOK, At
<1>7. CASE Keep
  <2> DEFINE new == [t \in plan.added |-> Put(rows[t], "free")]
  <2>1. Learned(new) /\ cycle' = Idle /\ plan' = NoPlan
    BY <1>7 DEF Keep
  <2>2. DOMAIN new = plan.added /\ plan.added \in SUBSET Torrent
    BY <1>1 DEF PlanOK, PlanRec
  <2>3. \A t \in plan.added : Evident(new[t])
    <3>1. \A t \in plan.added : rows[t] \in Rows /\ "free" \in Offer
      BY <1>1, <2>2 DEF TableOK, Offer
    <3> QED BY <3>1, Puts
  <2> HIDE DEF new
  <2>4. TableOK'
    BY <1>1, <2>1, <2>2, <2>3, LearnedKeeps
  <2> QED BY <2>1, <2>4, IdleIs DEF PlanOK, NoPlan, At
<1> QED BY <1>4, <1>5, <1>6, <1>7, DiscoverTyped, CheckTyped, ResolvedTyped DEF Admit

LEMMA NextTypes ==
  ASSUME TypesInv, [AdmissionNext]_admissionVars
  PROVE  TypesInv'
<1>1. /\ LimitInv' /\ TableOK /\ cycle \in Cycles /\ PlanOK /\ backoff \in BOOLEAN
  BY NextLimit DEF TypesInv
<1>2. CASE Step
  BY <1>2, BackfillTyped, AdmitTyped DEF Step
<1>3. CASE Dies
  <2>1. UNCHANGED <<rows, seen, older, recent, backoff>> /\ cycle' = Idle /\ plan' = NoPlan
    BY <1>3 DEF Dies
  <2>2. PlanOK'
    BY <2>1, IdleIs DEF PlanOK, NoPlan, At
  <2> QED BY <1>1, <2>1, <2>2, IdleIs, SameTable DEF TypesInv
<1>4. CASE (World /\ UNCHANGED <<plan, mine>>) \/ UNCHANGED admissionVars
  <2>1. UNCHANGED <<rows, seen, older, cycle, plan>>
    BY <1>4 DEF World, BackoffEnds, Cools, Adds, Completes, admissionVars
  <2>2. recent' \subseteq recent /\ backoff' \in BOOLEAN
    BY <1>1, <1>4 DEF World, BackoffEnds, Cools, Adds, Completes, admissionVars
  <2>3. TableOK'
    BY <1>1, <2>1, <2>2 DEF TableOK, Known, Shown, OneAfterTheOther
  <2>4. PlanOK'
    BY <1>1, <2>1 DEF PlanOK, At
  <2> QED BY <1>1, <2>1, <2>2, <2>3, <2>4 DEF TypesInv
<1> QED BY <1>2, <1>3, <1>4 DEF AdmissionNext

\* The rows of every torrent are a line by age, no torrent that has one lacks what to
\* show, a torrent is asked for within its own limit, each candidate is checked once, and
\* what this program has added stays within the limit of bytes left
\* (cli._backfill_tracker_sources, actions/pt.py, cli._enqueue_candidate_batches).
THEOREM AdmissionWithinLimitHolds == AdmissionSpec => []AdmissionWithinLimit
<1>1. TypesInv /\ [AdmissionNext]_admissionVars => TypesInv'
  BY NextTypes
<1>2. TypesInv => AdmissionWithinLimit
  BY TypesAre DEF AdmissionWithinLimit, TypesInv, LimitInv
<1> QED BY InitTypes, <1>1, <1>2, PTL DEF AdmissionSpec

-----------------------------------------------------------------------------
(* The snapshot of a cycle.                                                *)

\* An incomplete torrent of the snapshot waits to be looked at, or its row says what the
\* snapshot said; the fallback is not asked for it, so it never becomes a risk.
FollowsOK ==
  /\ \A t \in cycle.open : where[t] # "new"
  /\ At("batch") => cycle.open \subseteq ToSet(cycle.todo) /\ cycle.risk = {}
  /\ At("scan") \/ At("prune") =>
       \A t \in cycle.open : cycle.listed[t] # "no" =>
         t \notin cycle.risk /\ (t \in ToSet(cycle.todo) \/ rows[t].own = cycle.listed[t])
  /\ At("prune") => cycle.todo = <<>>

\* The inductive invariant.
SnapInv == TypesInv /\ FollowsOK /\ SnapshotIsActedOn

LEMMA InitSnap == AdmissionInit => SnapInv
<1> SUFFICES ASSUME AdmissionInit PROVE SnapInv
  OBVIOUS
<1>1. cycle = Idle
  BY DEF AdmissionInit, Init
<1>2. FollowsOK /\ SnapshotIsActedOn
  BY <1>1, IdleIs DEF FollowsOK, SnapshotIsActedOn, At
<1> QED BY <1>2, InitTypes DEF SnapInv

\* What is learned of one torrent is in its own row, and in no other.
LEMMA OneRow ==
  ASSUME TableOK, NEW t \in Torrent, NEW o \in Offer, Learned([u \in {t} |-> Put(rows[u], o)])
  PROVE  rows'[t].own = o /\ \A u \in Torrent : u # t => rows'[u] = rows[u]
<1> DEFINE new == [u \in {t} |-> Put(rows[u], o)]
<1>1. rows[t] \in Rows
  BY DEF TableOK
<1>2. DOMAIN new = {t} /\ Learned(new) /\ new[t] = Put(rows[t], o)
  OBVIOUS
<1> HIDE DEF new
<1>3. \A u \in Torrent : rows'[u] = IF u = t THEN Put(rows[t], o) ELSE rows[u]
  BY <1>2 DEF Learned
<1> QED BY <1>1, <1>3, Puts

\* A torrent of the scan is looked at, or a request for it is made.
LEMMA LookedAt ==
  ASSUME TypesInv, FollowsOK, Scanning, UNCHANGED where,
         cycle'.pc = "scan", cycle'.open = cycle.open, cycle'.listed = cycle.listed,
         cycle'.todo = cycle.todo \/ cycle'.todo = Tail(cycle.todo),
         cycle'.risk \subseteq cycle.risk \cup {First}, InBatch => cycle'.risk = cycle.risk,
         InBatch => rows'[First].own = cycle.listed[First],
         \A t \in Torrent : t # First => rows'[t] = rows[t]
  PROVE  FollowsOK' /\ SnapshotIsActedOn'
<1>1. cycle.todo \in Seq(Torrent) /\ cycle.todo # <<>> /\ At("scan") /\ cycle.open \subseteq Torrent
  BY DEF TypesInv, Cycles, Scanning
<1>2. \A t \in ToSet(cycle.todo) : t = First \/ t \in ToSet(Tail(cycle.todo))
  <2> SUFFICES ASSUME NEW i \in DOMAIN cycle.todo, i # 1
               PROVE  \E j \in DOMAIN Tail(cycle.todo) : Tail(cycle.todo)[j] = cycle.todo[i]
    BY <1>1 DEF ToSet, First
  <2>1. /\ DOMAIN cycle.todo = 1..Len(cycle.todo) /\ Len(cycle.todo) \in Nat
        /\ DOMAIN Tail(cycle.todo) = 1..(Len(cycle.todo) - 1)
    BY <1>1, HeadTailProperties
  <2>2. i - 1 \in DOMAIN Tail(cycle.todo)
    BY <2>1
  <2>3. Tail(cycle.todo)[i - 1] = cycle.todo[i]
    BY <1>1, <2>1, <2>2
  <2> QED BY <2>2, <2>3
<1>3. \A t \in cycle.open : where'[t] # "new"
  BY DEF FollowsOK
<1>4. ASSUME NEW t \in cycle.open, cycle.listed[t] # "no"
      PROVE  t \notin cycle'.risk /\ (t \in ToSet(cycle'.todo) \/ rows'[t].own = cycle'.listed[t])
  <2>1. t \notin cycle.risk /\ (t \in ToSet(cycle.todo) \/ rows[t].own = cycle.listed[t])
    BY <1>1, <1>4 DEF FollowsOK
  <2>2. CASE t = First
    BY <1>4, <2>1, <2>2 DEF InBatch
  <2>3. CASE t # First
    BY <1>1, <1>2, <2>1, <2>3
  <2> QED BY <2>2, <2>3
<1> QED BY <1>3, <1>4 DEF FollowsOK, SnapshotIsActedOn, At

\* The rows alone decide what the prune does with a torrent of the snapshot: the one of
\* the tracker, unless the row of the second site contradicts it.
LEMMA PruneActs ==
  ASSUME SnapInv, Prune
  PROVE  FollowsOK' /\ SnapshotIsActedOn'
<1>1. PICK refused \in SUBSET Doomed :
        /\ where' = [t \in Torrent |-> IF t \in Doomed \ refused THEN "gone" ELSE where[t]]
        /\ cycle' = [Idle EXCEPT !.pc = IF GoesOn(refused) THEN "discover" ELSE "idle",
                                 !.rest = IF GoesOn(refused) THEN cycle.rest ELSE "none",
                                 !.open = cycle.open, !.listed = cycle.listed,
                                 !.doomed = Doomed \ refused, !.refused = refused]
  BY DEF Prune
<1>2. /\ At("prune") /\ FollowsOK /\ TableOK /\ LinkLive
      /\ cycle.open \subseteq Torrent
  BY DEF Prune, SnapInv, TypesInv, Cycles
<1>3. ASSUME NEW t \in cycle.open, cycle.listed[t] # "no"
      PROVE  /\ t \notin Risk /\ t \notin Linked
             /\ Shown(t) # cycle.listed[t] => Shown(t) = rows[t].other
  <2>1. ToSet(cycle.todo) = {}
    BY <1>2 DEF FollowsOK, ToSet
  <2>2. t \in Torrent /\ t \notin cycle.risk /\ rows[t].own = cycle.listed[t]
    BY <1>2, <1>3, <2>1 DEF FollowsOK
  <2>3. Own(rows[t]) /\ Known(t)
    BY <1>3, <2>2 DEF Own, Known
  <2>4. t \notin Risk /\ t \notin Linked
    BY <2>2, <2>3 DEF Risk, Linked
  <2> QED BY <2>2, <2>4 DEF Shown
<1>4. \A t \in cycle.open : cycle.listed[t] # "no" => Shown(t) # "no" /\ rows'[t] = rows[t]
  <2> SUFFICES ASSUME NEW t \in cycle.open, cycle.listed[t] # "no"
               PROVE  Shown(t) # "no" /\ rows'[t] = rows[t]
    OBVIOUS
  <2>1. t \in Torrent /\ t \notin Linked /\ rows[t].own = cycle.listed[t]
    BY <1>2, <1>3 DEF FollowsOK, ToSet
  <2>2. Known(t)
    BY <2>1 DEF Own, Known
  <2>3. rows'[t] = rows[t]
    BY <1>2, <2>1 DEF LinkLive, Learned
  <2> QED BY <1>2, <2>1, <2>2, <2>3 DEF TableOK
<1>5. \A t \in Torrent : t \in Doomed <=> where[t] = "left" /\ (t \in Risk \/ Shown(t) = "over")
  BY DEF Doomed, Left
<1> HIDE DEF Doomed
<1>6. /\ cycle'.pc \in {"idle", "discover"} /\ cycle'.open = cycle.open
      /\ cycle'.listed = cycle.listed /\ cycle'.doomed = Doomed \ refused /\ cycle'.refused = refused
  BY <1>1 DEF Idle
<1>7. \A t \in cycle.open : where'[t] # "new"
  BY <1>1, <1>2 DEF FollowsOK
<1>8. FollowsOK'
  BY <1>6, <1>7 DEF FollowsOK, At
<1>9. ASSUME NEW t \in cycle.open
      PROVE  /\ cycle.listed[t] = "over" /\ rows'[t].other # "free" =>
                  where'[t] # "left" \/ t \in refused
             /\ cycle.listed[t] = "free" /\ rows'[t].other # "over" => t \notin Doomed
  <2>1. t \in Torrent /\ rows[t] \in Rows
    BY <1>2 DEF TableOK
  <2>2. ASSUME cycle.listed[t] = "over", rows'[t].other # "free"
        PROVE  where'[t] # "left" \/ t \in refused
    <3>1. Shown(t) = "over"
      <4>1. Shown(t) # "no" /\ rows'[t] = rows[t] /\ (Shown(t) # "over" => Shown(t) = rows[t].other)
        BY <1>3, <1>4, <2>2
      <4>2. rows[t].other \in {"free", "over", "no"}
        BY <2>1 DEF Rows, Offer
      <4> QED BY <2>2, <4>1, <4>2
    <3> QED BY <1>1, <1>5, <2>1, <3>1
  <2>3. ASSUME cycle.listed[t] = "free", rows'[t].other # "over" PROVE t \notin Doomed
    BY <1>3, <1>4, <1>5, <2>1, <2>3
  <2> QED BY <2>2, <2>3
<1>10. SnapshotIsActedOn'
  BY <1>6, <1>9 DEF SnapshotIsActedOn
<1> QED BY <1>8, <1>10

LEMMA BackfillSnap ==
  ASSUME SnapInv, Backfill, UNCHANGED <<plan, mine>>
  PROVE  SnapInv'
<1>1. /\ TypesInv' /\ TypesInv /\ CycleInv /\ TableOK /\ cycle \in Cycles /\ FollowsOK
      /\ cycle.met \in BOOLEAN /\ plan' = plan
  <2>1. TypesInv /\ FollowsOK
    BY DEF SnapInv
  <2>2. CycleInv /\ TableOK /\ cycle \in Cycles /\ cycle.met \in BOOLEAN
    BY <2>1 DEF TypesInv, LimitInv, CycleInv, BooksOK
  <2> QED BY <2>1, <2>2, BackfillTyped
<1>2. SUFFICES FollowsOK' /\ SnapshotIsActedOn'
  BY <1>1 DEF SnapInv
<1>4. ASSUME Scanning
      PROVE  /\ First \in Torrent /\ cycle.pc = "scan"
             /\ \A status : /\ Result(status).pc = "scan" /\ Result(status) \in Cycles
                            /\ Result(status).todo = Tail(cycle.todo)
                            /\ Result(status).listed = cycle.listed
                            /\ Result(status).open = cycle.open
                            /\ Result(status).risk \subseteq cycle.risk \cup {First}
                            /\ status \notin Open => Result(status).risk = cycle.risk
  <2>1. cycle.todo # <<>> /\ cycle.pc = "scan" /\ DOMAIN cycle = Fields
    BY <1>1, <1>4 DEF Scanning, At, CycleInv, BooksOK
  <2>2. \A status : Result(status).pc = "scan"
    BY <1>1, <2>1, ResultKeeps
  <2>3. ASSUME NEW status
        PROVE  /\ Result(status) \in Cycles /\ First \in Torrent
               /\ Result(status).todo = Tail(cycle.todo)
               /\ Result(status).listed = cycle.listed /\ Result(status).open = cycle.open
               /\ Result(status).risk \subseteq cycle.risk \cup {First}
               /\ status \notin Open => Result(status).risk = cycle.risk
    BY <1>1, <2>1, ResultTyped
  <2> QED BY <2>1, <2>2, <2>3
<1>5. CASE Begin
  <2>1. LinkLive /\ UNCHANGED where
    BY <1>5 DEF Begin
  <2>2. PICK best \in Sorted(Targets)' :
          cycle' = [Idle EXCEPT !.pc = "batch", !.todo = best, !.open = Left]
    BY <1>5 DEF Begin
  <2>3. best \in SetToSeqs(Targets') /\ Targets' \in SUBSET Torrent /\ Left \subseteq Targets'
    BY <2>1, <2>2 DEF Sorted, Targets, Live, Left
  <2>4. ToSet(best) = Targets'
    BY <2>3, AllInSomeOrder
  <2>5. cycle'.pc = "batch" /\ cycle'.todo = best /\ cycle'.open = Left /\ cycle'.risk = {}
    BY <2>2 DEF Idle
  <2>6. \A t \in Left : where'[t] # "new"
    BY <2>1 DEF Left
  <2> QED BY <1>1, <2>1, <2>3, <2>4, <2>5, <2>6 DEF FollowsOK, SnapshotIsActedOn, At
<1>6. CASE BeginAtRest
  <2>1. cycle'.pc = "prune" /\ cycle'.open = {} /\ cycle'.todo = <<>>
    BY <1>6 DEF BeginAtRest, Rested, Idle
  <2> QED BY <2>1 DEF FollowsOK, SnapshotIsActedOn, At
<1>7. CASE Batch
  <2>1. /\ At("batch") /\ UNCHANGED <<where, rows>>
        /\ \E batch, listed, rest :
              cycle' = [cycle EXCEPT !.pc = "scan", !.batch = batch, !.listed = listed,
                                     !.rest = rest]
    <3>1. At("batch") /\ UNCHANGED <<where, rows>>
      BY <1>7 DEF Batch
    <3>2. PICK batch, listed :
            cycle' = [cycle EXCEPT !.pc = "scan", !.batch = batch, !.listed = listed,
                                   !.rest = SnapshotRest(batch, listed)]
      BY <1>7 DEF Batch
    <3> QED BY <3>1, <3>2
  <2>2. /\ cycle'.pc = "scan" /\ cycle'.open = cycle.open /\ cycle'.todo = cycle.todo
        /\ cycle'.risk = cycle.risk
    BY <1>1, <2>1 DEF Cycles
  <2> QED BY <1>1, <2>1, <2>2 DEF FollowsOK, SnapshotIsActedOn, At
<1>8. CASE FromBatch
  <2>1. Scanning /\ InBatch /\ cycle' = Result("matched") /\ UNCHANGED where
    BY <1>8 DEF FromBatch
  <2>2. cycle.listed[First] \in Offer /\ "matched" \notin Open
    BY <1>1, <1>4, <2>1 DEF InBatch, Cycles, Open
  <2>3. Learned([t \in {First} |-> Put(rows[t], cycle.listed[t])])
    BY <1>8 DEF FromBatch
  <2>4. [t \in {First} |-> Put(rows[t], cycle.listed[t])]
          = [t \in {First} |-> Put(rows[t], cycle.listed[First])]
    OBVIOUS
  <2>5. /\ rows'[First].own = cycle.listed[First]
        /\ \A t \in Torrent : t # First => rows'[t] = rows[t]
    BY <1>1, <1>4, <2>1, <2>2, <2>3, <2>4, OneRow
  <2>6. /\ cycle'.pc = "scan" /\ cycle'.open = cycle.open /\ cycle'.listed = cycle.listed
        /\ cycle'.todo = Tail(cycle.todo) /\ cycle'.risk = cycle.risk
    BY <1>4, <2>1, <2>2
  <2> QED BY <1>1, <2>1, <2>5, <2>6, LookedAt
<1>9. CASE BatchFailed \/ Cached \/ Skipped
  <2>1. Scanning /\ ~InBatch /\ UNCHANGED <<where, rows>> /\ \E status : cycle' = Result(status)
    BY <1>9 DEF BatchFailed, Cached, Skipped, Asking
  <2>2. /\ cycle'.pc = "scan" /\ cycle'.open = cycle.open /\ cycle'.listed = cycle.listed
        /\ cycle'.todo = Tail(cycle.todo) /\ cycle'.risk \subseteq cycle.risk \cup {First}
    BY <1>4, <2>1
  <2> QED BY <1>1, <2>1, <2>2, LookedAt
<1>10. CASE Found \/ NotFound \/ Unclear \/ Fails
  <2>1. Scanning /\ ~InBatch /\ UNCHANGED where
    BY <1>10 DEF Found, NotFound, Unclear, Fails, Asking
  <2>2. \A t \in Torrent : t # First => rows'[t] = rows[t]
    <3>1. CASE Found
      <4>1. PICK o \in Offer : Learned([t \in {First} |-> Put(rows[t], o)])
        BY <3>1 DEF Found
      <4> QED BY <1>1, <1>4, <2>1, <4>1, OneRow
    <3>2. CASE NotFound \/ Unclear \/ Fails
      <4>1. UNCHANGED rows
        BY <3>2 DEF NotFound, Unclear, Fails
      <4> QED BY <4>1
    <3> QED BY <1>10, <3>1, <3>2
  <2>3. /\ cycle'.pc = "scan" /\ cycle'.open = cycle.open /\ cycle'.listed = cycle.listed
        /\ cycle'.todo = cycle.todo \/ cycle'.todo = Tail(cycle.todo)
        /\ cycle'.risk \subseteq cycle.risk \cup {First}
    <3>1. CASE NotFound /\ cycle.asked + 1 # Searches
      <4>1. cycle' = [cycle EXCEPT !.asked = @ + 1, !.left = @ - 1, !.used = @ + 1]
        BY <3>1 DEF NotFound
      <4> QED BY <1>1, <1>4, <2>1, <4>1 DEF Cycles
    <3>2. CASE ~NotFound \/ cycle.asked + 1 = Searches
      <4>1. \E status, left, used :
               LET now == [Result(status) EXCEPT !.left = left, !.used = used]
               IN  cycle' = now \/ cycle' = Rested(now)
        BY <1>10, <3>2 DEF Found, NotFound, Unclear, Fails
      <4>2. PICK status, left, used :
               LET now == [Result(status) EXCEPT !.left = left, !.used = used]
               IN  cycle' = now \/ cycle' = Rested(now)
        BY <4>1
      <4>3. Result(status) \in Cycles
        BY <1>4, <2>1
      <4>4. /\ cycle'.pc = Result(status).pc /\ cycle'.open = Result(status).open
            /\ cycle'.listed = Result(status).listed /\ cycle'.todo = Result(status).todo
            /\ cycle'.risk = Result(status).risk
        BY <4>2, <4>3 DEF Rested, Cycles
      <4> QED BY <1>4, <2>1, <4>4
    <3> QED BY <3>1, <3>2
  <2> QED BY <1>1, <2>1, <2>2, <2>3, LookedAt
<1>11. CASE Scanned
  <2>1. /\ At("scan") /\ cycle.todo = <<>> /\ cycle' = [cycle EXCEPT !.pc = "prune"]
        /\ UNCHANGED <<where, rows>>
    BY <1>11 DEF Scanned
  <2>2. /\ cycle'.pc = "prune" /\ cycle'.open = cycle.open /\ cycle'.listed = cycle.listed
        /\ cycle'.todo = cycle.todo /\ cycle'.risk = cycle.risk
    BY <1>1, <2>1 DEF Cycles
  <2> QED BY <1>1, <2>1, <2>2 DEF FollowsOK, SnapshotIsActedOn, At
<1>12. CASE Prune
  BY <1>12, PruneActs
<1> QED BY <1>5, <1>6, <1>7, <1>8, <1>9, <1>10, <1>11, <1>12 DEF Backfill

LEMMA AdmitSnap ==
  ASSUME SnapInv, Admit
  PROVE  SnapInv'
<1>1. /\ TypesInv' /\ TypesInv /\ TableOK /\ cycle \in Cycles /\ PlanOK /\ FollowsOK
      /\ DOMAIN plan = PlanFields
  <2>1. TypesInv /\ FollowsOK
    BY DEF SnapInv
  <2>2. TableOK /\ cycle \in Cycles /\ PlanOK /\ DOMAIN plan = PlanFields
    BY <2>1 DEF TypesInv, LimitInv, CycleInv, BooksOK
  <2>3. TypesInv'
    BY <2>1, AdmitTyped
  <2> QED BY <2>1, <2>2, <2>3
<1>2. FollowsOK' /\ SnapshotIsActedOn'
  <2>1. CASE Discover \/ DiscoverFails \/ Keep
    <3>1. cycle'.pc \in {"detail", "idle"} /\ cycle'.open = {}
      <4>1. CASE Discover
        <5>1. \E best : cycle' = [Idle EXCEPT !.pc = "detail", !.todo = best, !.rest = cycle.rest]
          BY <4>1 DEF Discover
        <5> QED BY <5>1 DEF Idle
      <4>2. CASE DiscoverFails
        <5> DEFINE failed == [Idle EXCEPT !.pc = "detail", !.rest = cycle.rest]
        <5>1. cycle' = failed \/ cycle' = Rested(failed)
          BY <4>2 DEF DiscoverFails
        <5>2. failed.pc = "detail" /\ failed.open = {} /\ {"pc", "open"} \subseteq DOMAIN failed
          BY DEF Idle
        <5> HIDE DEF failed
        <5> QED BY <5>1, <5>2 DEF Rested
      <4>3. CASE Keep
        BY <4>3 DEF Keep, Idle
      <4> QED BY <2>1, <4>1, <4>2, <4>3
    <3> QED BY <3>1 DEF FollowsOK, SnapshotIsActedOn, At
  <2>2. CASE Check \/ Resolved \/ Gate \/ Add \/ AddFails
    <3>1. cycle'.pc \in {"detail", "gate", "add"} /\ cycle'.open = cycle.open
      <4>1. CASE Check
        BY <1>1, <4>1 DEF Check, Checking, Rested, At, Cycles
      <4>2. CASE Resolved
        BY <1>1, <4>2 DEF Resolved, Cycles
      <4>3. CASE Gate
        BY <1>1, <4>3 DEF Gate, Cycles
      <4>4. CASE Add \/ AddFails
        BY <1>1, <4>4 DEF Add, AddFails, Adding, At, Cycles
      <4> QED BY <2>2, <4>1, <4>2, <4>3, <4>4
    <3>2. where' = where \/ Taken(First)
      BY <2>2 DEF Check, Resolved, Gate, Add, AddFails
    <3>3. \A t \in cycle.open : where'[t] # "new"
      <4>1. \A t \in cycle.open : where[t] # "new" /\ t \in Torrent
        BY <1>1 DEF FollowsOK, Cycles
      <4>2. where \in [Torrent -> Place]
        BY <1>1 DEF TypesInv, LimitInv, HandOK
      <4> QED BY <3>2, <4>1, <4>2 DEF Taken
    <3> QED BY <3>1, <3>3 DEF FollowsOK, SnapshotIsActedOn, At
  <2> QED BY <2>1, <2>2 DEF Admit
<1> QED BY <1>1, <1>2 DEF SnapInv

LEMMA NextSnap ==
  ASSUME SnapInv, [AdmissionNext]_admissionVars
  PROVE  SnapInv'
<1>1. TypesInv' /\ FollowsOK /\ SnapshotIsActedOn /\ cycle.open \subseteq Torrent
      /\ where \in [Torrent -> Place]
  BY NextTypes DEF SnapInv, TypesInv, LimitInv, HandOK, Cycles
<1>2. CASE Step
  BY <1>2, BackfillSnap, AdmitSnap DEF Step
<1>3. CASE Dies
  <2>1. cycle' = Idle
    BY <1>3 DEF Dies
  <2>2. FollowsOK' /\ SnapshotIsActedOn'
    BY <2>1, IdleIs DEF FollowsOK, SnapshotIsActedOn, At
  <2> QED BY <1>1, <2>2 DEF SnapInv
<1>4. CASE (World /\ UNCHANGED <<plan, mine>>) \/ UNCHANGED admissionVars
  <2>1. UNCHANGED <<rows, cycle, plan>>
    BY <1>4 DEF World, BackoffEnds, Cools, Adds, Completes, admissionVars
  <2>2. \/ where' = where
        \/ \E t \in Torrent : where[t] = "new" /\ where' = [where EXCEPT ![t] = "left"]
        \/ \E t \in Torrent : where[t] = "left" /\ where' = [where EXCEPT ![t] = "done"]
    BY <1>4 DEF World, BackoffEnds, Cools, Adds, Completes, admissionVars
  <2>3. \A t \in cycle.open : /\ where'[t] # "new"
                              /\ where'[t] = "left" => where[t] = "left"
    BY <1>1, <2>2 DEF FollowsOK
  <2> QED BY <1>1, <2>1, <2>3 DEF SnapInv, FollowsOK, SnapshotIsActedOn, At
<1> QED BY <1>2, <1>3, <1>4 DEF AdmissionNext

\* What the snapshot of a cycle says of an incomplete torrent is what the prune of that
\* cycle acts on, unless the row of a second site says otherwise
\* (cli._mteam_user_torrent_batch_match, state.apply_torrent_runtime,
\* policies/cleanup._free_window_decision).
THEOREM SnapshotIsActedOnHolds == AdmissionSpec => []SnapshotIsActedOn
<1>1. SnapInv /\ [AdmissionNext]_admissionVars => SnapInv'
  BY NextSnap
<1>2. SnapInv => SnapshotIsActedOn
  BY DEF SnapInv
<1> QED BY InitSnap, <1>1, <1>2, PTL DEF AdmissionSpec

=============================================================================
