------------------------------- MODULE SeedPool -------------------------------
(***************************************************************************)
(* The seed pool: the torrents of the downloader that count against one    *)
(* byte budget, the runs that add to it (run-once, enqueue) and delete     *)
(* from it (prune, the capacity guard), and the candidates' rows in the    *)
(* state database.  The scheduler's runs follow each other; an operator's  *)
(* command may run beside them, and people use the downloader as well.     *)
(*                                                                         *)
(* A candidate's torrent has the candidate's hash, title and size, so that *)
(* a listing matches them; "other" is a category no policy names.  A       *)
(* torrent is "free" (incomplete, nothing to pay), "risky" (incomplete,    *)
(* and broken, paid for, or about to be) or "seeding" (complete).          *)
(***************************************************************************)
EXTENDS Integers, Sequences, SequencesExt

CONSTANTS Cand, Users,      \* hashes of the candidates' torrents and of other people's
          Size,             \* bytes of a torrent
          Cap,              \* BudgetPoolConfig.max_size_tib
          MaxLeft, MaxActive,      \* pt_filters: bytes still to download, downloads at work
          Limit,            \* seed_cleanup.max_capacity_deletes_per_run
          Commands,         \* what the operator may run beside the scheduler
          MaxNews, MaxCommands, MaxFaults, MaxOdd   \* bounds of the instance

Hash == Cand \cup Users

ASSUME PoolAssumption ==
  /\ Cand \cap Users = {} /\ IsFiniteSet(Hash) /\ Size \in [Hash -> Nat \ {0}]
  /\ {Cap, MaxLeft, MaxActive, Limit, MaxNews, MaxCommands, MaxFaults} \subseteq Nat
  /\ Commands \subseteq {"run", "enqueue", "prune"}

VARIABLES live,      \* the downloader's torrents
          rows,      \* table candidates
          job,       \* what each process is doing
          turn,      \* what the scheduler does next
          foreign, gone,    \* bytes others added and took since a process last listed
          removed, evicted, \* candidates whose torrent went; by this code, with a row
          news, commands, faults

counts == <<news, commands, faults>>
vars   == <<live, rows, job, turn, foreign, gone, removed, evicted, counts>>

Proc    == {"scheduler", "operator"}
Mutable == <<"seed", "films">>         \* the policies with deletes, in their order
Policy  == Range(Mutable)
Default == "seed"                      \* default_category
Kind    == {"free", "risky", "seeding"}
Left    == {"free", "risky"}

-----------------------------------------------------------------------------
(* The pool.                                                               *)

Bytes(T)   == SumFunctionOnSet(Size, T)
Pooled(l)  == {h \in DOMAIN l : l[h].cat \in Policy}
Usage(l)   == Bytes(Pooled(l))
Over(l)    == Usage(l) > Cap
\* _load_policy_torrents: what a listing shows of the policies' categories.
Listing    == Restrict(live, {h \in Pooled(live) : live[h].shown})
Without(l, h) == Restrict(l, DOMAIN l \ {h})
Positive(n) == IF n > 0 THEN n ELSE 0

\* What a process has seen is out of date by what others added and took since.
Looking  == {"sync", "add", "prunesync", "pick", "recheck", "delete",
             "settle", "final"}
Others(p, in, out) ==
  /\ foreign' = [q \in Proc |-> foreign[q] + IF q # p /\ job[q].pc \in Looking THEN in ELSE 0]
  /\ gone'    = [q \in Proc |-> gone[q]    + IF q # p /\ job[q].pc \in Looking THEN out ELSE 0]
Looks(p) ==
  /\ foreign' = [foreign EXCEPT ![p] = Usage(live) - Usage(Listing)]
  /\ gone'    = [gone EXCEPT ![p] = 0]
InPool(h) == IF h \in Pooled(live) THEN Size[h] ELSE 0

-----------------------------------------------------------------------------
(* The candidates' rows.  "live" is downloading, seeding or paused; qb:<hash> *)
(* rows are evidence that no decision reads.  An active linked row is old     *)
(* when it was last written before the grace of reconcile_missing_torrents.   *)

NoRow   == [state |-> "none", linked |-> FALSE, old |-> FALSE]
Rank(s) == CHOOSE n \in 1..5 : <<"none", "scored", "enqueued", "live", "deleted">>[n] = s

\* upsert_candidate: a state of a lower rank changes neither state nor hash.
UpsertBlind(r, s, linked) == [state |-> s, linked |-> linked, old |-> FALSE]   \* mutant
Upsert(r, s, linked) ==
  IF Rank(r.state) > Rank(s) THEN [r EXCEPT !.old = FALSE]
  ELSE [state |-> s, linked |-> linked \/ r.linked, old |-> FALSE]

Fill(R, C, op(_)) == [c \in Cand |-> IF c \in C THEN op(R[c]) ELSE R[c]]

\* reconcile_missing_torrents: an active row whose hash is not listed, once it is old.
Missing(r) == r.linked /\ r.state \in {"enqueued", "live"} /\ r.old
Reconciled(R, l) ==
  Fill(R, {c \in Cand \ DOMAIN l : Missing(R[c])}, LAMBDA r : [r EXCEPT !.state = "deleted",
                                                                       !.old = FALSE])

\* _persist_live_torrent_candidates: a linked row that was deleted is revived, an unlinked
\* one of the same tracker id, or title and size, is linked.
Presents(r) == r.state = "deleted" \/ (r.state # "none" /\ ~r.linked)
Present(R, l) ==
  Fill(R, {c \in Cand \cap DOMAIN l : Presents(R[c])}, LAMBDA r : [state |-> "live",
                                                                 linked |-> TRUE, old |-> FALSE])

\* What each listing of _enqueue_runtime_context and _prune_payload leaves behind.
Synced(R, l) == Present(Reconciled(R, l), l)

-----------------------------------------------------------------------------
(* The processes.                                                          *)

NoPrune == [force |-> FALSE, want |-> 0, pol |-> 1, base |-> 0, size |-> 0, got |-> 0, n |-> 0,
            todo |-> {}, cut |-> {}, broke |-> FALSE, cur |-> <<>>]
Idle == [pc |-> "idle", mode |-> "none", list |-> <<>>, acc |-> {}, plan |-> <<>>,
         sent |-> {}, tied |-> {}, pruned |-> FALSE, out |-> {}, pr |-> NoPrune]

Init ==
  /\ live = <<>> /\ rows = [c \in Cand |-> NoRow]
  /\ job = [p \in Proc |-> Idle] /\ turn = "guard"
  /\ foreign = [p \in Proc |-> 0] /\ gone = [p \in Proc |-> 0]
  /\ removed = {} /\ evicted = {}
  /\ news = 0 /\ commands = 0 /\ faults = 0

\* What disturbs one history, all in all: a command beside the scheduler counts for two.
Odd(n)    == news + 2 * commands + faults + n <= MaxOdd
At(p, pc) == job[p].pc = pc
Goes(p, j) == job' = [job EXCEPT ![p] = j]
Ends(p) ==
  /\ Goes(p, Idle)
  /\ foreign' = [foreign EXCEPT ![p] = 0] /\ gone' = [gone EXCEPT ![p] = 0]

Opens(p, m) == Goes(p, [Idle EXCEPT !.mode = m,
                                    !.pc = CASE m = "prune" -> "prunelist"
                                             [] m = "guard" -> "watch"
                                             [] OTHER       -> "find"])

\* schedule_run: the PT phase, then the guard of the wait or the next cycle's prune phase.
Schedule ==
  /\ At("scheduler", "idle") /\ Opens("scheduler", turn)
  /\ turn' = IF turn = "run" THEN "guard" ELSE "run"
  /\ UNCHANGED <<live, rows, foreign, gone, removed, evicted, counts>>

Command ==
  /\ At("operator", "idle") /\ Odd(2) /\ commands < MaxCommands /\ commands' = commands + 1
  /\ \E m \in Commands : Opens("operator", m)
  /\ UNCHANGED <<live, rows, turn, foreign, gone, removed, evicted, news, faults>>

-----------------------------------------------------------------------------
(* Adding.                                                                 *)

\* _candidate_already_active, of the row the discovery left behind.
Active(r) == Rank(r.state) >= Rank("enqueued")

\* Discovery and scoring: run-once writes a row for each candidate found, leaves the
\* active ones out, and prunes stale rows; enqueue does none of that.
Find(p) ==
  /\ At(p, "find")
  /\ \E found \in SUBSET Cand : \E accepted, stale \in SUBSET Cand :
       /\ accepted \subseteq found
       /\ \A c \in stale : c \notin found /\ rows[c].state = "scored"
       /\ LET R == Fill(Fill(rows, found, LAMBDA r : Upsert(r, "scored", FALSE)),
                        stale, LAMBDA r : NoRow)
          IN  IF job[p].mode = "run"
              THEN /\ rows' = R
                   /\ Goes(p, [job[p] EXCEPT !.pc = "list", !.out = evicted,
                                             !.acc = {c \in accepted : ~Active(R[c])}])
              ELSE /\ stale = {} /\ found = accepted /\ rows' = rows
                   /\ Goes(p, [job[p] EXCEPT !.pc = "list", !.acc = accepted])
  /\ UNCHANGED <<live, turn, foreign, gone, removed, evicted, counts>>

List(p) ==
  /\ At(p, "list") /\ Looks(p)
  /\ Goes(p, [job[p] EXCEPT !.pc = "sync", !.list = Listing])
  /\ UNCHANGED <<live, rows, turn, removed, evicted, counts>>

\* _download_liability_bytes and the downloads at work, of a listing.
Unfinished(l)  == {h \in DOMAIN l : l[h].kind \in Left}
Working(l)     == {h \in Unfinished(l) : l[h].cat = Default}

\* _enqueue_candidate_batches: one by one, best first, each with those before it counted.
\* Which are best is free; what is left out would not fit at the end either.  A pool over
\* its maximum and a full set of downloads (_enqueue_pause_reasons) let none join.
Fits(l, plan, c) == Usage(l) + Bytes(Range(plan)) + Size[c] <= Cap
MayJoin(l, plan, c) ==
  /\ Cardinality(Working(l)) + Len(plan) < MaxActive
  /\ Fits(l, plan, c)
  /\ Bytes(Unfinished(l)) + Bytes(Range(plan)) + Size[c] <= MaxLeft
Plans(l, A) ==
  {plan \in SetToAllKPermutations(A) :
     /\ \A i \in DOMAIN plan : MayJoin(l, SubSeq(plan, 1, i - 1), plan[i])
     /\ \A c \in A \ Range(plan) : ~MayJoin(l, plan, c)}

\* _capacity_reclaim_target_bytes.
Wanted(l, A) == Max({0, Usage(l) + Bytes(A) - Cap, Bytes(Unfinished(l)) + Bytes(A) - MaxLeft})

\* _enqueue_runtime_context, _link_existing_live_torrent_candidates and the plan: what is
\* live under a candidate's title is linked, not added.  A scheduled run that would turn
\* candidates away prunes first, once.
Sync(p) ==
  /\ At(p, "sync")
  /\ LET l  == job[p].list
         A  == job[p].acc \ DOMAIN l
     IN  /\ rows' = Fill(Synced(rows, l), job[p].acc \cap DOMAIN l,
                         LAMBDA r : Upsert(r, "live", TRUE))
         /\ \E plan \in Plans(l, A) :
              IF job[p].mode = "run" /\ ~job[p].pruned /\ Range(plan) # A
              THEN /\ Goes(p, [job[p] EXCEPT !.pc = "prunelist", !.acc = A, !.list = <<>>,
                                 !.pruned = TRUE, !.pr.force = TRUE, !.pr.want = Wanted(l, A)])
                   /\ UNCHANGED <<foreign, gone>>
              ELSE IF plan = <<>> THEN Ends(p)
              ELSE /\ Goes(p, [job[p] EXCEPT !.pc = "add", !.acc = {}, !.list = <<>>,
                                             !.plan = plan])
                   /\ UNCHANGED <<foreign, gone>>
  /\ UNCHANGED <<live, turn, removed, evicted, counts>>

New(cat, shown) == [cat |-> cat, kind |-> "free", shown |-> shown]
\* The downloader may be slow to show what it took.
Slow == Odd(1) /\ faults < MaxFaults /\ faults' = faults + 1
Arrives(h, cat, shown) ==
  live' = [g \in DOMAIN live \cup {h} |-> IF g = h THEN New(cat, shown) ELSE live[g]]

\* enqueue_candidates, one add_url.  The hash is told in the answer, or found in a listing
\* that shows the torrent, or stays unknown.
Accepted(p, c) ==
  /\ \/ /\ c \notin DOMAIN live /\ Others(p, Size[c], 0)
        /\ \/ Arrives(c, Default, TRUE) /\ UNCHANGED faults
           \/ Arrives(c, Default, FALSE) /\ Slow
     \/ c \in DOMAIN live /\ UNCHANGED <<live, foreign, gone, faults>>
  /\ \E tied \in SUBSET {c} :
       Goes(p, [job[p] EXCEPT !.plan = Tail(@), !.sent = @ \cup {c}, !.tied = @ \cup tied])
\* It fails, and the batch with it: before or after the downloader took the torrent.
Refused(p, c) ==
  /\ \/ c \notin DOMAIN live /\ Arrives(c, Default, TRUE) /\ Others(p, Size[c], 0)
     \/ UNCHANGED <<live, foreign, gone>>
  /\ Odd(1) /\ faults < MaxFaults /\ faults' = faults + 1
  /\ Goes(p, [job[p] EXCEPT !.plan = <<>>])
Add(p) ==
  /\ At(p, "add") /\ job[p].plan # <<>>
  /\ LET c == Head(job[p].plan) IN Accepted(p, c) \/ Refused(p, c)
  /\ UNCHANGED <<rows, turn, removed, evicted, news, commands>>

\* _persist_enqueue_state, after the whole batch.
Save(p) ==
  /\ At(p, "add") /\ job[p].plan = <<>> /\ Ends(p)
  /\ rows' = [c \in Cand |-> IF c \in job[p].sent
                             THEN Upsert(rows[c], "enqueued", c \in job[p].tied) ELSE rows[c]]
  /\ UNCHANGED <<live, turn, removed, evicted, counts>>

-----------------------------------------------------------------------------
(* Deleting.                                                               *)

\* The prune phase always prunes; _capacity_guard_payload when the pool is over, or an
\* incomplete torrent broke.
SkipsBroken(l) == TRUE                 \* mutant: only what broke is looked at
MaySkip(l)     == ~Over(l)
Watch(p) ==
  /\ At(p, "watch")
  /\ \/ /\ Goes(p, [job[p] EXCEPT !.pc = "prunelist"])
        /\ UNCHANGED <<foreign, gone>>
     \/ MaySkip(Listing) /\ Ends(p)
  /\ UNCHANGED <<live, rows, turn, removed, evicted, counts>>

PruneList(p) ==
  /\ At(p, "prunelist") /\ Looks(p)
  /\ Goes(p, [job[p] EXCEPT !.pc = "prunesync", !.list = Listing])
  /\ UNCHANGED <<live, rows, turn, removed, evicted, counts>>

OfPolicy(l, n) == {h \in DOMAIN l : l[h].cat = Mutable[n]}

PruneSync(p) ==
  /\ At(p, "prunesync")
  /\ rows' = Synced(rows, job[p].list)
  /\ Goes(p, [job[p] EXCEPT !.pc = "pick", !.pr.todo = OfPolicy(job[p].list, 1)])
  /\ UNCHANGED <<live, turn, foreign, gone, removed, evicted, counts>>

\* The bytes still to reclaim in this policy, and whether any are.
Target(p) == LET j == job[p] IN Positive(Max({j.pr.want, Usage(j.list) - Cap}) - j.pr.base)
Needs(p)  == (job[p].pr.force \/ Over(job[p].list)) /\ job[p].pr.got < Target(p)

\* classify_cleanup of a torrent of the policy's category: billing and breakage first, the
\* pool's bytes next, then what protects a torrent.  Only an operator's prune deletes a
\* complete one for its low upload when no bytes are needed.
Class(p, kind, need) ==
  IF kind = "risky" THEN {"delete"}
  ELSE IF need THEN {"evict"}
  ELSE IF kind = "seeding" /\ p = "operator" THEN {"keep", "delete"}
  ELSE {"keep"}

\* The limit of capacity deletes, which a pool that was listed over its maximum lifts.
LimitAlways(p)  == job[p].pr.n >= Limit                           \* mutant: never lifted
LimitReached(p) == ~Over(job[p].list) /\ job[p].pr.n >= Limit

\* What prune_cold_torrents may do to a torrent, as it was listed.  It looks at one after
\* the other; what it keeps now it would keep later, since Needs never turns true again.
Verdict(p, h) == Class(p, job[p].list[h].kind, Needs(p))
                   \ IF LimitReached(p) THEN {"keep", "evict"} ELSE {"keep"}
Kept(p, h)    == Verdict(p, h) = {} \/ "keep" \in Class(p, job[p].list[h].kind, Needs(p))

Pick(p) ==
  /\ At(p, "pick")
  /\ \E h \in job[p].pr.todo : \E class \in Verdict(p, h) :
       Goes(p, [job[p] EXCEPT !.pc = "recheck",
                  !.pr.cur = [h |-> h, need |-> Needs(p), class |-> class,
                              kind |-> job[p].list[h].kind]])
  /\ UNCHANGED <<live, rows, turn, foreign, gone, removed, evicted, counts>>

\* It lists the category again: the torrent may be gone, elsewhere, or another kind by now.
Recheck(p) ==
  /\ At(p, "recheck")
  /\ LET cur   == job[p].pr.cur
         here  == cur.h \in DOMAIN Listing /\ live[cur.h].cat = Mutable[job[p].pr.pol]
     IN  \E class \in IF here THEN Class(p, live[cur.h].kind, cur.need) ELSE {"keep"} :
         IF class = "keep"
         THEN Goes(p, [job[p] EXCEPT !.pc = "pick", !.pr.todo = @ \ {cur.h}, !.pr.cur = <<>>])
         ELSE Goes(p, [job[p] EXCEPT !.pc = "delete", !.pr.cur.class = class,
                                 !.pr.cur.kind = live[cur.h].kind])
  /\ UNCHANGED <<live, rows, turn, foreign, gone, removed, evicted, counts>>

\* _reclaim_progress_bytes: a forced prune counts what an incomplete torrent had on disk.
OnDisk(h)      == Size[h] \div 2
Progress(p, t) == IF job[p].pr.force /\ t.kind \in Left THEN OnDisk(t.h) ELSE Size[t.h]
\* What the deletion of cur adds to the sums of the run.
CountedEvictions(p) ==             \* mutant: mandatory deletions reclaim nothing
  LET cur == job[p].pr.cur  pr == job[p].pr  new == cur.class = "evict"
  IN  [pr EXCEPT !.todo = @ \ {cur.h}, !.cut = @ \cup {cur.h}, !.cur = <<>>,
                 !.n    = IF new THEN @ + 1 ELSE @,
                 !.got  = IF cur.need /\ new THEN @ + Progress(p, cur) ELSE @,
                 !.size = IF cur.need /\ new THEN @ + Size[cur.h] ELSE @]
Counted(p) ==
  LET cur == job[p].pr.cur  pr == job[p].pr
  IN  [pr EXCEPT !.todo = @ \ {cur.h}, !.cut = @ \cup {cur.h}, !.cur = <<>>,
                 !.n    = IF cur.class = "evict" THEN @ + 1 ELSE @,
                 !.got  = IF cur.need THEN @ + Progress(p, cur) ELSE @,
                 !.size = IF cur.need THEN @ + Size[cur.h] ELSE @]

Takes(p, h) ==
  /\ live' = Without(live, h) /\ Others(p, 0, InPool(h))
  /\ removed' = removed \cup ({h} \cap Cand)
  /\ evicted' = evicted \cup {c \in {h} \cap Cand : rows[c].linked}
Stays == UNCHANGED <<live, foreign, gone, removed, evicted>>

\* downloader.delete and _delete_is_absent; a failure ends the batch, with the torrent
\* still there or gone.
Deleted(p, h) ==
  /\ IF h \in DOMAIN live THEN Takes(p, h) ELSE Stays
  /\ Goes(p, [job[p] EXCEPT !.pc = "pick", !.pr = Counted(p)])
  /\ UNCHANGED faults
Fails(p, h) ==
  /\ Odd(1) /\ faults < MaxFaults /\ faults' = faults + 1
  /\ (h \in DOMAIN live /\ Takes(p, h)) \/ Stays
  /\ Goes(p, [job[p] EXCEPT !.pc = "settle", !.pr.broke = TRUE])
DeleteOne(p) ==
  /\ At(p, "delete")
  /\ LET h == job[p].pr.cur.h IN Deleted(p, h) \/ Fails(p, h)
  /\ UNCHANGED <<rows, turn, news, commands>>

\* The next policy starts from what the ones before it reclaimed.
NextPolicy(p) ==
  /\ At(p, "pick") /\ \A h \in job[p].pr.todo : Kept(p, h)
  /\ IF job[p].pr.pol < Len(Mutable)
     THEN Goes(p, [job[p] EXCEPT !.pr.pol = @ + 1, !.pr.base = @ + job[p].pr.size,
                                 !.pr.size = 0, !.pr.got = 0,
                                 !.pr.todo = OfPolicy(job[p].list, job[p].pr.pol + 1)])
     ELSE Goes(p, [job[p] EXCEPT !.pc = "settle", !.pr.todo = {}])
  /\ UNCHANGED <<live, rows, turn, foreign, gone, removed, evicted, counts>>

\* _persist_prune_state: the rows of what was deleted, after all of it; then a last listing.
Settle(p) ==
  /\ At(p, "settle")
  /\ rows' = [c \in Cand |-> IF c \in job[p].pr.cut /\ rows[c].linked
                             THEN Upsert(rows[c], "deleted", TRUE) ELSE rows[c]]
  /\ IF job[p].pr.broke THEN Ends(p)
     ELSE /\ Goes(p, [job[p] EXCEPT !.pc = "final", !.list = Listing, !.pr = NoPrune])
          /\ UNCHANGED <<foreign, gone>>
  /\ UNCHANGED <<live, turn, removed, evicted, counts>>

\* The run ends in an error while a pool is over its maximum; a run-once goes on otherwise.
Final(p) ==
  /\ At(p, "final")
  /\ rows' = Reconciled(rows, job[p].list)
  /\ IF job[p].mode = "run" /\ ~Over(job[p].list)
     THEN Goes(p, [job[p] EXCEPT !.pc = "list", !.list = <<>>]) /\ UNCHANGED <<foreign, gone>>
     ELSE Ends(p)
  /\ UNCHANGED <<live, turn, removed, evicted, counts>>

-----------------------------------------------------------------------------
(* What happens around the processes.                                      *)

\* The process dies, or an exception leaves the run: what it had not written is lost.
Dies(p) ==
  /\ ~At(p, "idle") /\ Odd(1) /\ faults < MaxFaults /\ faults' = faults + 1 /\ Ends(p)
  /\ UNCHANGED <<live, rows, turn, removed, evicted, news, commands>>

\* The grace of reconcile_missing_torrents passes: the downloader shows by then what it
\* took, and no listing is that old when it is reconciled.
Ageing(r) == r.linked /\ r.state \in {"enqueued", "live"} /\ ~r.old
Age ==
  /\ \A p \in Proc : job[p].pc \notin {"sync", "prunesync", "final"}
  /\ \A h \in DOMAIN live : live[h].shown
  /\ rows' = Fill(rows, {c \in Cand : Ageing(rows[c])}, LAMBDA r : [r EXCEPT !.old = TRUE])
  /\ UNCHANGED <<live, job, turn, foreign, gone, removed, evicted, counts>>

Show(h) ==
  /\ h \in DOMAIN live /\ ~live[h].shown /\ live' = [live EXCEPT ![h].shown = TRUE]
  /\ UNCHANGED <<rows, job, turn, foreign, gone, removed, evicted, counts>>

\* A download completes, or its free window ends or it breaks.
Turns(h) ==
  /\ h \in DOMAIN live /\ live[h].shown
  /\ \E k \in Kind : /\ <<live[h].kind, k>> \in {<<"free", "risky">>, <<"free", "seeding">>,
                                                 <<"risky", "seeding">>}
                     /\ live' = [live EXCEPT ![h].kind = k]
  /\ UNCHANGED <<rows, job, turn, foreign, gone, removed, evicted, counts>>

\* People add, delete and move torrents in the downloader.
Person(h) ==
  /\ Odd(1) /\ news < MaxNews /\ news' = news + 1
  /\ \/ /\ h \in Users \ DOMAIN live
        /\ \E cat \in Policy : Arrives(h, cat, TRUE)
        /\ Others("a person", Size[h], 0) /\ UNCHANGED removed
     \/ /\ h \in DOMAIN live
        /\ live' = Without(live, h)
        /\ Others("a person", 0, InPool(h)) /\ removed' = removed \cup ({h} \cap Cand)
     \/ /\ h \in Pooled(live)
        /\ \E cat \in (Policy \cup {"other"}) \ {live[h].cat} :
             /\ live' = [live EXCEPT ![h].cat = cat]
             /\ Others("a person", IF cat = "other" THEN 0 ELSE Size[h], Size[h])
             /\ removed' = IF cat = "other" THEN removed \cup ({h} \cap Cand) ELSE removed
  /\ UNCHANGED <<rows, job, turn, evicted, commands, faults>>

-----------------------------------------------------------------------------

Step(p) ==
  \/ Find(p) \/ List(p) \/ Sync(p) \/ Add(p) \/ Save(p)
  \/ Watch(p) \/ PruneList(p) \/ PruneSync(p) \/ Pick(p) \/ Recheck(p) \/ DeleteOne(p)
  \/ NextPolicy(p) \/ Settle(p) \/ Final(p)

Showing == \E h \in Hash : Show(h)

Next ==
  \/ Schedule \/ Command \/ Age \/ Showing
  \/ \E p \in Proc : Step(p) \/ Dies(p)
  \/ \E h \in Hash : Turns(h) \/ Person(h)

Fairness == WF_vars(Schedule \/ Step("scheduler")) /\ WF_vars(Showing)

PoolSpec == Init /\ [][Next]_vars /\ Fairness

-----------------------------------------------------------------------------
(* What holds.                                                             *)

PoolTypeOK ==
  /\ DOMAIN live \subseteq Hash
  /\ \A h \in DOMAIN live : live[h] \in [cat : Policy \cup {"other"}, kind : Kind, shown : BOOLEAN]
  /\ rows \in [Cand -> [state : {"none", "scored", "enqueued", "live", "deleted"},
                        linked : BOOLEAN, old : BOOLEAN]]
  /\ \A c \in Cand : /\ rows[c].linked => rows[c].state \in {"enqueued", "live", "deleted"}
                     /\ rows[c].state \in {"live", "deleted"} => rows[c].linked
  /\ \A p \in Proc : Pooled(job[p].list) = DOMAIN job[p].list
                     /\ foreign[p] >= 0 /\ gone[p] >= 0

(* A run adds no more than the pool has room for: what it still has to add fits   *)
(* beside everything the pool holds, but for what others added since it looked.   *)
WithinPlan ==
  \A p \in Proc : At(p, "add") => Usage(live) + Bytes(Range(job[p].plan)) <= Cap + foreign[p]

(* No torrent is evicted for space that is not needed any more: while a prune     *)
(* that is not forced is about to evict, the pool is over its maximum, but for    *)
(* what others took since it looked.                                              *)
NoNeedlessEviction ==
  \A p \in Proc : At(p, "delete") /\ job[p].pr.cur.class = "evict" /\ ~job[p].pr.force
                  => Usage(live) + gone[p] > Cap

(* Both decisions that are made on an earlier listing of the pool are still right *)
(* when they take effect: what is added fits, and what is evicted is in the way.  *)
DecisionsStillRight == WithinPlan /\ NoNeedlessEviction

(* A prune that finds a pool over its maximum brings it below, whatever the limit *)
(* and the retention rules say; only what others added since can be in the way.   *)
CapReached ==
  \A p \in Proc : At(p, "final") /\ Over(job[p].list) => foreign[p] > 0

(* What this code deleted does not come back with the next discovery.             *)
EvictedStaysOut ==
  \A p \in Proc : At(p, "add") => Range(job[p].plan) \cap job[p].out = {}

(* A torrent that was never taken away is not recorded as deleted: a downloader   *)
(* that does not show it yet is given the grace to.                               *)
AliveNotDeleted ==
  \A c \in Cand \cap DOMAIN live : rows[c].state = "deleted" => c \in removed

(* The types, and a row says deleted only of what is deleted, and for good.       *)
RowsAreTrue == PoolTypeOK /\ EvictedStaysOut /\ AliveNotDeleted

(* A pool over its maximum comes back under it.                                   *)
CapRestored == Over(live) ~> ~Over(live)

(* A prune evicts no more than its limit while the pool is within its maximum.    *)
EvictionLimitKept == \A p \in Proc : job[p].pr.n > Limit => Over(job[p].list)
=============================================================================
