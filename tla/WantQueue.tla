------------------------------ MODULE WantQueue ------------------------------
(***************************************************************************)
(* The Want List: wants that come from several sources and are merged when *)
(* they turn out to be one work, are searched for, and are enqueued at the *)
(* downloader under a claim (state.py, actions/intent.py, intent/workflow, *)
(* the want actions of cli.py and web/app.py).                             *)
(*                                                                         *)
(* Callers are the threads and processes that share the database: the web  *)
(* server, the command line, the scheduler.  Every transaction is a step;  *)
(* between two of them, and while a tracker or the downloader is waited    *)
(* for, others run and time passes.  A caller may die, and an answer of    *)
(* the downloader may be lost.                                             *)
(*                                                                         *)
(* What a search matches by is left out, and of a candidate row all but    *)
(* its release.                                                            *)
(***************************************************************************)
EXTENDS Integers, FiniteSets

CONSTANTS
  Caller,
  Want,         \* intent identifiers, ordered by requested_at
  Release,
  Alias,        \* douban and imdb identifiers
  Event,        \* what sources report
  Own,          \* [Event -> Want]           the identifier of its text
  Aliases,      \* [Event -> SUBSET Alias]
  None,         \* no want, no claim, no release, no owner
  Ttl,          \* ttl_seconds of a claim
  MaxTime, MaxAdds,    \* bounds on the clock, and on the adds of one release
  MaxFaults            \* bound on deaths and lost answers together

ASSUME WantAssumption ==
  /\ Want \subseteq Nat
  /\ Own \in [Event -> Want] /\ Aliases \in [Event -> SUBSET Alias]
  /\ None \notin Caller \cup Want \cup Release
  /\ Ttl \in Nat \ {0} /\ MaxTime \in Nat /\ MaxAdds \in Nat /\ MaxFaults \in Nat

VARIABLES
  now,
  want,      \* [Want -> WantRec or None]     intents
  ranked,    \* [Want -> SUBSET Release]      release_candidates
  claim,     \* [Want -> ClaimRec or None]    intent_enqueue_claims
  alias,     \* [Alias -> Want or None]       intent_aliases
  client,    \* [Want \X Release -> Nat]    how often each was added at the downloader
  caller,    \* [Caller -> CallerRec]         where each one is
  merged,    \* wants that a merge deleted
  doubt,     \* wants with an add whose outcome nobody recorded
  faults

wantVars == <<now, want, ranked, claim, alias, client, caller, merged, doubt, faults>>

-----------------------------------------------------------------------------

Searchable == {"normalized", "searched", "confirmation"}

State == Searchable \cup {"rejected", "enqueued", "viewed"}

\* INTENT_STATE_PRIORITY
Priority(state) ==
  CASE state = "normalized"   -> 1
    [] state = "searched"     -> 2
    [] state = "confirmation" -> 3
    [] state = "rejected"     -> 4
    [] state = "enqueued"     -> 5
    [] state = "viewed"       -> 6

WantRec == [state : State, selected : Release \cup {None}]

\* A caller that died or gave up never uses its owner_id again: it is None then.
ClaimRec == [owner : Caller \cup {None}, release : Release, until : Nat]

ASSUME NoneIsNoRecord == None \notin WantRec \cup ClaimRec

CallerRec == [pc : {"idle", "chosen", "claimed", "resolve", "save", "add",
                    "complete", "merge", "refresh", "alias"},
              want    : Want \cup {None},
              release : Release \cup {None},
              read    : WantRec \cup {None},     \* the want as it was read
              event   : Event \cup {None},
              others  : SUBSET Want,             \* duplicates that are to be merged
              names   : SUBSET Alias]            \* aliases that are to be written

Idle == [pc |-> "idle", want |-> None, release |-> None, read |-> None, event |-> None,
         others |-> {}, names |-> {}]

WantInit ==
  /\ now = 0
  /\ want = [w \in Want |-> None]
  /\ ranked = [w \in Want |-> {}]
  /\ claim = [w \in Want |-> None]
  /\ alias = [x \in Alias |-> None]
  /\ client = [p \in Want \X Release |-> 0]
  /\ caller = [c \in Caller |-> Idle]
  /\ merged = {}
  /\ doubt = {}
  /\ faults = 0

\* want_searchable
WantSearchable(w) == want[w] # None /\ want[w].state \in Searchable /\ want[w].selected = None

\* _active_enqueue_claim
ActiveClaim(w) == claim[w] # None /\ claim[w].until > now

Goto(c, pc) == caller' = [caller EXCEPT ![c].pc = pc]

Return(c) == caller' = [caller EXCEPT ![c] = Idle]

Holds(c, w) == claim[w] # None /\ claim[w].owner = c

-----------------------------------------------------------------------------
(* Ingesting an event: add_intent. *)

\* Every want an alias or the own identifier leads to.
Known(e) ==
  {w \in Want : want[w] # None /\ (w = Own[e] \/ \E x \in Aliases[e] : alias[x] = w)}

\* The record of a want that was never seen before.
Fresh == [state |-> "normalized", selected |-> None]

Earliest(wants) == CHOOSE w \in wants : \A v \in wants : w <= v

\* The lookups.  Of the wants that are known the earliest is kept; what is not known is
\* about to be inserted.
StartIngest(c, e) ==
  LET known == Known(e)
  IN  /\ caller[c].pc = "idle"
      /\ caller' = [caller EXCEPT ![c] =
           IF known = {}
             THEN [Idle EXCEPT !.pc = "refresh", !.event = e, !.want = Own[e], !.read = Fresh]
             ELSE [Idle EXCEPT !.pc = "merge", !.event = e, !.want = Earliest(known),
                               !.others = known \ {Earliest(known)}]]
      /\ UNCHANGED <<now, want, ranked, claim, alias, client, merged, doubt, faults>>

\* Claims that are over are deleted first; whoever held them may have added something.
Swept == [w \in Want |-> IF ActiveClaim(w) THEN claim[w] ELSE None]

Stale == {w \in Want : claim[w] # None /\ ~ActiveClaim(w)}

AnyMerge(w, v) == TRUE

\* No merge while an enqueue of either is in flight.
MayMerge(w, v) == Swept[w] = None /\ Swept[v] = None

\* merge_intents(w, v): the state of higher priority wins with its selection; candidates,
\* aliases and history of v go to w.
Merge(w, v) ==
  LET winner == IF Priority(want[v].state) > Priority(want[w].state) THEN v ELSE w
      kept == IF want[winner].state \in Searchable /\ want[winner].selected = None
                THEN IF want[w].selected # None THEN want[w].selected ELSE want[v].selected
                ELSE want[winner].selected
  IN  /\ want' = [want EXCEPT ![w].state = want[winner].state, ![w].selected = kept,
                              ![v] = None]
      /\ ranked' = [ranked EXCEPT ![w] = @ \cup ranked[v], ![v] = {}]
      /\ alias' = [x \in Alias |-> IF alias[x] = v THEN w ELSE alias[x]]
      /\ merged' = merged \cup {v}

\* Every duplicate in turn is merged into the want, or stays when it may not; one that is
\* gone by now, or whose want is, changes nothing.
IngestMerge(c) ==
  LET w == caller[c].want
  IN  /\ caller[c].pc = "merge"
      /\ \E v \in caller[c].others :
           /\ IF want[w] = None \/ want[v] = None
                THEN UNCHANGED <<want, ranked, claim, alias, merged, doubt>>
                ELSE /\ claim' = Swept
                     /\ doubt' = doubt \cup Stale
                     /\ IF MayMerge(w, v) THEN Merge(w, v)
                        ELSE UNCHANGED <<want, ranked, alias, merged>>
           /\ caller' = [caller EXCEPT ![c].others = @ \ {v}]
      /\ UNCHANGED <<now, client, faults>>

\* The want is read for its refresh.  When it is gone the own identifier is tried, and a
\* new want is made when that is unknown too.
IngestRead(c) ==
  LET e == caller[c].event
      w == IF want[caller[c].want] # None THEN caller[c].want ELSE Own[e]
  IN  /\ caller[c].pc = "merge" /\ caller[c].others = {}
      /\ caller' = [caller EXCEPT ![c].want = w,
                      ![c].read = IF want[w] # None THEN want[w] ELSE Fresh,
                      ![c].pc = "refresh"]
      /\ UNCHANGED <<now, want, ranked, claim, alias, client, merged, doubt, faults>>

\* upsert_intent: _monotonic_intent, and a selection is never lost to none.
Upserted(current, incoming) ==
  IF current = None THEN incoming
  ELSE [state |-> IF Priority(current.state) <= Priority(incoming.state)
                    THEN incoming.state ELSE current.state,
        selected |-> IF incoming.selected # None THEN incoming.selected ELSE current.selected]

\* The aliases that are left are written next.
Naming(c, left) ==
  caller' = [caller EXCEPT ![c] =
    IF left = {} THEN Idle ELSE [@ EXCEPT !.pc = "alias", !.read = None, !.names = left]]

\* When nothing changed nothing is written.
IngestRefresh(c) ==
  LET w == caller[c].want
  IN  /\ caller[c].pc = "refresh"
      /\ \/ want' = [want EXCEPT ![w] = Upserted(want[w], caller[c].read)]
         \/ want[w] # None /\ UNCHANGED want
      /\ Naming(c, Aliases[caller[c].event])
      /\ UNCHANGED <<now, ranked, claim, alias, client, merged, doubt, faults>>

\* One alias per transaction; the evidence that follows is left out.
IngestAlias(c) ==
  /\ caller[c].pc = "alias"
  /\ \E x \in caller[c].names :
       /\ alias' = [alias EXCEPT ![x] = caller[c].want]
       /\ Naming(c, caller[c].names \ {x})
  /\ UNCHANGED <<now, want, ranked, claim, client, merged, doubt, faults>>

-----------------------------------------------------------------------------
(* Searching. *)

SaveAnyway(w) == want[w] # None

\* save_want_search_batch checks again: a terminal or claimed want is skipped, and so is
\* one whose matching inputs changed.
MaySave(w) == WantSearchable(w) /\ ~ActiveClaim(w)

\* A search that began while the want was searchable ends, at any time later.  The
\* candidate rows are replaced; without a clear best one somebody has to confirm.
SaveSearch(w) ==
  /\ MaySave(w)
  /\ \E found \in SUBSET Release, state \in {"searched", "confirmation"} :
       /\ found = {} => state = "confirmation"
       /\ want' = [want EXCEPT ![w].state = state]
       /\ ranked' = [ranked EXCEPT ![w] = found]
  /\ UNCHANGED <<now, claim, alias, client, caller, merged, doubt, faults>>

-----------------------------------------------------------------------------
(* Enqueueing: enqueue_intent. *)

\* The best candidate, or the one the operator names.
Choose(c, w, r) ==
  /\ caller[c].pc = "idle"
  /\ want[w] # None /\ want[w].state \in Searchable
  /\ r \in ranked[w]
  /\ caller' = [caller EXCEPT ![c] = [Idle EXCEPT !.pc = "chosen", !.want = w,
                                                  !.release = r]]
  /\ UNCHANGED <<now, want, ranked, claim, alias, client, merged, doubt, faults>>

AcquireAnyway(w) == WantSearchable(w)

MayAcquire(w) == WantSearchable(w) /\ ~ActiveClaim(w)

\* acquire_intent_enqueue_claim; a claim that is over is taken over.
Acquire(c) ==
  LET w == caller[c].want
  IN  /\ caller[c].pc = "chosen"
      /\ IF MayAcquire(w)
           THEN /\ claim' = [claim EXCEPT ![w] = [owner |-> c, release |-> caller[c].release,
                                                  until |-> now + Ttl]]
                /\ doubt' = IF w \in Stale THEN doubt \cup {w} ELSE doubt
                /\ Goto(c, "claimed")
           ELSE Return(c) /\ UNCHANGED <<claim, doubt>>
      /\ UNCHANGED <<now, want, ranked, alias, client, merged, faults>>

\* release_intent_enqueue_claim, of one's own claim.
ReleaseClaim(c) ==
  claim' = [w \in Want |-> IF w = caller[c].want /\ Holds(c, w) THEN None ELSE claim[w]]

\* renew_intent_enqueue_claim
MayRenew(c, w) == WantSearchable(w) /\ Holds(c, w) /\ ActiveClaim(w)

Renew(c, pc) ==
  LET w == caller[c].want
  IN  IF MayRenew(c, w)
        THEN claim' = [claim EXCEPT ![w].until = now + Ttl] /\ Goto(c, pc)
        ELSE ReleaseClaim(c) /\ Return(c)

FailOpen(c) == Goto(c, "complete") /\ UNCHANGED claim

Fail(c) == ReleaseClaim(c) /\ Return(c)

\* The gates of enqueue_context_resolver; what they refuse is released.
PassGates(c) ==
  /\ caller[c].pc = "claimed"
  /\ Renew(c, "resolve") \/ Fail(c)
  /\ UNCHANGED <<now, want, ranked, alias, client, merged, doubt, faults>>

\* The link is resolved at the tracker, or is not; then the claim is renewed again.
Resolve(c) ==
  /\ caller[c].pc = "resolve"
  /\ Renew(c, "save") \/ Fail(c)
  /\ UNCHANGED <<now, want, ranked, alias, client, merged, doubt, faults>>

\* save_ranked_releases keeps the resolved link.
SaveResolved(c) ==
  /\ caller[c].pc = "save"
  /\ ranked' = [ranked EXCEPT ![caller[c].want] = @ \cup {caller[c].release}]
  /\ Goto(c, "add")
  /\ UNCHANGED <<now, want, claim, alias, client, merged, doubt, faults>>

\* add_url: taken, refused, or taken without an answer.
Add(c) ==
  LET w == caller[c].want
      p == <<w, caller[c].release>>
  IN  /\ caller[c].pc = "add"
      /\ client[p] < MaxAdds
      /\ \/ /\ client' = [client EXCEPT ![p] = @ + 1]
            /\ Goto(c, "complete")
            /\ UNCHANGED <<claim, doubt, faults>>
         \/ Fail(c) /\ UNCHANGED <<client, doubt, faults>>
         \/ /\ faults < MaxFaults
            /\ faults' = faults + 1
            /\ client' = [client EXCEPT ![p] = @ + 1]
            /\ doubt' = doubt \cup {w}
            /\ Fail(c)
      /\ UNCHANGED <<now, want, ranked, alias, merged>>

Owned(c, w, r) == Holds(c, w) /\ claim[w].release = r

\* complete_intent_enqueue_claim: the selection is recorded, of a want that was viewed
\* meanwhile too.  When the claim is lost, or the want is terminal, nothing is released.
Complete(c) ==
  LET w == caller[c].want
      r == caller[c].release
  IN  /\ caller[c].pc = "complete"
      /\ IF Owned(c, w, r) /\ want[w] # None /\ want[w].state \in Searchable \cup {"viewed"}
           THEN /\ want' = [want EXCEPT ![w].selected = r,
                              ![w].state = IF @ = "viewed" THEN @ ELSE "enqueued"]
                /\ claim' = [claim EXCEPT ![w] = None]
           ELSE /\ claim' = [v \in Want |-> IF Holds(c, v) THEN [claim[v] EXCEPT !.owner = None]
                                            ELSE claim[v]]
                /\ UNCHANGED want
      /\ Return(c)
      /\ UNCHANGED <<now, ranked, alias, client, merged, doubt, faults>>

-----------------------------------------------------------------------------
(* The operator, deaths and the clock. *)

Unclaimed(w) == want[w] # None /\ ~ActiveClaim(w)

\* mark_intent_viewed
MarkViewed(w) ==
  /\ Unclaimed(w)
  /\ want' = [want EXCEPT ![w].state = "viewed"]
  /\ UNCHANGED <<now, ranked, claim, alias, client, caller, merged, doubt, faults>>

\* mark_intent_rejected
MarkRejected(w) ==
  /\ Unclaimed(w) /\ WantSearchable(w)
  /\ want' = [want EXCEPT ![w].state = "rejected"]
  /\ UNCHANGED <<now, ranked, claim, alias, client, caller, merged, doubt, faults>>

Die(c) ==
  /\ caller[c].pc # "idle"
  /\ faults < MaxFaults
  /\ faults' = faults + 1
  /\ caller' = [caller EXCEPT ![c] = Idle]
  /\ claim' = [w \in Want |-> IF Holds(c, w) THEN [claim[w] EXCEPT !.owner = None]
                              ELSE claim[w]]
  /\ UNCHANGED <<now, want, ranked, alias, client, merged, doubt>>

PassTime ==
  /\ now < MaxTime
  /\ now' = now + 1
  /\ UNCHANGED <<want, ranked, claim, alias, client, caller, merged, doubt, faults>>

CallerStep(c) ==
  \/ \E e \in Event : StartIngest(c, e)
  \/ IngestMerge(c) \/ IngestRead(c) \/ IngestRefresh(c) \/ IngestAlias(c)
  \/ \E w \in Want, r \in Release : Choose(c, w, r)
  \/ Acquire(c) \/ PassGates(c) \/ Resolve(c) \/ SaveResolved(c) \/ Add(c) \/ Complete(c)
  \/ Die(c)

WantNext ==
  \/ \E c \in Caller : CallerStep(c)
  \/ \E w \in Want : SaveSearch(w) \/ MarkViewed(w) \/ MarkRejected(w)
  \/ PassTime

WantSpec == WantInit /\ [][WantNext]_wantVars

-----------------------------------------------------------------------------
(* Properties. *)

WantTypeOK ==
  /\ now \in 0..MaxTime
  /\ want \in [Want -> WantRec \cup {None}]
  /\ ranked \in [Want -> SUBSET Release]
  /\ claim \in [Want -> ClaimRec \cup {None}]
  /\ alias \in [Alias -> Want \cup {None}]
  /\ client \in [Want \X Release -> 0..MaxAdds]
  /\ caller \in [Caller -> CallerRec]
  /\ merged \subseteq Want /\ doubt \subseteq Want
  /\ faults \in 0..MaxFaults

\* An enqueue whose claim is still good when the downloader answered is recorded: nobody
\* rejects, merges, re-searches or enqueues the want under it.  Only a want that was
\* merged away and came back may be lowered to what somebody had read of it before.
LiveClaimCommits ==
  [][\A c \in Caller :
       /\ Complete(c) /\ Holds(c, caller[c].want) /\ ActiveClaim(caller[c].want)
       /\ caller[c].want \notin merged
       => /\ want'[caller[c].want] # None
          /\ want'[caller[c].want].selected = caller[c].release]_wantVars

\* What an operator or the downloader settled stays settled: no search, refresh, merge or
\* late answer makes a want searchable again or lowers its state.
SettledStays ==
  [][\A w \in Want :
       /\ want[w] # None /\ want[w].state \notin Searchable
       /\ want'[w] # None
       => Priority(want'[w].state) >= Priority(want[w].state)]_wantVars

\* A want is added twice, with one release or two, only when the outcome of the first add
\* got lost, or when the want was brought back after a merge.
AddedOnce ==
  \A w \in Want \ (doubt \cup merged) : \A q, r \in Release :
    client[<<w, q>>] > 0 /\ client[<<w, r>>] > 0 => q = r /\ client[<<w, r>>] = 1

\* What counts as enqueued is at the downloader.
EnqueuedIsAdded ==
  \A w \in Want : want[w] # None /\ want[w].state = "enqueued" =>
    \E v \in Want : client[<<v, want[w].selected>>] > 0

\* The types, and what is recorded as enqueued is at the downloader.
WantsAreRecorded == WantTypeOK /\ EnqueuedIsAdded

\* A duplicate that was merged away does not come back to be searched and downloaded a
\* second time (docs/ai/modules/intent-loop.md:65-67).
MergedStays == \A w \in merged : want[w] = None

=============================================================================
