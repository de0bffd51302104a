---------------------------- MODULE Wants_proofs -----------------------------
(***************************************************************************)
(* Theorems about the Want List: its queue of claims (WantQueue), for any  *)
(* number of callers, wants, releases, aliases and sources, and its        *)
(* searches (WantSearch), for any wants, updates and batch, and any bounds. *)
(***************************************************************************)
EXTENDS WantQueue, WantSearch, WellFoundedInduction, TLAPS

\* The places of enqueue_intent between the claim and its completion.
Enqueueing == {"claimed", "resolve", "save", "add", "complete"}

\* Something of w was handed to the downloader.
Added(w) == \E r \in Release : client[<<w, r>>] > 0

Adds(r) == \E w \in Want : client[<<w, r>>] > 0

\* A selection was added, and what counts as enqueued has one.
Recorded(record) ==
  record # None =>
    /\ record.state = "enqueued" => record.selected # None
    /\ record.selected # None => Adds(record.selected)

\* What a caller has in hand fits its place.
HandOK(c) ==
  /\ caller[c].pc \in Enqueueing \cup {"chosen"} =>
       caller[c].want \in Want /\ caller[c].release \in Release
  /\ caller[c].pc \in {"merge", "refresh", "alias"} =>
       caller[c].want \in Want /\ caller[c].event \in Event
  /\ caller[c].pc = "merge" => caller[c].want \notin caller[c].others
  /\ caller[c].read # None <=> caller[c].pc = "refresh"

CallersOK == \A c \in Caller : HandOK(c)

\* Only who enqueues under a claim owns it, and who enqueues without one lost it to
\* somebody who has put the want in doubt.
ClaimsOK ==
  \A c \in Caller :
    /\ \A w \in Want : Holds(c, w) =>
         /\ caller[c].pc \in Enqueueing /\ caller[c].want = w
         /\ claim[w].release = caller[c].release
    /\ caller[c].pc \in Enqueueing =>
         Holds(c, caller[c].want) \/ caller[c].want \in doubt

\* A claim tells of what was added: who holds it has yet to record it, or died.
Told(w) ==
  /\ claim[w] # None
  /\ \A c \in Caller : claim[w].owner = c => caller[c].pc = "complete"

\* What was added is recorded, or a claim still tells of it; and nothing was added yet
\* for a want somebody enqueues.
AddsAt(w) ==
  /\ Added(w) => (want[w] # None /\ ~WantSearchable(w)) \/ Told(w)
  /\ \A c \in Caller : Holds(c, w) /\ caller[c].pc # "complete" => ~Added(w)

AddsOK == \A w \in Want \ (doubt \cup merged) : AddsAt(w)

\* Selections are of releases that were added.
RecordsOK ==
  /\ \A w \in Want : Recorded(want[w])
  /\ \A c \in Caller : /\ Recorded(caller[c].read)
                       /\ caller[c].pc = "complete" => Adds(caller[c].release)

\* What was settled when a caller read it is settled, unless it was merged away since.
ReadsOK ==
  \A c \in Caller :
    /\ caller[c].pc = "refresh" /\ caller[c].want \notin merged
    /\ caller[c].read.state \notin Searchable
    => want[caller[c].want] # None /\ want[caller[c].want].state \notin Searchable

\* A claim that is good keeps its want as it is.
LiveOK ==
  \A w \in Want \ merged : ActiveClaim(w) => want[w] # None /\ want[w].state \in Searchable

\* The inductive invariant.
WantInv ==
  /\ WantTypeOK /\ CallersOK /\ ClaimsOK /\ AddsOK /\ AddedOnce
  /\ RecordsOK /\ ReadsOK /\ LiveOK

-----------------------------------------------------------------------------
(* What the helpers return. *)

\* The earliest of several wants is one of them.
LEMMA EarliestIsOne ==
  ASSUME NEW wants \in SUBSET Want, wants # {}
  PROVE  Earliest(wants) \in wants
<1>1. wants \subseteq Nat
  BY WantAssumption
<1>2. PICK w \in wants : \A v \in wants : ~ (<<v, w>> \in OpToRel(<, Nat))
  BY <1>1, NatLessThanWellFounded, WFMin
<1>3. \A v \in wants : ~ (v < w)
  BY <1>1, <1>2 DEF OpToRel
<1>4. \A v \in wants : w <= v
  BY <1>1, <1>3
<1> QED BY <1>4 DEF Earliest

\* What is settled is ahead of everything that is not.
LEMMA SettledIsAhead ==
  ASSUME NEW s \in State, NEW t \in State
  PROVE  /\ Priority(s) \in 1..6
         /\ s \notin Searchable => Priority(s) >= 4
         /\ s \in Searchable => Priority(s) <= 3
         /\ Priority(s) <= 6
         /\ s = "viewed" => Priority(s) = 6
BY DEF State, Searchable, Priority

\* upsert_intent never lowers a want, and a selection it writes is one of the two.
LEMMA UpsertedIsWant ==
  ASSUME NEW current \in WantRec \cup {None}, NEW incoming \in WantRec
  PROVE  /\ Upserted(current, incoming) \in WantRec
         /\ Upserted(current, incoming) # None
         /\ Upserted(current, incoming).state \in {current.state, incoming.state}
         /\ current # None => Priority(Upserted(current, incoming).state) >= Priority(current.state)
BY NoneIsNoRecord, SettledIsAhead DEF Upserted, WantRec

\* A merge keeps the types, and what it keeps is one of the two wants.
LEMMA MergeIsWant ==
  ASSUME WantTypeOK, NEW w \in Want, NEW v \in Want, w # v,
         want[w] # None, want[v] # None, Merge(w, v)
  PROVE  /\ want' \in [Want -> WantRec \cup {None}] /\ ranked' \in [Want -> SUBSET Release]
         /\ alias' \in [Alias -> Want \cup {None}]
         /\ merged' = merged \cup {v}
         /\ want'[v] = None /\ want'[w] \in WantRec
         /\ \A x \in Want \ {w, v} : want'[x] = want[x]
         /\ \/ want'[w].state = want[w].state
            \/ want'[w].state = want[v].state /\ Priority(want[v].state) > Priority(want[w].state)
         /\ want'[w].selected \in {want[w].selected, want[v].selected}
         /\ want'[w].state \notin Searchable =>
               \E x \in {w, v} : want'[w] = want[x]
         /\ want[w].selected # None /\ want'[w].state \in Searchable
               => want'[w].selected # None
<1> DEFINE winner == IF Priority(want[v].state) > Priority(want[w].state) THEN v ELSE w
           kept == IF want[winner].state \in Searchable /\ want[winner].selected = None
                     THEN IF want[w].selected # None THEN want[w].selected
                          ELSE want[v].selected
                     ELSE want[winner].selected
<1>1. /\ want[w] \in WantRec /\ want[v] \in WantRec
      /\ want \in [Want -> WantRec \cup {None}]
  BY DEF WantTypeOK
<1>2. want' = [want EXCEPT ![w].state = want[winner].state, ![w].selected = kept, ![v] = None]
  BY DEF Merge
<1>3. winner \in {w, v} /\ kept \in {want[w].selected, want[v].selected}
  OBVIOUS
<1>4. /\ want'[w] = [state |-> want[winner].state, selected |-> kept]
      /\ want'[v] = None
      /\ \A x \in Want \ {w, v} : want'[x] = want[x]
  BY <1>1, <1>2 DEF WantRec
<1>5. want'[w] \in WantRec
  BY <1>1, <1>3, <1>4 DEF WantRec
<1>6. want' \in [Want -> WantRec \cup {None}]
  BY <1>1, <1>2, <1>4, <1>5
<1>7. /\ ranked' \in [Want -> SUBSET Release] /\ alias' \in [Alias -> Want \cup {None}]
      /\ merged' = merged \cup {v}
  BY DEF Merge, WantTypeOK
<1>8. want'[w].state \notin Searchable => want'[w] = want[winner]
  BY <1>1, <1>3, <1>4 DEF WantRec
<1>9. want[w].selected # None /\ want'[w].state \in Searchable => want'[w].selected # None
  <2> SUFFICES ASSUME want[w].selected # None, want[winner].state \in Searchable
               PROVE  kept # None
    BY <1>4
  <2> QED OBVIOUS
<1> QED
  BY <1>3, <1>4, <1>5, <1>6, <1>7, <1>8, <1>9

\* A claim record may change its owner or its end.
LEMMA ClaimStaysClaim ==
  ASSUME NEW k \in ClaimRec, NEW n \in Nat
  PROVE  /\ [k EXCEPT !.owner = None] \in ClaimRec /\ [k EXCEPT !.until = n] \in ClaimRec
         /\ [k EXCEPT !.owner = None] # None /\ [k EXCEPT !.until = n] # None
BY NoneIsNoRecord DEF ClaimRec

\* The places of a caller.
Place == Enqueueing \cup {"idle", "chosen", "merge", "refresh", "alias"}

\* A caller that goes on keeps everything else.
LEMMA GotoEffect ==
  ASSUME caller \in [Caller -> CallerRec], NEW c \in Caller, NEW pc \in Place, Goto(c, pc)
  PROVE  /\ caller' \in [Caller -> CallerRec]
         /\ caller'[c].pc = pc
         /\ caller'[c].want = caller[c].want /\ caller'[c].release = caller[c].release
         /\ caller'[c].read = caller[c].read /\ caller'[c].event = caller[c].event
         /\ \A d \in Caller \ {c} : caller'[d] = caller[d]
BY DEF Goto, CallerRec, Place, Enqueueing

\* A caller that ends has nothing in hand.
LEMMA ReturnEffect ==
  ASSUME caller \in [Caller -> CallerRec], NEW c \in Caller,
         caller' = [caller EXCEPT ![c] = Idle]
  PROVE  /\ caller' \in [Caller -> CallerRec]
         /\ caller'[c] = Idle /\ HandOK(c)'
         /\ \A d \in Caller \ {c} : caller'[d] = caller[d]
BY DEF Idle, CallerRec, HandOK, Enqueueing

\* The idle caller is a caller.
LEMMA IdleIsCaller == Idle \in CallerRec /\ Idle.read = None
BY DEF Idle, CallerRec

\* A want that was never seen is one.
LEMMA FreshIsWant ==
  Fresh \in WantRec /\ Fresh # None /\ Fresh.state \in Searchable /\ Fresh.selected = None
BY NoneIsNoRecord DEF Fresh, WantRec, State, Searchable

\* The lookups of an ingest lead to a want that is new, or to the earliest one known.
LEMMA StartEffect ==
  ASSUME caller \in [Caller -> CallerRec], NEW c \in Caller, NEW e \in Event, StartIngest(c, e)
  PROVE  /\ caller' \in [Caller -> CallerRec] /\ HandOK(c)'
         /\ \/ caller'[c].pc = "refresh" /\ caller'[c].read = Fresh
            \/ caller'[c].pc = "merge"
         /\ \A d \in Caller \ {c} : caller'[d] = caller[d]
<1> DEFINE new == [Idle EXCEPT !.pc = "refresh", !.event = e, !.want = Own[e], !.read = Fresh]
           first == Earliest(Known(e))
           old == [Idle EXCEPT !.pc = "merge", !.event = e, !.want = first,
                               !.others = Known(e) \ {first}]
<1>1. Known(e) \in SUBSET Want /\ Own[e] \in Want
  BY WantAssumption DEF Known
<1>2. new \in CallerRec /\ new.pc = "refresh" /\ new.event = e /\ new.want = Own[e]
      /\ new.read = Fresh
  BY <1>1, FreshIsWant DEF Idle, CallerRec
<1>3. CASE Known(e) = {}
  <2>1. caller' = [caller EXCEPT ![c] = new]
    BY <1>3, Zenon DEF StartIngest
  <2> HIDE DEF new
  <2>2. caller'[c] = new /\ \A d \in Caller \ {c} : caller'[d] = caller[d]
    BY <2>1
  <2>3. caller' \in [Caller -> CallerRec]
    BY <1>2, <2>1
  <2> QED BY <1>1, <1>2, <2>2, <2>3, FreshIsWant DEF HandOK, Enqueueing
<1>4. CASE Known(e) # {}
  <2>1. caller' = [caller EXCEPT ![c] = old]
    BY <1>4, Zenon DEF StartIngest
  <2>2. first \in Want
    BY <1>1, <1>4, EarliestIsOne
  <2> HIDE DEF first
  <2>3. /\ old \in CallerRec /\ old.pc = "merge" /\ old.event = e /\ old.want = first
        /\ old.read = None /\ first \notin old.others
    BY <1>1, <2>2 DEF Idle, CallerRec
  <2> HIDE DEF old
  <2>4. caller'[c] = old /\ \A d \in Caller \ {c} : caller'[d] = caller[d]
    BY <2>1
  <2>5. caller' \in [Caller -> CallerRec]
    BY <2>1, <2>3
  <2> QED BY <2>2, <2>3, <2>4, <2>5 DEF HandOK, Enqueueing
<1> QED BY <1>3, <1>4

\* A merge is one duplicate less.
LEMMA MergeEffect ==
  ASSUME caller \in [Caller -> CallerRec], NEW c \in Caller, IngestMerge(c), HandOK(c)
  PROVE  /\ caller' \in [Caller -> CallerRec] /\ HandOK(c)'
         /\ caller[c].pc = "merge" /\ caller'[c].pc = "merge" /\ caller[c].want \in Want
         /\ caller[c].others \subseteq Want \ {caller[c].want}
         /\ \A d \in Caller \ {c} : caller'[d] = caller[d]
<1>1. PICK v : caller' = [caller EXCEPT ![c].others = @ \ {v}]
  BY Zenon DEF IngestMerge
<1>2. caller[c].pc = "merge" /\ caller[c] \in CallerRec
  BY DEF IngestMerge
<1>3. [caller[c] EXCEPT !.others = @ \ {v}] \in CallerRec
  BY <1>2 DEF CallerRec
<1>4. /\ caller'[c] = [caller[c] EXCEPT !.others = @ \ {v}]
      /\ caller' \in [Caller -> CallerRec]
      /\ \A d \in Caller \ {c} : caller'[d] = caller[d]
  BY <1>1, <1>2, <1>3
<1> QED BY <1>2, <1>4 DEF HandOK, CallerRec, Enqueueing

\* The aliases are written one by one, and then the caller is done.
LEMMA NamingEffect ==
  ASSUME caller \in [Caller -> CallerRec], NEW c \in Caller, HandOK(c),
         caller[c].pc \in {"refresh", "alias"}, NEW left \in SUBSET Alias, Naming(c, left)
  PROVE  /\ caller' \in [Caller -> CallerRec] /\ HandOK(c)'
         /\ caller'[c].pc \in {"idle", "alias"} /\ caller'[c].read = None
         /\ \A d \in Caller \ {c} : caller'[d] = caller[d]
<1> DEFINE next == [caller[c] EXCEPT !.pc = "alias", !.read = None, !.names = left]
<1>1. next \in CallerRec /\ next.pc = "alias" /\ next.read = None
      /\ next.want = caller[c].want /\ next.event = caller[c].event
  BY DEF CallerRec
<1>2. Idle.pc = "idle" /\ Idle.read = None /\ Idle \in CallerRec
  BY IdleIsCaller DEF Idle
<1>3. caller' = [caller EXCEPT ![c] = Idle] \/ caller' = [caller EXCEPT ![c] = next]
  BY DEF Naming
<1> HIDE DEF next
<1> QED BY <1>1, <1>2, <1>3 DEF HandOK, Enqueueing

\* A refresh, and every alias, is one step nearer to that.
LEMMA IngestNames ==
  ASSUME caller \in [Caller -> CallerRec], NEW c \in Caller, HandOK(c),
         IngestRefresh(c) \/ IngestAlias(c)
  PROVE  /\ caller' \in [Caller -> CallerRec] /\ HandOK(c)'
         /\ caller'[c].pc \in {"idle", "alias"} /\ caller'[c].read = None
         /\ \A d \in Caller \ {c} : caller'[d] = caller[d]
<1>1. CASE IngestRefresh(c)
  <2>1. caller[c].pc = "refresh" /\ Naming(c, Aliases[caller[c].event])
    BY <1>1 DEF IngestRefresh
  <2>2. Aliases[caller[c].event] \in SUBSET Alias
    BY <2>1, WantAssumption DEF HandOK
  <2> QED BY <2>1, <2>2, NamingEffect
<1>2. CASE IngestAlias(c)
  <2>1. PICK x \in caller[c].names : Naming(c, caller[c].names \ {x})
    BY <1>2 DEF IngestAlias
  <2>2. caller[c].pc = "alias" /\ caller[c].names \ {x} \in SUBSET Alias
    BY <1>2 DEF IngestAlias, CallerRec
  <2> QED BY <2>1, <2>2, NamingEffect
<1> QED BY <1>1, <1>2

\* What a refusal, a refused renewal or a granted one does.
LEMMA RenewEffect ==
  ASSUME WantTypeOK, NEW c \in Caller, HandOK(c), NEW pc \in {"resolve", "save"},
         caller[c].pc \in {"claimed", "resolve"}, Renew(c, pc) \/ Fail(c)
  PROVE  \/ /\ MayRenew(c, caller[c].want) /\ caller' \in [Caller -> CallerRec]
            /\ caller'[c].pc = pc
            /\ claim' = [claim EXCEPT ![caller[c].want].until = now + Ttl]
            /\ Goto(c, pc)
         \/ ReleaseClaim(c) /\ Return(c)
BY GotoEffect DEF Renew, Fail, Place, Enqueueing, WantTypeOK

-----------------------------------------------------------------------------
(* Types. *)

\* At first there are no wants but the ones that may come.
LEMMA TypeInit == WantInit => WantTypeOK /\ CallersOK
BY WantAssumption DEF WantInit, WantTypeOK, CallersOK, HandOK, CallerRec, Idle, Enqueueing

\* Every step keeps the types, and what a caller has in hand fits its place.
LEMMA TypeStep ==
  ASSUME WantTypeOK, CallersOK, [WantNext]_wantVars
  PROVE  WantTypeOK' /\ CallersOK'
<1> USE DEF WantTypeOK
<1>0. CASE UNCHANGED wantVars
  BY <1>0 DEF wantVars, CallersOK, HandOK
<1>h. ASSUME NEW c \in Caller, HandOK(c)', \A d \in Caller \ {c} : caller'[d] = caller[d]
      PROVE  CallersOK'
  BY <1>h DEF CallersOK, HandOK
<1>1. ASSUME NEW c \in Caller, NEW e \in Event, StartIngest(c, e)
      PROVE  WantTypeOK' /\ CallersOK'
  <2>1. caller' \in [Caller -> CallerRec] /\ HandOK(c)' /\ CallersOK'
    BY <1>1, <1>h, StartEffect
  <2> QED BY <1>1, <2>1 DEF StartIngest
<1>2. ASSUME NEW c \in Caller, IngestMerge(c)
      PROVE  WantTypeOK' /\ CallersOK'
  <2>1. /\ caller' \in [Caller -> CallerRec] /\ HandOK(c)' /\ CallersOK'
        /\ caller[c].want \in Want /\ caller[c].others \subseteq Want \ {caller[c].want}
    BY <1>2, MergeEffect, <1>h DEF CallersOK
  <2>2. Swept \in [Want -> ClaimRec \cup {None}] /\ Stale \subseteq Want
    BY DEF Swept, Stale, ActiveClaim
  <2>3. ASSUME NEW v \in caller[c].others, want[caller[c].want] # None, want[v] # None,
               Merge(caller[c].want, v)
        PROVE  /\ want' \in [Want -> WantRec \cup {None}]
               /\ ranked' \in [Want -> SUBSET Release]
               /\ alias' \in [Alias -> Want \cup {None}] /\ merged' \subseteq Want
    BY <2>1, <2>3, MergeIsWant
  <2> QED BY <1>2, <2>1, <2>2, <2>3 DEF IngestMerge
<1>3. ASSUME NEW c \in Caller, IngestRead(c)
      PROVE  WantTypeOK' /\ CallersOK'
  <2> DEFINE w == IF want[caller[c].want] # None THEN caller[c].want ELSE Own[caller[c].event]
             r == IF want[w] # None THEN want[w] ELSE Fresh
  <2>1. caller[c].want \in Want /\ caller[c].event \in Event
    BY <1>3 DEF IngestRead, CallersOK, HandOK
  <2>2. w \in Want
    BY <2>1, WantAssumption
  <2>3. r \in WantRec /\ r # None
    BY <2>2, FreshIsWant
  <2>4. caller' = [caller EXCEPT ![c].want = w, ![c].read = r, ![c].pc = "refresh"]
    BY <1>3 DEF IngestRead
  <2>5. /\ caller'[c] = [caller[c] EXCEPT !.want = w, !.read = r, !.pc = "refresh"]
        /\ \A d \in Caller \ {c} : caller'[d] = caller[d]
        /\ caller' \in [Caller -> CallerRec]
    <3> HIDE DEF w, r
    <3>1. caller[c] \in CallerRec
      OBVIOUS
    <3>2. [caller[c] EXCEPT !.want = w, !.read = r, !.pc = "refresh"] \in CallerRec
      BY <2>2, <2>3, <3>1 DEF CallerRec
    <3>3. caller' = [caller EXCEPT ![c] = [caller[c] EXCEPT !.want = w, !.read = r,
                                                            !.pc = "refresh"]]
      BY <2>4, <3>1
    <3> QED BY <3>2, <3>3
  <2>6. HandOK(c)'
    <3> HIDE DEF w, r
    <3> QED BY <2>1, <2>2, <2>3, <2>5 DEF HandOK, CallerRec, Enqueueing
  <2> QED BY <1>3, <2>5, <2>6, <1>h DEF IngestRead
<1>4. ASSUME NEW c \in Caller, IngestRefresh(c)
      PROVE  WantTypeOK' /\ CallersOK'
  <2>1. caller[c].want \in Want /\ caller[c].read \in WantRec /\ caller[c].event \in Event
    <3>1. caller[c] \in CallerRec /\ caller[c].pc = "refresh" /\ HandOK(c)
      BY <1>4 DEF IngestRefresh, CallersOK
    <3>2. caller[c].read # None /\ caller[c].want \in Want /\ caller[c].event \in Event
      BY <3>1 DEF HandOK
    <3>3. caller[c].read \in WantRec \cup {None}
      BY <3>1 DEF CallerRec
    <3> QED BY <3>2, <3>3
  <2>2. want' \in [Want -> WantRec \cup {None}]
    <3>1. Upserted(want[caller[c].want], caller[c].read) \in WantRec
      BY <2>1, UpsertedIsWant
    <3> QED BY <1>4, <2>1, <3>1 DEF IngestRefresh
  <2>3. /\ caller' \in [Caller -> CallerRec] /\ HandOK(c)'
        /\ \A d \in Caller \ {c} : caller'[d] = caller[d]
    BY <1>4, IngestNames DEF CallersOK
  <2> QED BY <1>4, <2>2, <2>3, <1>h DEF IngestRefresh
<1>5. ASSUME NEW c \in Caller, IngestAlias(c)
      PROVE  WantTypeOK' /\ CallersOK'
  <2>1. caller' \in [Caller -> CallerRec] /\ CallersOK' /\ caller[c].want \in Want
    BY <1>5, IngestNames, <1>h DEF CallersOK, IngestAlias, HandOK
  <2> QED BY <1>5, <2>1 DEF IngestAlias
<1>6. ASSUME NEW w \in Want, SaveSearch(w)
      PROVE  WantTypeOK' /\ CallersOK'
  <2>1. want[w] \in WantRec
    BY <1>6 DEF SaveSearch, MaySave, WantSearchable
  <2> QED BY <1>6, <2>1 DEF SaveSearch, WantRec, State, Searchable, CallersOK, HandOK
<1>7. ASSUME NEW c \in Caller, NEW w \in Want, NEW r \in Release, Choose(c, w, r)
      PROVE  WantTypeOK' /\ CallersOK'
  <2>1. caller' = [caller EXCEPT ![c] = [Idle EXCEPT !.pc = "chosen", !.want = w, !.release = r]]
    BY <1>7 DEF Choose
  <2>2. caller' \in [Caller -> CallerRec] /\ HandOK(c)' /\ CallersOK'
    <3>1. /\ caller' \in [Caller -> CallerRec]
          /\ caller'[c].pc = "chosen" /\ caller'[c].want = w /\ caller'[c].read = None
          /\ caller'[c].release = r
          /\ \A d \in Caller \ {c} : caller'[d] = caller[d]
      <4> DEFINE rec == [Idle EXCEPT !.pc = "chosen", !.want = w, !.release = r]
      <4>1. /\ rec \in CallerRec
            /\ rec.pc = "chosen" /\ rec.want = w /\ rec.release = r /\ rec.read = None
        BY IdleIsCaller DEF CallerRec
      <4>2. caller' = [caller EXCEPT ![c] = rec]
        BY <2>1
      <4> HIDE DEF rec
      <4> QED BY <4>1, <4>2
    <3> QED BY <3>1, <1>h DEF HandOK, Enqueueing
  <2> QED BY <1>7, <2>2 DEF Choose
<1>8. ASSUME NEW c \in Caller, Acquire(c)
      PROVE  WantTypeOK' /\ CallersOK'
  <2>1. /\ caller[c].want \in Want /\ caller[c].release \in Release /\ now + Ttl \in Nat
        /\ HandOK(c)
    BY <1>8, WantAssumption DEF Acquire, CallersOK, HandOK
  <2>2. caller' \in [Caller -> CallerRec] /\ HandOK(c)' /\ CallersOK'
    BY <1>8, <2>1, GotoEffect, ReturnEffect, <1>h DEF Acquire, Return, HandOK, Place, Enqueueing
  <2>3. claim' \in [Want -> ClaimRec \cup {None}] /\ doubt' \subseteq Want
    BY <1>8, <2>1 DEF Acquire, ClaimRec
  <2> QED BY <1>8, <2>2, <2>3 DEF Acquire
<1>9. ASSUME NEW c \in Caller, NEW pc \in {"resolve", "save"},
             caller[c].pc \in {"claimed", "resolve"}, Renew(c, pc) \/ Fail(c),
             UNCHANGED <<now, want, ranked, alias, client, merged, doubt, faults>>
      PROVE  WantTypeOK' /\ CallersOK'
  <2>1. /\ caller[c].want \in Want /\ caller[c].release \in Release /\ now + Ttl \in Nat
        /\ HandOK(c)
    BY <1>9, WantAssumption DEF CallersOK, HandOK, Enqueueing
  <2>2. CASE /\ MayRenew(c, caller[c].want) /\ Goto(c, pc)
             /\ claim' = [claim EXCEPT ![caller[c].want].until = now + Ttl]
    <3>1. claim' \in [Want -> ClaimRec \cup {None}]
      BY <2>1, <2>2, ClaimStaysClaim DEF MayRenew, Holds
    <3>2. caller' \in [Caller -> CallerRec] /\ HandOK(c)' /\ CallersOK'
      BY <1>9, <2>1, <2>2, GotoEffect, <1>h DEF HandOK, Place, Enqueueing
    <3> QED BY <1>9, <3>1, <3>2
  <2>3. CASE ReleaseClaim(c) /\ Return(c)
    <3>1. claim' \in [Want -> ClaimRec \cup {None}]
      BY <2>3 DEF ReleaseClaim
    <3> QED BY <1>9, <2>3, <3>1, ReturnEffect, <1>h DEF Return
  <2> QED BY <1>9, <2>1, <2>2, <2>3, RenewEffect
<1>10. ASSUME NEW c \in Caller, SaveResolved(c)
      PROVE  WantTypeOK' /\ CallersOK'
  <2>1. caller[c].want \in Want /\ caller[c].release \in Release /\ HandOK(c)
    BY <1>10 DEF SaveResolved, CallersOK, HandOK, Enqueueing
  <2>2. caller' \in [Caller -> CallerRec] /\ HandOK(c)' /\ CallersOK'
    BY <1>10, <2>1, GotoEffect, <1>h DEF SaveResolved, HandOK, Place, Enqueueing
  <2> QED BY <1>10, <2>1, <2>2 DEF SaveResolved
<1>11. ASSUME NEW c \in Caller, Add(c)
      PROVE  WantTypeOK' /\ CallersOK'
  <2>1. caller[c].want \in Want /\ caller[c].release \in Release /\ HandOK(c)
    BY <1>11 DEF Add, CallersOK, HandOK, Enqueueing
  <2>2. client' \in [Want \X Release -> 0..MaxAdds]
    BY <1>11, <2>1, WantAssumption DEF Add
  <2>3. claim' \in [Want -> ClaimRec \cup {None}]
    BY <1>11 DEF Add, Fail, ReleaseClaim
  <2>4. (Goto(c, "complete") \/ Return(c)) /\ caller[c].pc = "add"
    BY <1>11 DEF Add, Fail
  <2>5. caller' \in [Caller -> CallerRec] /\ HandOK(c)' /\ CallersOK'
    <3>1. CASE Goto(c, "complete")
      <4>1. "complete" \in Place
        BY DEF Place, Enqueueing
      <4>2. /\ caller' \in [Caller -> CallerRec] /\ caller'[c].pc = "complete"
            /\ caller'[c].want = caller[c].want /\ caller'[c].release = caller[c].release
            /\ caller'[c].read = caller[c].read
            /\ \A d \in Caller \ {c} : caller'[d] = caller[d]
        BY <3>1, <4>1, GotoEffect
      <4>3. caller[c].read = None
        BY <2>1, <2>4 DEF HandOK
      <4>4. HandOK(c)'
        BY <2>1, <4>2, <4>3 DEF HandOK, Enqueueing
      <4> QED BY <4>2, <4>4, <1>h
    <3>2. CASE Return(c)
      BY <3>2, ReturnEffect, <1>h DEF Return
    <3> QED BY <2>4, <3>1, <3>2
  <2>6. UNCHANGED <<now, want, ranked, alias, merged>>
    BY <1>11 DEF Add
  <2>7. faults' \in 0..MaxFaults /\ doubt' \subseteq Want
    <3>1. CASE UNCHANGED <<doubt, faults>>
      BY <3>1
    <3>2. CASE faults < MaxFaults /\ faults' = faults + 1 /\ doubt' = doubt \cup {caller[c].want}
      <4>1. faults' \in 0..MaxFaults
        BY <3>2, WantAssumption
      <4>2. doubt' \subseteq Want
        BY <2>1, <3>2
      <4> QED BY <4>1, <4>2
    <3> QED BY <1>11, <3>1, <3>2 DEF Add
  <2> QED BY <2>2, <2>3, <2>5, <2>6, <2>7
<1>12. ASSUME NEW c \in Caller, Complete(c)
      PROVE  WantTypeOK' /\ CallersOK'
  <2>1. caller[c].want \in Want /\ caller[c].release \in Release
    BY <1>12 DEF Complete, CallersOK, HandOK, Enqueueing
  <2>2. \A v \in Want : Holds(c, v) => [claim[v] EXCEPT !.owner = None] \in ClaimRec
    BY ClaimStaysClaim DEF Holds
  <2>3. claim' \in [Want -> ClaimRec \cup {None}]
    BY <1>12, <2>1, <2>2 DEF Complete
  <2>4. want' \in [Want -> WantRec \cup {None}]
    BY <1>12, <2>1 DEF Complete, WantRec, State, Searchable
  <2> QED BY <1>12, <2>3, <2>4, ReturnEffect, <1>h DEF Complete, Return
<1>13. ASSUME NEW w \in Want, MarkViewed(w) \/ MarkRejected(w)
      PROVE  WantTypeOK' /\ CallersOK'
  <2>1. want[w] \in WantRec
    BY <1>13 DEF MarkViewed, MarkRejected, Unclaimed
  <2> QED BY <1>13, <2>1 DEF MarkViewed, MarkRejected, WantRec, State, Searchable, CallersOK, HandOK
<1>14. ASSUME NEW c \in Caller, Die(c)
      PROVE  WantTypeOK' /\ CallersOK'
  <2>1. \A v \in Want : Holds(c, v) => [claim[v] EXCEPT !.owner = None] \in ClaimRec
    BY ClaimStaysClaim DEF Holds
  <2>2. claim' \in [Want -> ClaimRec \cup {None}]
    BY <1>14, <2>1 DEF Die
  <2>3. faults' \in 0..MaxFaults
    BY <1>14, WantAssumption DEF Die
  <2> QED BY <1>14, <2>2, <2>3, ReturnEffect, <1>h DEF Die
<1>15. CASE PassTime
  BY <1>15, WantAssumption DEF PassTime, CallersOK, HandOK
<1>16. ASSUME NEW c \in Caller, PassGates(c) \/ Resolve(c)
       PROVE  WantTypeOK' /\ CallersOK'
  BY <1>9, <1>16 DEF PassGates, Resolve
<1> QED
  BY <1>0, <1>1, <1>2, <1>3, <1>4, <1>5, <1>6, <1>7, <1>8, <1>10, <1>11, <1>12, <1>13,
     <1>14, <1>15, <1>16 DEF WantNext, CallerStep

-----------------------------------------------------------------------------
(* What a step does to a want. *)

\* A want goes only when it is merged away, what is settled is never lowered, and what
\* need not be searched for stays so.
NotLowered(w) ==
  want[w] # None =>
    \/ want'[w] = None /\ w \in merged'
    \/ /\ want'[w] # None
       /\ want[w].state \notin Searchable => Priority(want'[w].state) >= Priority(want[w].state)
       /\ ~WantSearchable(w) => ~WantSearchable(w)'

\* No step lowers a want.
LEMMA WantStep ==
  ASSUME WantTypeOK, CallersOK, [WantNext]_wantVars, NEW w \in Want
  PROVE  NotLowered(w)
<1> SUFFICES ASSUME want[w] # None PROVE NotLowered(w)
  BY DEF NotLowered
<1>w. want[w] \in WantRec /\ want[w].state \in State
  BY DEF WantTypeOK, WantRec
<1>u. ASSUME want'[w] = want[w] PROVE NotLowered(w)
  <2>1. Priority(want[w].state) >= Priority(want[w].state)
    BY <1>w, SettledIsAhead
  <2> QED BY <1>u, <2>1 DEF NotLowered, WantSearchable
\* A new state that is at least as high, with a selection when there was one, does.
<1>h. ASSUME want'[w] \in WantRec,
             want[w].state \notin Searchable => Priority(want'[w].state) >= Priority(want[w].state),
             want[w].selected # None /\ want'[w].state \in Searchable => want'[w].selected # None
      PROVE  NotLowered(w)
  <2>1. want'[w] # None /\ want'[w].state \in State
    BY <1>h, NoneIsNoRecord DEF WantRec
  <2>2. want[w].state \notin Searchable => want'[w].state \notin Searchable
    BY <1>h, <1>w, <2>1, SettledIsAhead
  <2> QED BY <1>h, <1>w, <2>1, <2>2 DEF NotLowered, WantSearchable
<1>0. CASE UNCHANGED wantVars
  BY <1>0, <1>u DEF wantVars
<1>1. ASSUME NEW c \in Caller, NEW e \in Event, StartIngest(c, e)
      PROVE  NotLowered(w)
  BY <1>1, <1>u DEF StartIngest
<1>2. ASSUME NEW c \in Caller, IngestMerge(c)
      PROVE  NotLowered(w)
  <2> DEFINE k == caller[c].want
  <2>1. k \in Want /\ caller[c].others \subseteq Want \ {k}
    BY <1>2, MergeEffect DEF CallersOK, WantTypeOK
  <2>2. ASSUME NEW v \in caller[c].others, want[k] # None, want[v] # None, Merge(k, v)
        PROVE  NotLowered(w)
    <3>1. v \in Want /\ want[v] # None /\ k # v
      BY <2>1, <2>2
    <3> HIDE DEF k
    <3>2. /\ merged' = merged \cup {v} /\ want'[v] = None /\ want'[k] \in WantRec
          /\ \A x \in Want \ {k, v} : want'[x] = want[x]
          /\ \/ want'[k].state = want[k].state
             \/ want'[k].state = want[v].state /\ Priority(want[v].state) > Priority(want[k].state)
          /\ want[k].selected # None /\ want'[k].state \in Searchable => want'[k].selected # None
      BY <2>1, <2>2, <3>1, MergeIsWant
    <3>3. CASE w = v
      BY <3>2, <3>3 DEF NotLowered
    <3>4. CASE w = k
      <4>1. Priority(want'[k].state) \in 1..6 /\ Priority(want[k].state) \in 1..6
        BY <3>2, <3>4, <1>w, SettledIsAhead DEF WantRec
      <4>2. Priority(want'[k].state) >= Priority(want[k].state)
        BY <3>2, <4>1
      <4> QED BY <3>2, <3>4, <4>2, <1>h
    <3> QED BY <3>2, <3>3, <3>4, <1>u
  <2>3. UNCHANGED want \/ \E v \in caller[c].others :
                            want[k] # None /\ want[v] # None /\ Merge(k, v)
    BY <1>2 DEF IngestMerge
  <2> QED BY <2>2, <2>3, <1>u
<1>3. ASSUME NEW c \in Caller, IngestRefresh(c)
      PROVE  NotLowered(w)
  <2>1. caller[c].want \in Want /\ caller[c].read \in WantRec
    BY <1>3 DEF IngestRefresh, CallersOK, HandOK, CallerRec, WantTypeOK
  <2>2. CASE w = caller[c].want /\ want' = [want EXCEPT ![w] = Upserted(want[w], caller[c].read)]
    <3>1. want'[w] = Upserted(want[w], caller[c].read)
      BY <2>2 DEF WantTypeOK
    <3>2. /\ want'[w] \in WantRec
          /\ Priority(want'[w].state) >= Priority(want[w].state)
      BY <2>1, <3>1, <1>w, UpsertedIsWant
    <3>3. want[w].selected # None => want'[w].selected # None
      BY <3>1 DEF Upserted
    <3> QED BY <3>2, <3>3, <1>h
  <2>3. CASE want'[w] = want[w]
    BY <2>3, <1>u
  <2> QED BY <1>3, <2>1, <2>2, <2>3 DEF IngestRefresh, WantTypeOK
<1>4. ASSUME NEW v \in Want, SaveSearch(v)
      PROVE  NotLowered(w)
  <2>1. CASE w = v
    <3>1. want[w].state \in Searchable /\ want[w].selected = None
      BY <1>4, <2>1 DEF SaveSearch, MaySave, WantSearchable
    <3>2. want'[w] \in WantRec
      BY <1>4, <2>1, <1>w DEF SaveSearch, WantTypeOK, WantRec, State, Searchable
    <3> QED BY <3>1, <3>2, <1>h
  <2>2. CASE w # v
    BY <1>4, <2>2, <1>u DEF SaveSearch, WantTypeOK
  <2> QED BY <2>1, <2>2
<1>5. ASSUME NEW c \in Caller, Complete(c)
      PROVE  NotLowered(w)
  <2> DEFINE k == caller[c].want
  <2>1. k \in Want /\ caller[c].release \in Release /\ caller[c].release # None
    BY <1>5, WantAssumption DEF Complete, CallersOK, HandOK, Enqueueing
  <2>2. CASE /\ w = k /\ want[k].state \in Searchable \cup {"viewed"}
             /\ want' = [want EXCEPT ![k].selected = caller[c].release,
                                     ![k].state = IF @ = "viewed" THEN @ ELSE "enqueued"]
    <3>1. want'[w] = [state |-> IF want[w].state = "viewed" THEN "viewed" ELSE "enqueued",
                      selected |-> caller[c].release]
      BY <2>1, <2>2, <1>w DEF WantTypeOK, WantRec
    <3>2. want'[w] \in WantRec /\ want'[w].selected # None
      BY <2>1, <3>1 DEF WantRec, State, Searchable
    <3>3. want[w].state \notin Searchable => Priority(want'[w].state) >= Priority(want[w].state)
      BY <2>2, <3>1 DEF Searchable, Priority
    <3> QED BY <3>2, <3>3, <1>h
  <2>3. CASE want'[w] = want[w]
    BY <2>3, <1>u
  <2> QED BY <1>5, <2>1, <2>2, <2>3 DEF Complete, WantTypeOK
<1>6. ASSUME NEW v \in Want, MarkViewed(v) \/ MarkRejected(v)
      PROVE  NotLowered(w)
  <2>1. CASE w = v
    <3>1. want'[w] \in WantRec
      BY <1>6, <2>1, <1>w DEF MarkViewed, MarkRejected, WantTypeOK, WantRec, State, Searchable
    <3>2. \/ want[w].state \in Searchable /\ want[w].selected = None
          \/ want'[w].state = "viewed"
      BY <1>6, <2>1, <1>w DEF MarkViewed, MarkRejected, WantTypeOK, WantSearchable, WantRec
    <3>3. want[w].state \notin Searchable => Priority(want'[w].state) >= Priority(want[w].state)
      BY <3>1, <3>2, <1>w, SettledIsAhead DEF WantRec
    <3> QED BY <3>1, <3>2, <3>3, <1>h DEF Searchable
  <2>2. CASE w # v
    BY <1>6, <2>2, <1>u DEF MarkViewed, MarkRejected, WantTypeOK
  <2> QED BY <2>1, <2>2
<1>7. ASSUME NEW c \in Caller,
             \/ IngestRead(c) \/ IngestAlias(c) \/ Acquire(c) \/ PassGates(c) \/ Resolve(c)
             \/ SaveResolved(c) \/ Add(c) \/ Die(c) \/ \E v \in Want, r \in Release : Choose(c, v, r)
      PROVE  NotLowered(w)
  <2>1. UNCHANGED want
    BY <1>7 DEF IngestRead, IngestAlias, Acquire, PassGates, Resolve, SaveResolved, Add, Die,
                Choose
  <2> QED BY <2>1, <1>u
<1>8. CASE PassTime
  BY <1>8, <1>u DEF PassTime
<1> QED
  BY <1>0, <1>1, <1>2, <1>3, <1>4, <1>5, <1>6, <1>7, <1>8 DEF WantNext, CallerStep

-----------------------------------------------------------------------------
(* What a step does to the claims. *)

\* What every caller, and every claim, may expect of a step by somebody else.
LEMMA ClaimsFrame ==
  ASSUME ClaimsOK, NEW c \in Caller, doubt \subseteq doubt',
         \A d \in Caller \ {c} : caller'[d] = caller[d],
         \A d \in Caller \ {c}, w \in Want :
           Holds(d, w)' => Holds(d, w) /\ claim'[w].release = claim[w].release,
         \A d \in Caller \ {c}, w \in Want : Holds(d, w) => Holds(d, w)' \/ w \in doubt',
         \A d \in Caller : HandOK(d),
         \A w \in Want : Holds(c, w)' =>
           /\ caller'[c].pc \in Enqueueing /\ caller'[c].want = w
           /\ claim'[w].release = caller'[c].release,
         caller'[c].pc \in Enqueueing => Holds(c, caller[c].want)' \/ caller[c].want \in doubt',
         caller'[c].pc \in Enqueueing => caller'[c].want = caller[c].want
  PROVE  ClaimsOK'
<1> SUFFICES ASSUME NEW d \in Caller
             PROVE  /\ \A w \in Want : Holds(d, w)' =>
                         /\ caller'[d].pc \in Enqueueing /\ caller'[d].want = w
                         /\ claim'[w].release = caller'[d].release
                    /\ caller'[d].pc \in Enqueueing =>
                         Holds(d, caller[d].want)' \/ caller'[d].want \in doubt'
  BY DEF ClaimsOK, Holds
<1>1. CASE d = c
  BY <1>1 DEF Holds
<1>2. CASE d # c
  <2>1. caller'[d] = caller[d]
    BY <1>2
  <2>2. caller[d].pc \in Enqueueing => caller[d].want \in Want
    BY DEF HandOK
  <2>3. /\ \A w \in Want : Holds(d, w) =>
             /\ caller[d].pc \in Enqueueing /\ caller[d].want = w
             /\ claim[w].release = caller[d].release
        /\ caller[d].pc \in Enqueueing =>
             Holds(d, caller[d].want) \/ caller[d].want \in doubt
    BY DEF ClaimsOK
  <2>4. ASSUME NEW w \in Want, Holds(d, w)'
        PROVE  /\ caller'[d].pc \in Enqueueing /\ caller'[d].want = w
               /\ claim'[w].release = caller'[d].release
    <3>1. Holds(d, w) /\ claim'[w].release = claim[w].release
      BY <1>2, <2>4
    <3> QED BY <2>1, <2>3, <3>1
  <2>5. ASSUME caller'[d].pc \in Enqueueing
        PROVE  Holds(d, caller[d].want)' \/ caller'[d].want \in doubt'
    <3> DEFINE w == caller[d].want
    <3>1. w \in Want /\ (Holds(d, w) \/ w \in doubt) /\ caller'[d].want = w
      BY <2>1, <2>2, <2>3, <2>5
    <3> HIDE DEF w
    <3>2. ASSUME NEW v \in Want, Holds(d, v) PROVE Holds(d, v)' \/ v \in doubt'
      BY <1>2, <3>2
    <3> QED BY <3>1, <3>2 DEF Holds
  <2> QED BY <2>4, <2>5
<1> QED BY <1>1, <1>2

\* The refusals, the death and the completion that came too late: the claim is nobody's.
LEMMA GivenUp ==
  ASSUME WantTypeOK, CallersOK, ClaimsOK, NEW c \in Caller, UNCHANGED doubt,
         caller' = [caller EXCEPT ![c] = Idle],
         \/ claim' = [w \in Want |-> IF Holds(c, w) THEN [claim[w] EXCEPT !.owner = None]
                                     ELSE claim[w]]
         \/ ReleaseClaim(c)
         \/ Holds(c, caller[c].want) /\ claim' = [claim EXCEPT ![caller[c].want] = None]
  PROVE  ClaimsOK' /\ \A w \in Want : ~Holds(c, w)'
<1>1. /\ caller'[c].pc = "idle" /\ "idle" \notin Enqueueing
      /\ \A d \in Caller \ {c} : caller'[d] = caller[d]
  BY ReturnEffect DEF WantTypeOK, Idle, Enqueueing
<1>2. \A w \in Want : Holds(c, w) => caller[c].want = w
  BY DEF ClaimsOK
<1>3. \A w \in Want : claim'[w] = claim[w] \/ Holds(c, w)
  BY DEF ReleaseClaim, WantTypeOK
<1>4. \A w \in Want : ~Holds(c, w)'
  <2> SUFFICES ASSUME NEW w \in Want, Holds(c, w) PROVE ~Holds(c, w)'
    BY <1>3 DEF Holds
  <2>1. caller[c].want = w
    BY <1>2
  <2>2. claim[w] \in ClaimRec /\ c # None
    BY WantAssumption DEF Holds, WantTypeOK
  <2>3. claim'[w] = None \/ claim'[w] = [claim[w] EXCEPT !.owner = None]
    BY <2>1, <2>2 DEF ReleaseClaim, WantTypeOK
  <2>4. claim'[w] = None \/ claim'[w].owner = None
    BY <2>2, <2>3 DEF ClaimRec
  <2> QED BY <2>2, <2>4 DEF Holds
<1>5. ASSUME NEW d \in Caller \ {c}, NEW w \in Want
      PROVE  /\ Holds(d, w)' => Holds(d, w) /\ claim'[w].release = claim[w].release
             /\ Holds(d, w) => Holds(d, w)'
  <2>1. CASE claim'[w] = claim[w]
    BY <2>1 DEF Holds
  <2>2. CASE Holds(c, w)
    <3>1. claim[w] \in ClaimRec /\ claim[w].owner = c /\ d # None
      BY <2>2, WantAssumption DEF Holds, WantTypeOK
    <3>2. claim'[w] = None \/ claim'[w] = [claim[w] EXCEPT !.owner = None]
      BY <1>2, <2>2, <3>1 DEF ReleaseClaim, WantTypeOK
    <3>3. claim'[w] = None \/ claim'[w].owner = None
      BY <3>1, <3>2 DEF ClaimRec
    <3> QED BY <3>1, <3>3 DEF Holds
  <2> QED BY <1>3, <2>1, <2>2
<1> QED
  BY <1>1, <1>4, <1>5, ClaimsFrame DEF CallersOK

\* A caller that enqueues nothing, before and after, leaves the claims alone.
LEMMA NoClaim ==
  ASSUME CallersOK, ClaimsOK, NEW c \in Caller, UNCHANGED <<claim, doubt>>,
         caller[c].pc \notin Enqueueing, caller'[c].pc \notin Enqueueing,
         \A d \in Caller \ {c} : caller'[d] = caller[d]
  PROVE  ClaimsOK'
<1>1. \A w \in Want : ~Holds(c, w) /\ ~Holds(c, w)'
  BY DEF ClaimsOK, Holds
<1>2. \A d \in Caller, w \in Want : Holds(d, w)' <=> Holds(d, w)
  BY DEF Holds
<1> QED
  BY <1>1, <1>2, ClaimsFrame DEF CallersOK

\* Every step keeps the claims with who enqueues under them.
LEMMA ClaimsStep ==
  ASSUME WantTypeOK, CallersOK, WantTypeOK', CallersOK', ClaimsOK, [WantNext]_wantVars
  PROVE  ClaimsOK'
<1>t. /\ caller \in [Caller -> CallerRec] /\ claim \in [Want -> ClaimRec \cup {None}]
      /\ \A c \in Caller : HandOK(c)
  BY DEF WantTypeOK, CallersOK
<1>n. \A c \in Caller, w \in Want : caller[c].pc \notin Enqueueing => ~Holds(c, w)
  BY DEF ClaimsOK
<1>u. ASSUME UNCHANGED <<caller, claim, doubt>> PROVE ClaimsOK'
  BY <1>u DEF ClaimsOK, Holds
\* A caller that goes on, with a claim that lasts or is renewed.
<1>g. ASSUME NEW c \in Caller, NEW pc \in Enqueueing, Goto(c, pc), caller[c].pc \in Enqueueing,
             doubt \subseteq doubt',
             \A w \in Want : \/ claim'[w] = claim[w]
                             \/ /\ claim[w] # None /\ claim'[w] # None
                                /\ claim'[w].owner = claim[w].owner
                                /\ claim'[w].release = claim[w].release
      PROVE  ClaimsOK'
  <2>1. pc \in Place
    BY DEF Place
  <2>2. /\ caller'[c].pc = pc /\ caller'[c].want = caller[c].want
        /\ caller'[c].release = caller[c].release
        /\ \A d \in Caller \ {c} : caller'[d] = caller[d]
    BY <1>g, <1>t, <2>1, GotoEffect
  <2>3. \A d \in Caller, w \in Want : (Holds(d, w)' <=> Holds(d, w)) /\
                                      (Holds(d, w) => claim'[w].release = claim[w].release)
    BY <1>g DEF Holds
  <2>4. /\ \A w \in Want : Holds(c, w) =>
             caller[c].want = w /\ claim[w].release = caller[c].release
        /\ Holds(c, caller[c].want) \/ caller[c].want \in doubt
        /\ caller[c].want \in Want
    BY <1>g, <1>t DEF ClaimsOK, HandOK
  <2>5. /\ \A w \in Want : Holds(c, w)' =>
             caller'[c].want = w /\ claim'[w].release = caller'[c].release
        /\ Holds(c, caller[c].want)' \/ caller[c].want \in doubt'
    BY <1>g, <2>2, <2>3, <2>4
  <2> QED BY <1>g, <1>t, <2>2, <2>3, <2>5, ClaimsFrame
<1>0. CASE UNCHANGED wantVars
  BY <1>0, <1>u DEF wantVars
<1>1. ASSUME NEW c \in Caller, NEW e \in Event, StartIngest(c, e)
      PROVE  ClaimsOK'
  <2>1. caller[c].pc \notin Enqueueing /\ UNCHANGED <<claim, doubt>>
    BY <1>1 DEF StartIngest, Enqueueing
  <2>2. /\ caller'[c].pc \in {"refresh", "merge"}
        /\ \A d \in Caller \ {c} : caller'[d] = caller[d]
    BY <1>1, <1>t, StartEffect
  <2> QED BY <2>1, <2>2, NoClaim DEF Enqueueing
<1>2. ASSUME NEW c \in Caller, IngestMerge(c)
      PROVE  ClaimsOK'
  <2>1. caller[c].pc \notin Enqueueing /\ "merge" \notin Enqueueing
    BY <1>2 DEF IngestMerge, Enqueueing
  <2>2. /\ caller'[c].pc = "merge"
        /\ \A d \in Caller \ {c} : caller'[d] = caller[d]
    BY <1>2, <1>t, MergeEffect
  <2>3. CASE UNCHANGED <<claim, doubt>>
    BY <2>1, <2>2, <2>3, NoClaim
  <2>4. CASE claim' = Swept /\ doubt' = doubt \cup Stale
    <3>1. \A d \in Caller, w \in Want :
            /\ Holds(d, w)' => Holds(d, w) /\ claim'[w] = claim[w]
            /\ Holds(d, w) => Holds(d, w)' \/ w \in doubt'
      BY <2>4 DEF Swept, Stale, Holds
    <3>2. \A w \in Want : ~Holds(c, w)'
      BY <1>n, <2>1, <3>1
    <3> QED BY <1>t, <2>1, <2>2, <2>4, <3>1, <3>2, ClaimsFrame
  <2> QED BY <1>2, <2>3, <2>4 DEF IngestMerge
<1>3. ASSUME NEW c \in Caller, IngestRead(c)
      PROVE  ClaimsOK'
  <2>1. /\ caller[c].pc \notin Enqueueing /\ UNCHANGED <<claim, doubt>>
        /\ \A d \in Caller \ {c} : caller'[d] = caller[d]
    BY <1>3, <1>t DEF IngestRead, Enqueueing
  <2>2. caller'[c].pc = "refresh"
    BY <1>3, <1>t DEF IngestRead, CallerRec
  <2> QED BY <2>1, <2>2, NoClaim DEF Enqueueing
<1>4. ASSUME NEW c \in Caller, IngestRefresh(c) \/ IngestAlias(c)
      PROVE  ClaimsOK'
  <2>1. caller[c].pc \notin Enqueueing /\ UNCHANGED <<claim, doubt>>
    BY <1>4 DEF IngestRefresh, IngestAlias, Enqueueing
  <2>2. caller'[c].pc \in {"idle", "alias"} /\ \A d \in Caller \ {c} : caller'[d] = caller[d]
    BY <1>4, <1>t, IngestNames
  <2> QED BY <2>1, <2>2, NoClaim DEF Enqueueing
<1>5. ASSUME NEW c \in Caller, NEW w \in Want, NEW r \in Release, Choose(c, w, r)
      PROVE  ClaimsOK'
  <2>1. /\ caller[c].pc \notin Enqueueing /\ UNCHANGED <<claim, doubt>>
        /\ \A d \in Caller \ {c} : caller'[d] = caller[d]
    BY <1>5, <1>t DEF Choose, Enqueueing
  <2>2. caller'[c].pc = "chosen"
    BY <1>5, <1>t DEF Choose, Idle
  <2> QED BY <2>1, <2>2, NoClaim DEF Enqueueing
<1>6. ASSUME NEW c \in Caller, Acquire(c)
      PROVE  ClaimsOK'
  <2> DEFINE w == caller[c].want
  <2>1. /\ caller[c].pc \notin Enqueueing /\ caller[c].pc = "chosen"
        /\ w \in Want /\ \A v \in Want : ~Holds(c, v)
    BY <1>6, <1>t, <1>n DEF Acquire, HandOK, Enqueueing
  <2>2. CASE MayAcquire(w)
    <3>1. /\ claim' = [claim EXCEPT ![w] = [owner |-> c, release |-> caller[c].release,
                                            until |-> now + Ttl]]
          /\ doubt' = IF w \in Stale THEN doubt \cup {w} ELSE doubt
          /\ Goto(c, "claimed")
      BY <1>6, <2>2 DEF Acquire
    <3>2. "claimed" \in Place /\ "claimed" \in Enqueueing
      BY DEF Place, Enqueueing
    <3>3. /\ caller'[c].pc = "claimed" /\ caller'[c].want = w
          /\ caller'[c].release = caller[c].release
          /\ \A d \in Caller \ {c} : caller'[d] = caller[d]
      BY <1>t, <3>1, <3>2, GotoEffect
    <3>4. /\ claim'[w].owner = c /\ claim'[w].release = caller[c].release
          /\ \A v \in Want \ {w} : claim'[v] = claim[v]
      <4> HIDE DEF w
      <4>1. /\ claim'[w] = [owner |-> c, release |-> caller[c].release, until |-> now + Ttl]
            /\ \A v \in Want \ {w} : claim'[v] = claim[v]
        BY <1>t, <2>1, <3>1
      <4> QED BY <4>1
    <3>5. claim'[w] # None
      <4>1. [owner |-> c, release |-> caller[c].release, until |-> now + Ttl] \in ClaimRec
        BY <1>t, <2>1, WantAssumption DEF ClaimRec, WantTypeOK, HandOK
      <4> QED BY <1>t, <2>1, <3>1, <4>1, NoneIsNoRecord
    <3>6. Holds(c, w)' /\ \A v \in Want : Holds(c, v)' => v = w
      BY <2>1, <3>3, <3>4, <3>5 DEF Holds
    <3>7. \A d \in Caller \ {c}, v \in Want :
            /\ Holds(d, v)' => Holds(d, v) /\ claim'[v] = claim[v]
            /\ Holds(d, v) => Holds(d, v)' \/ v \in doubt'
      <4> SUFFICES ASSUME NEW d \in Caller \ {c}, NEW v \in Want
                   PROVE  /\ Holds(d, v)' => Holds(d, v) /\ claim'[v] = claim[v]
                          /\ Holds(d, v) => Holds(d, v)' \/ v \in doubt'
        OBVIOUS
      <4>1. CASE v = w
        <5>1. ~Holds(d, v)'
          BY <3>4, <4>1 DEF Holds
        <5>2. Holds(d, v) => v \in Stale
          BY <2>2, <4>1 DEF Stale, Holds, MayAcquire
        <5> QED BY <3>1, <4>1, <5>1, <5>2
      <4>2. CASE v # w
        BY <3>4, <4>2 DEF Holds
      <4> QED BY <4>1, <4>2
    <3>8. doubt \subseteq doubt'
      BY <3>1
    <3> QED BY <1>t, <3>2, <3>3, <3>4, <3>6, <3>7, <3>8, ClaimsFrame
  <2>3. CASE ~MayAcquire(w)
    <3>1. Return(c) /\ UNCHANGED <<claim, doubt>>
      BY <1>6, <2>3 DEF Acquire
    <3>2. /\ caller'[c] = Idle
          /\ \A d \in Caller \ {c} : caller'[d] = caller[d]
      BY <1>t, <3>1 DEF Return
    <3>3. caller'[c].pc \notin Enqueueing
      BY <3>2 DEF Idle, Enqueueing
    <3> QED BY <2>1, <3>1, <3>2, <3>3, NoClaim
  <2> QED BY <2>2, <2>3
<1>7. ASSUME NEW c \in Caller, NEW pc \in {"resolve", "save"},
             caller[c].pc \in {"claimed", "resolve"}, Renew(c, pc) \/ Fail(c), UNCHANGED doubt
      PROVE  ClaimsOK'
  <2>1. caller[c].pc \in Enqueueing /\ pc \in Enqueueing /\ caller[c].want \in Want
    BY <1>7, <1>t DEF Enqueueing, HandOK
  <2>2. CASE /\ MayRenew(c, caller[c].want) /\ Goto(c, pc)
             /\ claim' = [claim EXCEPT ![caller[c].want].until = now + Ttl]
    <3>1. claim[caller[c].want] \in ClaimRec /\ now + Ttl \in Nat
      BY <1>t, <2>1, <2>2, WantAssumption DEF MayRenew, Holds, WantTypeOK
    <3>2. claim'[caller[c].want] = [claim[caller[c].want] EXCEPT !.until = now + Ttl]
      BY <1>t, <2>1, <2>2
    <3>3. /\ claim'[caller[c].want] # None
          /\ claim'[caller[c].want].owner = claim[caller[c].want].owner
          /\ claim'[caller[c].want].release = claim[caller[c].want].release
      BY <3>1, <3>2, ClaimStaysClaim DEF ClaimRec
    <3>4. \A w \in Want : w # caller[c].want => claim'[w] = claim[w]
      BY <1>t, <2>1, <2>2
    <3>5. claim[caller[c].want] # None
      BY <2>2 DEF MayRenew, Holds
    <3> QED BY <1>7, <2>1, <2>2, <3>3, <3>4, <3>5, <1>g
  <2>3. CASE ReleaseClaim(c) /\ Return(c)
    BY <1>7, <2>3, GivenUp DEF Return
  <2> QED BY <1>7, <1>t, <2>2, <2>3, RenewEffect
<1>8. ASSUME NEW c \in Caller, PassGates(c) \/ Resolve(c)
      PROVE  ClaimsOK'
  BY <1>7, <1>8 DEF PassGates, Resolve
<1>9. ASSUME NEW c \in Caller, SaveResolved(c)
      PROVE  ClaimsOK'
  BY <1>9, <1>g DEF SaveResolved, Enqueueing
<1>10. ASSUME NEW c \in Caller, Add(c)
      PROVE  ClaimsOK'
  <2>1. CASE Goto(c, "complete") /\ UNCHANGED <<claim, doubt>>
    BY <1>10, <2>1, <1>g DEF Add, Enqueueing
  <2>2. CASE Fail(c) /\ UNCHANGED doubt
    BY <2>2, GivenUp DEF Fail, Return
  <2>3. CASE Fail(c) /\ doubt' = doubt \cup {caller[c].want}
    <3>1. /\ caller'[c] = Idle
          /\ \A d \in Caller \ {c} : caller'[d] = caller[d]
      BY <1>t, <2>3 DEF Fail, Return
    <3>2. caller'[c].pc \notin Enqueueing
      BY <3>1 DEF Idle, Enqueueing
    <3>3. \A w \in Want : ~Holds(c, w)'
      <4>1. \A w \in Want : Holds(c, w) => caller[c].want = w
        BY DEF ClaimsOK
      <4> QED BY <2>3, <4>1 DEF Fail, ReleaseClaim, Holds
    <3>4. \A d \in Caller \ {c}, w \in Want :
            /\ Holds(d, w)' => Holds(d, w) /\ claim'[w] = claim[w]
            /\ Holds(d, w) => Holds(d, w)' \/ w \in doubt'
      BY <2>3 DEF Fail, ReleaseClaim, Holds
    <3> QED BY <1>t, <2>3, <3>1, <3>2, <3>3, <3>4, ClaimsFrame
  <2> QED BY <1>10, <2>1, <2>2, <2>3 DEF Add
<1>11. ASSUME NEW c \in Caller, Complete(c)
      PROVE  ClaimsOK'
  <2>1. caller' = [caller EXCEPT ![c] = Idle] /\ UNCHANGED doubt
    BY <1>11 DEF Complete, Return
  <2>2. CASE Holds(c, caller[c].want) /\ claim' = [claim EXCEPT ![caller[c].want] = None]
    BY <2>1, <2>2, GivenUp
  <2>3. CASE claim' = [w \in Want |-> IF Holds(c, w) THEN [claim[w] EXCEPT !.owner = None]
                                      ELSE claim[w]]
    BY <2>1, <2>3, GivenUp
  <2> QED BY <1>11, <2>2, <2>3, Zenon DEF Complete, Owned
<1>12. ASSUME NEW c \in Caller, Die(c)
      PROVE  ClaimsOK'
  BY <1>12, GivenUp DEF Die
<1>13. ASSUME NEW w \in Want, SaveSearch(w) \/ MarkViewed(w) \/ MarkRejected(w)
       PROVE  ClaimsOK'
  BY <1>13, <1>u DEF SaveSearch, MarkViewed, MarkRejected
<1>14. CASE PassTime
  BY <1>14, <1>u DEF PassTime
<1> QED
  BY <1>0, <1>1, <1>2, <1>3, <1>4, <1>5, <1>6, <1>8, <1>9, <1>10, <1>11, <1>12, <1>13, <1>14
  DEF WantNext, CallerStep

-----------------------------------------------------------------------------
(* What a step does to the adds. *)

\* Doubts and merges are never forgotten, and only an add adds.
LEMMA Remembered ==
  ASSUME [WantNext]_wantVars
  PROVE  /\ doubt \subseteq doubt' /\ merged \subseteq merged'
         /\ UNCHANGED client \/ \E c \in Caller : Add(c)
<1>1. ASSUME NEW c \in Caller, CallerStep(c)
      PROVE  /\ doubt \subseteq doubt' /\ merged \subseteq merged'
             /\ UNCHANGED client \/ Add(c)
  <2>1. CASE Add(c)
    BY <2>1 DEF Add
  <2>2. CASE IngestMerge(c)
    BY <2>2 DEF IngestMerge, Merge
  <2>3. CASE \/ \E e \in Event : StartIngest(c, e)
             \/ \E w \in Want, r \in Release : Choose(c, w, r)
    BY <2>3 DEF StartIngest, Choose
  <2>4. CASE IngestRead(c) \/ IngestRefresh(c) \/ IngestAlias(c) \/ PassGates(c) \/ Resolve(c)
             \/ SaveResolved(c) \/ Complete(c) \/ Die(c)
    BY <2>4 DEF IngestRead, IngestRefresh, IngestAlias, PassGates, Resolve, SaveResolved,
                Complete, Die
  <2>5. CASE Acquire(c)
    BY <2>5 DEF Acquire
  <2> QED BY <1>1, <2>1, <2>2, <2>3, <2>4, <2>5 DEF CallerStep
<1>2. ASSUME NEW w \in Want, SaveSearch(w) \/ MarkViewed(w) \/ MarkRejected(w)
      PROVE  UNCHANGED <<client, doubt, merged>>
  BY <1>2 DEF SaveSearch, MarkViewed, MarkRejected
<1>3. CASE PassTime
  BY <1>3 DEF PassTime
<1>4. CASE UNCHANGED wantVars
  BY <1>4 DEF wantVars
<1> QED BY <1>1, <1>2, <1>3, <1>4 DEF WantNext

\* An add counts one more of what the caller has in hand, and nothing else.
LEMMA AddEffect ==
  ASSUME WantTypeOK, CallersOK, NEW c \in Caller, Add(c)
  PROVE  /\ caller[c].pc = "add" /\ caller[c].want \in Want /\ caller[c].release \in Release
         /\ \A w \in Want, r \in Release :
              <<w, r>> # <<caller[c].want, caller[c].release>> => client'[<<w, r>>] = client[<<w, r>>]
         /\ \/ UNCHANGED client
            \/ client'[<<caller[c].want, caller[c].release>>] =
                 client[<<caller[c].want, caller[c].release>>] + 1
<1>1. /\ caller[c].pc = "add" /\ caller[c].want \in Want /\ caller[c].release \in Release
      /\ client \in [Want \X Release -> 0..MaxAdds]
  BY DEF Add, CallersOK, HandOK, Enqueueing, WantTypeOK
<1> DEFINE p == <<caller[c].want, caller[c].release>>
<1>2. UNCHANGED client \/ client' = [client EXCEPT ![p] = @ + 1]
  BY DEF Add
<1> QED BY <1>1, <1>2

\* Every step keeps it true that what was added is recorded or told of.
LEMMA AddsStep ==
  ASSUME WantTypeOK, CallersOK, WantTypeOK', ClaimsOK, AddsOK, [WantNext]_wantVars
  PROVE  AddsOK'
<1> SUFFICES ASSUME NEW w \in Want, w \notin doubt' \cup merged'
             PROVE  AddsAt(w)'
  BY DEF AddsOK
<1>a. AddsAt(w) /\ w \notin doubt \cup merged
  BY Remembered DEF AddsOK
<1>w. want[w] # None /\ ~WantSearchable(w) => want'[w] # None /\ ~WantSearchable(w)'
  BY WantStep DEF NotLowered
<1>t. /\ caller \in [Caller -> CallerRec] /\ claim \in [Want -> ClaimRec \cup {None}]
      /\ \A c \in Caller : HandOK(c)
  BY DEF WantTypeOK, CallersOK
<1>n. \A c \in Caller : /\ Holds(c, w) => caller[c].want = w
                        /\ caller[c].pc \notin Enqueueing => ~Holds(c, w)
                        /\ caller[c].pc \in Enqueueing /\ caller[c].want = w => Holds(c, w)
  BY <1>a DEF ClaimsOK
\* Nothing was added, and still is not.
<1>s. ASSUME ~Added(w), \A r \in Release : client'[<<w, r>>] = client[<<w, r>>]
      PROVE  AddsAt(w)'
  BY <1>s DEF AddsAt, Added
\* The claim stays, and who holds it gets no nearer to its completion.
<1>f. ASSUME \A r \in Release : client'[<<w, r>>] = client[<<w, r>>], claim'[w] = claim[w],
             \A c \in Caller : Holds(c, w) =>
               (caller'[c].pc = "complete" <=> caller[c].pc = "complete")
      PROVE  AddsAt(w)'
  <2>1. Added(w)' <=> Added(w)
    BY <1>f DEF Added
  <2>2. \A c \in Caller : Holds(c, w)' <=> Holds(c, w)
    BY <1>f DEF Holds
  <2>3. Told(w) => Told(w)'
    BY <1>f DEF Told, Holds
  <2> QED BY <1>a, <1>w, <1>f, <2>1, <2>2, <2>3 DEF AddsAt
\* A caller that does not hold the claim.
<1>o. ASSUME NEW c \in Caller, ~Holds(c, w), claim'[w] = claim[w],
             \A d \in Caller \ {c} : caller'[d] = caller[d],
             \A r \in Release : client'[<<w, r>>] = client[<<w, r>>]
      PROVE  AddsAt(w)'
  BY <1>o, <1>f
\* A caller that enqueues and has added nothing.
<1>e. ASSUME NEW c \in Caller, caller[c].pc # "complete", ~Holds(c, w) => claim'[w] = claim[w],
             \A d \in Caller \ {c} : caller'[d] = caller[d],
             \A r \in Release : client'[<<w, r>>] = client[<<w, r>>]
      PROVE  AddsAt(w)'
  BY <1>a, <1>e, <1>o, <1>s DEF AddsAt
\* A claim that nobody owns any more still tells.
<1>d. ASSUME NEW c \in Caller, Holds(c, w), claim'[w] = [claim[w] EXCEPT !.owner = None]
      PROVE  AddsAt(w)'
  <2>1. claim[w] \in ClaimRec /\ None \notin Caller
    BY <1>d, <1>t, WantAssumption DEF Holds
  <2>2. claim'[w] # None /\ claim'[w].owner = None
    BY <1>d, <2>1, ClaimStaysClaim DEF ClaimRec
  <2> QED BY <2>1, <2>2 DEF AddsAt, Told, Holds
<1>0. CASE UNCHANGED wantVars
  BY <1>0, <1>f DEF wantVars
<1>1. ASSUME NEW c \in Caller,
             \/ \E e \in Event : StartIngest(c, e)
             \/ \E v \in Want, r \in Release : Choose(c, v, r)
             \/ IngestRead(c) \/ IngestRefresh(c) \/ IngestAlias(c)
      PROVE  AddsAt(w)'
  <2>1. UNCHANGED <<claim, client>>
    BY <1>1 DEF StartIngest, Choose, IngestRead, IngestRefresh, IngestAlias
  <2>2. caller[c].pc \notin Enqueueing
    BY <1>1 DEF StartIngest, Choose, IngestRead, IngestRefresh, IngestAlias, Enqueueing
  <2>3. \A d \in Caller \ {c} : caller'[d] = caller[d]
    <3>1. CASE \E e \in Event : StartIngest(c, e)
      BY <1>t, <3>1, StartEffect
    <3>2. CASE \E v \in Want, r \in Release : Choose(c, v, r)
      BY <1>t, <3>2 DEF Choose
    <3>3. CASE IngestRead(c)
      BY <1>t, <3>3 DEF IngestRead
    <3>4. CASE IngestRefresh(c) \/ IngestAlias(c)
      BY <1>t, <3>4 DEF IngestRefresh, IngestAlias, Naming
    <3> QED BY <1>1, <3>1, <3>2, <3>3, <3>4
  <2> QED BY <1>n, <1>o, <2>1, <2>2, <2>3
<1>2. ASSUME NEW c \in Caller, IngestMerge(c)
      PROVE  AddsAt(w)'
  <2>1. caller[c].pc \notin Enqueueing /\ UNCHANGED client
    BY <1>2 DEF IngestMerge, Enqueueing
  <2>2. \A d \in Caller \ {c} : caller'[d] = caller[d]
    BY <1>t, <1>2 DEF IngestMerge
  <2>3. claim'[w] = claim[w]
    <3>1. CASE UNCHANGED claim
      BY <3>1
    <3>2. CASE claim' = Swept /\ doubt' = doubt \cup Stale
      BY <3>2 DEF Swept, Stale, ActiveClaim
    <3> QED BY <1>2, <3>1, <3>2 DEF IngestMerge
  <2> QED BY <1>n, <1>o, <2>1, <2>2, <2>3
<1>3. ASSUME NEW c \in Caller, Acquire(c)
      PROVE  AddsAt(w)'
  <2>1. caller[c].pc \notin Enqueueing /\ UNCHANGED client
    BY <1>3 DEF Acquire, Enqueueing
  <2>2. \A d \in Caller \ {c} : caller'[d] = caller[d]
    BY <1>3, <1>t DEF Acquire, Goto, Return
  <2>3. CASE claim'[w] = claim[w]
    BY <1>n, <1>o, <2>1, <2>2, <2>3
  <2>4. CASE claim'[w] # claim[w]
    <3>1. /\ MayAcquire(w)
          /\ w \in Stale => w \in doubt'
      BY <1>3, <1>t, <2>4 DEF Acquire
    <3>2. WantSearchable(w) /\ ~Told(w)
      BY <3>1 DEF MayAcquire, Stale, Told
    <3>3. ~Added(w)
      BY <1>a, <3>2 DEF AddsAt
    <3> QED BY <1>s, <2>1, <3>3
  <2> QED BY <2>3, <2>4
<1>4. ASSUME NEW c \in Caller, NEW pc \in {"resolve", "save"},
             caller[c].pc \in {"claimed", "resolve"}, Renew(c, pc) \/ Fail(c), UNCHANGED client
      PROVE  AddsAt(w)'
  <2>1. \A d \in Caller \ {c} : caller'[d] = caller[d]
    BY <1>4, <1>t DEF Renew, Fail, Goto, Return
  <2>2. ~Holds(c, w) => claim'[w] = claim[w]
    <3>1. CASE ReleaseClaim(c)
      BY <3>1 DEF ReleaseClaim
    <3>2. CASE /\ MayRenew(c, caller[c].want)
               /\ claim' = [claim EXCEPT ![caller[c].want].until = now + Ttl]
      BY <1>t, <3>2 DEF MayRenew
    <3> QED BY <1>4, <1>t, <3>1, <3>2, RenewEffect
  <2> QED BY <1>4, <1>e, <2>1, <2>2
<1>5. ASSUME NEW c \in Caller, PassGates(c) \/ Resolve(c)
      PROVE  AddsAt(w)'
  BY <1>4, <1>5 DEF PassGates, Resolve
<1>6. ASSUME NEW c \in Caller, SaveResolved(c)
      PROVE  AddsAt(w)'
  <2>1. /\ UNCHANGED <<claim, client>> /\ caller[c].pc # "complete"
        /\ \A d \in Caller \ {c} : caller'[d] = caller[d]
    BY <1>6, <1>t DEF SaveResolved, Goto
  <2> QED BY <1>e, <2>1
<1>7. ASSUME NEW c \in Caller, Add(c)
      PROVE  AddsAt(w)'
  <2>1. /\ caller[c].pc = "add" /\ caller[c].want \in Want /\ caller[c].release \in Release
        /\ w # caller[c].want => \A r \in Release : client'[<<w, r>>] = client[<<w, r>>]
    BY <1>7, AddEffect
  <2>2. CASE Fail(c) /\ (UNCHANGED client \/ doubt' = doubt \cup {caller[c].want})
    <3>1. /\ \A d \in Caller \ {c} : caller'[d] = caller[d]
          /\ ~Holds(c, w) => claim'[w] = claim[w]
      BY <1>t, <2>2 DEF Fail, ReleaseClaim, Return
    <3>2. \A r \in Release : client'[<<w, r>>] = client[<<w, r>>]
      BY <2>1, <2>2
    <3> QED BY <1>e, <2>1, <3>1, <3>2
  <2>3. CASE Goto(c, "complete") /\ UNCHANGED claim
    <3>1. "complete" \in Place
      BY DEF Place, Enqueueing
    <3>2. /\ caller'[c].pc = "complete"
          /\ \A d \in Caller \ {c} : caller'[d] = caller[d]
      BY <1>t, <2>3, <3>1, GotoEffect
    <3>3. CASE w = caller[c].want
      <4>1. Holds(c, w)
        BY <1>n, <2>1, <3>3 DEF Enqueueing
      <4>2. Told(w)' /\ \A d \in Caller : Holds(d, w)' => d = c
        BY <2>3, <3>2, <4>1 DEF Told, Holds
      <4> QED BY <3>2, <4>2 DEF AddsAt
    <3>4. CASE w # caller[c].want
      BY <1>n, <1>o, <2>1, <2>3, <3>2, <3>4
    <3> QED BY <3>3, <3>4
  <2> QED BY <1>7, <2>2, <2>3 DEF Add
<1>8. ASSUME NEW c \in Caller, Complete(c)
      PROVE  AddsAt(w)'
  <2> DEFINE k == caller[c].want
  <2>1. /\ k \in Want /\ caller[c].release \in Release /\ caller[c].release # None
        /\ UNCHANGED client
        /\ \A d \in Caller \ {c} : caller'[d] = caller[d]
    BY <1>8, <1>t, WantAssumption DEF Complete, HandOK, Enqueueing, Return
  <2>2. CASE /\ Holds(c, k) /\ claim' = [claim EXCEPT ![k] = None]
             /\ want[k] # None /\ want[k].state \in Searchable \cup {"viewed"}
             /\ want' = [want EXCEPT ![k].selected = caller[c].release,
                                     ![k].state = IF @ = "viewed" THEN @ ELSE "enqueued"]
    <3>1. CASE w = k
      <4>1. claim'[w] = None
        BY <1>t, <2>2, <3>1
      <4>2. want[w] \in WantRec
        BY <2>2, <3>1 DEF WantTypeOK
      <4>3. want'[w] = [state |-> IF want[w].state = "viewed" THEN "viewed" ELSE "enqueued",
                        selected |-> caller[c].release]
        BY <2>2, <3>1, <4>2 DEF WantTypeOK, WantRec
      <4>4. want'[w] # None /\ want'[w].selected # None
        BY <2>1, <4>3, NoneIsNoRecord DEF WantRec, State, Searchable
      <4> QED BY <4>1, <4>4 DEF AddsAt, WantSearchable, Holds
    <3>2. CASE w # k
      BY <1>n, <1>o, <1>t, <2>1, <2>2, <3>2
    <3> QED BY <3>1, <3>2
  <2>3. CASE claim' = [v \in Want |-> IF Holds(c, v) THEN [claim[v] EXCEPT !.owner = None]
                                      ELSE claim[v]]
    BY <1>d, <1>o, <2>1, <2>3
  <2> QED BY <1>8, <2>2, <2>3, Zenon DEF Complete, Owned
<1>9. ASSUME NEW c \in Caller, Die(c)
      PROVE  AddsAt(w)'
  <2>1. /\ \A d \in Caller \ {c} : caller'[d] = caller[d]
        /\ claim'[w] = IF Holds(c, w) THEN [claim[w] EXCEPT !.owner = None] ELSE claim[w]
        /\ UNCHANGED client
    BY <1>9, <1>t DEF Die
  <2> QED BY <1>d, <1>o, <2>1
<1>10. ASSUME NEW v \in Want, SaveSearch(v) \/ MarkViewed(v) \/ MarkRejected(v)
       PROVE  AddsAt(w)'
  BY <1>10, <1>f DEF SaveSearch, MarkViewed, MarkRejected
<1>11. CASE PassTime
  BY <1>11, <1>f DEF PassTime
<1> QED
  BY <1>0, <1>1, <1>2, <1>3, <1>5, <1>6, <1>7, <1>8, <1>9, <1>10, <1>11 DEF WantNext, CallerStep

\* Every step adds a want once: who adds it holds a claim under which nothing was added.
LEMMA OnceStep ==
  ASSUME WantTypeOK, CallersOK, ClaimsOK, AddsOK, AddedOnce, [WantNext]_wantVars
  PROVE  AddedOnce'
<1>1. CASE UNCHANGED client
  BY <1>1, Remembered DEF AddedOnce
<1>2. ASSUME NEW c \in Caller, Add(c)
      PROVE  AddedOnce'
  <2> SUFFICES ASSUME NEW w \in Want, w \notin doubt' \cup merged', NEW q \in Release, NEW r \in Release,
                      client'[<<w, q>>] > 0, client'[<<w, r>>] > 0
               PROVE  q = r /\ client'[<<w, r>>] = 1
    BY DEF AddedOnce
  <2>1. w \notin doubt \cup merged
    BY Remembered
  <2>2. /\ caller[c].pc = "add" /\ caller[c].want \in Want /\ caller[c].release \in Release
        /\ \A x \in Release : <<w, x>> # <<caller[c].want, caller[c].release>> =>
             client'[<<w, x>>] = client[<<w, x>>]
        /\ \/ UNCHANGED client
           \/ client'[<<caller[c].want, caller[c].release>>] =
                client[<<caller[c].want, caller[c].release>>] + 1
    BY <1>2, AddEffect
  <2>3. CASE w = caller[c].want
    <3>1. ~Added(w)
      BY <2>1, <2>2, <2>3 DEF ClaimsOK, AddsOK, AddsAt, Enqueueing
    <3>2. \A x \in Release : client[<<w, x>>] = 0
      <4>1. \A x \in Release : client[<<w, x>>] \in Nat
        BY WantAssumption DEF WantTypeOK
      <4> QED BY <3>1, <4>1 DEF Added
    <3> QED BY <2>2, <2>3, <3>2
  <2>4. CASE w # caller[c].want
    BY <2>1, <2>2, <2>4 DEF AddedOnce
  <2> QED BY <2>3, <2>4
<1> QED BY <1>1, <1>2, Remembered

-----------------------------------------------------------------------------
(* What a step does to the records, the reads and the claims that are good. *)

\* Who is at the completion, or has a want read, was there before or has just come.
LEMMA Arrivals ==
  ASSUME WantTypeOK, CallersOK, [WantNext]_wantVars, NEW c \in Caller,
         caller'[c].pc \in {"complete", "refresh"}
  PROVE  \/ caller'[c] = caller[c]
         \/ Add(c) /\ Goto(c, "complete") /\ client' = [client EXCEPT
              ![<<caller[c].want, caller[c].release>>] = @ + 1]
         \/ IngestRead(c)
         \/ caller'[c].pc = "refresh" /\ caller'[c].read = Fresh
<1>t. caller \in [Caller -> CallerRec] /\ HandOK(c)
  BY DEF WantTypeOK, CallersOK
<1>d. ASSUME NEW a \in Caller, CallerStep(a) PROVE a # c => caller'[c] = caller[c]
  <2>1. CASE \E e \in Event : StartIngest(a, e)
    BY <1>t, <2>1 DEF StartIngest
  <2>2. CASE \E w \in Want, r \in Release : Choose(a, w, r)
    BY <1>t, <2>2 DEF Choose
  <2>3. CASE IngestRead(a) \/ IngestRefresh(a) \/ Complete(a) \/ IngestAlias(a) \/ Die(a)
    BY <1>t, <2>3 DEF IngestRead, IngestRefresh, Complete, IngestAlias, Naming, Die, Return
  <2>4. CASE IngestMerge(a) \/ SaveResolved(a) \/ Acquire(a)
    BY <1>t, <2>4 DEF IngestMerge, SaveResolved, Acquire, Goto, Return
  <2>5. CASE PassGates(a) \/ Resolve(a) \/ Add(a)
    BY <1>t, <2>5 DEF PassGates, Resolve, Add, Renew, Fail, Goto, Return
  <2> QED BY <1>d, <2>1, <2>2, <2>3, <2>4, <2>5 DEF CallerStep
<1>i. ASSUME caller' = [caller EXCEPT ![c] = Idle] PROVE FALSE
  BY <1>t, <1>i DEF Idle
<1>g. ASSUME NEW pc, pc \notin {"complete", "refresh"}, Goto(c, pc) PROVE FALSE
  <2>1. caller'[c].pc = pc
    BY <1>t, <1>g DEF Goto, CallerRec
  <2> QED BY <1>g, <2>1
<1>1. ASSUME NEW e \in Event, StartIngest(c, e)
      PROVE  caller'[c].pc = "refresh" /\ caller'[c].read = Fresh
  BY <1>1, <1>t, StartEffect
<1>2. ASSUME NEW w \in Want, NEW r \in Release, Choose(c, w, r) PROVE FALSE
  <2>1. caller'[c].pc = "chosen"
    BY <1>t, <1>2 DEF Choose, Idle
  <2> QED BY <2>1
<1>3. ASSUME IngestRefresh(c) \/ IngestAlias(c) \/ IngestMerge(c) PROVE FALSE
  <2>1. caller'[c].pc \in {"idle", "alias", "merge"}
    BY <1>t, <1>3, IngestNames, MergeEffect
  <2> QED BY <2>1
<1>4. ASSUME Acquire(c) \/ PassGates(c) \/ Resolve(c) \/ SaveResolved(c) \/ Complete(c)
             \/ Die(c)
      PROVE  FALSE
  <2>1. \/ caller' = [caller EXCEPT ![c] = Idle]
        \/ \E pc \in {"claimed", "resolve", "save", "add"} : Goto(c, pc)
    BY <1>4 DEF Acquire, PassGates, Resolve, SaveResolved, Complete, Die, Return, Renew, Fail
  <2> QED BY <1>i, <1>g, <2>1
<1>5. ASSUME Add(c)
      PROVE  Goto(c, "complete") /\ client' = [client EXCEPT
               ![<<caller[c].want, caller[c].release>>] = @ + 1]
  <2>1. CASE Fail(c)
    BY <1>i, <2>1 DEF Fail, Return
  <2> QED BY <1>5, <2>1 DEF Add
<1>6. ASSUME NEW w \in Want, SaveSearch(w) \/ MarkViewed(w) \/ MarkRejected(w)
      PROVE  UNCHANGED caller
  BY <1>6 DEF SaveSearch, MarkViewed, MarkRejected
<1>7. CASE PassTime \/ UNCHANGED wantVars
  BY <1>7 DEF PassTime, wantVars
<1> QED
  BY <1>d, <1>1, <1>2, <1>3, <1>4, <1>5, <1>6, <1>7 DEF WantNext, CallerStep

\* Every step records only what was added.
LEMMA RecordsStep ==
  ASSUME WantTypeOK, CallersOK, WantTypeOK', CallersOK', RecordsOK, [WantNext]_wantVars
  PROVE  RecordsOK'
<1>t. /\ want \in [Want -> WantRec \cup {None}] /\ caller \in [Caller -> CallerRec]
      /\ \A w \in Want : Recorded(want[w])
      /\ \A c \in Caller : Recorded(caller[c].read)
  BY DEF WantTypeOK, RecordsOK
<1>a. ASSUME NEW r \in Release, Adds(r) PROVE Adds(r)'
  <2>1. PICK w \in Want : client[<<w, r>>] > 0
    BY <1>a DEF Adds
  <2>2. client[<<w, r>>] \in Nat
    BY WantAssumption DEF WantTypeOK
  <2>3. ASSUME NEW c \in Caller, Add(c) PROVE client'[<<w, r>>] >= client[<<w, r>>]
    <3>1. CASE w = caller[c].want /\ r = caller[c].release
      <4>1. \/ client' = client
            \/ client'[<<caller[c].want, caller[c].release>>] =
                 client[<<caller[c].want, caller[c].release>>] + 1
        BY <2>3, AddEffect
      <4> QED BY <2>2, <3>1, <4>1
    <3>2. CASE ~(w = caller[c].want /\ r = caller[c].release)
      <4>1. <<w, r>> # <<caller[c].want, caller[c].release>>
        BY <3>2
      <4>2. client'[<<w, r>>] = client[<<w, r>>]
        BY <2>3, <4>1, AddEffect
      <4> QED BY <2>2, <4>2
    <3> QED BY <3>1, <3>2
  <2>4. client'[<<w, r>>] \in Nat
    BY WantAssumption DEF WantTypeOK
  <2>5. client'[<<w, r>>] > 0
    BY <2>1, <2>2, <2>3, <2>4, Remembered
  <2> QED BY <2>5 DEF Adds
<1>b. ASSUME NEW x \in WantRec \cup {None}, Recorded(x) PROVE Recorded(x)'
  <2>1. x # None /\ x.selected # None => x.selected \in Release
    BY DEF WantRec
  <2> QED BY <1>a, <1>b, <2>1 DEF Recorded
<1>c. Recorded(Fresh)
  BY DEF Recorded, Fresh
<1>1. ASSUME NEW w \in Want PROVE Recorded(want'[w])
  <2>1. ASSUME NEW c \in Caller, NEW e \in Event, StartIngest(c, e) PROVE Recorded(want'[w])
    BY <1>t, <1>c, <2>1 DEF StartIngest
  <2>2. ASSUME NEW c \in Caller, IngestMerge(c) PROVE Recorded(want'[w])
    <3> DEFINE k == caller[c].want
    <3>1. k \in Want
      BY <2>2 DEF IngestMerge, CallersOK, HandOK
    <3>5. caller[c].others \subseteq Want \ {k}
      BY <1>t, <2>2, MergeEffect DEF CallersOK
    <3>2. ASSUME NEW v \in caller[c].others, want[k] # None, want[v] # None, Merge(k, v)
          PROVE  Recorded(want'[w])
      <4>1. v \in Want /\ want[v] # None /\ k # v
        BY <3>2, <3>5
      <4> HIDE DEF k
      <4>2. /\ want'[v] = None /\ want'[k] \in WantRec
            /\ \A x \in Want \ {k, v} : want'[x] = want[x]
            /\ want'[k].selected \in {want[k].selected, want[v].selected}
            /\ want'[k].state \notin Searchable => \E x \in {k, v} : want'[k] = want[x]
        BY <3>1, <3>2, <4>1, MergeIsWant
      <4>3. Recorded(want'[k])
        <5>1. Recorded(want[k]) /\ Recorded(want[v])
          BY <1>t, <3>1, <4>1
        <5>2. want'[k].selected # None => Adds(want'[k].selected)
          BY <3>2, <4>1, <4>2, <5>1 DEF Recorded
        <5>3. want'[k].state = "enqueued" => want'[k].selected # None
          BY <3>2, <4>1, <4>2, <5>1 DEF Recorded, Searchable
        <5> QED BY <5>2, <5>3 DEF Recorded
      <4>4. Recorded(want'[v])
        BY <4>2 DEF Recorded
      <4> QED BY <1>t, <4>2, <4>3, <4>4
    <3>3. UNCHANGED want \/ \E v \in caller[c].others :
                              want[k] # None /\ want[v] # None /\ Merge(k, v)
      BY <2>2 DEF IngestMerge
    <3> QED BY <1>t, <3>2, <3>3
  <2>3. ASSUME NEW c \in Caller, IngestRefresh(c) PROVE Recorded(want'[w])
    <3>1. /\ caller[c].want \in Want /\ caller[c].read \in WantRec /\ caller[c].read # None
          /\ Recorded(caller[c].read)
      BY <1>t, <2>3, NoneIsNoRecord DEF IngestRefresh, CallersOK, HandOK, CallerRec
    <3>2. Recorded(Upserted(want[w], caller[c].read))
      <4>1. CASE want[w] = None
        BY <3>1, <4>1 DEF Upserted
      <4>2. CASE want[w] # None
        BY <1>t, <3>1, <4>2 DEF Upserted, Recorded
      <4> QED BY <4>1, <4>2
    <3>3. want'[w] = want[w] \/ want'[w] = Upserted(want[w], caller[c].read)
      BY <1>t, <2>3, <3>1 DEF IngestRefresh
    <3> QED BY <1>t, <3>2, <3>3
  <2>4. ASSUME NEW v \in Want, SaveSearch(v) PROVE Recorded(want'[w])
    <3>1. CASE w = v
      <4>1. want[w] \in WantRec /\ want[w].selected = None
        BY <1>t, <2>4, <3>1 DEF SaveSearch, MaySave, WantSearchable
      <4>2. want'[w].selected = None /\ want'[w].state # "enqueued"
        BY <1>t, <2>4, <3>1, <4>1 DEF SaveSearch, WantRec
      <4> QED BY <4>2 DEF Recorded
    <3>2. CASE w # v
      BY <1>t, <2>4, <3>2 DEF SaveSearch
    <3> QED BY <3>1, <3>2
  <2>5. ASSUME NEW c \in Caller, Complete(c) PROVE Recorded(want'[w])
    <3> DEFINE k == caller[c].want
    <3>1. /\ k \in Want /\ caller[c].release # None /\ Adds(caller[c].release)
      BY <2>5, WantAssumption DEF Complete, CallersOK, HandOK, Enqueueing, RecordsOK
    <3>2. CASE /\ w = k /\ want[k] # None
               /\ want' = [want EXCEPT ![k].selected = caller[c].release,
                                       ![k].state = IF @ = "viewed" THEN @ ELSE "enqueued"]
      <4>1. want'[w].selected = caller[c].release
        BY <1>t, <3>1, <3>2 DEF WantRec
      <4> QED BY <3>1, <4>1 DEF Recorded
    <3>3. CASE want'[w] = want[w]
      BY <1>t, <3>3
    <3> QED BY <1>t, <2>5, <3>1, <3>2, <3>3 DEF Complete
  <2>6. ASSUME NEW v \in Want, MarkViewed(v) \/ MarkRejected(v) PROVE Recorded(want'[w])
    <3>1. CASE w = v
      <4>1. want[w] \in WantRec /\ Recorded(want[w]) /\ want[w] # None
        BY <1>t, <2>6, <3>1 DEF MarkViewed, MarkRejected, Unclaimed
      <4>2. want'[w].selected = want[w].selected /\ want'[w].state # "enqueued"
        BY <1>t, <2>6, <3>1, <4>1 DEF MarkViewed, MarkRejected, WantRec
      <4> QED BY <4>1, <4>2 DEF Recorded
    <3>2. CASE w # v
      BY <1>t, <2>6, <3>2 DEF MarkViewed, MarkRejected
    <3> QED BY <3>1, <3>2
  <2>7. ASSUME NEW c \in Caller,
               \/ IngestRead(c) \/ IngestAlias(c) \/ Acquire(c) \/ PassGates(c) \/ Resolve(c)
               \/ SaveResolved(c) \/ Add(c) \/ Die(c)
               \/ \E v \in Want, r \in Release : Choose(c, v, r)
        PROVE  Recorded(want'[w])
    <3>1. UNCHANGED want
      BY <2>7 DEF IngestRead, IngestAlias, Acquire, PassGates, Resolve, SaveResolved, Add, Die,
                  Choose
    <3> QED BY <1>t, <3>1
  <2>8. CASE PassTime \/ UNCHANGED wantVars
    BY <1>t, <2>8 DEF PassTime, wantVars
  <2> QED
    BY <2>1, <2>2, <2>3, <2>4, <2>5, <2>6, <2>7, <2>8 DEF WantNext, CallerStep
<1>2. ASSUME NEW c \in Caller PROVE Recorded(caller'[c].read)
  <2>1. CASE caller'[c].pc # "refresh"
    BY <2>1 DEF CallersOK, HandOK, Recorded
  <2>2. CASE caller'[c].pc = "refresh" /\ IngestRead(c)
    <3>1. caller[c].event \in Event /\ caller[c].want \in Want
      BY <2>2 DEF IngestRead, CallersOK, HandOK
    <3>2. \E w \in Want : caller'[c].read = IF want[w] # None THEN want[w] ELSE Fresh
      <4> DEFINE w == IF want[caller[c].want] # None THEN caller[c].want
                      ELSE Own[caller[c].event]
                 r == IF want[w] # None THEN want[w] ELSE Fresh
      <4>1. w \in Want
        BY <3>1, WantAssumption
      <4>2. caller' = [caller EXCEPT ![c].want = w, ![c].read = r, ![c].pc = "refresh"]
        BY <2>2 DEF IngestRead
      <4>3. caller'[c].read = r
        <5> HIDE DEF w, r
        <5> QED BY <1>t, <4>2 DEF CallerRec
      <4> HIDE DEF w
      <4> QED BY <4>1, <4>3
    <3> QED BY <1>t, <1>c, <3>2
  <2>3. CASE caller'[c] = caller[c]
    BY <1>t, <2>3
  <2>4. CASE caller'[c].pc = "refresh" /\ Goto(c, "complete")
    <3>1. caller'[c].pc = "complete"
      BY <1>t, <2>4 DEF Goto, CallerRec
    <3> QED BY <2>4, <3>1
  <2>5. CASE caller'[c].read = Fresh
    BY <1>c, <2>5
  <2> QED BY <2>1, <2>2, <2>3, <2>4, <2>5, Arrivals
<1>3. ASSUME NEW c \in Caller, caller'[c].pc = "complete" PROVE Adds(caller[c].release)'
  <2>1. caller'[c].release \in Release /\ caller'[c].want \in Want
    BY <1>3 DEF CallersOK, HandOK, Enqueueing
  <2>2. CASE caller'[c] = caller[c]
    BY <1>3, <1>a, <2>1, <2>2 DEF RecordsOK, Adds
  <2>3. CASE /\ Add(c) /\ Goto(c, "complete")
             /\ client' = [client EXCEPT ![<<caller[c].want, caller[c].release>>] = @ + 1]
    <3>1. "complete" \in Place
      BY DEF Place, Enqueueing
    <3>2. caller'[c].release = caller[c].release /\ caller'[c].want = caller[c].want
      BY <1>t, <2>3, <3>1, GotoEffect
    <3>3. client[<<caller[c].want, caller[c].release>>] \in Nat
      BY <2>1, <3>2, WantAssumption DEF WantTypeOK
    <3>4. client'[<<caller[c].want, caller[c].release>>] > 0
      BY <2>1, <2>3, <3>2, <3>3 DEF WantTypeOK
    <3> QED BY <2>1, <3>2, <3>4 DEF Adds
  <2>4. CASE IngestRead(c)
    <3>1. caller'[c].pc = "refresh"
      BY <1>t, <2>4 DEF IngestRead, CallerRec
    <3> QED BY <1>3, <3>1
  <2> QED BY <1>3, <2>2, <2>3, <2>4, Arrivals
<1>4. /\ \A w \in Want : want'[w] \in WantRec \cup {None}
      /\ \A c \in Caller : caller'[c].read \in WantRec \cup {None}
  BY DEF WantTypeOK, CallerRec
<1>5. \A w \in Want : Recorded(want[w])'
  BY <1>1, <1>4, <1>b DEF Recorded
<1>6. \A c \in Caller : Recorded(caller[c].read)'
  BY <1>2, <1>4, <1>b DEF Recorded
<1> QED BY <1>3, <1>5, <1>6 DEF RecordsOK

\* Every step keeps settled what was settled when it was read.
LEMMA ReadsStep ==
  ASSUME WantTypeOK, CallersOK, WantTypeOK', CallersOK', ReadsOK, [WantNext]_wantVars
  PROVE  ReadsOK'
<1> SUFFICES ASSUME NEW c \in Caller,
                    caller'[c].pc = "refresh", caller'[c].want \notin merged',
                    caller'[c].read.state \notin Searchable
             PROVE  /\ want'[caller'[c].want] # None
                    /\ want'[caller'[c].want].state \notin Searchable
  BY DEF ReadsOK
<1>1. CASE caller'[c] = caller[c]
  <2> DEFINE w == caller[c].want
  <2>1. w \in Want /\ w \notin merged
    BY <1>1, Remembered DEF CallersOK, HandOK
  <2>2. want[w] # None /\ want[w].state \notin Searchable
    BY <1>1, <2>1 DEF ReadsOK
  <2> HIDE DEF w
  <2>3. want'[w] # None /\ Priority(want'[w].state) >= Priority(want[w].state)
    <3>1. NotLowered(w)
      BY <2>1, WantStep
    <3>2. w \notin merged'
      BY <1>1 DEF w
    <3> QED BY <2>2, <3>1, <3>2 DEF NotLowered
  <2>4. want[w].state \in State /\ want'[w].state \in State
    BY <2>1, <2>2, <2>3 DEF WantTypeOK, WantRec
  <2>5. want'[w].state \notin Searchable
    BY <2>2, <2>3, <2>4, SettledIsAhead
  <2> QED BY <1>1, <2>3, <2>5 DEF w
<1>2. CASE IngestRead(c)
  <2> DEFINE w == IF want[caller[c].want] # None THEN caller[c].want ELSE Own[caller[c].event]
             r == IF want[w] # None THEN want[w] ELSE Fresh
  <2>1. caller' = [caller EXCEPT ![c].want = w, ![c].read = r, ![c].pc = "refresh"]
        /\ UNCHANGED want
    BY <1>2 DEF IngestRead
  <2>2. caller'[c].want = w /\ caller'[c].read = r
    <3> HIDE DEF w, r
    <3> QED BY <2>1 DEF WantTypeOK, CallerRec
  <2>3. want[w] # None
    BY <2>2, FreshIsWant
  <2> QED BY <2>1, <2>2, <2>3
<1>3. CASE Goto(c, "complete")
  <2>1. caller'[c].pc = "complete"
    BY <1>3 DEF Goto, WantTypeOK, CallerRec
  <2> QED BY <2>1
<1>4. CASE caller'[c].read = Fresh
  BY <1>4, FreshIsWant
<1> QED BY <1>1, <1>2, <1>3, <1>4, Arrivals

\* Every step keeps the wants under good claims as they are.
LEMMA LiveStep ==
  ASSUME WantTypeOK, CallersOK, WantTypeOK', ClaimsOK, ReadsOK, LiveOK, [WantNext]_wantVars
  PROVE  LiveOK'
<1> SUFFICES ASSUME NEW w \in Want, w \notin merged', ActiveClaim(w)'
             PROVE  want'[w] # None /\ want'[w].state \in Searchable
  BY DEF LiveOK
<1>t. /\ want \in [Want -> WantRec \cup {None}] /\ claim \in [Want -> ClaimRec \cup {None}]
      /\ now \in Nat /\ w \notin merged
  BY Remembered, WantAssumption DEF WantTypeOK
<1>l. ActiveClaim(w) => want[w] # None /\ want[w].state \in Searchable
  BY <1>t DEF LiveOK
<1>k. ASSUME ActiveClaim(w) \/ WantSearchable(w), want'[w] = want[w]
      PROVE  want'[w] # None /\ want'[w].state \in Searchable
  BY <1>k, <1>l DEF WantSearchable
<1>a. ASSUME UNCHANGED <<claim, now>> PROVE ActiveClaim(w)
  BY <1>a DEF ActiveClaim
<1>0. CASE UNCHANGED wantVars
  BY <1>0, <1>a, <1>k DEF wantVars
<1>1. ASSUME NEW c \in Caller, NEW e \in Event, StartIngest(c, e)
      PROVE  want'[w] # None /\ want'[w].state \in Searchable
  <2>1. ActiveClaim(w)
    BY <1>1, <1>a DEF StartIngest
  <2>3. want'[w] = want[w]
    BY <1>1 DEF StartIngest
  <2> QED BY <1>k, <2>1, <2>3
<1>2. ASSUME NEW c \in Caller, IngestMerge(c)
      PROVE  want'[w] # None /\ want'[w].state \in Searchable
  <2> DEFINE k == caller[c].want
  <2>1. k \in Want /\ caller[c].others \subseteq Want \ {k} /\ UNCHANGED now
    BY <1>2, MergeEffect DEF IngestMerge, CallersOK, WantTypeOK
  <2>2. CASE UNCHANGED <<want, claim>>
    BY <1>a, <1>k, <2>1, <2>2
  <2>3. CASE claim' = Swept
    <3>1. ActiveClaim(w) /\ Swept[w] # None
      BY <2>1, <2>3 DEF Swept, ActiveClaim
    <3>2. ASSUME NEW v \in caller[c].others, want[k] # None, want[v] # None, MayMerge(k, v),
                 Merge(k, v)
          PROVE  want'[w] = want[w]
      <4>1. v \in Want /\ want[v] # None /\ k # v /\ w # k /\ w # v
        BY <2>1, <3>1, <3>2 DEF MayMerge
      <4> HIDE DEF k
      <4> QED BY <2>1, <3>2, <4>1, MergeIsWant
    <3>3. UNCHANGED want \/ \E v \in caller[c].others :
                              want[k] # None /\ want[v] # None /\ MayMerge(k, v) /\ Merge(k, v)
      BY <1>2 DEF IngestMerge
    <3> QED BY <1>k, <3>1, <3>2, <3>3
  <2> QED BY <1>2, <2>2, <2>3 DEF IngestMerge
<1>3. ASSUME NEW c \in Caller, IngestRefresh(c)
      PROVE  want'[w] # None /\ want'[w].state \in Searchable
  <2>1. /\ caller[c].want \in Want /\ caller[c].read \in WantRec /\ caller[c].pc = "refresh"
    BY <1>3 DEF IngestRefresh, CallersOK, HandOK, CallerRec, WantTypeOK
  <2>2. ActiveClaim(w)
    BY <1>3, <1>a DEF IngestRefresh
  <2>3. CASE w = caller[c].want /\ want'[w] = Upserted(want[w], caller[c].read)
    <3>1. want[w] \in WantRec /\ want[w].state \in Searchable
      BY <1>l, <1>t, <2>2
    <3>2. caller[c].read.state \in Searchable
      BY <1>t, <2>1, <2>3, <3>1 DEF ReadsOK
    <3> QED BY <2>1, <2>3, <3>1, <3>2, UpsertedIsWant
  <2>4. CASE want'[w] = want[w]
    BY <1>k, <2>2, <2>4
  <2> QED BY <1>3, <1>t, <2>1, <2>3, <2>4 DEF IngestRefresh
<1>4. ASSUME NEW c \in Caller,
             \/ IngestRead(c) \/ IngestAlias(c) \/ SaveResolved(c)
             \/ \E v \in Want, r \in Release : Choose(c, v, r)
      PROVE  want'[w] # None /\ want'[w].state \in Searchable
  <2>1. UNCHANGED <<want, claim, now>>
    BY <1>4 DEF IngestRead, IngestAlias, SaveResolved, Choose
  <2> QED BY <1>a, <1>k, <2>1
<1>5. ASSUME NEW c \in Caller, Acquire(c)
      PROVE  want'[w] # None /\ want'[w].state \in Searchable
  <2>1. UNCHANGED <<want, now>> /\ (claim'[w] = claim[w] \/ WantSearchable(w))
    BY <1>5, <1>t DEF Acquire, MayAcquire
  <2>2. claim'[w] = claim[w] => ActiveClaim(w)
    BY <2>1 DEF ActiveClaim
  <2> QED BY <1>k, <2>1, <2>2
<1>6. ASSUME NEW c \in Caller, NEW pc \in {"resolve", "save"}, Renew(c, pc) \/ Fail(c),
             UNCHANGED <<want, now>>
      PROVE  want'[w] # None /\ want'[w].state \in Searchable
  <2>1. claim'[w] = claim[w] \/ WantSearchable(w) \/ claim'[w] = None
    BY <1>6, <1>t DEF Renew, Fail, ReleaseClaim, MayRenew
  <2>2. claim'[w] = claim[w] => ActiveClaim(w)
    BY <1>6 DEF ActiveClaim
  <2> QED BY <1>6, <1>k, <2>1, <2>2 DEF ActiveClaim
<1>7. ASSUME NEW c \in Caller, PassGates(c) \/ Resolve(c)
      PROVE  want'[w] # None /\ want'[w].state \in Searchable
  BY <1>6, <1>7 DEF PassGates, Resolve
<1>8. ASSUME NEW c \in Caller, Add(c)
      PROVE  want'[w] # None /\ want'[w].state \in Searchable
  <2>1. UNCHANGED <<want, now>> /\ (claim'[w] = claim[w] \/ claim'[w] = None)
    BY <1>8 DEF Add, Fail, ReleaseClaim
  <2>2. claim'[w] = claim[w] => ActiveClaim(w)
    BY <2>1 DEF ActiveClaim
  <2> QED BY <1>k, <2>1, <2>2 DEF ActiveClaim
<1>9. ASSUME NEW c \in Caller, Complete(c)
      PROVE  want'[w] # None /\ want'[w].state \in Searchable
  <2> DEFINE k == caller[c].want
  <2>1. k \in Want /\ UNCHANGED now
    BY <1>9 DEF Complete, CallersOK, HandOK, Enqueueing
  <2>2. CASE /\ claim' = [claim EXCEPT ![k] = None]
             /\ \A v \in Want : v # k => want'[v] = want[v]
    <3>1. w # k /\ claim'[w] = claim[w]
      BY <1>t, <2>1, <2>2 DEF ActiveClaim
    <3>2. ActiveClaim(w)
      BY <2>1, <3>1 DEF ActiveClaim
    <3> QED BY <1>k, <2>2, <3>1, <3>2
  <2>3. CASE /\ claim' = [v \in Want |-> IF Holds(c, v) THEN [claim[v] EXCEPT !.owner = None]
                                         ELSE claim[v]]
             /\ UNCHANGED want
    <3>1. ActiveClaim(w)
      BY <1>t, <2>1, <2>3 DEF ActiveClaim, Holds, ClaimRec
    <3> QED BY <1>k, <2>3, <3>1
  <2> QED BY <1>9, <1>t, <2>2, <2>3 DEF Complete
<1>10. ASSUME NEW c \in Caller, Die(c)
      PROVE  want'[w] # None /\ want'[w].state \in Searchable
  <2>1. UNCHANGED <<want, now>>
    BY <1>10 DEF Die
  <2>2. ActiveClaim(w)
    BY <1>10, <1>t, <2>1 DEF Die, ActiveClaim, Holds, ClaimRec
  <2> QED BY <1>k, <2>1, <2>2
<1>11. ASSUME NEW v \in Want, SaveSearch(v) \/ MarkViewed(v) \/ MarkRejected(v)
       PROVE  want'[w] # None /\ want'[w].state \in Searchable
  <2>1. UNCHANGED <<claim, now>> /\ ~ActiveClaim(v)
    BY <1>11 DEF SaveSearch, MaySave, MarkViewed, MarkRejected, Unclaimed
  <2>2. ActiveClaim(w) /\ w # v
    BY <1>a, <2>1
  <2>3. want'[w] = want[w]
    BY <1>11, <1>t, <2>2 DEF SaveSearch, MarkViewed, MarkRejected
  <2> QED BY <1>k, <2>2, <2>3
<1>12. CASE PassTime
  <2>1. ActiveClaim(w)
    BY <1>12, <1>t DEF PassTime, ActiveClaim, ClaimRec
  <2> QED BY <1>12, <1>k, <2>1 DEF PassTime
<1> QED
  BY <1>0, <1>1, <1>2, <1>3, <1>4, <1>5, <1>7, <1>8, <1>9, <1>10, <1>11, <1>12
  DEF WantNext, CallerStep

-----------------------------------------------------------------------------

\* The inductive invariant holds in every state.
THEOREM WantInvariant == WantSpec => []WantInv
<1>1. WantInit => WantInv
  <2> SUFFICES ASSUME WantInit PROVE WantInv
    OBVIOUS
  <2>1. WantTypeOK /\ CallersOK
    BY TypeInit
  <2>2. /\ \A w \in Want : claim[w] = None /\ ~Added(w)
        /\ \A w \in Want, r \in Release : ~(client[<<w, r>>] > 0)
        /\ \A c \in Caller : caller[c].pc \notin Enqueueing
    <3>2. \A c \in Caller : caller[c].pc \notin Enqueueing
      BY DEF WantInit, Idle, Enqueueing
    <3>3. ASSUME NEW w \in Want, NEW r \in Release PROVE ~(client[<<w, r>>] > 0)
      <4>1. client[<<w, r>>] = 0
        BY DEF WantInit
      <4> QED BY <4>1
    <3>4. \A w \in Want : claim[w] = None
      BY DEF WantInit
    <3> QED BY <3>2, <3>3, <3>4 DEF Added
  <2>c. ClaimsOK /\ AddsOK /\ AddedOnce
    BY <2>2 DEF ClaimsOK, AddsOK, AddsAt, AddedOnce, Holds
  <2>3. RecordsOK /\ ReadsOK /\ LiveOK
    <3>1. \A w \in Want : want[w] = None /\ claim[w] = None
      BY DEF WantInit
    <3>2. \A c \in Caller : caller[c].pc = "idle" /\ caller[c].read = None
      BY DEF WantInit, Idle
    <3> QED BY <3>1, <3>2 DEF RecordsOK, ReadsOK, LiveOK, Recorded, ActiveClaim
  <2> QED BY <2>1, <2>c, <2>3 DEF WantInv
<1>2. WantInv /\ [WantNext]_wantVars => WantInv'
  <2> SUFFICES ASSUME WantInv, [WantNext]_wantVars PROVE WantInv'
    OBVIOUS
  <2>1. WantTypeOK' /\ CallersOK'
    BY TypeStep DEF WantInv
  <2>2. ClaimsOK' /\ AddsOK' /\ AddedOnce'
    BY <2>1, ClaimsStep, AddsStep, OnceStep DEF WantInv
  <2>3. RecordsOK' /\ ReadsOK' /\ LiveOK'
    BY <2>1, RecordsStep, ReadsStep, LiveStep DEF WantInv
  <2> QED BY <2>1, <2>2, <2>3 DEF WantInv
<1> QED BY <1>1, <1>2, PTL DEF WantSpec

\* The types hold, and a want that counts as enqueued has a selection that is at the
\* downloader (complete_intent_enqueue_claim, merge_intents, upsert_intent).
THEOREM WantsAreRecordedHolds == WantSpec => []WantsAreRecorded
<1>1. WantInv => WantsAreRecorded
  <2> SUFFICES ASSUME WantInv PROVE EnqueuedIsAdded
    BY DEF WantInv, WantsAreRecorded
  <2> QED BY DEF WantInv, RecordsOK, Recorded, Adds, EnqueuedIsAdded
<1> QED BY <1>1, WantInvariant, PTL

\* A want is added once, whatever callers, deaths, lost answers and clocks do, unless an
\* outcome was lost or the want was brought back after a merge (acquire_, renew_ and
\* complete_intent_enqueue_claim).
THEOREM AddedOnceHolds == WantSpec => []AddedOnce
<1>1. WantInv => AddedOnce
  BY DEF WantInv
<1> QED BY <1>1, WantInvariant, PTL

\* What was settled stays settled (_monotonic_intent, INTENT_STATE_PRIORITY,
\* want_searchable).
THEOREM SettledStaysHolds == WantSpec => SettledStays
<1>1. WantInv /\ [WantNext]_wantVars =>
        \A w \in Want :
          /\ want[w] # None /\ want[w].state \notin Searchable
          /\ want'[w] # None
          => Priority(want'[w].state) >= Priority(want[w].state)
  BY WantStep DEF WantInv, NotLowered
<1> QED BY <1>1, WantInvariant, PTL DEF WantSpec, SettledStays

\* An enqueue whose claim is still good when the downloader answered is recorded: nobody
\* rejects, merges, re-searches or enqueues the want under it (the claim checks of
\* mark_intent_rejected, merge_intents, save_want_search_batch and acquire).
THEOREM LiveClaimCommitsHolds == WantSpec => LiveClaimCommits
<1>1. WantInv /\ [WantNext]_wantVars =>
        \A c \in Caller :
          /\ Complete(c) /\ Holds(c, caller[c].want) /\ ActiveClaim(caller[c].want)
          /\ caller[c].want \notin merged
          => /\ want'[caller[c].want] # None
             /\ want'[caller[c].want].selected = caller[c].release
  <2> SUFFICES ASSUME WantInv, NEW c \in Caller, Complete(c), Holds(c, caller[c].want),
                      ActiveClaim(caller[c].want), caller[c].want \notin merged
               PROVE  /\ want'[caller[c].want] # None
                      /\ want'[caller[c].want].selected = caller[c].release
    OBVIOUS
  <2> DEFINE w == caller[c].want
             r == caller[c].release
  <2>1. w \in Want /\ r \in Release
    BY DEF WantInv, CallersOK, HandOK, Complete, Enqueueing
  <2>2. Owned(c, w, r) /\ want[w] # None /\ want[w].state \in Searchable
    BY <2>1 DEF WantInv, ClaimsOK, LiveOK, Owned
  <2>3. want' = [want EXCEPT ![w].selected = r,
                             ![w].state = IF @ = "viewed" THEN @ ELSE "enqueued"]
    BY <2>2 DEF Complete
  <2>4. want[w] \in WantRec /\ want \in [Want -> WantRec \cup {None}]
    BY <2>1, <2>2 DEF WantInv, WantTypeOK
  <2>5. want'[w] = [state |-> IF want[w].state = "viewed" THEN "viewed" ELSE "enqueued",
                    selected |-> r]
    <3> HIDE DEF w, r
    <3> QED BY <2>1, <2>3, <2>4 DEF WantRec
  <2>6. want'[w] \in WantRec
    BY <2>1, <2>5 DEF WantRec, State, Searchable
  <2> QED BY <2>5, <2>6, NoneIsNoRecord
<1> QED BY <1>1, WantInvariant, PTL DEF WantSpec, LiveClaimCommits

-----------------------------------------------------------------------------
(* The searches: the inductive invariant. *)

\* The updates up to n are on the Want List, or among the events in hand.
UpdatesIn(n, set) == \A i \in 1..n : Posted[i] \in set

\* The cursor runs after what was sent, and Telegram after the cursor. A cycle that is
\* clean may store its offset once its events are ingested.
CursorOK ==
  /\ confirmed <= cursor /\ cursor <= sent
  /\ UpdatesIn(cursor, known)
  /\ ~At("idle") /\ ~At("note") => cursor <= cycle.offset
  /\ cycle.offset <= sent
  /\ cycle.clean => UpdatesIn(cycle.offset, known \cup cycle.events)
  /\ cycle.events # {} => At("ingest")

\* What is still to be enqueued is on the Want List.
TodoOK == cycle.todo \subseteq known

\* The history: its rows were written one after the other, and a want waits only for
\* a row that is not a success.
HistoryOK ==
  /\ last \in [Intent -> Status] /\ InARow
  /\ waits \subseteq {w \in Intent : last[w] \in {"failed", "skipped"}}

\* The types of all else.
TypedRest ==
  /\ taken \subseteq known /\ known \subseteq Intent /\ ready \subseteq known
  /\ fresh \subseteq known
  /\ {sent, confirmed, cursor} \subseteq 0..Len(Posted)
  /\ paused \in BOOLEAN /\ refreshed \in BOOLEAN /\ searched \in BOOLEAN
  /\ cycle \in CycleRec /\ web \in {"idle", "sync", "search"}

SearchInv == HistoryOK /\ TypedRest /\ CursorOK /\ TodoOK

-----------------------------------------------------------------------------
(* The order of the latest rows. *)

\* A strict order of a set.
InOrder(rel, set) ==
  /\ rel \subseteq set \X set
  /\ \A v, w \in set : v # w => <<v, w>> \in rel \/ <<w, v>> \in rel
  /\ \A v, w \in set : <<v, w>> \in rel => <<w, v>> \notin rel
  /\ \A u, v, w \in set : <<u, v>> \in rel /\ <<v, w>> \in rel => <<u, w>> \in rel

\* What is written in an order comes after all else in that order.
LEMMA WrittenInOrder ==
  ASSUME InARow, NEW set \in SUBSET Intent, NEW rel, InOrder(rel, set),
         Tried' = Tried \cup set,
         older' = {pair \in older : pair[1] \notin set /\ pair[2] \notin set}
                    \cup ((Tried \ set) \X set) \cup rel
  PROVE  InARow'
<1> DEFINE rest == Tried \ set
<1>1. \A v, w \in rest : <<v, w>> \in older' <=> <<v, w>> \in older
  BY DEF InOrder
<1>2. \A v \in rest, w \in set : <<v, w>> \in older' /\ <<w, v>> \notin older'
  BY DEF InOrder
<1>3. \A v, w \in set : <<v, w>> \in older' <=> <<v, w>> \in rel
  BY DEF InOrder
<1>4. older' \subseteq Tried' \X Tried'
  BY DEF InARow, InOrder
<1>5. \A w : w \in Tried' <=> w \in rest \/ w \in set
  OBVIOUS
<1>6. \A v, w \in Tried' : v # w => <<v, w>> \in older' \/ <<w, v>> \in older'
  BY <1>1, <1>2, <1>3, <1>5 DEF InARow, InOrder
<1>7. \A v, w \in Tried' : <<v, w>> \in older' => <<w, v>> \notin older'
  BY <1>1, <1>2, <1>3, <1>5 DEF InARow, InOrder
<1>8. ASSUME NEW u \in Tried', NEW v \in Tried', NEW w \in Tried',
             <<u, v>> \in older', <<v, w>> \in older'
      PROVE  <<u, w>> \in older'
  <2>1. CASE u \in rest /\ w \in set
    BY <1>2, <2>1
  <2>2. CASE u \in rest /\ w \in rest
    <3>1. v \in rest
      BY <1>2, <1>5, <1>8, <2>2
    <3> QED BY <1>1, <1>8, <2>2, <3>1 DEF InARow
  <2>3. CASE u \in set
    <3>1. v \in set /\ w \in set
      BY <1>2, <1>5, <1>8, <2>3
    <3> QED BY <1>3, <1>8, <2>3, <3>1 DEF InOrder
  <2> QED BY <1>5, <2>1, <2>2, <2>3
<1> QED BY <1>4, <1>6, <1>7, <1>8 DEF InARow

LEMMA Intents == Intent \subseteq Nat
BY SearchAssumption

LEMMA AscendingInOrder ==
  ASSUME NEW set \in SUBSET Intent
  PROVE  InOrder(Ascending(set), set)
BY Intents DEF InOrder, Ascending

LEMMA DescendingInOrder ==
  ASSUME NEW set \in SUBSET Intent
  PROVE  InOrder(Descending(set), set)
BY Intents DEF InOrder, Descending

LEMMA BeforeInOrder ==
  ASSUME InARow, NEW set \in SUBSET Intent
  PROVE  InOrder(AsDue(set), set)
<1> DEFINE rel == AsDue(set)
<1>1. \A v, w \in set : <<v, w>> \in rel <=> Before(v, w)
  BY DEF AsDue
<1>2. ASSUME NEW v \in set, NEW w \in set, v # w PROVE Before(v, w) \/ Before(w, v)
  <2>1. v \in Nat /\ w \in Nat
    BY Intents
  <2>2. CASE v \in Tried /\ w \in Tried
    BY <1>2, <2>2 DEF Before, InARow
  <2>3. CASE v \notin Tried \/ w \notin Tried
    BY <1>2, <2>1, <2>3 DEF Before
  <2> QED BY <2>2, <2>3
<1>3. \A v, w \in set : Before(v, w) => ~Before(w, v)
  BY Intents DEF Before, InARow
<1>4. \A u, v, w \in set : Before(u, v) /\ Before(v, w) => Before(u, w)
  BY Intents DEF Before, InARow
<1>5. rel \subseteq set \X set
  BY DEF AsDue
<1> HIDE DEF rel
<1>6. InOrder(rel, set)
  BY <1>1, <1>2, <1>3, <1>4, <1>5 DEF InOrder
<1> QED BY <1>6 DEF rel

\* What a record of rows does to the history, whatever its order.
LEMMA Records ==
  ASSUME HistoryOK, NEW set \in SUBSET Intent, NEW rel, InOrder(rel, set),
         NEW status \in Status, NEW held \in BOOLEAN,
         status # "none", held => status \in {"failed", "skipped"},
         last' = [w \in Intent |-> IF w \in set THEN status ELSE last[w]],
         older' = {pair \in older : pair[1] \notin set /\ pair[2] \notin set}
                    \cup ((Tried \ set) \X set) \cup rel,
         waits' = IF held THEN waits \cup set ELSE waits \ set
  PROVE  HistoryOK'
<1>1. last' \in [Intent -> Status]
  BY DEF HistoryOK
<1>2. Tried' = Tried \cup set
  BY DEF Tried, HistoryOK
<1>3. InARow'
  BY <1>2, WrittenInOrder DEF HistoryOK
<1>4. waits' \subseteq {w \in Intent : last'[w] \in {"failed", "skipped"}}
  BY DEF HistoryOK
<1> QED BY <1>1, <1>3, <1>4 DEF HistoryOK

LEMMA SaveKeeps ==
  ASSUME HistoryOK, known \subseteq Intent, ready \subseteq known, fresh \subseteq known,
         NEW batch, NEW good, Save(batch, good)
  PROVE  HistoryOK' /\ ready' \subseteq known /\ fresh' \subseteq known
<1> DEFINE saved == batch \cap StillWanted
<1>1. saved \subseteq known
  BY DEF StillWanted
<1>2. saved \in SUBSET Intent
  BY <1>1
<1>3. /\ last' = [w \in Intent |-> IF w \in saved THEN "searched" ELSE last[w]]
      /\ older' = {pair \in older : pair[1] \notin saved /\ pair[2] \notin saved}
                    \cup ((Tried \ saved) \X saved)
                    \cup Ascending(saved)
      /\ waits' = waits \ saved
      /\ fresh' = fresh \cup saved /\ ready' = (ready \ saved) \cup (good \cap saved)
  BY DEF Save, Record, Later
<1> HIDE DEF saved
<1>4. HistoryOK'
  BY <1>2, <1>3, AscendingInOrder, Records DEF Status
<1> QED BY <1>1, <1>3, <1>4

LEMMA AbortKeeps ==
  ASSUME HistoryOK, NEW set \in SUBSET Intent,
         Abort(set, AsDue(set)) \/ Abort(set, Descending(set))
  PROVE  HistoryOK' /\ fresh' = fresh /\ ready' = ready
<1>1. /\ last' = [w \in Intent |-> IF w \in set THEN "failed" ELSE last[w]]
      /\ waits' = waits \cup set
      /\ fresh' = fresh /\ ready' = ready
  BY DEF Abort, Record
<1>2. PICK rel : /\ InOrder(rel, set)
                 /\ older' = {pair \in older : pair[1] \notin set /\ pair[2] \notin set}
                               \cup ((Tried \ set) \X set) \cup rel
  <2>1. CASE Abort(set, AsDue(set))
    <3>1. older' = {pair \in older : pair[1] \notin set /\ pair[2] \notin set}
                     \cup ((Tried \ set) \X set)
                     \cup AsDue(set)
      BY <2>1 DEF Abort, Record, Later
    <3> QED BY <3>1, BeforeInOrder DEF HistoryOK
  <2>2. CASE Abort(set, Descending(set))
    <3>1. older' = {pair \in older : pair[1] \notin set /\ pair[2] \notin set}
                     \cup ((Tried \ set) \X set)
                     \cup Descending(set)
      BY <2>2 DEF Abort, Record, Later
    <3> QED BY <3>1, DescendingInOrder
  <2> QED BY <2>1, <2>2
<1>3. HistoryOK'
  BY <1>1, <1>2, Records DEF Status
<1> QED BY <1>1, <1>3

-----------------------------------------------------------------------------
(* The steps. *)

LEMMA InitSearch == Init => SearchInv
<1> SUFFICES ASSUME Init PROVE SearchInv
  OBVIOUS
<1>1. Posted \in Seq(Intent) /\ Len(Posted) \in Nat
  BY SearchAssumption
<1>2. NoCycle \in CycleRec
  BY DEF NoCycle, CycleRec
<1>3. /\ known = {} /\ taken = {} /\ ready = {} /\ older = {} /\ waits = {} /\ fresh = {}
      /\ last = [w \in Intent |-> "none"] /\ cycle = NoCycle /\ web = "idle"
      /\ sent = 0 /\ confirmed = 0 /\ cursor = 0
      /\ paused = FALSE /\ refreshed = FALSE /\ searched = FALSE
  BY DEF Init
<1>4. last \in [Intent -> Status] /\ Tried = {}
  BY <1>3 DEF Status, Tried
<1>5. HistoryOK
  BY <1>3, <1>4 DEF HistoryOK, InARow
<1>6. TypedRest
  <2>1. {sent, confirmed, cursor} \subseteq 0..Len(Posted)
    BY <1>1, <1>3
  <2> QED BY <1>2, <1>3, <2>1 DEF TypedRest
<1>7. CursorOK /\ TodoOK
  BY <1>3 DEF CursorOK, TodoOK, UpdatesIn, NoCycle, At
<1> QED BY <1>5, <1>6, <1>7 DEF SearchInv

LEMMA HistoryKept ==
  ASSUME HistoryOK, last' = last, older' = older, waits' \subseteq waits
  PROVE  HistoryOK'
BY DEF HistoryOK, InARow, Tried

\* The steps of a cycle that leave the history alone.
LEMMA CycleStep ==
  ASSUME SearchInv,
         \/ CycleBegins \/ RefreshFails \/ Fetch \/ Ingest \/ ChooseDue
         \/ EnqueueFails \/ Commit \/ Note \/ \E w \in Intent : Enqueue(w) \/ Gated(w)
  PROVE  SearchInv'
<1> USE DEF wantList, history, sources, marks, At
<1>0. HistoryOK /\ TypedRest /\ CursorOK /\ TodoOK
  BY DEF SearchInv
<1>1. Posted \in Seq(Intent) /\ Len(Posted) \in Nat /\ Listed \subseteq Intent /\ Filed \subseteq Intent
  BY SearchAssumption
<1>2. /\ \A i \in 1..Len(Posted) : Posted[i] \in Intent
      /\ sent \in 0..Len(Posted) /\ confirmed \in 0..Len(Posted) /\ cursor \in 0..Len(Posted)
      /\ cycle \in CycleRec /\ cycle.offset \in Nat
      /\ sent \in Nat /\ confirmed \in Nat /\ cursor \in Nat
  BY <1>0, <1>1 DEF TypedRest, CycleRec
<1>3. Polled \subseteq Intent
  BY <1>2 DEF Polled
<1>4. NoCycle \in CycleRec
  BY DEF NoCycle, CycleRec
<1>h. HistoryOK'
  <2>1. last' = last /\ older' = older /\ waits' = waits
    BY DEF CycleBegins, RefreshFails, Fetch, Ingest, ChooseDue, EnqueueFails, Commit, Note,
           Enqueue, Gated
  <2> QED BY <1>0, <2>1, HistoryKept
<1>5. CASE CycleBegins
  <2>u. UNCHANGED <<wantList, fresh, sources, marks, web>>
    BY <1>5 DEF CycleBegins
  <2>1. /\ paused' \in BOOLEAN
        /\ cycle' \in CycleRec /\ cycle'.offset = cursor /\ cycle'.todo = {}
        /\ cycle'.events = {} /\ cycle'.pc \in {"fetch", "choose"}
    <3>1. PICK held \in (IF paused THEN {TRUE} ELSE BOOLEAN) :
            LET refresh == ~refreshed
                search  == (~searched \/ Due # {}) /\ ~held
                retry   == ~search /\ ~held /\ StillWanted \cap ready # {}
            IN  /\ paused' = held
                /\ refresh \/ ~held
                /\ cycle' = [NoCycle EXCEPT !.refresh = refresh, !.search = search,
                                            !.retry = retry, !.offset = cursor,
                                            !.pc = IF refresh THEN "fetch" ELSE "choose"]
      BY <1>5, Zenon DEF CycleBegins
    <3>2. PICK refresh, search, retry \in BOOLEAN :
            \E pc \in {"fetch", "choose"} :
              cycle' = [NoCycle EXCEPT !.refresh = refresh, !.search = search, !.retry = retry,
                                       !.offset = cursor, !.pc = pc]
      <4> DEFINE refresh == ~refreshed
                 search  == (~searched \/ Due # {}) /\ ~held
                 retry   == ~search /\ ~held /\ StillWanted \cap ready # {}
                 pc      == IF refresh THEN "fetch" ELSE "choose"
      <4>1. /\ refresh \in BOOLEAN /\ search \in BOOLEAN /\ retry \in BOOLEAN
            /\ pc \in {"fetch", "choose"}
        OBVIOUS
      <4>2. cycle' = [NoCycle EXCEPT !.refresh = refresh, !.search = search, !.retry = retry,
                                     !.offset = cursor, !.pc = pc]
        BY <3>1
      <4> HIDE DEF refresh, search, retry, pc
      <4> QED BY <4>1, <4>2, Zenon
    <3>3. paused' \in BOOLEAN
      BY <1>0, <3>1 DEF TypedRest
    <3>4. PICK pc \in {"fetch", "choose"} :
            cycle' = [NoCycle EXCEPT !.refresh = refresh, !.search = search, !.retry = retry,
                                     !.offset = cursor, !.pc = pc]
      BY <3>2
    <3> QED BY <1>2, <3>3, <3>4 DEF NoCycle, CycleRec
  <2>2. TypedRest' /\ TodoOK'
    BY <1>0, <2>1, <2>u DEF TypedRest, TodoOK
  <2>3. CursorOK'
    BY <1>0, <1>2, <2>1, <2>u DEF CursorOK, UpdatesIn
  <2> QED BY <1>h, <2>2, <2>3 DEF SearchInv
<1>6. CASE RefreshFails
  <2>1. PICK some \in SUBSET cycle.events : known' = known \cup some
    BY <1>6 DEF RefreshFails
  <2>2. /\ cycle.events \subseteq Intent /\ cycle'.clean = FALSE /\ cycle' \in CycleRec
        /\ cycle'.offset = cycle.offset /\ cycle'.todo = cycle.todo /\ cycle'.pc = "choose"
        /\ cycle'.events = {}
    BY <1>2, <1>6 DEF RefreshFails, CycleRec
  <2>3. cycle.pc \in {"fetch", "ingest"} /\ UNCHANGED <<taken, ready, fresh, paused, sources, marks, web>>
    BY <1>6 DEF RefreshFails
  <2>4. TypedRest'
    BY <1>0, <1>2, <2>1, <2>2, <2>3 DEF TypedRest
  <2>5. TodoOK'
    BY <1>0, <2>1, <2>2, <2>3 DEF TodoOK
  <2>6. CursorOK'
    BY <1>0, <1>2, <2>1, <2>2, <2>3 DEF CursorOK, UpdatesIn
  <2> QED BY <1>h, <2>4, <2>5, <2>6 DEF SearchInv
<1>7. CASE Fetch
  <2>1. PICK read \in SUBSET Listed :
          cycle' = [cycle EXCEPT !.pc = "ingest", !.events = Polled \cup read,
                                 !.offset = sent, !.clean = read = Listed]
    BY <1>7 DEF Fetch
  <2>2. /\ cycle' \in CycleRec /\ cycle'.offset = sent /\ cycle'.todo = cycle.todo
        /\ cycle'.pc = "ingest" /\ Polled \subseteq cycle'.events
    <3>1. (read = Listed) \in BOOLEAN /\ Polled \cup read \in SUBSET Intent /\ sent \in Nat
      BY <1>1, <1>2, <1>3
    <3>2. PICK clean \in BOOLEAN :
            cycle' = [cycle EXCEPT !.pc = "ingest", !.events = Polled \cup read,
                                   !.offset = sent, !.clean = clean]
      BY <2>1, <3>1, Zenon
    <3>3. /\ cycle' \in CycleRec /\ cycle'.offset = sent /\ cycle'.todo = cycle.todo
          /\ cycle'.pc = "ingest" /\ cycle'.events = Polled \cup read
      BY <1>2, <3>1, <3>2 DEF CycleRec
    <3> QED BY <3>3
  <2>3. \A i \in (cursor + 1)..sent : Posted[i] \in Polled
    BY DEF Polled
  <2>c. confirmed' = IF confirmed > cursor THEN confirmed ELSE cursor
    BY <1>7 DEF Fetch, Drops
  <2>4. confirmed' \in {confirmed, cursor} /\ confirmed' <= cursor
    BY <1>0, <1>2, <2>c DEF CursorOK
  <2>5. UNCHANGED <<wantList, fresh, paused, sent, cursor, marks, web>>
    BY <1>7 DEF Fetch
  <2>6. UpdatesIn(sent, known \cup cycle'.events)
    BY <1>0, <1>2, <2>2, <2>3 DEF CursorOK, UpdatesIn
  <2>7. TypedRest'
    BY <1>0, <1>2, <2>2, <2>4, <2>5 DEF TypedRest
  <2>8. CursorOK'
    BY <1>0, <1>2, <2>2, <2>4, <2>5, <2>6 DEF CursorOK, UpdatesIn
  <2>9. TodoOK'
    BY <1>0, <2>2, <2>5 DEF TodoOK
  <2> QED BY <1>h, <2>7, <2>8, <2>9 DEF SearchInv
<1>8. CASE Ingest
  <2>1. /\ cycle.events \subseteq Intent /\ known' = known \cup cycle.events
        /\ cycle' \in CycleRec /\ cycle'.clean = cycle.clean /\ cycle'.events = {}
        /\ cycle'.offset = cycle.offset /\ cycle'.todo = cycle.todo /\ cycle'.pc = "choose"
        /\ cycle.pc = "ingest" /\ UNCHANGED <<taken, ready, fresh, paused, sources, marks, web>>
    BY <1>2, <1>8 DEF Ingest, CycleRec
  <2>2. TypedRest' /\ CursorOK' /\ TodoOK'
    BY <1>0, <1>2, <2>1 DEF TypedRest, CursorOK, TodoOK, UpdatesIn
  <2> QED BY <1>h, <2>2 DEF SearchInv
<1>9. CASE ChooseDue
  <2>1. known' = known \cup Filed /\ UNCHANGED <<taken, ready, fresh, paused, sources, marks, web>>
    BY <1>9 DEF ChooseDue, ReadInbox
  <2>2. DueBatch' \subseteq Intent /\ Again \subseteq known
    <3>1. Due' \subseteq known' /\ known' \subseteq Intent
      BY <1>0, <1>1, <2>1 DEF Due, StillWanted, TypedRest
    <3> QED BY <3>1 DEF DueBatch, Again, StillWanted
  <2>3. Again \in SUBSET Intent
    BY <1>0, <2>2 DEF TypedRest
  <2>4. /\ cycle' \in CycleRec /\ cycle'.offset = cycle.offset /\ cycle'.clean = cycle.clean
        /\ cycle'.events = cycle.events /\ cycle'.todo \in {cycle.todo, Again}
        /\ cycle'.pc \in {"search", "enqueue"} /\ cycle.pc = "choose"
    BY <1>2, <1>9, <2>2, <2>3 DEF ChooseDue, CycleRec
  <2>5. TypedRest' /\ CursorOK' /\ TodoOK'
    BY <1>0, <1>1, <1>2, <2>1, <2>2, <2>4 DEF TypedRest, CursorOK, TodoOK, UpdatesIn
  <2> QED BY <1>h, <2>5 DEF SearchInv
<1>10. CASE EnqueueFails
  <2>1. cycle' = NoCycle /\ UNCHANGED <<wantList, fresh, paused, sources, marks, web>>
    BY <1>10 DEF EnqueueFails
  <2>2. TypedRest' /\ CursorOK' /\ TodoOK'
    BY <1>0, <1>2, <1>4, <2>1 DEF TypedRest, CursorOK, TodoOK, UpdatesIn, NoCycle
  <2> QED BY <1>h, <2>2 DEF SearchInv
<1>11. CASE Commit
  <2>1. /\ cycle.pc = "enqueue" /\ cycle.todo = {} /\ UNCHANGED <<wantList, fresh, paused, sent, confirmed, marks, web>>
        /\ cursor' = IF cycle.refresh /\ cycle.clean THEN cycle.offset ELSE cursor
        /\ cycle' \in CycleRec /\ cycle'.offset = 0 /\ cycle'.todo = {} /\ cycle'.pc = "note"
        /\ cycle'.events = cycle.events
    BY <1>2, <1>11 DEF Commit, CycleRec
  <2>2. cursor <= cursor' /\ cursor' <= sent /\ cursor' \in 0..Len(Posted)
    BY <1>0, <1>2, <2>1 DEF CursorOK
  <2>e. cycle.events = {}
    BY <1>0, <2>1 DEF CursorOK
  <2>3. UpdatesIn(cursor', known)
    BY <1>0, <2>1, <2>e DEF CursorOK, UpdatesIn
  <2>4. TypedRest'
    BY <1>0, <1>2, <2>1, <2>2, <2>3 DEF TypedRest
  <2>5. TodoOK'
    BY <1>0, <2>1, <2>2, <2>3 DEF TodoOK
  <2>6. CursorOK'
    BY <1>0, <1>2, <2>1, <2>2, <2>e, <2>3 DEF CursorOK, UpdatesIn
  <2> QED BY <1>h, <2>4, <2>5, <2>6 DEF SearchInv
<1>12. CASE Note
  <2>1. cycle' = NoCycle /\ UNCHANGED <<wantList, fresh, paused, sources, web>>
        /\ refreshed' \in BOOLEAN /\ searched' \in BOOLEAN
    BY <1>0, <1>2, <1>12 DEF Note, TypedRest, CycleRec
  <2>2. TypedRest' /\ CursorOK' /\ TodoOK'
    BY <1>0, <1>2, <1>4, <2>1 DEF TypedRest, CursorOK, TodoOK, UpdatesIn, NoCycle
  <2> QED BY <1>h, <2>2 DEF SearchInv
<1>13. CASE \E w \in Intent : Enqueue(w) \/ Gated(w)
  <2>1. PICK w \in Intent : Enqueue(w) \/ Gated(w)
    BY <1>13
  <2>2. /\ w \in cycle.todo /\ cycle.pc = "enqueue" /\ taken' \in {taken, taken \cup {w}}
        /\ cycle' = [cycle EXCEPT !.todo = @ \ {w}]
        /\ UNCHANGED <<known, ready, fresh, paused, sources, marks, web>>
    BY <2>1 DEF Enqueue, Gated
  <2>3. /\ cycle' \in CycleRec /\ cycle'.offset = cycle.offset /\ cycle'.clean = cycle.clean
        /\ cycle'.events = cycle.events /\ cycle'.todo \subseteq cycle.todo /\ cycle'.pc = cycle.pc
    BY <1>2, <2>2 DEF CycleRec
  <2>4. TypedRest' /\ CursorOK' /\ TodoOK'
    BY <1>0, <1>2, <2>2, <2>3 DEF TypedRest, CursorOK, TodoOK, UpdatesIn
  <2> QED BY <1>h, <2>4 DEF SearchInv
<1> QED BY <1>5, <1>6, <1>7, <1>8, <1>9, <1>10, <1>11, <1>12, <1>13

\* The two ends of a batch search.
LEMMA SearchStep ==
  ASSUME SearchInv, SearchFails \/ SearchSucceeds
  PROVE  SearchInv'
<1> USE DEF sources, marks, At
<1>0. HistoryOK /\ TypedRest /\ CursorOK /\ TodoOK
  BY DEF SearchInv
<1>1. /\ cycle.pc = "search" /\ cycle \in CycleRec
      /\ UNCHANGED <<known, taken, sources, marks, web>>
  BY <1>0 DEF SearchFails, SearchSucceeds, TypedRest
<1>2. cycle.batch \in SUBSET Intent
  BY <1>1 DEF CycleRec
<1>3. CASE SearchFails
  <2>1. Abort(cycle.batch, AsDue(cycle.batch)) /\ cycle' = NoCycle
    BY <1>3 DEF SearchFails
  <2>2. PICK busy \in BOOLEAN : paused' = (paused \/ busy)
    BY <1>3 DEF SearchFails
  <2>3. HistoryOK' /\ fresh' = fresh /\ ready' = ready
    BY <1>0, <1>2, <2>1, AbortKeeps
  <2>4. NoCycle \in CycleRec
    BY DEF NoCycle, CycleRec
  <2>5. TypedRest'
    BY <1>0, <1>1, <2>1, <2>2, <2>3, <2>4 DEF TypedRest
  <2>6. /\ cycle'.pc = "idle" /\ cycle'.offset = 0 /\ cycle'.clean = TRUE
        /\ cycle'.events = {} /\ cycle'.todo = {}
    BY <2>1 DEF NoCycle
  <2>7. confirmed \in Nat /\ cursor \in Nat /\ sent \in Nat
    BY <1>0, SearchAssumption DEF TypedRest
  <2>8. CursorOK'
    BY <1>0, <1>1, <2>6, <2>7 DEF CursorOK, UpdatesIn
  <2>9. TodoOK'
    BY <2>6 DEF TodoOK
  <2> QED BY <2>3, <2>5, <2>8, <2>9 DEF SearchInv
<1>4. CASE SearchSucceeds
  <2>1. PICK good \in SUBSET cycle.batch : Save(cycle.batch, good)
    BY <1>4 DEF SearchSucceeds
  <2>2. HistoryOK' /\ ready' \subseteq known /\ fresh' \subseteq known
    BY <1>0, <2>1, SaveKeeps DEF TypedRest
  <2> DEFINE found == {w \in StillWanted \cap ready' : last'[w] = "searched"}
  <2>3. found \subseteq known /\ found \in SUBSET Intent
    BY <1>0 DEF StillWanted, TypedRest
  <2>4. cycle' = [cycle EXCEPT !.pc = "enqueue", !.todo = found, !.batch = {}] /\ paused' = paused
    BY <1>4 DEF SearchSucceeds
  <2> HIDE DEF found
  <2>5. /\ cycle' \in CycleRec /\ cycle'.pc = "enqueue" /\ cycle'.todo = found
        /\ cycle'.offset = cycle.offset /\ cycle'.clean = cycle.clean
        /\ cycle'.events = cycle.events
    BY <1>1, <2>3, <2>4 DEF CycleRec
  <2>6. TypedRest'
    BY <1>0, <1>1, <2>2, <2>4, <2>5 DEF TypedRest
  <2>7. CursorOK'
    BY <1>0, <1>1, <2>5 DEF CursorOK, UpdatesIn
  <2>8. TodoOK'
    BY <1>1, <2>3, <2>5 DEF TodoOK
  <2> QED BY <2>2, <2>6, <2>7, <2>8 DEF SearchInv
<1> QED BY <1>3, <1>4

\* The pages' searches, which store no cursor.
LEMMA WebStep ==
  ASSUME SearchInv, Web
  PROVE  SearchInv'
<1> USE DEF sources, marks, At
<1>0. HistoryOK /\ TypedRest /\ CursorOK /\ TodoOK
  BY DEF SearchInv
<1>1. Posted \in Seq(Intent) /\ Len(Posted) \in Nat /\ Listed \subseteq Intent
  BY SearchAssumption
<1>2. /\ \A i \in 1..Len(Posted) : Posted[i] \in Intent
      /\ sent \in 0..Len(Posted) /\ confirmed \in 0..Len(Posted) /\ cursor \in 0..Len(Posted)
      /\ sent \in Nat /\ confirmed \in Nat /\ cursor \in Nat /\ known \subseteq Intent
  BY <1>0, <1>1 DEF TypedRest
<1>3. CASE WebSkips
  <2>1. PICK some \in ((SUBSET StillWanted) \cup {{w} : w \in known}) \ {{}} :
               Record(some, Descending(some), "skipped", TRUE)
    BY <1>3 DEF WebSkips
  <2>2. some \in SUBSET Intent
    BY <1>2, <2>1 DEF StillWanted
  <2>3. HistoryOK'
    <3>1. /\ last' = [w \in Intent |-> IF w \in some THEN "skipped" ELSE last[w]]
          /\ older' = {pair \in older : pair[1] \notin some /\ pair[2] \notin some}
                        \cup ((Tried \ some) \X some)
                        \cup Descending(some)
          /\ waits' = waits \cup some
      BY <2>1 DEF Record, Later
    <3> QED BY <1>0, <2>2, <3>1, DescendingInOrder, Records DEF Status
  <2>4. UNCHANGED <<known, taken, ready, fresh, paused, sources, marks, cycle, web>>
    BY <1>3 DEF WebSkips, wantList
  <2>5. TypedRest' /\ TodoOK'
    BY <1>0, <2>4 DEF TypedRest, TodoOK
  <2>6. CursorOK'
    BY <1>0, <2>4 DEF CursorOK, UpdatesIn
  <2> QED BY <2>3, <2>5, <2>6 DEF SearchInv
<1>4. CASE WebBegins
  <2>1. /\ UNCHANGED <<known, taken, ready, last, older, waits, fresh, paused, sources, marks, cycle>>
        /\ web' \in {"idle", "sync", "search"}
    BY <1>4 DEF WebBegins, wantList, history
  <2>2. HistoryOK'
    BY <1>0, <2>1, HistoryKept
  <2>3. TypedRest' /\ TodoOK'
    BY <1>0, <2>1 DEF TypedRest, TodoOK
  <2>4. CursorOK'
    BY <1>0, <2>1 DEF CursorOK, UpdatesIn
  <2> QED BY <2>2, <2>3, <2>4 DEF SearchInv
<1>5. CASE WebSync
  <2>1. UNCHANGED <<taken, ready, last, older, waits, fresh, paused, sent, cursor, marks, cycle>>
    BY <1>5 DEF WebSync, history
  <2>2. HistoryOK'
    BY <1>0, <2>1, HistoryKept
  <2>3. /\ known \subseteq known' /\ known' \subseteq Intent
        /\ confirmed' \in {confirmed, cursor} /\ confirmed' <= cursor
        /\ web' \in {"idle", "sync", "search"}
    <3>1. CASE UNCHANGED <<known, confirmed>> /\ web' = "idle"
      BY <1>0, <1>2, <3>1 DEF CursorOK
    <3>2. CASE \E read \in SUBSET Listed :
                 /\ known' = known \cup Polled \cup read
                 /\ confirmed' = IF confirmed > Drops THEN confirmed ELSE Drops
                 /\ web' \in {"idle", "search"}
      <4>1. Polled \subseteq Intent
        BY <1>2 DEF Polled
      <4> QED BY <1>0, <1>1, <1>2, <3>2, <4>1 DEF Drops, CursorOK
    <3> QED BY <1>5, <3>1, <3>2 DEF WebSync
  <2>4. TypedRest' /\ TodoOK'
    BY <1>0, <2>1, <2>3 DEF TypedRest, TodoOK
  <2>5. CursorOK'
    BY <1>0, <2>1, <2>3 DEF CursorOK, UpdatesIn
  <2> QED BY <2>2, <2>4, <2>5 DEF SearchInv
<1>6. CASE WebSearch
  <2>1. PICK some \in (SUBSET known) \ {{}} :
          \/ \E good \in SUBSET some : Save(some, good)
          \/ Abort(some, Descending(some))
    BY <1>6 DEF WebSearch
  <2>2. some \in SUBSET Intent
    BY <1>2, <2>1
  <2>3. HistoryOK' /\ ready' \subseteq known /\ fresh' \subseteq known
    BY <1>0, <2>1, <2>2, SaveKeeps, AbortKeeps DEF TypedRest
  <2>4. UNCHANGED <<known, taken, paused, sources, marks, cycle>> /\ web' = "idle"
    BY <1>6 DEF WebSearch
  <2>5. TypedRest' /\ TodoOK'
    BY <1>0, <2>3, <2>4 DEF TypedRest, TodoOK
  <2>6. CursorOK'
    BY <1>0, <2>4 DEF CursorOK, UpdatesIn
  <2> QED BY <2>3, <2>5, <2>6 DEF SearchInv
<1> QED BY <1>3, <1>4, <1>5, <1>6 DEF Web

LEMMA OutsideStep ==
  ASSUME SearchInv, Outside \/ UNCHANGED vars
  PROVE  SearchInv'
<1> USE DEF wantList, history, sources, marks
<1>0. HistoryOK /\ TypedRest /\ CursorOK /\ TodoOK
  BY DEF SearchInv
<1>1. Len(Posted) \in Nat
  BY SearchAssumption
<1>2. last' = last /\ older' = older /\ waits' \subseteq waits
  BY DEF Outside, DailyHour, PauseEnds, Post, WaitEnds, vars
<1>3. /\ UNCHANGED <<known, taken, ready, confirmed, cursor, cycle, web>>
      /\ fresh' \subseteq fresh /\ sent' \in {sent, sent + 1}
      /\ sent' = sent + 1 => sent < Len(Posted)
      /\ paused' \in {paused, FALSE}
      /\ refreshed' \in {refreshed, FALSE} /\ searched' \in {searched, FALSE}
  <2>1. sent \in Nat /\ sent # sent + 1
    BY <1>0, <1>1 DEF TypedRest
  <2>2. CASE DailyHour
    BY <2>1, <2>2 DEF DailyHour
  <2>3. CASE PauseEnds
    BY <2>1, <2>3 DEF PauseEnds
  <2>4. CASE Post
    BY <2>1, <2>4 DEF Post
  <2>5. CASE \E w \in Intent : WaitEnds(w)
    BY <2>1, <2>5 DEF WaitEnds
  <2>6. CASE UNCHANGED vars
    BY <2>1, <2>6 DEF vars
  <2> QED BY <2>2, <2>3, <2>4, <2>5, <2>6 DEF Outside
<1>4. HistoryOK'
  BY <1>0, <1>2, HistoryKept
<1>5. sent \in Nat /\ sent <= sent' /\ {sent, confirmed, cursor}' \subseteq 0..Len(Posted)
  BY <1>0, <1>1, <1>3 DEF TypedRest
<1>6. TypedRest'
  BY <1>0, <1>3, <1>5 DEF TypedRest
<1>7. TodoOK'
  BY <1>0, <1>3 DEF TodoOK
<1>8. CursorOK'
  <2>1. cursor \in Nat /\ cycle.offset \in Nat
    BY <1>0, <1>1 DEF TypedRest, CycleRec
  <2> QED BY <1>0, <1>3, <1>5, <2>1 DEF CursorOK, UpdatesIn, At
<1> QED BY <1>4, <1>6, <1>7, <1>8 DEF SearchInv

-----------------------------------------------------------------------------
(* The searches: the theorems. *)

\* The inductive invariant of the scheduled searches: the history rows, the cursor, and
\* what the cycle and the pages have in hand, for any wants, updates and batch.
THEOREM SearchInvariant == Spec => []SearchInv
<1>1. SearchInv /\ [Next]_vars => SearchInv'
  BY CycleStep, SearchStep, WebStep, OutsideStep DEF Next, Scheduled
<1> QED BY <1>1, InitSearch, PTL DEF Spec

\* What Telegram has dropped is on the Want List, and the history rows fit together,
\* whatever fails and whoever polls.
THEOREM WantsAreKeptHolds == Spec => []WantsAreKept
<1>1. SearchInv => WantsAreKept
  <2> SUFFICES ASSUME SearchInv PROVE WantsAreKept
    OBVIOUS
  <2>1. WantSearchTypeOK
    BY DEF SearchInv, HistoryOK, TypedRest, WantSearchTypeOK
  <2>2. MessagesKept
    <3>1. Len(Posted) \in Nat
      BY SearchAssumption
    <3>2. confirmed \in Nat /\ cursor \in Nat
      BY <3>1 DEF SearchInv, TypedRest
    <3> QED BY <3>2 DEF SearchInv, CursorOK, UpdatesIn, MessagesKept
  <2> QED BY <2>1, <2>2 DEF WantsAreKept
<1> QED BY <1>1, SearchInvariant, PTL

==============================================================================
