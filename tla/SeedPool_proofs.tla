--------------------------- MODULE SeedPool_proofs ---------------------------
(***************************************************************************)
(* Theorems about the seed pool, for any finite set of torrents, any       *)
(* sizes and limits, and any number of people, commands and faults.        *)
(***************************************************************************)
EXTENDS SeedPool, FiniteSums

-----------------------------------------------------------------------------
(* The types.                                                              *)

Torrent == [cat : Policy \cup {"other"}, kind : Kind, shown : BOOLEAN]
RowRec  == [state : {"none", "scored", "enqueued", "live", "deleted"},
            linked : BOOLEAN, old : BOOLEAN]
Cursor  == [h : Hash, need : BOOLEAN, class : {"evict", "delete", "keep"}, kind : Kind]
PruneRec == [force : BOOLEAN, want : Nat, pol : {1, 2}, base : Nat, size : Nat, got : Nat,
             n : Nat, todo : SUBSET Hash, cut : SUBSET Hash, broke : BOOLEAN,
             cur : Cursor \cup {<<>>}]
Lists   == UNION {[S -> Torrent] : S \in SUBSET Hash}
JobRec  == [pc : {"idle", "find", "list", "watch", "prunelist"} \cup Looking,
            mode : {"none", "run", "enqueue", "prune", "guard"},
            list : Lists, acc : SUBSET Cand, plan : Seq(Cand), sent : SUBSET Cand,
            tied : SUBSET Cand, pruned : BOOLEAN, out : SUBSET Cand, pr : PruneRec]

\* The torrent in hand is one of the listing.
InHand(j) == j.pc \in {"recheck", "delete"} => j.pr.cur \in Cursor /\ j.pr.cur.h \in j.pr.todo

Typed ==
  /\ live \in Lists /\ rows \in [Cand -> RowRec]
  /\ job \in [Proc -> JobRec] /\ turn \in {"run", "guard"}
  /\ foreign \in [Proc -> Nat] /\ gone \in [Proc -> Nat]
  /\ removed \subseteq Cand /\ evicted \subseteq Cand
  /\ \A p \in Proc : InHand(job[p])

-----------------------------------------------------------------------------
(* The rows.                                                               *)

\* A row is linked from its enqueue on, and has an age only then.
LinkedOK(r) ==
  /\ r.linked => r.state \in {"enqueued", "live", "deleted"}
  /\ r.state \in {"live", "deleted"} => r.linked
  /\ r.old => r.linked

\* A candidate that was never taken away stays where it was put, is shown once its row
\* is old, and no row calls it deleted.
Here(c) ==
  c \notin removed =>
    /\ c \in DOMAIN live => live[c].cat \in Policy
    /\ rows[c].linked => c \in DOMAIN live
    /\ rows[c].old => live[c].shown
    /\ rows[c].state # "deleted"

RowsOK ==
  /\ \A c \in Cand : LinkedOK(rows[c]) /\ Here(c)
  /\ \A c \in evicted : Active(rows[c])

\* What a process has seen is there or was taken away, and what it deleted was.  The
\* rows grow old only while nobody has a listing in hand that is still to be reconciled.
Accounted(j) ==
  /\ (DOMAIN j.list \cup j.tied) \cap Cand \subseteq DOMAIN live \cup removed
  /\ j.pr.cut \cap Cand \subseteq removed
  /\ j.pc \in {"sync", "prunesync", "final"} =>
       \A c \in Cand \ removed : rows[c].old => c \in DOMAIN j.list

\* A discovery leaves out what was evicted before, and only an add has a plan.
OutOK(j) ==
  /\ j.acc \cap j.out = {} /\ Range(j.plan) \cap j.out = {}
  /\ j.pc = "find" => j.out = {}
  /\ j.pc # "add" => j.plan = <<>>

\* A prune works through one listing, policy by policy.
Sweeping == {"pick", "recheck", "delete", "settle"}
Swept(j) ==
  /\ Pooled(j.list) = DOMAIN j.list
  /\ j.pr.todo \subseteq OfPolicy(j.list, j.pr.pol) \ j.pr.cut
  /\ j.pr.cut \subseteq DOMAIN j.list
  /\ j.pr.pol = 1 => j.pr.cut \subseteq OfPolicy(j.list, 1)
  /\ j.pc \notin Sweeping => /\ j.pr.todo = {} /\ j.pr.cut = {} /\ j.pr.pol = 1
                             /\ j.pr.base = 0 /\ j.pr.size = 0 /\ j.pr.got = 0

RowsInv ==
  /\ Typed /\ RowsOK
  /\ \A p \in Proc : Accounted(job[p]) /\ OutOK(job[p]) /\ Swept(job[p])

-----------------------------------------------------------------------------
(* The bytes.                                                              *)

\* The sums of a prune: what it counts it has deleted, all of it when it is not forced.
SumsOK(j) ==
  /\ j.pr.got <= j.pr.size /\ j.pr.base + j.pr.size <= Bytes(j.pr.cut)
  /\ ~j.pr.force => j.pr.want = 0 /\ j.pr.got = j.pr.size

\* It knows whether bytes are needed now, and evicts only for them.
HandOK(p) ==
  At(p, "recheck") \/ At(p, "delete") =>
    /\ job[p].pr.cur.need <=> Needs(p)
    /\ job[p].pr.cur.class = "evict" => job[p].pr.cur.need

\* What a plan adds fits beside what is there.
RoomOK(p) ==
  /\ IsInjective(job[p].plan)
  /\ At(p, "sync") => Usage(live) <= Usage(job[p].list) + foreign[p]
  /\ At(p, "add") => Usage(live) + Bytes(Range(job[p].plan)) <= Cap + foreign[p]

\* While a prune that is not forced needs bytes, nothing left the pool but what it
\* counted, and what others took.
StillOver(p) ==
  \/ At(p, "prunesync")
  \/ (At(p, "pick") \/ At(p, "recheck") \/ At(p, "delete")) /\ ~job[p].pr.force /\ Needs(p)
  => LET pr == job[p].pr
     IN  Usage(job[p].list) <= Usage(live) + gone[p] + pr.base + pr.got

\* As long as nobody adds, the pool holds what was listed and is not deleted yet, and a
\* prune of a full pool that needs bytes still has all of it before it.
Ahead(j) == {h \in DOMAIN j.list : j.list[h].cat = Mutable[1] => j.pr.pol = 1 /\ h \in j.pr.todo}
              \cap {h \in DOMAIN j.list : j.list[h].cat = Mutable[2] /\ j.pr.pol = 2 => h \in j.pr.todo}
NobodyAdds(p) ==
  foreign[p] = 0 =>
    /\ At(p, "prunesync") \/ At(p, "pick") \/ At(p, "recheck") \/ At(p, "delete") =>
         /\ Pooled(live) \subseteq DOMAIN job[p].list \ job[p].pr.cut
         /\ \A h \in Pooled(live) : live[h].shown /\ live[h].cat = job[p].list[h].cat
    /\ At(p, "pick") \/ At(p, "recheck") \/ At(p, "delete") =>
         (Over(job[p].list) /\ Needs(p) => Pooled(live) \subseteq Ahead(job[p]))
    /\ At(p, "settle") /\ ~job[p].pr.broke => Usage(live) <= Cap
    /\ At(p, "final") => ~Over(job[p].list)

BytesOK(p) == /\ SumsOK(job[p]) /\ HandOK(p) /\ RoomOK(p)
              /\ StillOver(p) /\ NobodyAdds(p)

PoolInv == RowsInv /\ \A p \in Proc : BytesOK(p)

-----------------------------------------------------------------------------
(* The constants, and sums of bytes.                                       *)

LEMMA Constants ==
  /\ IsFiniteSet(Hash) /\ Size \in [Hash -> Nat] /\ \A h \in Hash : Size[h] > 0
  /\ Cand \subseteq Hash /\ Cap \in Nat /\ MaxLeft \in Nat
BY PoolAssumption DEF Hash

LEMMA Policies ==
  /\ Policy = {"seed", "films"} /\ Len(Mutable) = 2
  /\ Mutable[1] = "seed" /\ Mutable[2] = "films" /\ Mutable[1] # Mutable[2]
  /\ Default \in Policy /\ "other" \notin Policy
BY DEF Policy, Range, Mutable, Default

LEMMA BytesLaws ==
  ASSUME NEW S \in SUBSET Hash
  PROVE  /\ IsFiniteSet(S) /\ Bytes(S) \in Nat /\ Bytes({}) = 0
         /\ \A x \in S : Bytes(S) = Size[x] + Bytes(S \ {x})
         /\ \A T \in SUBSET S : Bytes(T) <= Bytes(S) /\ Bytes(S) = Bytes(T) + Bytes(S \ T)
<1>1. IsFiniteSet(S)
  BY Constants, FS_Subset
<1>2. \A T : Bytes(T) = SumOf(Size, T)
  BY DEF Bytes, SumFunctionOnSet, SumOf
<1>3. SumOf(Size, {}) = 0
  BY <1>1, SumStep, FS_EmptySet
<1>4. SumOf(Size, S) \in Nat
  BY <1>1, Constants, SumNat
<1>5. \A x \in S : SumOf(Size, S) = Size[x] + SumOf(Size, S \ {x})
  BY <1>1, Constants, SumRemove
<1>6. \A T \in SUBSET S : SumOf(Size, T) <= SumOf(Size, S)
  BY <1>1, Constants, SumSubset
<1>7. \A T \in SUBSET S : SumOf(Size, S) = SumOf(Size, T) + SumOf(Size, S \ T)
  BY <1>1, Constants, SumSplit
<1> QED BY <1>1, <1>2, <1>3, <1>4, <1>5, <1>6, <1>7

LEMMA BytesAdd ==
  ASSUME NEW S \in SUBSET Hash, NEW h \in Hash, h \notin S
  PROVE  Bytes(S \cup {h}) = Bytes(S) + Size[h]
<1>1. S \cup {h} \in SUBSET Hash /\ h \in S \cup {h} /\ (S \cup {h}) \ {h} = S
  OBVIOUS
<1>2. Bytes(S \cup {h}) = Size[h] + Bytes(S) /\ Bytes(S) \in Nat /\ Size[h] \in Nat
  BY <1>1, BytesLaws, Constants
<1> QED BY <1>2

-----------------------------------------------------------------------------
(* The downloader's torrents.                                              *)

LEMMA ListsAre ==
  \A l : l \in Lists <=> /\ l = [h \in DOMAIN l |-> l[h]] /\ DOMAIN l \subseteq Hash
                         /\ \A h \in DOMAIN l : l[h] \in Torrent
BY DEF Lists

LEMMA Arriving ==
  ASSUME live \in Lists, NEW h \in Hash, h \notin DOMAIN live, NEW cat \in Policy \cup {"other"},
         NEW shown \in BOOLEAN, Arrives(h, cat, shown)
  PROVE  /\ live' \in Lists /\ DOMAIN live' = DOMAIN live \cup {h}
         /\ live'[h] = New(cat, shown) /\ \A g \in DOMAIN live : live'[g] = live[g]
<1>1. live' = [g \in DOMAIN live \cup {h} |-> IF g = h THEN New(cat, shown) ELSE live[g]]
  BY DEF Arrives
<1>2. New(cat, shown) \in Torrent
  BY DEF New, Torrent, Kind
<1> QED BY <1>1, <1>2, ListsAre

LEMMA Leaving ==
  ASSUME live \in Lists, NEW h, live' = Without(live, h)
  PROVE  /\ live' \in Lists /\ DOMAIN live' = DOMAIN live \ {h}
         /\ \A g \in DOMAIN live' : live'[g] = live[g]
<1>1. live' = [g \in DOMAIN live \ {h} |-> live[g]]
  BY DEF Without, Restrict
<1> QED BY <1>1, ListsAre

LEMMA ListingIs ==
  ASSUME live \in Lists
  PROVE  /\ Listing \in Lists /\ Pooled(Listing) = DOMAIN Listing
         /\ DOMAIN Listing = {h \in Pooled(live) : live[h].shown}
         /\ \A h \in DOMAIN Listing : Listing[h] = live[h]
<1>1. Listing = [h \in {g \in Pooled(live) : live[g].shown} |-> live[h]]
  BY DEF Listing, Restrict
<1>2. {g \in Pooled(live) : live[g].shown} \subseteq DOMAIN live
  BY DEF Pooled
<1>3. /\ DOMAIN Listing = {h \in Pooled(live) : live[h].shown}
      /\ \A h \in DOMAIN Listing : Listing[h] = live[h]
  BY <1>1
<1>4. Listing \in Lists
  BY <1>1, <1>2, <1>3, ListsAre
<1>5. Pooled(Listing) = DOMAIN Listing
  BY <1>3 DEF Pooled
<1> QED BY <1>3, <1>4, <1>5

-----------------------------------------------------------------------------
(* What a write does to a row.                                             *)

States == {"none", "scored", "enqueued", "live", "deleted"}

LEMMA Ranks ==
  /\ Rank("none") = 1 /\ Rank("scored") = 2 /\ Rank("enqueued") = 3
  /\ Rank("live") = 4 /\ Rank("deleted") = 5
<1> DEFINE names == <<"none", "scored", "enqueued", "live", "deleted">>
<1>1. /\ names[1] = "none" /\ names[2] = "scored" /\ names[3] = "enqueued"
      /\ names[4] = "live" /\ names[5] = "deleted"
  OBVIOUS
<1>2. \A n \in 1..5 : n = 1 \/ n = 2 \/ n = 3 \/ n = 4 \/ n = 5
  OBVIOUS
<1>3. \A s : Rank(s) = CHOOSE n \in 1..5 : names[n] = s
  BY DEF Rank
<1> HIDE DEF names
<1>4. \A n \in 1..5 : names[n] = "none" <=> n = 1
  BY <1>1, <1>2
<1>5. \A n \in 1..5 : names[n] = "scored" <=> n = 2
  BY <1>1, <1>2
<1>6. \A n \in 1..5 : names[n] = "enqueued" <=> n = 3
  BY <1>1, <1>2
<1>7. \A n \in 1..5 : names[n] = "live" <=> n = 4
  BY <1>1, <1>2
<1>8. \A n \in 1..5 : names[n] = "deleted" <=> n = 5
  BY <1>1, <1>2
<1> QED BY <1>3, <1>4, <1>5, <1>6, <1>7, <1>8

LEMMA ActiveIs == \A r \in RowRec : Active(r) <=> r.state \in {"enqueued", "live", "deleted"}
BY Ranks DEF Active, RowRec

\* A row as another may follow it: it keeps its link and what makes it active.
Follows(r, new) ==
  /\ new \in RowRec /\ LinkedOK(new)
  /\ Active(r) => Active(new)
  /\ new.old => r.old

LEMMA FollowsSelf == \A r \in RowRec : LinkedOK(r) => Follows(r, r)
BY DEF Follows

LEMMA Upserts ==
  ASSUME NEW r \in RowRec, LinkedOK(r), NEW s \in {"scored", "enqueued", "live", "deleted"},
         NEW linked \in BOOLEAN, s \in {"live", "deleted"} => linked, s = "scored" => ~linked
  PROVE  /\ Follows(r, Upsert(r, s, linked)) /\ ~Upsert(r, s, linked).old
         /\ Upsert(r, s, linked).state \in {r.state, s}
         /\ Upsert(r, s, linked).linked => r.linked \/ linked
<1>1. PICK both \in BOOLEAN : both = (linked \/ r.linked)
  OBVIOUS
<1>2. Upsert(r, s, linked) = IF Rank(r.state) > Rank(s) THEN [r EXCEPT !.old = FALSE]
                             ELSE [state |-> s, linked |-> both, old |-> FALSE]
  BY <1>1 DEF Upsert
<1>3. CASE Rank(r.state) > Rank(s)
  <2> DEFINE new == [r EXCEPT !.old = FALSE]
  <2>1. new \in RowRec /\ new.state = r.state /\ new.linked = r.linked /\ new.old = FALSE
    BY DEF RowRec
  <2> HIDE DEF new
  <2>2. LinkedOK(new) /\ (Active(r) => Active(new))
    BY <2>1 DEF LinkedOK, Active
  <2>3. Upsert(r, s, linked) = new
    BY <1>2, <1>3 DEF new
  <2>4. Follows(r, new) /\ ~new.old /\ new.state \in {r.state, s}
    BY <2>1, <2>2 DEF Follows
  <2> QED BY <2>1, <2>3, <2>4
<1>4. CASE ~(Rank(r.state) > Rank(s))
  <2> DEFINE new == [state |-> s, linked |-> both, old |-> FALSE]
  <2>1. new \in RowRec /\ new.state = s /\ new.linked = both /\ new.old = FALSE
    BY DEF RowRec
  <2> HIDE DEF new
  <2>2. s = "scored" => ~r.linked
    BY <1>4, Ranks DEF LinkedOK, RowRec
  <2>3. LinkedOK(new)
    BY <1>1, <2>1, <2>2 DEF LinkedOK
  <2>4. Active(r) => Active(new)
    BY <1>4, <2>1, Ranks, ActiveIs DEF RowRec
  <2>5. Upsert(r, s, linked) = new
    BY <1>2, <1>4 DEF new
  <2>6. Follows(r, new) /\ ~new.old /\ new.state \in {r.state, s}
    BY <2>1, <2>3, <2>4 DEF Follows
  <2>7. new.linked => r.linked \/ linked
    BY <1>1, <2>1
  <2> QED BY <2>5, <2>6, <2>7
<1> QED BY <1>3, <1>4

LEMMA Reconciles ==
  ASSUME NEW R \in [Cand -> RowRec], NEW l, \A c \in Cand : LinkedOK(R[c])
  PROVE  /\ Reconciled(R, l) \in [Cand -> RowRec]
         /\ \A c \in Cand :
              /\ Follows(R[c], Reconciled(R, l)[c])
              /\ Reconciled(R, l)[c].linked = R[c].linked
              /\ Reconciled(R, l)[c].state # R[c].state =>
                   Reconciled(R, l)[c].state = "deleted" /\ R[c].old /\ c \notin DOMAIN l
<1>1. Reconciled(R, l) = [c \in Cand |-> IF c \in {d \in Cand \ DOMAIN l : Missing(R[d])}
                                         THEN [R[c] EXCEPT !.state = "deleted", !.old = FALSE]
                                         ELSE R[c]]
  BY DEF Reconciled, Fill
<1>2. ASSUME NEW c \in Cand
      PROVE  /\ Follows(R[c], Reconciled(R, l)[c])
             /\ Reconciled(R, l)[c].linked = R[c].linked
             /\ Reconciled(R, l)[c].state # R[c].state =>
                  Reconciled(R, l)[c].state = "deleted" /\ R[c].old /\ c \notin DOMAIN l
  <2> DEFINE new == [R[c] EXCEPT !.state = "deleted", !.old = FALSE]
  <2>1. /\ new \in RowRec /\ new.state = "deleted" /\ new.linked = R[c].linked /\ new.old = FALSE
    BY DEF RowRec
  <2> HIDE DEF new
  <2>2. R[c].linked => LinkedOK(new)
    BY <2>1 DEF LinkedOK
  <2>3. Active(new)
    BY <2>1, ActiveIs
  <2>4. CASE c \in Cand \ DOMAIN l /\ Missing(R[c])
    <3>1. Reconciled(R, l)[c] = new
      BY <1>1, <2>4 DEF new
    <3> QED BY <2>1, <2>2, <2>3, <2>4, <3>1 DEF Follows, Missing
  <2>5. CASE ~(c \in Cand \ DOMAIN l /\ Missing(R[c]))
    <3>1. Reconciled(R, l)[c] = R[c]
      BY <1>1, <2>5
    <3> QED BY <3>1, FollowsSelf
  <2> QED BY <2>4, <2>5
<1>3. Reconciled(R, l) = [c \in Cand |-> Reconciled(R, l)[c]]
  BY <1>1
<1> QED BY <1>2, <1>3 DEF Follows

LEMMA Presenting ==
  ASSUME NEW R \in [Cand -> RowRec], NEW l, \A c \in Cand : LinkedOK(R[c])
  PROVE  /\ Present(R, l) \in [Cand -> RowRec]
         /\ \A c \in Cand :
              /\ Follows(R[c], Present(R, l)[c])
              /\ Present(R, l)[c].linked => R[c].linked \/ c \in DOMAIN l
              /\ Present(R, l)[c].state \in {R[c].state, "live"}
<1>1. Present(R, l) = [c \in Cand |-> IF c \in {d \in Cand \cap DOMAIN l : Presents(R[d])}
                                      THEN [state |-> "live", linked |-> TRUE, old |-> FALSE]
                                      ELSE R[c]]
  BY DEF Present, Fill
<1>2. ASSUME NEW c \in Cand
      PROVE  /\ Follows(R[c], Present(R, l)[c])
             /\ Present(R, l)[c].linked => R[c].linked \/ c \in DOMAIN l
             /\ Present(R, l)[c].state \in {R[c].state, "live"}
  <2> DEFINE new == [state |-> "live", linked |-> TRUE, old |-> FALSE]
  <2>1. /\ new \in RowRec /\ new.state = "live" /\ new.linked /\ ~new.old
    BY DEF RowRec
  <2>2. CASE c \in Cand \cap DOMAIN l /\ Presents(R[c])
    <3>1. Present(R, l)[c] = new
      BY <1>1, <2>2
    <3>2. LinkedOK(new) /\ Active(new)
      BY <2>1, ActiveIs DEF LinkedOK
    <3> QED BY <2>1, <2>2, <3>1, <3>2 DEF Follows
  <2>3. CASE ~(c \in Cand \cap DOMAIN l /\ Presents(R[c]))
    <3>1. Present(R, l)[c] = R[c]
      BY <1>1, <2>3
    <3> QED BY <3>1, FollowsSelf
  <2> QED BY <2>2, <2>3
<1>3. Present(R, l) = [c \in Cand |-> Present(R, l)[c]]
  BY <1>1
<1> QED BY <1>2, <1>3 DEF Follows

LEMMA Syncs ==
  ASSUME NEW R \in [Cand -> RowRec], NEW l, \A c \in Cand : LinkedOK(R[c])
  PROVE  /\ Synced(R, l) \in [Cand -> RowRec]
         /\ \A c \in Cand :
              /\ Follows(R[c], Synced(R, l)[c])
              /\ Synced(R, l)[c].linked => R[c].linked \/ c \in DOMAIN l
              /\ Synced(R, l)[c].state \in {R[c].state, "live", "deleted"}
              /\ Synced(R, l)[c].state = "deleted" =>
                   R[c].state = "deleted" \/ (R[c].old /\ c \notin DOMAIN l)
<1> DEFINE M == Reconciled(R, l)
<1>1. /\ M \in [Cand -> RowRec]
      /\ \A c \in Cand :
           /\ Follows(R[c], M[c]) /\ M[c].linked = R[c].linked
           /\ M[c].state # R[c].state => M[c].state = "deleted" /\ R[c].old /\ c \notin DOMAIN l
  BY Reconciles
<1>2. Synced(R, l) = Present(M, l)
  BY DEF Synced
<1> HIDE DEF M
<1>3. /\ Present(M, l) \in [Cand -> RowRec]
      /\ \A c \in Cand :
           /\ Follows(M[c], Present(M, l)[c])
           /\ Present(M, l)[c].linked => M[c].linked \/ c \in DOMAIN l
           /\ Present(M, l)[c].state \in {M[c].state, "live"}
  BY <1>1, Presenting DEF Follows
<1> QED BY <1>1, <1>2, <1>3 DEF Follows

-----------------------------------------------------------------------------
(* What a step leaves to the others.                                       *)

\* A candidate that was not taken away is still there, as visible as it was.
RemainsHere(c) ==
  c \notin removed' =>
    /\ c \in DOMAIN live => c \in DOMAIN live' /\ (live[c].shown => live'[c].shown)
    /\ c \in DOMAIN live' /\ (c \in DOMAIN live => live[c].cat \in Policy)
         => live'[c].cat \in Policy

\* The pool holds no more than before, in the same categories.
Shrinks ==
  \A h \in Pooled(live') : /\ h \in Pooled(live) /\ live'[h].cat = live[h].cat
                           /\ live[h].shown => live'[h].shown

RowMoves(c) ==
  /\ Follows(rows[c], rows'[c])
  /\ c \notin removed' => /\ rows'[c].linked => c \in DOMAIN live'
                          /\ rows'[c].state # "deleted"

Brings(p, in, out) ==
  /\ in \in Nat /\ out \in Nat
  /\ Usage(live') + out = Usage(live) + in
  /\ in = 0 => Shrinks
  /\ \A q \in Proc \ {p} :
       /\ job'[q] = job[q]
       /\ foreign'[q] = foreign[q] + IF job[q].pc \in Looking THEN in ELSE 0
       /\ gone'[q] = gone[q] + IF job[q].pc \in Looking THEN out ELSE 0

Leaves(p) ==
  /\ Typed' /\ removed \subseteq removed'
  /\ \A c \in Cand : RemainsHere(c) /\ RowMoves(c)
  /\ \A c \in evicted' \ evicted : rows[c].linked
  /\ \E in, out : Brings(p, in, out)

LEMMA RowsLeft ==
  ASSUME Typed, RowsOK, NEW p, Leaves(p)
  PROVE  RowsOK'
<1>1. \A c \in Cand : rows[c] \in RowRec /\ rows'[c] \in RowRec
  BY DEF Leaves, Typed
<1>2. ASSUME NEW c \in Cand PROVE LinkedOK(rows'[c]) /\ Here(c)'
  BY <1>1, <1>2 DEF Leaves, RowMoves, RemainsHere, Follows, RowsOK, Here, LinkedOK
<1>3. ASSUME NEW c \in evicted' PROVE Active(rows'[c])
  <2>1. c \in Cand
    BY DEF Leaves, Typed
  <2>2. Active(rows[c])
    BY <1>1, <2>1, ActiveIs DEF Leaves, RowsOK, LinkedOK
  <2> QED BY <2>1, <2>2 DEF Leaves, RowMoves, Follows
<1> QED BY <1>2, <1>3 DEF RowsOK

LEMMA SeenLeft ==
  ASSUME Typed, RowsOK, NEW p, Leaves(p), NEW j, Accounted(j)
  PROVE  /\ (DOMAIN j.list \cup j.tied) \cap Cand \subseteq DOMAIN live' \cup removed'
         /\ j.pr.cut \cap Cand \subseteq removed'
         /\ j.pc \in {"sync", "prunesync", "final"} =>
              \A c \in Cand \ removed' : rows'[c].old => c \in DOMAIN j.list
BY DEF Leaves, RemainsHere, RowMoves, Follows, Accounted

LEMMA BytesLeft ==
  ASSUME RowsInv, NEW p, NEW in, NEW out, Brings(p, in, out), NEW q \in Proc \ {p}, BytesOK(q),
         live' \in Lists
  PROVE  BytesOK(q)'
<1>1. /\ job'[q] = job[q] /\ in \in Nat /\ out \in Nat
      /\ foreign'[q] = foreign[q] + IF job[q].pc \in Looking THEN in ELSE 0
      /\ gone'[q] = gone[q] + IF job[q].pc \in Looking THEN out ELSE 0
      /\ foreign[q] \in Nat /\ gone[q] \in Nat
  BY DEF Brings, RowsInv, Typed
<1>2. Usage(live') + out = Usage(live) + in /\ (in = 0 => Shrinks)
  BY DEF Brings
<1>3. Usage(live') \in Nat /\ Usage(live) \in Nat
  BY BytesLaws, ListsAre DEF Usage, Pooled, RowsInv, Typed
<1>4. Needs(q)' = Needs(q) /\ \A pc : At(q, pc)' = At(q, pc)
  BY <1>1 DEF Needs, Target, At
<1>5. SumsOK(job'[q]) /\ HandOK(q)'
  BY <1>1, <1>4 DEF BytesOK, HandOK
<1>6. RoomOK(q)'
  <2>1. Usage(job[q].list) \in Nat /\ Bytes(Range(job[q].plan)) \in Nat /\ Cap \in Nat
    <3>1. job[q] \in JobRec
      BY DEF RowsInv, Typed
    <3>2. job[q].list \in Lists /\ job[q].plan \in Seq(Cand)
      BY <3>1 DEF JobRec
    <3>3. Pooled(job[q].list) \in SUBSET Hash /\ Range(job[q].plan) \in SUBSET Hash
      BY <3>2, ListsAre, Constants DEF Pooled, Range
    <3> QED BY <3>3, BytesLaws, Constants DEF Usage
  <2>2. IsInjective(job'[q].plan)
    BY <1>1 DEF BytesOK, RoomOK
  <2>3. job[q].pc = "sync" => Usage(live') <= Usage(job'[q].list) + foreign'[q]
    BY <1>1, <1>2, <1>3, <2>1 DEF BytesOK, RoomOK, At, Looking
  <2>4. job[q].pc = "add" => Usage(live') + Bytes(Range(job'[q].plan)) <= Cap + foreign'[q]
    BY <1>1, <1>2, <1>3, <2>1 DEF BytesOK, RoomOK, At, Looking
  <2> QED BY <1>1, <2>2, <2>3, <2>4 DEF RoomOK, At
<1>7. StillOver(q)'
  <2>1. job[q].pr.base \in Nat /\ job[q].pr.got \in Nat /\ Usage(job[q].list) \in Nat
    <3>1. job[q] \in JobRec
      BY DEF RowsInv, Typed
    <3>2. job[q].list \in Lists /\ job[q].pr \in PruneRec
      BY <3>1 DEF JobRec
    <3>3. Pooled(job[q].list) \in SUBSET Hash
      BY <3>2, ListsAre DEF Pooled
    <3> QED BY <3>2, <3>3, BytesLaws DEF Usage, PruneRec
  <2> QED BY <1>1, <1>2, <1>3, <1>4, <2>1 DEF BytesOK, StillOver, At, Looking
<1>8. NobodyAdds(q)'
  <2> SUFFICES ASSUME foreign'[q] = 0, job[q].pc \in Looking PROVE NobodyAdds(q)'
    BY <1>1 DEF NobodyAdds, At, Looking
  <2>1. foreign[q] = 0 /\ in = 0 /\ Shrinks
    BY <1>1, <1>2
  <2>2. Usage(live') <= Usage(live)
    BY <1>1, <1>2, <1>3, <2>1
  <2>3. Pooled(live') \subseteq Pooled(live) /\ Cap \in Nat
    BY <2>1, Constants DEF Shrinks
  <2>4. job[q].pc \in {"prunesync", "pick", "recheck", "delete"} =>
          /\ Pooled(live') \subseteq DOMAIN job[q].list \ job[q].pr.cut
          /\ \A h \in Pooled(live') : live'[h].shown /\ live'[h].cat = job[q].list[h].cat
    BY <2>1, <2>3 DEF BytesOK, NobodyAdds, At, Shrinks
  <2>5. job[q].pc \in {"pick", "recheck", "delete"} =>
          (Over(job[q].list) /\ Needs(q) => Pooled(live') \subseteq Ahead(job[q]))
    BY <2>1, <2>3 DEF BytesOK, NobodyAdds, At
  <2>6. job[q].pc = "settle" /\ ~job[q].pr.broke => Usage(live') <= Cap
    BY <1>3, <2>1, <2>2, <2>3 DEF BytesOK, NobodyAdds, At
  <2>7. job[q].pc = "final" => ~Over(job[q].list)
    BY <2>1 DEF BytesOK, NobodyAdds, At
  <2> QED BY <1>1, <1>4, <2>4, <2>5, <2>6, <2>7 DEF NobodyAdds, At
<1> QED BY <1>5, <1>6, <1>7, <1>8 DEF BytesOK

\* What holds of a process by itself.
Own(p) == Accounted(job[p]) /\ OutOK(job[p]) /\ Swept(job[p]) /\ BytesOK(p)

LEMMA Together ==
  ASSUME PoolInv, NEW p, Leaves(p), p \in Proc => Own(p)'
  PROVE  PoolInv'
<1>1. Typed /\ RowsOK /\ RowsInv
  BY DEF PoolInv, RowsInv
<1>2. RowsOK' /\ Typed'
  BY <1>1, RowsLeft DEF Leaves
<1>3. ASSUME NEW q \in Proc \ {p}
      PROVE  Accounted(job[q])' /\ OutOK(job'[q]) /\ Swept(job'[q]) /\ BytesOK(q)'
  <2>1. job'[q] = job[q] /\ Accounted(job[q]) /\ OutOK(job[q]) /\ Swept(job[q]) /\ BytesOK(q)
    BY DEF Leaves, Brings, PoolInv, RowsInv
  <2>2. Accounted(job[q])'
    BY <1>1, <2>1, SeenLeft DEF Accounted
  <2>3. PICK in, out : Brings(p, in, out)
    BY DEF Leaves
  <2>4. BytesOK(q)'
    BY <1>1, <1>2, <2>1, <2>3, BytesLeft DEF Typed
  <2> QED BY <2>1, <2>2, <2>4
<1>4. ASSUME NEW q \in Proc
      PROVE  Accounted(job[q])' /\ OutOK(job'[q]) /\ Swept(job'[q]) /\ BytesOK(q)'
  BY <1>3 DEF Own
<1> QED BY <1>2, <1>4 DEF PoolInv, RowsInv

LEMMA Stands ==
  ASSUME UNCHANGED live, Typed
  PROVE  /\ Usage(live') = Usage(live) /\ Usage(live) \in Nat /\ Shrinks
         /\ Pooled(live) \in SUBSET Hash
         /\ \A c \in Cand : RemainsHere(c)
<1>1. Pooled(live) \in SUBSET Hash
  BY ListsAre DEF Typed, Pooled
<1>2. Usage(live) \in Nat
  BY <1>1, BytesLaws DEF Usage
<1> QED BY <1>1, <1>2 DEF Shrinks, RemainsHere, Pooled

\* A step of a process that does not touch the downloader.
Quiet(p) ==
  /\ UNCHANGED <<live, removed, evicted>>
  /\ \A q \in Proc \ {p} : job'[q] = job[q] /\ foreign'[q] = foreign[q] /\ gone'[q] = gone[q]

LEMMA QuietLeaves ==
  ASSUME Typed, NEW p, Quiet(p), Typed', \A c \in Cand : RowMoves(c)
  PROVE  Leaves(p)
<1>1. Brings(p, 0, 0)
  BY Stands DEF Brings, Quiet, Typed
<1>2. \A c \in Cand : RemainsHere(c)
  BY Stands DEF Quiet
<1> QED BY <1>1, <1>2 DEF Leaves, Quiet

LEMMA SameRows ==
  ASSUME Typed, RowsOK, UNCHANGED <<rows, live, removed>>
  PROVE  \A c \in Cand : RowMoves(c)
BY FollowsSelf DEF RowMoves, RowsOK, Here, Typed

\* What a process does next, and what stays as it was.
LEMMA Going ==
  ASSUME Typed, NEW p \in Proc, NEW j \in JobRec, Goes(p, j)
  PROVE  /\ job' \in [Proc -> JobRec] /\ job'[p] = j
         /\ \A q \in Proc \ {p} : job'[q] = job[q]
BY DEF Goes, Typed

LEMMA GoesTyped ==
  ASSUME Typed, NEW p \in Proc, NEW j \in JobRec, Goes(p, j), InHand(j),
         live' \in Lists, rows' \in [Cand -> RowRec], turn' \in {"run", "guard"},
         foreign' \in [Proc -> Nat], gone' \in [Proc -> Nat],
         removed' \subseteq Cand, evicted' \subseteq Cand
  PROVE  Typed'
<1>1. /\ job' \in [Proc -> JobRec] /\ job'[p] = j
      /\ \A q \in Proc \ {p} : job'[q] = job[q]
  BY Going
<1>2. \A q \in Proc : InHand(job'[q])
  BY <1>1 DEF Typed
<1> QED BY <1>1, <1>2 DEF Typed

\* The whole of a step that changes no row.
LEMMA QuietStep ==
  ASSUME PoolInv, NEW p \in Proc, NEW j \in JobRec, Goes(p, j), InHand(j),
         UNCHANGED <<live, rows, removed, evicted>>, turn' \in {"run", "guard"},
         foreign' \in [Proc -> Nat], gone' \in [Proc -> Nat],
         \A q \in Proc \ {p} : foreign'[q] = foreign[q] /\ gone'[q] = gone[q],
         Own(p)'
  PROVE  PoolInv'
<1>1. Typed /\ RowsOK
  BY DEF PoolInv, RowsInv
<1>2. Typed'
  BY <1>1, GoesTyped DEF Typed
<1>3. Quiet(p)
  BY <1>1, Going DEF Quiet
<1>4. Leaves(p)
  BY <1>1, <1>2, <1>3, SameRows, QuietLeaves
<1> QED BY <1>4, Together

-----------------------------------------------------------------------------
(* A process begins and ends.                                              *)

LEMMA NothingListed ==
  /\ <<>> \in Lists /\ DOMAIN <<>> = {} /\ Pooled(<<>>) = {} /\ Range(<<>>) = {}
  /\ Bytes({}) = 0 /\ Usage(<<>>) = 0 /\ IsInjective(<<>>)
<1>1. DOMAIN <<>> = {} /\ <<>> = [h \in {} |-> <<>>[h]]
  OBVIOUS
<1>2. <<>> \in Lists
  BY <1>1, ListsAre
<1>3. Pooled(<<>>) = {} /\ Range(<<>>) = {} /\ IsInjective(<<>>)
  BY <1>1 DEF Pooled, Range, IsInjective
<1>4. Bytes({}) = 0
  BY BytesLaws
<1> QED BY <1>1, <1>2, <1>3, <1>4 DEF Usage

LEMMA NothingPruned ==
  NoPrune \in PruneRec
BY DEF NoPrune, PruneRec

\* A process that has nothing in hand.
Resting(j) ==
  /\ j \in JobRec /\ j.pc \in {"idle", "find", "watch", "prunelist"}
  /\ j.list = <<>> /\ j.acc = {} /\ j.plan = <<>> /\ j.tied = {} /\ j.out = {} /\ j.pr = NoPrune

LEMMA Idles ==
  /\ Resting(Idle)
  /\ \A m \in {"run", "enqueue", "prune", "guard"}, pc \in {"find", "watch", "prunelist"} :
       Resting([Idle EXCEPT !.mode = m, !.pc = pc])
<1>1. <<>> \in Seq(Cand)
  OBVIOUS
<1>2. Idle \in JobRec /\ Idle.pc = "idle"
  BY <1>1, NothingListed, NothingPruned DEF Idle, JobRec
<1>3. /\ Idle.list = <<>> /\ Idle.acc = {} /\ Idle.plan = <<>> /\ Idle.tied = {}
      /\ Idle.out = {} /\ Idle.pr = NoPrune
  BY DEF Idle
<1>4. ASSUME NEW m \in {"run", "enqueue", "prune", "guard"}, NEW pc \in {"find", "watch", "prunelist"}
      PROVE  Resting([Idle EXCEPT !.mode = m, !.pc = pc])
  <2> DEFINE j == [Idle EXCEPT !.mode = m, !.pc = pc]
  <2>1. j \in JobRec
    BY <1>2 DEF JobRec
  <2>2. /\ j.pc = pc /\ j.list = Idle.list /\ j.acc = Idle.acc /\ j.plan = Idle.plan
        /\ j.tied = Idle.tied /\ j.out = Idle.out /\ j.pr = Idle.pr
    BY <1>2 DEF JobRec
  <2> HIDE DEF j
  <2> QED BY <1>3, <2>1, <2>2 DEF Resting, j
<1> QED BY <1>2, <1>3, <1>4 DEF Resting

LEMMA RestingOwn ==
  ASSUME NEW p \in Proc, Resting(job[p])'
  PROVE  Own(p)' /\ InHand(job'[p])
<1>1. /\ job'[p].pc \in {"idle", "find", "watch", "prunelist"} /\ job'[p].list = <<>>
      /\ job'[p].acc = {} /\ job'[p].plan = <<>> /\ job'[p].tied = {} /\ job'[p].out = {}
      /\ job'[p].pr.todo = {} /\ job'[p].pr.cut = {} /\ job'[p].pr.pol = 1
      /\ job'[p].pr.base = 0 /\ job'[p].pr.size = 0 /\ job'[p].pr.got = 0 /\ job'[p].pr.want = 0
  BY DEF Resting, NoPrune
<1>2. Accounted(job[p])' /\ OutOK(job'[p])
  BY <1>1, NothingListed DEF Accounted, OutOK
<1>3. Swept(job'[p]) /\ InHand(job'[p])
  BY <1>1, NothingListed DEF Swept, InHand, Sweeping
<1>4. SumsOK(job'[p]) /\ HandOK(p)' /\ RoomOK(p)'
  BY <1>1, NothingListed DEF SumsOK, HandOK, RoomOK, At
<1>5. StillOver(p)' /\ NobodyAdds(p)'
  BY <1>1 DEF StillOver, NobodyAdds, At
<1> QED BY <1>2, <1>3, <1>4, <1>5 DEF Own, BytesOK

LEMMA Opening ==
  ASSUME PoolInv, NEW p \in Proc, NEW m \in {"run", "enqueue", "prune", "guard"}, Opens(p, m),
         UNCHANGED <<live, rows, foreign, gone, removed, evicted>>, turn' \in {"run", "guard"}
  PROVE  PoolInv'
<1> DEFINE j == [Idle EXCEPT !.mode = m,
                             !.pc = CASE m = "prune" -> "prunelist"
                                      [] m = "guard" -> "watch"
                                      [] OTHER       -> "find"]
<1>1. Resting(j)
  BY Idles
<1>2. Goes(p, j)
  BY DEF Opens
<1> HIDE DEF j
<1>3. j \in JobRec /\ InHand(j) /\ Typed
  BY <1>1 DEF Resting, InHand, PoolInv, RowsInv
<1>4. Own(p)'
  BY <1>1, <1>2, <1>3, Going, RestingOwn
<1> QED BY <1>2, <1>3, <1>4, QuietStep DEF Typed

LEMMA ScheduleStep ==
  ASSUME PoolInv, Schedule
  PROVE  PoolInv'
<1>1. turn \in {"run", "guard"} /\ "scheduler" \in Proc
  BY DEF PoolInv, RowsInv, Typed, Proc
<1> QED BY <1>1, Opening DEF Schedule

LEMMA CommandStep ==
  ASSUME PoolInv, Command
  PROVE  PoolInv'
<1>1. turn \in {"run", "guard"} /\ "operator" \in Proc
  BY DEF PoolInv, RowsInv, Typed, Proc
<1>2. PICK m \in Commands : Opens("operator", m)
  BY DEF Command
<1>3. m \in {"run", "enqueue", "prune", "guard"}
  BY PoolAssumption
<1> QED BY <1>1, <1>2, <1>3, Opening DEF Command

LEMMA Ending ==
  ASSUME PoolInv, NEW p \in Proc, Ends(p)
  PROVE  /\ Goes(p, Idle) /\ Idle \in JobRec /\ InHand(Idle) /\ Own(p)'
         /\ foreign' \in [Proc -> Nat] /\ gone' \in [Proc -> Nat]
         /\ \A q \in Proc \ {p} : foreign'[q] = foreign[q] /\ gone'[q] = gone[q]
<1>1. Typed /\ Goes(p, Idle) /\ Resting(Idle)
  BY Idles DEF Ends, PoolInv, RowsInv
<1>2. Idle \in JobRec /\ InHand(Idle)
  BY <1>1 DEF Resting, InHand
<1>3. Own(p)'
  BY <1>1, <1>2, Going, RestingOwn
<1> QED BY <1>1, <1>2, <1>3 DEF Ends, Typed

LEMMA DiesStep ==
  ASSUME PoolInv, NEW p \in Proc, Dies(p)
  PROVE  PoolInv'
<1>1. turn' \in {"run", "guard"}
  BY DEF Dies, PoolInv, RowsInv, Typed
<1> QED BY <1>1, Ending, QuietStep DEF Dies

LEMMA WatchStep ==
  ASSUME PoolInv, NEW p \in Proc, Watch(p)
  PROVE  PoolInv'
<1>1. Typed /\ turn' \in {"run", "guard"}
  BY DEF Watch, PoolInv, RowsInv, Typed
<1>2. CASE Ends(p)
  BY <1>1, <1>2, Ending, QuietStep DEF Watch
<1>3. CASE Goes(p, [job[p] EXCEPT !.pc = "prunelist"]) /\ UNCHANGED <<foreign, gone>>
  <2> DEFINE j == [job[p] EXCEPT !.pc = "prunelist"]
  <2>1. job[p] \in JobRec /\ job[p].pc = "watch" /\ Own(p)
    BY <1>1 DEF Watch, At, PoolInv, RowsInv, Own, Typed
  <2>2. /\ j \in JobRec /\ j.pc = "prunelist" /\ j.list = job[p].list /\ j.acc = job[p].acc
        /\ j.plan = job[p].plan /\ j.tied = job[p].tied /\ j.out = job[p].out
        /\ j.pr = job[p].pr
    BY <2>1 DEF JobRec
  <2> HIDE DEF j
  <2>3. InHand(j) /\ Goes(p, j) /\ job'[p] = j /\ UNCHANGED <<live, rows, removed, evicted>>
    BY <1>1, <1>3, <2>2, Going DEF InHand, Watch, j
  <2>4. Own(p)'
    <3>1. Accounted(job[p])' /\ OutOK(job'[p]) /\ Swept(job'[p])
      BY <2>1, <2>2, <2>3 DEF Own, Accounted, OutOK, Swept, Sweeping
    <3>2. SumsOK(job'[p]) /\ HandOK(p)' /\ RoomOK(p)' /\ StillOver(p)' /\ NobodyAdds(p)'
      BY <2>1, <2>2, <2>3 DEF Own, BytesOK, SumsOK, HandOK, RoomOK, StillOver, NobodyAdds, At
    <3> QED BY <3>1, <3>2 DEF Own, BytesOK
  <2> QED BY <1>1, <1>3, <2>2, <2>3, <2>4, QuietStep DEF Typed
<1> QED BY <1>2, <1>3 DEF Watch

-----------------------------------------------------------------------------
(* A process looks at the pool.                                            *)

\* An old row of a candidate that was never taken away is in every listing.
LEMMA OldListed ==
  ASSUME Typed, RowsOK, NEW c \in Cand \ removed, rows[c].old
  PROVE  c \in DOMAIN Listing
<1>1. c \in DOMAIN live /\ live[c].cat \in Policy /\ live[c].shown
  BY DEF RowsOK, Here, LinkedOK
<1> QED BY <1>1, ListingIs DEF Pooled, Typed

LEMMA LooksAt ==
  ASSUME Typed, RowsOK, NEW p \in Proc, Looks(p)
  PROVE  /\ foreign' \in [Proc -> Nat] /\ gone' \in [Proc -> Nat]
         /\ \A q \in Proc \ {p} : foreign'[q] = foreign[q] /\ gone'[q] = gone[q]
         /\ gone'[p] = 0 /\ Usage(live) = Usage(Listing) + foreign'[p]
         /\ Usage(live) \in Nat /\ Usage(Listing) \in Nat
         /\ foreign'[p] = 0 => Pooled(live) = DOMAIN Listing
         /\ \A c \in Cand \ removed : rows[c].old => c \in DOMAIN Listing
<1> DEFINE hidden == Pooled(live) \ DOMAIN Listing
<1>1. live \in Lists /\ foreign \in [Proc -> Nat] /\ gone \in [Proc -> Nat]
  BY DEF Typed
<1>2. Pooled(live) \in SUBSET Hash /\ Pooled(Listing) = DOMAIN Listing
      /\ DOMAIN Listing \in SUBSET Pooled(live) /\ hidden \in SUBSET Hash
  BY <1>1, ListingIs, ListsAre DEF Pooled
<1>3. Usage(live) = Usage(Listing) + Bytes(hidden) /\ Bytes(hidden) \in Nat
      /\ Usage(live) \in Nat /\ Usage(Listing) \in Nat
  BY <1>2, BytesLaws DEF Usage
<1>4. Bytes(hidden) = 0 => hidden = {}
  <2> SUFFICES ASSUME NEW h \in hidden PROVE Bytes(hidden) # 0
    OBVIOUS
  <2>1. Bytes(hidden) = Size[h] + Bytes(hidden \ {h}) /\ h \in Hash /\ hidden \ {h} \in SUBSET Hash
    BY <1>2, BytesLaws
  <2>2. Size[h] \in Nat /\ Size[h] > 0 /\ Bytes(hidden \ {h}) \in Nat
    BY <2>1, Constants, BytesLaws
  <2> HIDE DEF hidden
  <2> QED BY <2>1, <2>2
<1> HIDE DEF hidden
<1>5. foreign' = [foreign EXCEPT ![p] = Bytes(hidden)] /\ gone' = [gone EXCEPT ![p] = 0]
  <2>1. Usage(live) - Usage(Listing) = Bytes(hidden)
    BY <1>3
  <2> QED BY <2>1 DEF Looks
<1> QED BY <1>1, <1>2, <1>3, <1>4, <1>5, OldListed DEF hidden

LEMMA LookStep ==
  ASSUME PoolInv, NEW p \in Proc, NEW pc \in {"sync", "prunesync"}, Looks(p),
         job[p].pc \in {"list", "prunelist"}, Goes(p, [job[p] EXCEPT !.pc = pc, !.list = Listing]),
         UNCHANGED <<live, rows, turn, removed, evicted>>
  PROVE  PoolInv'
<1> DEFINE j == [job[p] EXCEPT !.pc = pc, !.list = Listing]
<1>1. Typed /\ RowsOK /\ job[p] \in JobRec /\ Own(p)
  BY DEF PoolInv, RowsInv, Own, Typed
<1>2. /\ Listing \in Lists /\ Pooled(Listing) = DOMAIN Listing
      /\ DOMAIN Listing = {h \in Pooled(live) : live[h].shown}
      /\ \A h \in DOMAIN Listing : Listing[h] = live[h]
  BY <1>1, ListingIs DEF Typed
<1>3. /\ j \in JobRec /\ j.pc = pc /\ j.list = Listing /\ j.acc = job[p].acc
      /\ j.plan = job[p].plan /\ j.tied = job[p].tied /\ j.out = job[p].out
      /\ j.pr = job[p].pr
  BY <1>1, <1>2 DEF JobRec, Looking
<1> HIDE DEF j
<1>4. InHand(j) /\ job'[p] = j /\ Goes(p, j)
  BY <1>1, <1>3, Going DEF InHand, j
<1>5. /\ foreign' \in [Proc -> Nat] /\ gone' \in [Proc -> Nat]
      /\ \A q \in Proc \ {p} : foreign'[q] = foreign[q] /\ gone'[q] = gone[q]
      /\ gone'[p] = 0 /\ Usage(live) = Usage(Listing) + foreign'[p]
      /\ Usage(live) \in Nat /\ Usage(Listing) \in Nat
      /\ foreign'[p] = 0 => Pooled(live) = DOMAIN Listing
      /\ \A c \in Cand \ removed : rows[c].old => c \in DOMAIN Listing
  BY <1>1, LooksAt
<1>6. Accounted(job[p])'
  <2>1. DOMAIN Listing \subseteq DOMAIN live
    BY <1>2 DEF Pooled
  <2> QED BY <1>1, <1>3, <1>4, <1>5, <2>1 DEF Own, Accounted
<1>7. OutOK(job'[p]) /\ Swept(job'[p])
  BY <1>1, <1>2, <1>3, <1>4 DEF Own, OutOK, Swept, Sweeping
<1>8. SumsOK(job'[p]) /\ HandOK(p)' /\ RoomOK(p)'
  <2>1. foreign'[p] \in Nat
    BY <1>5
  <2> QED BY <1>1, <1>3, <1>4, <1>5, <2>1 DEF Own, BytesOK, SumsOK, HandOK, RoomOK, At
<1>9. StillOver(p)'
  <2>1. job'[p].pr.base = 0 /\ job'[p].pr.got = 0 /\ foreign'[p] \in Nat
    BY <1>1, <1>3, <1>4, <1>5 DEF Own, Swept, Sweeping
  <2> QED BY <1>3, <1>4, <1>5, <2>1 DEF StillOver, At
<1>10. NobodyAdds(p)'
  <2>1. job'[p].pr.cut = {}
    BY <1>1, <1>3, <1>4 DEF Own, Swept, Sweeping
  <2>2. foreign'[p] = 0 => /\ Pooled(live') \subseteq DOMAIN job'[p].list \ job'[p].pr.cut
                           /\ \A h \in Pooled(live') : live'[h].shown /\ live'[h].cat = job'[p].list[h].cat
    BY <1>2, <1>3, <1>4, <1>5, <2>1
  <2> QED BY <1>3, <1>4, <2>2 DEF NobodyAdds, At
<1>11. Own(p)'
  BY <1>6, <1>7, <1>8, <1>9, <1>10 DEF Own, BytesOK
<1> QED BY <1>1, <1>3, <1>4, <1>5, <1>11, QuietStep DEF Typed

LEMMA ListStep ==
  ASSUME PoolInv, NEW p \in Proc, List(p)
  PROVE  PoolInv'
BY LookStep DEF List, At, Sweeping

LEMMA PruneListStep ==
  ASSUME PoolInv, NEW p \in Proc, PruneList(p)
  PROVE  PoolInv'
BY LookStep DEF PruneList, At, Sweeping

-----------------------------------------------------------------------------
(* A process writes rows.                                                  *)

\* The whole of a step that writes rows and leaves the downloader alone.
LEMMA WriteStep ==
  ASSUME PoolInv, NEW p \in Proc, NEW j \in JobRec, Goes(p, j), InHand(j),
         UNCHANGED <<live, removed, evicted>>, turn' \in {"run", "guard"},
         rows' \in [Cand -> RowRec], \A c \in Cand : RowMoves(c),
         foreign' \in [Proc -> Nat], gone' \in [Proc -> Nat],
         \A q \in Proc \ {p} : foreign'[q] = foreign[q] /\ gone'[q] = gone[q],
         Own(p)'
  PROVE  PoolInv'
<1>1. Typed
  BY DEF PoolInv, RowsInv
<1>2. Typed'
  BY <1>1, GoesTyped DEF Typed
<1>3. Quiet(p)
  BY <1>1, Going DEF Quiet
<1>4. Leaves(p)
  BY <1>1, <1>2, <1>3, QuietLeaves
<1> QED BY <1>4, Together

\* The rows that a listing leaves behind say deleted only of what is.
LEMMA SyncMoves ==
  ASSUME Typed, RowsOK, NEW p \in Proc, Accounted(job[p]), job[p].pc \in {"sync", "prunesync", "final"}
  PROVE  /\ Synced(rows, job[p].list) \in [Cand -> RowRec]
         /\ Reconciled(rows, job[p].list) \in [Cand -> RowRec]
         /\ \A c \in Cand :
              /\ Follows(rows[c], Synced(rows, job[p].list)[c])
              /\ c \notin removed => /\ Synced(rows, job[p].list)[c].linked => c \in DOMAIN live
                                     /\ Synced(rows, job[p].list)[c].state # "deleted"
         /\ \A c \in Cand :
              /\ Follows(rows[c], Reconciled(rows, job[p].list)[c])
              /\ c \notin removed => /\ Reconciled(rows, job[p].list)[c].linked => c \in DOMAIN live
                                     /\ Reconciled(rows, job[p].list)[c].state # "deleted"
<1>1. rows \in [Cand -> RowRec] /\ \A c \in Cand : LinkedOK(rows[c]) /\ Here(c)
  BY DEF Typed, RowsOK
<1> DEFINE l == job[p].list  S == Synced(rows, l)  R == Reconciled(rows, l)
<1>2. \A c \in Cand \ removed : /\ c \in DOMAIN l => c \in DOMAIN live
                                /\ rows[c].old => c \in DOMAIN l
  BY DEF Accounted
<1>3. /\ S \in [Cand -> RowRec]
      /\ \A c \in Cand :
              /\ Follows(rows[c], S[c])
              /\ S[c].linked => rows[c].linked \/ c \in DOMAIN l
              /\ S[c].state = "deleted" =>
                   rows[c].state = "deleted" \/ (rows[c].old /\ c \notin DOMAIN l)
  BY <1>1, Syncs
<1>4. /\ R \in [Cand -> RowRec]
      /\ \A c \in Cand :
           /\ Follows(rows[c], R[c]) /\ R[c].linked = rows[c].linked
           /\ R[c].state # rows[c].state => R[c].state = "deleted" /\ rows[c].old /\ c \notin DOMAIN l
  BY <1>1, Reconciles
<1> HIDE DEF S, R, l
<1>5. \A c \in Cand : c \notin removed => /\ S[c].linked => c \in DOMAIN live
                                          /\ S[c].state # "deleted"
  BY <1>1, <1>2, <1>3 DEF Here
<1>6. \A c \in Cand : c \notin removed => /\ R[c].linked => c \in DOMAIN live
                                          /\ R[c].state # "deleted"
  BY <1>1, <1>2, <1>4 DEF Here
<1> QED BY <1>3, <1>4, <1>5, <1>6 DEF S, R, l

LEMMA PruneSyncStep ==
  ASSUME PoolInv, NEW p \in Proc, PruneSync(p)
  PROVE  PoolInv'
<1> DEFINE l == job[p].list
           j == [job[p] EXCEPT !.pc = "pick", !.pr.todo = OfPolicy(l, 1)]
<1>1. Typed /\ RowsOK /\ job[p] \in JobRec /\ Own(p) /\ job[p].pc = "prunesync"
  BY DEF PoolInv, RowsInv, Own, Typed, PruneSync, At
<1>2. l \in Lists /\ job[p].pr \in PruneRec /\ OfPolicy(l, 1) \in SUBSET Hash
  BY <1>1, ListsAre DEF JobRec, OfPolicy
<1>3. /\ j \in JobRec /\ j.pc = "pick" /\ j.list = l /\ j.acc = job[p].acc
      /\ j.plan = job[p].plan /\ j.tied = job[p].tied /\ j.out = job[p].out
      /\ j.pr = [job[p].pr EXCEPT !.todo = OfPolicy(l, 1)]
  BY <1>1, <1>2 DEF JobRec, PruneRec, Looking
<1> HIDE DEF j
<1>4. /\ j.pr.todo = OfPolicy(l, 1) /\ j.pr.cut = job[p].pr.cut /\ j.pr.pol = job[p].pr.pol
      /\ j.pr.base = job[p].pr.base /\ j.pr.size = job[p].pr.size /\ j.pr.got = job[p].pr.got
      /\ j.pr.want = job[p].pr.want /\ j.pr.force = job[p].pr.force
  BY <1>2, <1>3 DEF PruneRec
<1>5. /\ job[p].pr.todo = {} /\ job[p].pr.cut = {} /\ job[p].pr.pol = 1
      /\ job[p].pr.base = 0 /\ job[p].pr.size = 0 /\ job[p].pr.got = 0
  BY <1>1 DEF Own, Swept, Sweeping
<1>6. InHand(j) /\ job'[p] = j /\ Goes(p, j)
  BY <1>1, <1>3, Going DEF InHand, j, PruneSync
<1>7. /\ rows' \in [Cand -> RowRec] /\ \A c \in Cand : RowMoves(c)
      /\ UNCHANGED <<live, turn, foreign, gone, removed, evicted>>
  BY <1>1, SyncMoves DEF PruneSync, Own, RowMoves
<1>8. Accounted(job[p])' /\ OutOK(job'[p])
  BY <1>1, <1>3, <1>4, <1>5, <1>6, <1>7 DEF Own, Accounted, OutOK
<1>9. Swept(job'[p])
  <2>1. Pooled(l) = DOMAIN l
    BY <1>1 DEF Own, Swept
  <2>2. /\ job'[p].list = l /\ job'[p].pr.cut = {} /\ job'[p].pr.pol = 1
        /\ job'[p].pr.todo = OfPolicy(l, 1) /\ job'[p].pc \in Sweeping
    BY <1>3, <1>4, <1>5, <1>6 DEF Sweeping
  <2> HIDE DEF l
  <2> QED BY <2>1, <2>2 DEF Swept
<1>10. SumsOK(job'[p]) /\ HandOK(p)' /\ RoomOK(p)'
  BY <1>1, <1>3, <1>4, <1>6 DEF Own, BytesOK, SumsOK, HandOK, RoomOK, At
<1>11. StillOver(p)'
  BY <1>1, <1>3, <1>4, <1>6, <1>7 DEF Own, BytesOK, StillOver, At
<1>12. NobodyAdds(p)'
  <2>1. DOMAIN l \subseteq Ahead(j)
    BY <1>1, <1>3, <1>4, <1>5 DEF Ahead, OfPolicy
  <2>2. foreign[p] = 0 => /\ Pooled(live) \subseteq DOMAIN l
                          /\ \A h \in Pooled(live) : live[h].shown /\ live[h].cat = l[h].cat
    BY <1>1, <1>5 DEF Own, BytesOK, NobodyAdds, At
  <2>3. /\ job'[p].list = l /\ job'[p].pr.cut = {} /\ job'[p].pc = "pick"
        /\ Pooled(live') = Pooled(live) /\ live' = live /\ foreign' = foreign
    BY <1>3, <1>4, <1>5, <1>6, <1>7
  <2>4. foreign'[p] = 0 => /\ Pooled(live') \subseteq DOMAIN job'[p].list \ job'[p].pr.cut
                           /\ \A h \in Pooled(live') : live'[h].shown /\ live'[h].cat = job'[p].list[h].cat
    BY <2>2, <2>3
  <2>5. foreign'[p] = 0 => Pooled(live') \subseteq Ahead(job'[p])
    BY <1>6, <2>1, <2>2, <2>3
  <2> HIDE DEF l
  <2> QED BY <2>3, <2>4, <2>5 DEF NobodyAdds, At
<1>13. Own(p)'
  BY <1>8, <1>9, <1>10, <1>11, <1>12 DEF Own, BytesOK
<1> QED BY <1>1, <1>3, <1>6, <1>7, <1>13, WriteStep DEF Typed

LEMMA FollowsOn ==
  ASSUME NEW r, NEW s, NEW t, Follows(r, s), Follows(s, t)
  PROVE  Follows(r, t)
BY DEF Follows

LEMMA FindStep ==
  ASSUME PoolInv, NEW p \in Proc, Find(p)
  PROVE  PoolInv'
<1>1. Typed /\ RowsOK /\ job[p] \in JobRec /\ Own(p) /\ job[p].pc = "find"
  BY DEF PoolInv, RowsInv, Own, Typed, Find, At
<1>2. job[p].out = {} /\ job[p].plan = <<>>
  BY <1>1 DEF Own, OutOK
<1>3. PICK found \in SUBSET Cand, accepted \in SUBSET Cand, stale \in SUBSET Cand :
        /\ \A c \in stale : c \notin found /\ rows[c].state = "scored"
        /\ LET R == Fill(Fill(rows, found, LAMBDA r : Upsert(r, "scored", FALSE)),
                         stale, LAMBDA r : NoRow)
           IN  IF job[p].mode = "run"
               THEN /\ rows' = R
                    /\ Goes(p, [job[p] EXCEPT !.pc = "list", !.out = evicted,
                                              !.acc = {c \in accepted : ~Active(R[c])}])
               ELSE /\ stale = {} /\ found = accepted /\ rows' = rows
                    /\ Goes(p, [job[p] EXCEPT !.pc = "list", !.acc = accepted])
  BY DEF Find
<1> DEFINE R == [c \in Cand |-> IF c \in stale THEN NoRow
                                ELSE IF c \in found THEN Upsert(rows[c], "scored", FALSE)
                                ELSE rows[c]]
<1>4. R = Fill(Fill(rows, found, LAMBDA r : Upsert(r, "scored", FALSE)), stale, LAMBDA r : NoRow)
  BY DEF Fill
<1>5. ASSUME NEW c \in Cand
      PROVE  /\ Follows(rows[c], R[c])
             /\ c \notin removed => /\ R[c].linked => c \in DOMAIN live
                                    /\ R[c].state # "deleted"
  <2>1. rows[c] \in RowRec /\ LinkedOK(rows[c]) /\ Here(c)
    BY <1>1 DEF Typed, RowsOK
  <2>2. CASE c \in stale
    <3>1. NoRow \in RowRec /\ LinkedOK(NoRow) /\ ~NoRow.old /\ ~NoRow.linked /\ NoRow.state = "none"
      BY DEF NoRow, RowRec, LinkedOK
    <3>2. ~Active(rows[c])
      BY <1>3, <2>1, <2>2, ActiveIs
    <3> QED BY <2>2, <3>1, <3>2 DEF Follows
  <2>3. CASE c \notin stale /\ c \in found
    <3>1. R[c] = Upsert(rows[c], "scored", FALSE)
      BY <2>3
    <3> HIDE DEF R
    <3>2. /\ Follows(rows[c], R[c]) /\ R[c].state \in {rows[c].state, "scored"}
          /\ R[c].linked => rows[c].linked \/ FALSE
      <4>1. PICK no \in BOOLEAN : no = FALSE
        OBVIOUS
      <4>2. /\ Follows(rows[c], Upsert(rows[c], "scored", no))
            /\ Upsert(rows[c], "scored", no).state \in {rows[c].state, "scored"}
            /\ Upsert(rows[c], "scored", no).linked => rows[c].linked \/ no
        BY <2>1, <4>1, Upserts
      <4> QED BY <3>1, <4>1, <4>2
    <3> QED BY <2>1, <3>2 DEF Here
  <2>4. CASE c \notin stale /\ c \notin found
    <3>1. R[c] = rows[c]
      BY <2>4
    <3> HIDE DEF R
    <3> QED BY <2>1, <3>1, FollowsSelf DEF Here
  <2> QED BY <2>2, <2>3, <2>4
<1>6. R = [c \in Cand |-> R[c]]
  OBVIOUS
<1> HIDE DEF R
<1>7. UNCHANGED <<live, turn, foreign, gone, removed, evicted>>
  BY DEF Find
<1>8. rows' \in [Cand -> RowRec] /\ \A c \in Cand : RowMoves(c)
  <2>1. CASE rows' = rows
    BY <1>1, <1>7, <2>1, SameRows DEF Typed
  <2>2. CASE rows' = R
    BY <1>5, <1>6, <1>7, <2>2 DEF RowMoves, Follows
  <2> QED BY <1>3, <1>4, <2>1, <2>2
<1>9. PICK acc \in SUBSET Cand, out \in SUBSET Cand :
        /\ Goes(p, [job[p] EXCEPT !.pc = "list", !.out = out, !.acc = acc])
        /\ acc \cap out = {}
  <2>1. CASE job[p].mode = "run"
    <3> DEFINE acc == {c \in accepted : ~Active(R[c])}
    <3>1. Goes(p, [job[p] EXCEPT !.pc = "list", !.out = evicted, !.acc = acc])
      BY <1>3, <1>4, <2>1
    <3>2. acc \cap evicted = {}
      BY <1>1, <1>5 DEF RowsOK, Follows, Typed
    <3>3. evicted \in SUBSET Cand /\ acc \in SUBSET Cand
      BY <1>1 DEF Typed
    <3> HIDE DEF acc
    <3> QED BY <3>1, <3>2, <3>3
  <2>2. CASE job[p].mode # "run"
    <3>1. [job[p] EXCEPT !.pc = "list", !.acc = accepted]
            = [job[p] EXCEPT !.pc = "list", !.out = {}, !.acc = accepted]
      BY <1>1, <1>2 DEF JobRec
    <3>2. Goes(p, [job[p] EXCEPT !.pc = "list", !.acc = accepted])
      BY <1>3, <2>2
    <3>3. Goes(p, [job[p] EXCEPT !.pc = "list", !.out = {}, !.acc = accepted])
      BY <3>1, <3>2
    <3>4. accepted \in SUBSET Cand /\ {} \in SUBSET Cand /\ accepted \cap {} = {}
      OBVIOUS
    <3> QED BY <3>3, <3>4
  <2> QED BY <2>1, <2>2
<1> DEFINE j == [job[p] EXCEPT !.pc = "list", !.out = out, !.acc = acc]
<1>10. /\ j \in JobRec /\ j.pc = "list" /\ j.list = job[p].list /\ j.acc = acc /\ j.out = out
       /\ j.plan = job[p].plan /\ j.tied = job[p].tied /\ j.pr = job[p].pr
  BY <1>1 DEF JobRec
<1> HIDE DEF j
<1>11. InHand(j) /\ Goes(p, j) /\ job'[p] = j
  BY <1>1, <1>9, <1>10, Going DEF InHand, j
<1>12. Accounted(job[p])' /\ OutOK(job'[p]) /\ Swept(job'[p])
  BY <1>1, <1>2, <1>7, <1>9, <1>10, <1>11, NothingListed DEF Own, Accounted, OutOK, Swept, Sweeping
<1>13. SumsOK(job'[p]) /\ HandOK(p)' /\ RoomOK(p)' /\ StillOver(p)' /\ NobodyAdds(p)'
  BY <1>1, <1>10, <1>11 DEF Own, BytesOK, SumsOK, HandOK, RoomOK, StillOver, NobodyAdds, At
<1>14. Own(p)'
  BY <1>12, <1>13 DEF Own, BytesOK
<1> QED BY <1>1, <1>7, <1>8, <1>10, <1>11, <1>14, WriteStep DEF Typed

-----------------------------------------------------------------------------
(* A process plans what it adds.                                           *)

LEMMA PlansFit ==
  ASSUME NEW l \in Lists, NEW A \in SUBSET Cand, NEW plan \in Plans(l, A)
  PROVE  /\ plan \in Seq(Cand) /\ IsInjective(plan) /\ Range(plan) \subseteq A
         /\ plan # <<>> => Usage(l) + Bytes(Range(plan)) <= Cap
<1>1. /\ plan \in SetToAllKPermutations(A)
      /\ \A i \in DOMAIN plan : MayJoin(l, SubSeq(plan, 1, i - 1), plan[i])
  BY DEF Plans
<1>2. PICK s \in SUBSET A : plan \in SetToSeqs(s)
  BY <1>1 DEF SetToAllKPermutations
<1>3. /\ plan \in [1..Cardinality(s) -> s]
      /\ \A i, k \in 1..Cardinality(s) : i # k => plan[i] # plan[k]
  BY <1>2 DEF SetToSeqs
<1>4. Cardinality(s) \in Nat
  BY Constants, FS_Subset, FS_CardinalityType
<1>5. /\ plan \in Seq(Cand) /\ Len(plan) = Cardinality(s) /\ DOMAIN plan = 1..Len(plan)
      /\ Len(plan) \in Nat
  BY <1>3, <1>4
<1>6. IsInjective(plan) /\ Range(plan) \subseteq A
  BY <1>3 DEF IsInjective, Range
<1>7. ASSUME plan # <<>> PROVE Usage(l) + Bytes(Range(plan)) <= Cap
  <2> DEFINE n == Len(plan)  front == SubSeq(plan, 1, n - 1)
  <2>1. n \in DOMAIN plan /\ n \in 1..n
    BY <1>5, <1>7
  <2>2. Usage(l) + Bytes(Range(front)) + Size[plan[n]] <= Cap
    BY <1>1, <2>1 DEF MayJoin, Fits
  <2>3. Range(front) = Range(plan) \ {plan[n]}
    <3>1. DOMAIN front = 1..(n - 1) /\ \A i \in 1..(n - 1) : front[i] = plan[i]
      BY <1>5, <2>1
    <3>2. \A i \in DOMAIN plan : i # n => i \in 1..(n - 1)
      BY <1>5, <2>1
    <3>3. \A i \in 1..(n - 1) : i \in DOMAIN plan /\ plan[i] # plan[n]
      BY <1>3, <1>5, <2>1
    <3> HIDE DEF front, n
    <3> QED BY <3>1, <3>2, <3>3 DEF Range
  <2>4. Bytes(Range(plan)) = Size[plan[n]] + Bytes(Range(front))
    <3>1. Range(plan) \in SUBSET Hash /\ plan[n] \in Range(plan)
      BY <1>6, <2>1, Constants DEF Range
    <3> HIDE DEF front, n
    <3> QED BY <2>3, <3>1, BytesLaws
  <2>5. Usage(l) \in Nat /\ Bytes(Range(front)) \in Nat /\ Size[plan[n]] \in Nat /\ Cap \in Nat
    <3>1. Pooled(l) \in SUBSET Hash /\ Range(plan) \in SUBSET Hash /\ plan[n] \in Hash
      BY <1>6, <2>1, ListsAre, Constants DEF Pooled, Range
    <3>2. Range(front) \in SUBSET Hash
      BY <2>3, <3>1
    <3> HIDE DEF front, n
    <3> QED BY <3>1, <3>2, BytesLaws, Constants DEF Usage
  <2> HIDE DEF front, n
  <2> QED BY <2>2, <2>4, <2>5
<1> QED BY <1>5, <1>6, <1>7

LEMMA GreatestOfThree ==
  ASSUME NEW a \in Int, NEW b \in Int, NEW c \in Int
  PROVE  LET m == Max({a, b, c}) IN m \in {a, b, c} /\ m >= a /\ m >= b /\ m >= c
<1> DEFINE S == {a, b, c}
<1>1. \E m \in S : \A y \in S : m >= y
  <2>1. CASE a >= b /\ a >= c
    BY <2>1
  <2>2. CASE b >= a /\ b >= c
    BY <2>2
  <2>3. CASE c >= a /\ c >= b
    BY <2>3
  <2> QED BY <2>1, <2>2, <2>3
<1>2. Max(S) \in S /\ \A y \in S : Max(S) >= y
  <2> HIDE DEF S
  <2> QED BY <1>1 DEF Max
<1> QED BY <1>2

LEMMA WantedIs ==
  ASSUME NEW l \in Lists, NEW A \in SUBSET Cand
  PROVE  Wanted(l, A) \in Nat
<1>1. /\ Pooled(l) \in SUBSET Hash /\ Unfinished(l) \in SUBSET Hash /\ A \in SUBSET Hash
  BY ListsAre, Constants DEF Pooled, Unfinished
<1>2. Usage(l) \in Nat /\ Bytes(Unfinished(l)) \in Nat /\ Bytes(A) \in Nat
  BY <1>1, BytesLaws DEF Usage
<1>3. /\ Usage(l) + Bytes(A) - Cap \in Int /\ Bytes(Unfinished(l)) + Bytes(A) - MaxLeft \in Int
  BY <1>2, Constants
<1> DEFINE a == Usage(l) + Bytes(A) - Cap  b == Bytes(Unfinished(l)) + Bytes(A) - MaxLeft
<1>4. Wanted(l, A) = Max({0, a, b})
  BY DEF Wanted
<1> HIDE DEF a, b
<1>5. Max({0, a, b}) \in {0, a, b} /\ Max({0, a, b}) >= 0
  BY <1>3, GreatestOfThree DEF a, b
<1>6. a \in Int /\ b \in Int
  BY <1>3 DEF a, b
<1> QED BY <1>4, <1>5, <1>6

LEMMA SyncStep ==
  ASSUME PoolInv, NEW p \in Proc, Sync(p)
  PROVE  PoolInv'
<1> DEFINE l == job[p].list  A == job[p].acc \ DOMAIN l  found == job[p].acc \cap DOMAIN l
<1>1. Typed /\ RowsOK /\ job[p] \in JobRec /\ Own(p) /\ job[p].pc = "sync"
  BY DEF PoolInv, RowsInv, Own, Typed, Sync, At
<1>2. /\ l \in Lists /\ A \in SUBSET Cand /\ found \in SUBSET Cand /\ job[p].pr \in PruneRec
      /\ A \subseteq job[p].acc /\ found \subseteq DOMAIN l
  BY <1>1 DEF JobRec
<1>3. UNCHANGED <<live, turn, removed, evicted>> /\ turn' \in {"run", "guard"}
  BY <1>1 DEF Sync, Typed
<1>4. rows' \in [Cand -> RowRec] /\ \A c \in Cand : RowMoves(c)
  <2> DEFINE S == Synced(rows, l)
  <2>1. /\ S \in [Cand -> RowRec]
        /\ \A c \in Cand :
             /\ Follows(rows[c], S[c])
             /\ c \notin removed => (S[c].linked => c \in DOMAIN live) /\ S[c].state # "deleted"
    BY <1>1, SyncMoves DEF Own
  <2> HIDE DEF S
  <2>2. rows' = [c \in Cand |-> IF c \in found THEN Upsert(S[c], "live", TRUE) ELSE S[c]]
    BY DEF Sync, Fill, S
  <2>3. ASSUME NEW c \in Cand PROVE RowMoves(c) /\ rows'[c] \in RowRec
    <3>1. CASE c \in found
      <4>1. rows'[c] = Upsert(S[c], "live", TRUE)
        BY <2>2, <3>1
      <4>2. S[c] \in RowRec /\ LinkedOK(S[c])
        BY <2>1 DEF Follows
      <4>3. Follows(S[c], rows'[c]) /\ rows'[c].state \in {S[c].state, "live"}
        <5>1. PICK yes \in BOOLEAN : yes = TRUE
          OBVIOUS
        <5>2. /\ Follows(S[c], Upsert(S[c], "live", yes))
              /\ Upsert(S[c], "live", yes).state \in {S[c].state, "live"}
          BY <4>2, <5>1, Upserts
        <5> QED BY <4>1, <5>1, <5>2
      <4>4. c \notin removed => c \in DOMAIN live
        BY <1>1, <1>2, <3>1 DEF Own, Accounted
      <4> QED BY <1>3, <2>1, <4>3, <4>4, FollowsOn DEF RowMoves, Follows
    <3>2. CASE c \notin found
      <4>1. rows'[c] = S[c]
        BY <2>2, <3>2
      <4> QED BY <1>3, <2>1, <4>1 DEF RowMoves, Follows
    <3> QED BY <3>1, <3>2
  <2> QED BY <2>2, <2>3
<1> DEFINE again == [job[p] EXCEPT !.pc = "prunelist", !.acc = A, !.list = <<>>,
                       !.pruned = TRUE, !.pr.force = TRUE, !.pr.want = Wanted(l, A)]
           adds(plan) == [job[p] EXCEPT !.pc = "add", !.acc = {}, !.list = <<>>, !.plan = plan]
<1>5. PICK plan \in Plans(l, A) :
        \/ Goes(p, again) /\ UNCHANGED <<foreign, gone>>
        \/ Ends(p)
        \/ plan # <<>> /\ Goes(p, adds(plan)) /\ UNCHANGED <<foreign, gone>>
  BY DEF Sync
<1>6. CASE Ends(p)
  BY <1>3, <1>4, <1>6, Ending, WriteStep
<1>7. CASE Goes(p, again) /\ UNCHANGED <<foreign, gone>>
  <2>1. Wanted(l, A) \in Nat
    BY <1>2, WantedIs
  <2>2. /\ again \in JobRec /\ again.pc = "prunelist" /\ again.list = <<>> /\ again.acc = A
        /\ again.plan = job[p].plan /\ again.tied = job[p].tied /\ again.out = job[p].out
        /\ again.pr = [job[p].pr EXCEPT !.force = TRUE, !.want = Wanted(l, A)]
    BY <1>1, <1>2, <2>1, NothingListed DEF JobRec, PruneRec
  <2> HIDE DEF again
  <2>3. InHand(again) /\ job'[p] = again
    BY <1>1, <1>7, <2>2, Going DEF InHand
  <2>4. /\ again.pr.todo = {} /\ again.pr.cut = {} /\ again.pr.pol = 1
        /\ again.pr.base = 0 /\ again.pr.size = 0 /\ again.pr.got = 0 /\ again.pr.force = TRUE
    BY <1>1, <1>2, <2>2 DEF Own, Swept, Sweeping, PruneRec
  <2> HIDE DEF A, l
  <2>5. Accounted(job[p])'
    BY <1>1, <1>3, <2>2, <2>3, <2>4, NothingListed DEF Own, Accounted
  <2>6. OutOK(job'[p]) /\ Swept(job'[p])
    BY <1>1, <1>2, <2>2, <2>3, <2>4, NothingListed DEF Own, OutOK, Swept, Sweeping
  <2>7. SumsOK(job'[p]) /\ HandOK(p)' /\ RoomOK(p)' /\ StillOver(p)' /\ NobodyAdds(p)'
    <3>1. SumsOK(job'[p])
      BY <2>3, <2>4, NothingListed DEF SumsOK
    <3>2. HandOK(p)' /\ StillOver(p)' /\ NobodyAdds(p)'
      BY <2>2, <2>3 DEF HandOK, StillOver, NobodyAdds, At
    <3>3. RoomOK(p)'
      BY <1>1, <2>2, <2>3 DEF Own, BytesOK, RoomOK, At
    <3> QED BY <3>1, <3>2, <3>3
  <2>8. Own(p)'
    BY <2>5, <2>6, <2>7 DEF Own, BytesOK
  <2> QED BY <1>1, <1>3, <1>4, <1>7, <2>2, <2>3, <2>8, WriteStep DEF Typed
<1>8. CASE plan # <<>> /\ Goes(p, adds(plan)) /\ UNCHANGED <<foreign, gone>>
  <2> DEFINE j == adds(plan)
  <2>1. /\ plan \in Seq(Cand) /\ IsInjective(plan) /\ Range(plan) \subseteq A
        /\ Usage(l) + Bytes(Range(plan)) <= Cap
    BY <1>2, <1>8, PlansFit
  <2>2. /\ j \in JobRec /\ j.pc = "add" /\ j.list = <<>> /\ j.acc = {}
        /\ j.plan = plan /\ j.tied = job[p].tied /\ j.out = job[p].out /\ j.pr = job[p].pr
    BY <1>1, <2>1, NothingListed DEF JobRec, Looking
  <2>3. Goes(p, j)
    BY <1>8
  <2> HIDE DEF j
  <2>4. InHand(j) /\ job'[p] = j
    BY <1>1, <2>2, <2>3, Going DEF InHand
  <2>5. Accounted(job[p])' /\ OutOK(job'[p])
    BY <1>1, <1>2, <1>3, <2>1, <2>2, <2>4, NothingListed DEF Own, Accounted, OutOK
  <2>6. Swept(job'[p])
    BY <1>1, <2>2, <2>4, NothingListed DEF Own, Swept, Sweeping
  <2>7. SumsOK(job'[p]) /\ HandOK(p)' /\ StillOver(p)' /\ NobodyAdds(p)'
    BY <1>1, <2>2, <2>4 DEF Own, BytesOK, SumsOK, HandOK, StillOver, NobodyAdds, At
  <2>8. RoomOK(p)'
    <3>1. Usage(live) <= Usage(l) + foreign[p]
      BY <1>1 DEF Own, BytesOK, RoomOK, At
    <3>2. Usage(live) \in Nat /\ Usage(l) \in Nat /\ Bytes(Range(plan)) \in Nat /\ Cap \in Nat
          /\ foreign[p] \in Nat
      <4>1. Pooled(live) \in SUBSET Hash /\ Pooled(l) \in SUBSET Hash /\ Range(plan) \in SUBSET Hash
        BY <1>1, <1>2, <2>1, ListsAre, Constants DEF Typed, Pooled
      <4>2. foreign[p] \in Nat
        BY <1>1 DEF Typed
      <4> HIDE DEF l
      <4> QED BY <4>1, <4>2, BytesLaws, Constants DEF Usage
    <3>3. Usage(live) + Bytes(Range(plan)) <= Cap + foreign[p]
      BY <2>1, <3>1, <3>2
    <3>4. /\ job'[p].plan = plan /\ job'[p].pc = "add" /\ foreign'[p] = foreign[p] /\ live' = live
      BY <1>3, <1>8, <2>2, <2>4
    <3> QED BY <2>1, <3>3, <3>4 DEF RoomOK, At
  <2>9. Own(p)'
    BY <2>5, <2>6, <2>7, <2>8 DEF Own, BytesOK
  <2> QED BY <1>1, <1>3, <1>4, <1>8, <2>2, <2>3, <2>4, <2>9, WriteStep DEF Typed
<1> QED BY <1>5, <1>6, <1>7, <1>8

LEMMA SaveStep ==
  ASSUME PoolInv, NEW p \in Proc, Save(p)
  PROVE  PoolInv'
<1>1. Typed /\ RowsOK /\ job[p] \in JobRec /\ Own(p)
  BY DEF PoolInv, RowsInv, Own, Typed
<1>2. UNCHANGED <<live, turn, removed, evicted>> /\ turn' \in {"run", "guard"} /\ Ends(p)
  BY <1>1 DEF Save, Typed
<1>3. rows' = [c \in Cand |-> IF c \in job[p].sent
                              THEN Upsert(rows[c], "enqueued", c \in job[p].tied) ELSE rows[c]]
  BY DEF Save
<1>4. ASSUME NEW c \in Cand PROVE RowMoves(c) /\ rows'[c] \in RowRec
  <2>1. rows[c] \in RowRec /\ LinkedOK(rows[c]) /\ Here(c)
    BY <1>1 DEF Typed, RowsOK
  <2>2. CASE c \in job[p].sent
    <3>1. PICK yes \in BOOLEAN, no \in BOOLEAN : yes = TRUE /\ no = FALSE
      OBVIOUS
    <3>2. CASE c \in job[p].tied
      <4>1. rows'[c] = Upsert(rows[c], "enqueued", yes)
        BY <1>3, <2>2, <3>1, <3>2
      <4>2. Follows(rows[c], Upsert(rows[c], "enqueued", yes))
            /\ Upsert(rows[c], "enqueued", yes).state \in {rows[c].state, "enqueued"}
        BY <2>1, Upserts
      <4>3. c \notin removed => c \in DOMAIN live
        BY <1>1, <3>2 DEF Own, Accounted
      <4> QED BY <1>2, <2>1, <4>1, <4>2, <4>3 DEF RowMoves, Follows, Here
    <3>3. CASE c \notin job[p].tied
      <4>1. rows'[c] = Upsert(rows[c], "enqueued", no)
        BY <1>3, <2>2, <3>1, <3>3
      <4>2. Follows(rows[c], Upsert(rows[c], "enqueued", no))
            /\ Upsert(rows[c], "enqueued", no).state \in {rows[c].state, "enqueued"}
            /\ (Upsert(rows[c], "enqueued", no).linked => rows[c].linked \/ no)
        BY <2>1, Upserts
      <4> QED BY <1>2, <2>1, <3>1, <4>1, <4>2 DEF RowMoves, Follows, Here
    <3> QED BY <3>2, <3>3
  <2>3. CASE c \notin job[p].sent
    <3>1. rows'[c] = rows[c]
      BY <1>3, <2>3
    <3> QED BY <1>2, <2>1, <3>1, FollowsSelf DEF RowMoves, Here
  <2> QED BY <2>2, <2>3
<1>5. rows' \in [Cand -> RowRec]
  BY <1>3, <1>4
<1> QED BY <1>2, <1>4, <1>5, Ending, WriteStep

-----------------------------------------------------------------------------
(* A prune writes what it deleted, and looks once more.                    *)

LEMMA SettleStep ==
  ASSUME PoolInv, NEW p \in Proc, Settle(p)
  PROVE  PoolInv'
<1>1. Typed /\ RowsOK /\ job[p] \in JobRec /\ Own(p) /\ job[p].pc = "settle"
  BY DEF PoolInv, RowsInv, Own, Typed, Settle, At
<1>2. UNCHANGED <<live, turn, removed, evicted>> /\ turn' \in {"run", "guard"}
  BY <1>1 DEF Settle, Typed
<1>3. rows' = [c \in Cand |-> IF c \in job[p].pr.cut /\ rows[c].linked
                              THEN Upsert(rows[c], "deleted", TRUE) ELSE rows[c]]
  BY DEF Settle
<1>4. ASSUME NEW c \in Cand PROVE RowMoves(c) /\ rows'[c] \in RowRec
  <2>1. rows[c] \in RowRec /\ LinkedOK(rows[c]) /\ Here(c)
    BY <1>1 DEF Typed, RowsOK
  <2>2. CASE c \in job[p].pr.cut /\ rows[c].linked
    <3>1. rows'[c] = Upsert(rows[c], "deleted", TRUE) /\ c \in removed
      BY <1>1, <1>3, <2>2 DEF Own, Accounted
    <3>2. Follows(rows[c], rows'[c])
      <4>1. PICK yes \in BOOLEAN : yes = TRUE
        OBVIOUS
      <4>2. Follows(rows[c], Upsert(rows[c], "deleted", yes))
        BY <2>1, <4>1, Upserts
      <4> QED BY <3>1, <4>1, <4>2
    <3> QED BY <1>2, <3>1, <3>2 DEF RowMoves, Follows
  <2>3. CASE ~(c \in job[p].pr.cut /\ rows[c].linked)
    <3>1. rows'[c] = rows[c]
      BY <1>3, <2>3
    <3> QED BY <1>2, <2>1, <3>1, FollowsSelf DEF RowMoves, Here
  <2> QED BY <2>2, <2>3
<1>5. rows' \in [Cand -> RowRec]
  BY <1>3, <1>4
<1> DEFINE j == [job[p] EXCEPT !.pc = "final", !.list = Listing, !.pr = NoPrune]
<1>6. CASE Ends(p)
  BY <1>2, <1>4, <1>5, <1>6, Ending, WriteStep
<1>7. CASE ~job[p].pr.broke /\ Goes(p, j) /\ UNCHANGED <<foreign, gone>>
  <2>1. /\ Listing \in Lists /\ Pooled(Listing) = DOMAIN Listing
        /\ DOMAIN Listing = {h \in Pooled(live) : live[h].shown}
    BY <1>1, ListingIs DEF Typed
  <2>2. /\ j \in JobRec /\ j.pc = "final" /\ j.list = Listing /\ j.acc = job[p].acc
        /\ j.plan = job[p].plan /\ j.tied = job[p].tied /\ j.out = job[p].out /\ j.pr = NoPrune
    BY <1>1, <2>1, NothingPruned DEF JobRec, Looking
  <2> HIDE DEF j
  <2>3. InHand(j) /\ job'[p] = j
    BY <1>1, <1>7, <2>2, Going DEF InHand
  <2>4. /\ NoPrune.todo = {} /\ NoPrune.cut = {} /\ NoPrune.pol = 1 /\ NoPrune.base = 0
        /\ NoPrune.size = 0 /\ NoPrune.got = 0 /\ NoPrune.want = 0
    BY DEF NoPrune
  <2>5. Accounted(job[p])'
    <3>1. \A c \in Cand \ removed : rows'[c].old => c \in DOMAIN Listing
      BY <1>1, <1>4, OldListed DEF RowMoves, Follows
    <3>2. DOMAIN Listing \subseteq DOMAIN live
      BY <2>1 DEF Pooled
    <3> QED BY <1>1, <1>2, <2>2, <2>3, <2>4, <3>1, <3>2 DEF Own, Accounted
  <2>6. OutOK(job'[p]) /\ Swept(job'[p])
    BY <1>1, <2>1, <2>2, <2>3, <2>4 DEF Own, OutOK, Swept, Sweeping
  <2>7. SumsOK(job'[p])
    <3>1. /\ job'[p].pr.got = 0 /\ job'[p].pr.size = 0 /\ job'[p].pr.base = 0
          /\ job'[p].pr.cut = {} /\ job'[p].pr.want = 0
      BY <2>2, <2>3, <2>4
    <3> QED BY <3>1, NothingListed DEF SumsOK
  <2>8. HandOK(p)' /\ RoomOK(p)' /\ StillOver(p)'
    BY <1>1, <2>2, <2>3 DEF Own, BytesOK, HandOK, RoomOK, StillOver, At
  <2>9. NobodyAdds(p)'
    <3>1. foreign[p] = 0 => Usage(live) <= Cap
      BY <1>1, <1>7 DEF Own, BytesOK, NobodyAdds, At
    <3>2. Pooled(live) \in SUBSET Hash /\ Pooled(Listing) \in SUBSET Pooled(live)
      BY <1>1, <2>1, ListsAre DEF Typed, Pooled
    <3>3. Usage(Listing) <= Usage(live) /\ Usage(live) \in Nat /\ Usage(Listing) \in Nat /\ Cap \in Nat
      <4>1. Pooled(Listing) \in SUBSET Hash
        BY <3>2
      <4> QED BY <3>2, <4>1, BytesLaws, Constants DEF Usage
    <3>4. foreign[p] = 0 => ~Over(Listing)
      BY <3>1, <3>3 DEF Over
    <3> QED BY <1>7, <2>2, <2>3, <3>4 DEF NobodyAdds, At
  <2>10. Own(p)'
    BY <2>5, <2>6, <2>7, <2>8, <2>9 DEF Own, BytesOK
  <2> QED BY <1>1, <1>2, <1>4, <1>5, <1>7, <2>2, <2>3, <2>10, WriteStep DEF Typed
<1> QED BY <1>6, <1>7 DEF Settle

LEMMA FinalStep ==
  ASSUME PoolInv, NEW p \in Proc, Final(p)
  PROVE  PoolInv'
<1>1. Typed /\ RowsOK /\ job[p] \in JobRec /\ Own(p) /\ job[p].pc = "final"
  BY DEF PoolInv, RowsInv, Own, Typed, Final, At
<1>2. UNCHANGED <<live, turn, removed, evicted>> /\ turn' \in {"run", "guard"}
  BY <1>1 DEF Final, Typed
<1>3. rows' \in [Cand -> RowRec] /\ \A c \in Cand : RowMoves(c)
  BY <1>1, <1>2, SyncMoves DEF Final, Own, RowMoves
<1> DEFINE j == [job[p] EXCEPT !.pc = "list", !.list = <<>>]
<1>4. CASE Ends(p)
  BY <1>2, <1>3, <1>4, Ending, WriteStep
<1>5. CASE Goes(p, j) /\ UNCHANGED <<foreign, gone>>
  <2>1. /\ j \in JobRec /\ j.pc = "list" /\ j.list = <<>> /\ j.acc = job[p].acc
        /\ j.plan = job[p].plan /\ j.tied = job[p].tied /\ j.out = job[p].out
        /\ j.pr = job[p].pr
    BY <1>1, NothingListed DEF JobRec
  <2> HIDE DEF j
  <2>2. InHand(j) /\ job'[p] = j
    BY <1>1, <1>5, <2>1, Going DEF InHand
  <2>3. Accounted(job[p])' /\ OutOK(job'[p])
    BY <1>1, <1>2, <2>1, <2>2, NothingListed DEF Own, Accounted, OutOK
  <2>4. Swept(job'[p])
    BY <1>1, <2>1, <2>2, NothingListed DEF Own, Swept, Sweeping
  <2>5. SumsOK(job'[p]) /\ HandOK(p)' /\ RoomOK(p)' /\ StillOver(p)' /\ NobodyAdds(p)'
    BY <1>1, <2>1, <2>2 DEF Own, BytesOK, SumsOK, HandOK, RoomOK, StillOver, NobodyAdds, At
  <2>6. Own(p)'
    BY <2>3, <2>4, <2>5 DEF Own, BytesOK
  <2> QED BY <1>1, <1>2, <1>3, <1>5, <2>1, <2>2, <2>6, WriteStep DEF Typed
<1> QED BY <1>4, <1>5 DEF Final

-----------------------------------------------------------------------------
(* The pool gains a torrent.                                               *)

LEMMA Counting ==
  ASSUME Typed, NEW p, NEW in \in Nat, NEW out \in Nat, Others(p, in, out)
  PROVE  /\ foreign' \in [Proc -> Nat] /\ gone' \in [Proc -> Nat]
         /\ \A q \in Proc \ {p} :
              /\ foreign'[q] = foreign[q] + IF job[q].pc \in Looking THEN in ELSE 0
              /\ gone'[q] = gone[q] + IF job[q].pc \in Looking THEN out ELSE 0
         /\ p \in Proc => foreign'[p] = foreign[p] /\ gone'[p] = gone[p]
<1>1. foreign \in [Proc -> Nat] /\ gone \in [Proc -> Nat]
  BY DEF Typed
<1>2. /\ foreign' = [q \in Proc |-> foreign[q] + IF q # p /\ job[q].pc \in Looking THEN in ELSE 0]
      /\ gone'    = [q \in Proc |-> gone[q]    + IF q # p /\ job[q].pc \in Looking THEN out ELSE 0]
  BY DEF Others
<1>3. foreign' \in [Proc -> Nat] /\ gone' \in [Proc -> Nat]
  BY <1>1, <1>2
<1>4. \A q \in Proc \ {p} :
        /\ foreign'[q] = foreign[q] + IF job[q].pc \in Looking THEN in ELSE 0
        /\ gone'[q] = gone[q] + IF job[q].pc \in Looking THEN out ELSE 0
  BY <1>2
<1>5. p \in Proc => foreign'[p] = foreign[p] /\ gone'[p] = gone[p]
  BY <1>1, <1>2
<1> QED BY <1>3, <1>4, <1>5

Gained(p, h) ==
  /\ live' \in Lists /\ DOMAIN live' = DOMAIN live \cup {h}
  /\ Usage(live') = Usage(live) + Size[h]
  /\ foreign' \in [Proc -> Nat] /\ gone' \in [Proc -> Nat]
  /\ p \in Proc => foreign'[p] = foreign[p] /\ gone'[p] = gone[p]
  /\ \A c \in Cand : RemainsHere(c)
  /\ Brings(p, Size[h], 0)

LEMMA Gaining ==
  ASSUME PoolInv, NEW p, NEW h \in Hash \ DOMAIN live, NEW cat \in Policy, NEW shown \in BOOLEAN,
         Arrives(h, cat, shown), Others(p, Size[h], 0), UNCHANGED removed,
         \A q \in Proc \ {p} : job'[q] = job[q]
  PROVE  Gained(p, h)
<1>1. Typed /\ live \in Lists
  BY DEF PoolInv, RowsInv, Typed
<1>2. /\ live' \in Lists /\ DOMAIN live' = DOMAIN live \cup {h}
      /\ live'[h] = New(cat, shown) /\ \A g \in DOMAIN live : live'[g] = live[g]
  BY <1>1, Arriving
<1>3. New(cat, shown).cat = cat
  BY DEF New
<1>4. Pooled(live') = Pooled(live) \cup {h} /\ h \notin Pooled(live) /\ Pooled(live) \in SUBSET Hash
  BY <1>1, <1>2, <1>3, ListsAre DEF Pooled
<1>5. /\ Size[h] \in Nat /\ Size[h] # 0 /\ Usage(live) \in Nat
      /\ Usage(live') = Usage(live) + Size[h]
  BY <1>4, Constants, BytesLaws, BytesAdd DEF Usage
<1>6. /\ foreign' \in [Proc -> Nat] /\ gone' \in [Proc -> Nat]
      /\ \A q \in Proc \ {p} :
           /\ foreign'[q] = foreign[q] + IF job[q].pc \in Looking THEN Size[h] ELSE 0
           /\ gone'[q] = gone[q] + IF job[q].pc \in Looking THEN 0 ELSE 0
      /\ p \in Proc => foreign'[p] = foreign[p] /\ gone'[p] = gone[p]
  BY <1>1, <1>5, Counting
<1>7. \A c \in Cand : RemainsHere(c)
  BY <1>2, <1>3 DEF RemainsHere
<1>8. Brings(p, Size[h], 0)
  BY <1>5, <1>6 DEF Brings
<1> QED BY <1>2, <1>5, <1>6, <1>7, <1>8 DEF Gained

LEMMA TailOf ==
  ASSUME NEW plan \in Seq(Cand), plan # <<>>, IsInjective(plan)
  PROVE  /\ Head(plan) \in Range(plan) /\ Head(plan) \in Cand
         /\ Tail(plan) \in Seq(Cand) /\ IsInjective(Tail(plan))
         /\ Range(Tail(plan)) = Range(plan) \ {Head(plan)}
<1> DEFINE rest == Tail(plan)  n == Len(plan)
<1>1. /\ rest \in Seq(Cand) /\ n \in Nat /\ n > 0 /\ Len(rest) = n - 1
      /\ \A i \in 1..(n - 1) : rest[i] = plan[i + 1]
      /\ DOMAIN plan = 1..n /\ DOMAIN rest = 1..(n - 1) /\ Head(plan) = plan[1]
  OBVIOUS
<1>2. Head(plan) \in Range(plan) /\ Head(plan) \in Cand
  BY <1>1 DEF Range
<1> HIDE DEF rest, n
<1>3. \A i, k \in 1..n : plan[i] = plan[k] => i = k
  BY <1>1 DEF IsInjective
<1>4. IsInjective(rest)
  BY <1>1, <1>3 DEF IsInjective
<1>5. ASSUME NEW x \in Range(rest) PROVE x \in Range(plan) \ {Head(plan)}
  <2>1. PICK i \in 1..(n - 1) : x = rest[i]
    BY <1>1 DEF Range
  <2>2. i + 1 \in 1..n /\ 1 \in 1..n /\ i + 1 # 1 /\ x = plan[i + 1]
    BY <1>1, <2>1
  <2> QED BY <1>1, <1>3, <2>2 DEF Range
<1>6. ASSUME NEW x \in Range(plan) \ {Head(plan)} PROVE x \in Range(rest)
  <2>1. PICK i \in 1..n : x = plan[i]
    BY <1>1 DEF Range
  <2>2. i # 1
    BY <1>1, <2>1
  <2>3. i - 1 \in 1..(n - 1) /\ (i - 1) + 1 = i
    BY <1>1, <2>2
  <2>4. x = rest[i - 1]
    BY <1>1, <2>1, <2>3
  <2> QED BY <1>1, <2>3, <2>4 DEF Range
<1> QED BY <1>1, <1>2, <1>4, <1>5, <1>6 DEF rest

\* One add, and what is left of the plan.
LEMMA Adding ==
  ASSUME PoolInv, NEW p \in Proc, job[p].pc = "add", NEW c \in Range(job[p].plan),
         NEW left \in Seq(Cand), IsInjective(left), Range(left) \subseteq Range(job[p].plan) \ {c},
         NEW sent \in SUBSET Cand, NEW tied \in SUBSET {c},
         Goes(p, [job[p] EXCEPT !.plan = left, !.sent = sent, !.tied = @ \cup tied]),
         \/ /\ c \notin DOMAIN live /\ Others(p, Size[c], 0)
            /\ \E shown \in BOOLEAN : Arrives(c, Default, shown)
         \/ UNCHANGED <<live, foreign, gone>> /\ (c \in DOMAIN live \/ tied = {}),
         UNCHANGED <<rows, turn, removed, evicted>>
  PROVE  PoolInv'
<1> DEFINE j == [job[p] EXCEPT !.plan = left, !.sent = sent, !.tied = @ \cup tied]
<1>1. Typed /\ RowsOK /\ job[p] \in JobRec /\ Own(p)
  BY DEF PoolInv, RowsInv, Own, Typed
<1>2. Range(job[p].plan) \subseteq Cand /\ c \in Cand
  BY <1>1 DEF JobRec, Range
<1>3. /\ j \in JobRec /\ j.pc = "add" /\ j.list = job[p].list /\ j.acc = job[p].acc
      /\ j.plan = left /\ j.tied = job[p].tied \cup tied /\ j.out = job[p].out
      /\ j.pr = job[p].pr
  BY <1>1, <1>2 DEF JobRec
<1>4. Goes(p, j)
  OBVIOUS
<1> HIDE DEF j
<1>5. InHand(j) /\ job'[p] = j /\ \A q \in Proc \ {p} : job'[q] = job[q]
  BY <1>1, <1>3, <1>4, Going DEF InHand
<1>6. /\ live' \in Lists /\ DOMAIN live \subseteq DOMAIN live' /\ (tied # {} => c \in DOMAIN live')
      /\ Usage(live') <= Usage(live) + Size[c]
      /\ foreign' \in [Proc -> Nat] /\ gone' \in [Proc -> Nat] /\ foreign'[p] = foreign[p]
      /\ \A d \in Cand : RemainsHere(d)
      /\ \E in, out : Brings(p, in, out)
  <2>1. CASE c \notin DOMAIN live /\ Others(p, Size[c], 0)
             /\ \E shown \in BOOLEAN : Arrives(c, Default, shown)
    <3>1. PICK shown \in BOOLEAN : Arrives(c, Default, shown)
      BY <2>1
    <3>2. /\ live' \in Lists /\ DOMAIN live' = DOMAIN live \cup {c}
          /\ Usage(live') = Usage(live) + Size[c]
          /\ foreign' \in [Proc -> Nat] /\ gone' \in [Proc -> Nat] /\ foreign'[p] = foreign[p]
          /\ \A d \in Cand : RemainsHere(d)
          /\ Brings(p, Size[c], 0)
      <4>1. c \in Hash \ DOMAIN live /\ Default \in Policy /\ UNCHANGED removed
        BY <1>2, <2>1, Policies, Constants
      <4>2. Gained(p, c)
        BY <1>5, <2>1, <3>1, <4>1, Gaining
      <4> QED BY <4>2 DEF Gained
    <3>3. Usage(live) \in Nat /\ Size[c] \in Nat
      <4>1. Pooled(live) \in SUBSET Hash
        BY <1>1, ListsAre DEF Typed, Pooled
      <4> QED BY <1>2, <4>1, BytesLaws, Constants DEF Usage
    <3>4. Usage(live') <= Usage(live) + Size[c]
      BY <3>2, <3>3
    <3> QED BY <3>2, <3>4
  <2>2. CASE UNCHANGED <<live, foreign, gone>> /\ (c \in DOMAIN live \/ tied = {})
    <3>1. /\ Usage(live') = Usage(live) /\ Usage(live) \in Nat /\ Shrinks
          /\ \A d \in Cand : RemainsHere(d)
      BY <1>1, <2>2, Stands
    <3>2. Size[c] \in Nat
      BY <1>2, Constants
    <3>3. foreign \in [Proc -> Nat] /\ gone \in [Proc -> Nat] /\ live \in Lists
      BY <1>1 DEF Typed
    <3>4. Brings(p, 0, 0)
      BY <1>5, <2>2, <3>1, <3>3 DEF Brings
    <3> QED BY <2>2, <3>1, <3>2, <3>3, <3>4
  <2> QED BY <2>1, <2>2
<1>7. Typed'
  <2>1. /\ rows' \in [Cand -> RowRec] /\ turn' \in {"run", "guard"}
        /\ removed' \subseteq Cand /\ evicted' \subseteq Cand
    BY <1>1 DEF Typed
  <2> QED BY <1>1, <1>3, <1>4, <1>5, <1>6, <2>1, GoesTyped
<1>8. Leaves(p)
  <2>1. ASSUME NEW d \in Cand PROVE RowMoves(d)
    <3>1. rows[d] \in RowRec /\ LinkedOK(rows[d]) /\ Here(d)
      BY <1>1 DEF Typed, RowsOK
    <3> QED BY <1>6, <3>1, FollowsSelf DEF RowMoves, Here
  <2> QED BY <1>6, <1>7, <2>1 DEF Leaves
<1>9. Accounted(job[p])' /\ OutOK(job'[p]) /\ Swept(job'[p])
  <2>1. Accounted(job[p])'
    BY <1>1, <1>3, <1>5, <1>6 DEF Own, Accounted
  <2>2. OutOK(job'[p])
    BY <1>1, <1>3, <1>5 DEF Own, OutOK
  <2>3. Swept(job'[p])
    BY <1>1, <1>3, <1>5 DEF Own, Swept, Sweeping
  <2> QED BY <2>1, <2>2, <2>3
<1>10. SumsOK(job'[p]) /\ HandOK(p)' /\ StillOver(p)' /\ NobodyAdds(p)'
  BY <1>1, <1>3, <1>5 DEF Own, BytesOK, SumsOK, HandOK, StillOver, NobodyAdds, At
<1>11. RoomOK(p)'
  <2> DEFINE whole == Range(job[p].plan)
  <2>1. Usage(live) + Bytes(whole) <= Cap + foreign[p]
    BY <1>1 DEF Own, BytesOK, RoomOK, At
  <2>2. whole \in SUBSET Hash /\ Range(left) \in SUBSET (whole \ {c}) /\ whole \ {c} \in SUBSET Hash
        /\ Range(left) \in SUBSET Hash
    BY <1>2, Constants
  <2>3. /\ Bytes(whole) = Size[c] + Bytes(whole \ {c}) /\ Bytes(Range(left)) <= Bytes(whole \ {c})
        /\ Bytes(whole) \in Nat /\ Bytes(whole \ {c}) \in Nat /\ Bytes(Range(left)) \in Nat
        /\ Size[c] \in Nat /\ Cap \in Nat
    BY <1>2, <2>2, BytesLaws, Constants
  <2>4. Usage(live) \in Nat /\ Usage(live') \in Nat /\ foreign[p] \in Nat
    <3>1. Pooled(live) \in SUBSET Hash /\ Pooled(live') \in SUBSET Hash /\ foreign[p] \in Nat
      BY <1>1, <1>6, ListsAre DEF Typed, Pooled
    <3> QED BY <3>1, BytesLaws DEF Usage
  <2> HIDE DEF whole
  <2>5. Usage(live') + Bytes(Range(left)) <= Cap + foreign'[p]
    BY <1>6, <2>1, <2>3, <2>4
  <2> QED BY <1>3, <1>5, <2>5 DEF RoomOK, At
<1>12. Own(p)'
  BY <1>9, <1>10, <1>11 DEF Own, BytesOK
<1> QED BY <1>8, <1>12, Together

LEMMA AddStep ==
  ASSUME PoolInv, NEW p \in Proc, Add(p)
  PROVE  PoolInv'
<1> DEFINE plan == job[p].plan  c == Head(plan)
<1>1. Typed /\ job[p] \in JobRec /\ job[p].pc = "add" /\ plan # <<>> /\ IsInjective(plan)
  BY DEF PoolInv, RowsInv, BytesOK, RoomOK, Typed, Add, At
<1>2. plan \in Seq(Cand) /\ job[p].sent \in SUBSET Cand
  BY <1>1 DEF JobRec
<1>3. /\ c \in Range(plan) /\ c \in Cand /\ Tail(plan) \in Seq(Cand) /\ IsInjective(Tail(plan))
      /\ Range(Tail(plan)) = Range(plan) \ {c}
  BY <1>1, <1>2, TailOf
<1>4. UNCHANGED <<rows, turn, removed, evicted>> /\ (Accepted(p, c) \/ Refused(p, c))
  BY DEF Add
<1>5. CASE Accepted(p, c)
  <2>1. PICK tied \in SUBSET {c} :
          Goes(p, [job[p] EXCEPT !.plan = Tail(@), !.sent = @ \cup {c}, !.tied = @ \cup tied])
    BY <1>5 DEF Accepted
  <2> DEFINE left == Tail(plan)  sent == job[p].sent \cup {c}
  <2>2. Goes(p, [job[p] EXCEPT !.plan = left, !.sent = sent, !.tied = @ \cup tied])
    BY <2>1
  <2>3. sent \in SUBSET Cand /\ left \in Seq(Cand) /\ IsInjective(left)
        /\ Range(left) \subseteq Range(plan) \ {c}
    BY <1>2, <1>3
  <2>4. \/ /\ c \notin DOMAIN live /\ Others(p, Size[c], 0)
           /\ \E shown \in BOOLEAN : Arrives(c, Default, shown)
        \/ UNCHANGED <<live, foreign, gone>> /\ (c \in DOMAIN live \/ tied = {})
    BY <1>5 DEF Accepted
  <2> HIDE DEF left, sent, c
  <2> QED BY <1>1, <1>3, <1>4, <2>2, <2>3, <2>4, Adding
<1>6. CASE Refused(p, c)
  <2> DEFINE left == <<>>  sent == job[p].sent  tied == {}
  <2>1. [job[p] EXCEPT !.plan = <<>>]
          = [job[p] EXCEPT !.plan = left, !.sent = sent, !.tied = @ \cup tied]
    BY <1>1 DEF JobRec
  <2>2. Goes(p, [job[p] EXCEPT !.plan = left, !.sent = sent, !.tied = @ \cup tied])
    BY <1>6, <2>1 DEF Refused
  <2>3. /\ sent \in SUBSET Cand /\ left \in Seq(Cand) /\ IsInjective(left)
        /\ Range(left) \subseteq Range(plan) \ {c} /\ tied \in SUBSET {c}
    BY <1>2, NothingListed
  <2>4. \/ /\ c \notin DOMAIN live /\ Others(p, Size[c], 0)
           /\ \E shown \in BOOLEAN : Arrives(c, Default, shown)
        \/ UNCHANGED <<live, foreign, gone>> /\ (c \in DOMAIN live \/ tied = {})
    BY <1>6 DEF Refused
  <2> HIDE DEF left, sent, c, tied
  <2> QED BY <1>1, <1>3, <1>4, <2>2, <2>3, <2>4, Adding
<1> QED BY <1>4, <1>5, <1>6

-----------------------------------------------------------------------------
(* A prune chooses what it deletes.                                        *)

LEMMA GreatestOfTwo ==
  ASSUME NEW a \in Int, NEW b \in Int
  PROVE  Max({a, b}) \in {a, b} /\ Max({a, b}) >= a /\ Max({a, b}) >= b
<1> DEFINE S == {a, b}
<1>1. \E m \in S : \A y \in S : m >= y
  <2>1. CASE a >= b
    BY <2>1
  <2>2. CASE b >= a
    BY <2>2
  <2> QED BY <2>1, <2>2
<1>2. Max(S) \in S /\ \A y \in S : Max(S) >= y
  <2> HIDE DEF S
  <2> QED BY <1>1 DEF Max
<1> QED BY <1>2

\* The bytes a prune is to reclaim in all, and that it has not counted so many yet.
Demand(j) == Max({j.pr.want, Usage(j.list) - Cap})
Lacks(j)  == (j.pr.force \/ Over(j.list)) /\ j.pr.base + j.pr.got < Demand(j)

LEMMA SumsAre ==
  ASSUME NEW j \in JobRec
  PROVE  /\ j.pr \in PruneRec /\ j.pr.want \in Nat /\ j.pr.base \in Nat /\ j.pr.size \in Nat
         /\ j.pr.got \in Nat /\ j.list \in Lists /\ Usage(j.list) \in Nat /\ Cap \in Nat
         /\ Demand(j) \in Int /\ Demand(j) >= Usage(j.list) - Cap
         /\ Demand(j) \in {j.pr.want, Usage(j.list) - Cap}
         /\ Bytes(j.pr.cut) \in Nat /\ Pooled(j.list) \in SUBSET Hash
<1>1. j.pr \in PruneRec /\ j.list \in Lists
  BY DEF JobRec
<1>2. /\ j.pr.want \in Nat /\ j.pr.base \in Nat /\ j.pr.size \in Nat /\ j.pr.got \in Nat
      /\ j.pr.cut \in SUBSET Hash
  BY <1>1 DEF PruneRec
<1>3. Pooled(j.list) \in SUBSET Hash
  BY <1>1, ListsAre DEF Pooled
<1>4. Usage(j.list) \in Nat /\ Cap \in Nat /\ Bytes(j.pr.cut) \in Nat
  BY <1>2, <1>3, BytesLaws, Constants DEF Usage
<1>5. Usage(j.list) - Cap \in Int /\ j.pr.want \in Int
  BY <1>2, <1>4
<1>6. /\ Demand(j) \in {j.pr.want, Usage(j.list) - Cap} /\ Demand(j) >= Usage(j.list) - Cap
      /\ Demand(j) \in Int
  BY <1>5, GreatestOfTwo DEF Demand
<1> QED BY <1>1, <1>2, <1>3, <1>4, <1>6

LEMMA LacksIs ==
  ASSUME NEW j \in JobRec
  PROVE  Lacks(j) <=>
           /\ j.pr.force \/ Over(j.list)
           /\ j.pr.got < Positive(Max({j.pr.want, Usage(j.list) - Cap}) - j.pr.base)
<1>1. j.pr.base \in Nat /\ j.pr.got \in Nat /\ Demand(j) \in Int
  BY SumsAre
<1> DEFINE d == Max({j.pr.want, Usage(j.list) - Cap})
<1>2. d = Demand(j)
  BY DEF Demand
<1> HIDE DEF d
<1>3. j.pr.got < Positive(d - j.pr.base) <=> j.pr.base + j.pr.got < d
  BY <1>1, <1>2 DEF Positive
<1> QED BY <1>2, <1>3 DEF Lacks, d

LEMMA NeedsIs ==
  ASSUME NEW p
  PROVE  /\ job[p] \in JobRec => (Needs(p) <=> Lacks(job[p]))
         /\ job'[p] \in JobRec => (Needs(p)' <=> Lacks(job'[p]))
BY LacksIs DEF Needs, Target

\* A process goes on with its listing: the torrent in hand is another one, or none, and
\* what it passes over is not in the way.
Turning(p, j) ==
  /\ j \in JobRec /\ j.pc \in {"pick", "recheck", "delete"} /\ j.list = job[p].list
  /\ j.acc = job[p].acc /\ j.plan = job[p].plan /\ j.tied = job[p].tied /\ j.out = job[p].out
  /\ j.pr.force = job[p].pr.force /\ j.pr.want = job[p].pr.want /\ j.pr.pol = job[p].pr.pol
  /\ j.pr.base = job[p].pr.base /\ j.pr.size = job[p].pr.size /\ j.pr.got = job[p].pr.got
  /\ j.pr.cut = job[p].pr.cut /\ j.pr.todo \subseteq job[p].pr.todo

LEMMA TurnStep ==
  ASSUME PoolInv, NEW p \in Proc, job[p].pc \in {"pick", "recheck", "delete"},
         NEW j, Turning(p, j), Goes(p, j),
         j.pc \in {"recheck", "delete"} =>
           /\ j.pr.cur \in Cursor /\ j.pr.cur.h \in j.pr.todo
           /\ j.pr.cur.need <=> Needs(p)
           /\ j.pr.cur.class = "evict" => j.pr.cur.need,
         foreign[p] = 0 /\ Over(job[p].list) /\ Needs(p) =>
           (job[p].pr.todo \ j.pr.todo) \cap Pooled(live) = {},
         UNCHANGED <<live, rows, turn, foreign, gone, removed, evicted>>
  PROVE  PoolInv'
<1>1. Typed /\ RowsOK /\ job[p] \in JobRec /\ Own(p)
  BY DEF PoolInv, RowsInv, Own, Typed
<1>2. j \in JobRec /\ InHand(j) /\ job'[p] = j
  BY <1>1, Going DEF Turning, InHand
<1>3. Needs(p)' <=> Needs(p)
  <2>1. Lacks(j) <=> Lacks(job[p])
    BY DEF Turning, Lacks, Demand
  <2> QED BY <1>1, <1>2, <2>1, NeedsIs
<1>4. Accounted(job[p])' /\ OutOK(job'[p])
  BY <1>1, <1>2 DEF Own, Accounted, OutOK, Turning
<1>5. Swept(job'[p])
  BY <1>1, <1>2 DEF Own, Swept, Turning, Sweeping
<1>6. SumsOK(job'[p]) /\ HandOK(p)' /\ RoomOK(p)'
  <2>1. SumsOK(job'[p])
    BY <1>1, <1>2 DEF Own, BytesOK, SumsOK, Turning
  <2>2. HandOK(p)'
    BY <1>2, <1>3 DEF HandOK, At, Turning
  <2>3. RoomOK(p)'
    BY <1>1, <1>2 DEF Own, BytesOK, RoomOK, At, Turning
  <2> QED BY <2>1, <2>2, <2>3
<1>7. StillOver(p)'
  BY <1>1, <1>2, <1>3 DEF Own, BytesOK, StillOver, At, Turning
<1>8. NobodyAdds(p)'
  <2> SUFFICES ASSUME foreign[p] = 0 PROVE NobodyAdds(p)'
    BY DEF NobodyAdds
  <2>1. /\ Pooled(live) \subseteq DOMAIN job[p].list \ job[p].pr.cut
        /\ \A h \in Pooled(live) : live[h].shown /\ live[h].cat = job[p].list[h].cat
        /\ Over(job[p].list) /\ Needs(p) => Pooled(live) \subseteq Ahead(job[p])
    BY <1>1 DEF Own, BytesOK, NobodyAdds, At
  <2>2. Over(job[p].list) /\ Needs(p) => Pooled(live) \subseteq Ahead(j)
    BY <2>1 DEF Ahead, Turning
  <2>3. /\ Pooled(live') \subseteq DOMAIN j.list \ j.pr.cut
        /\ \A h \in Pooled(live') : live'[h].shown /\ live'[h].cat = j.list[h].cat
    BY <2>1 DEF Turning, Pooled
  <2>4. Over(j.list) /\ Needs(p)' => Pooled(live') \subseteq Ahead(j)
    BY <1>3, <2>2 DEF Turning, Pooled
  <2> QED BY <1>2, <2>3, <2>4 DEF NobodyAdds, At, Turning
<1>9. Own(p)'
  BY <1>4, <1>5, <1>6, <1>7, <1>8 DEF Own, BytesOK
<1> QED BY <1>1, <1>2, <1>9, QuietStep DEF Typed

\* Only what needs bytes evicts, and what needs bytes keeps nothing.
LEMMA Classes ==
  ASSUME NEW p, NEW kind, NEW need
  PROVE  /\ Class(p, kind, need) \subseteq {"evict", "delete", "keep"}
         /\ Class(p, kind, need) # {}
         /\ "evict" \in Class(p, kind, need) => need
         /\ need => "keep" \notin Class(p, kind, need)
BY DEF Class

LEMMA PickStep ==
  ASSUME PoolInv, NEW p \in Proc, Pick(p)
  PROVE  PoolInv'
<1>1. Typed /\ job[p] \in JobRec /\ Own(p) /\ job[p].pc = "pick"
  BY DEF PoolInv, RowsInv, Own, Typed, Pick, At
<1> DEFINE need == Needs(p)
<1>2. need \in BOOLEAN
  BY DEF Needs
<1>3. PICK h \in job[p].pr.todo : \E class \in Verdict(p, h) :
        Goes(p, [job[p] EXCEPT !.pc = "recheck",
                   !.pr.cur = [h |-> h, need |-> need, class |-> class,
                               kind |-> job[p].list[h].kind]])
  BY DEF Pick
<1>16. PICK class \in Verdict(p, h) :
        Goes(p, [job[p] EXCEPT !.pc = "recheck",
                   !.pr.cur = [h |-> h, need |-> need, class |-> class,
                               kind |-> job[p].list[h].kind]])
  BY <1>3
<1>4. /\ class \in {"evict", "delete", "keep"} /\ (class = "evict" => need)
  BY Classes DEF Verdict
<1>5. job[p].pr \in PruneRec /\ job[p].list \in Lists
  BY <1>1 DEF JobRec
<1>6. h \in Hash /\ job[p].list[h].kind \in Kind
  <2>1. h \in DOMAIN job[p].list
    BY <1>1 DEF Own, Swept, OfPolicy
  <2> QED BY <1>5, <2>1, ListsAre DEF Torrent
<1>7. need <=> Needs(p)
  OBVIOUS
<1> HIDE DEF need
<1> DEFINE cur == [h |-> h, need |-> need, class |-> class, kind |-> job[p].list[h].kind]
           j == [job[p] EXCEPT !.pc = "recheck", !.pr.cur = cur]
<1>8. cur \in Cursor /\ cur.h = h /\ cur.need = need /\ cur.class = class
  BY <1>2, <1>4, <1>6 DEF Cursor
<1>9. Goes(p, j)
  BY <1>16
<1> HIDE DEF cur
<1>10. /\ j \in JobRec /\ j.pc = "recheck" /\ j.list = job[p].list
       /\ j.acc = job[p].acc /\ j.plan = job[p].plan /\ j.tied = job[p].tied /\ j.out = job[p].out
       /\ j.pr = [job[p].pr EXCEPT !.cur = cur]
  BY <1>1, <1>5, <1>8 DEF JobRec, PruneRec, Looking
<1> HIDE DEF j
<1>11. /\ j.pr.force = job[p].pr.force /\ j.pr.want = job[p].pr.want /\ j.pr.pol = job[p].pr.pol
       /\ j.pr.base = job[p].pr.base /\ j.pr.size = job[p].pr.size /\ j.pr.got = job[p].pr.got
       /\ j.pr.cut = job[p].pr.cut /\ j.pr.todo = job[p].pr.todo /\ j.pr.cur = cur
  BY <1>5, <1>10 DEF PruneRec
<1>12. Turning(p, j)
  BY <1>10, <1>11 DEF Turning
<1>13. /\ j.pr.cur \in Cursor /\ j.pr.cur.h \in j.pr.todo
       /\ j.pr.cur.need <=> Needs(p)
       /\ j.pr.cur.class = "evict" => j.pr.cur.need
  BY <1>4, <1>7, <1>8, <1>11
<1>14. job[p].pr.todo \ j.pr.todo = {}
  BY <1>11
<1>15. UNCHANGED <<live, rows, turn, foreign, gone, removed, evicted>>
  BY DEF Pick
<1> QED BY <1>1, <1>9, <1>12, <1>13, <1>14, <1>15, TurnStep

LEMMA RecheckStep ==
  ASSUME PoolInv, NEW p \in Proc, Recheck(p)
  PROVE  PoolInv'
<1> DEFINE cur == job[p].pr.cur
           here == cur.h \in DOMAIN Listing /\ live[cur.h].cat = Mutable[job[p].pr.pol]
           keeps == [job[p] EXCEPT !.pc = "pick", !.pr.todo = @ \ {cur.h}, !.pr.cur = <<>>]
           takes(class) == [job[p] EXCEPT !.pc = "delete", !.pr.cur.class = class,
                                          !.pr.cur.kind = live[cur.h].kind]
<1>1. Typed /\ job[p] \in JobRec /\ Own(p) /\ job[p].pc = "recheck"
  BY DEF PoolInv, RowsInv, Own, Typed, Recheck, At
<1>2. /\ cur \in Cursor /\ cur.h \in job[p].pr.todo /\ cur.need \in BOOLEAN
      /\ cur.need <=> Needs(p)
  <2>1. cur \in Cursor /\ cur.h \in job[p].pr.todo
    BY <1>1 DEF Typed, InHand
  <2>2. cur.need <=> Needs(p)
    BY <1>1 DEF Own, BytesOK, HandOK, At
  <2> QED BY <2>1, <2>2 DEF Cursor
<1>3. job[p].pr \in PruneRec /\ job[p].list \in Lists
  BY <1>1 DEF JobRec
<1>4. UNCHANGED <<live, rows, turn, foreign, gone, removed, evicted>>
  BY DEF Recheck
<1>5. PICK class \in IF here THEN Class(p, live[cur.h].kind, cur.need) ELSE {"keep"} :
        IF class = "keep" THEN Goes(p, keeps) ELSE Goes(p, takes(class))
  BY DEF Recheck
<1>6. CASE class = "keep"
  <2> DEFINE j == keeps  todo == job[p].pr.todo \ {cur.h}
  <2>1. Goes(p, j)
    BY <1>5, <1>6
  <2>2. <<>> \in Cursor \cup {<<>>} /\ todo \in SUBSET Hash
    BY <1>3 DEF PruneRec
  <2>3. j = [job[p] EXCEPT !.pc = "pick", !.pr.todo = todo, !.pr.cur = <<>>]
    OBVIOUS
  <2> HIDE DEF cur
  <2>4. /\ j \in JobRec /\ j.pc = "pick" /\ j.list = job[p].list
        /\ j.acc = job[p].acc /\ j.plan = job[p].plan /\ j.tied = job[p].tied /\ j.out = job[p].out
        /\ j.pr = [job[p].pr EXCEPT !.todo = todo, !.cur = <<>>]
    BY <1>1, <1>3, <2>2, <2>3 DEF JobRec, PruneRec, Looking
  <2> HIDE DEF j
  <2>5. /\ j.pr.force = job[p].pr.force /\ j.pr.want = job[p].pr.want /\ j.pr.pol = job[p].pr.pol
        /\ j.pr.base = job[p].pr.base /\ j.pr.size = job[p].pr.size /\ j.pr.got = job[p].pr.got
        /\ j.pr.cut = job[p].pr.cut /\ j.pr.todo = todo
    BY <1>3, <2>4 DEF PruneRec
  <2>6. Turning(p, j)
    BY <2>4, <2>5 DEF Turning
  <2>7. ASSUME foreign[p] = 0, Over(job[p].list), Needs(p)
        PROVE  (job[p].pr.todo \ j.pr.todo) \cap Pooled(live) = {}
    <3> SUFFICES ASSUME cur.h \in Pooled(live) PROVE FALSE
      BY <2>5
    <3>1. live[cur.h].shown /\ live[cur.h].cat = job[p].list[cur.h].cat
      BY <1>1, <2>7 DEF Own, BytesOK, NobodyAdds, At
    <3>2. job[p].list[cur.h].cat = Mutable[job[p].pr.pol]
      BY <1>1, <1>2 DEF Own, Swept, OfPolicy
    <3>3. here
      BY <1>1, <3>1, <3>2, ListingIs DEF Typed, cur
    <3>4. "keep" \in Class(p, live[cur.h].kind, cur.need)
      BY <1>5, <1>6, <3>3
    <3> QED BY <1>2, <2>7, <3>4, Classes
  <2> QED BY <1>1, <1>4, <2>1, <2>4, <2>6, <2>7, TurnStep
<1>7. CASE class # "keep"
  <2> DEFINE new == [cur EXCEPT !.class = class, !.kind = live[cur.h].kind]
             j == [job[p] EXCEPT !.pc = "delete", !.pr.cur = new]
  <2>1. Goes(p, takes(class)) /\ here
    BY <1>5, <1>7
  <2>2. class \in Class(p, live[cur.h].kind, cur.need)
    BY <1>5, <2>1
  <2>3. class \in {"evict", "delete", "keep"} /\ (class = "evict" => cur.need)
    BY <2>2, Classes
  <2>4. live[cur.h].kind \in Kind
    <3>1. live \in Lists /\ cur.h \in DOMAIN live
      BY <1>1, <2>1, ListingIs DEF Typed, Pooled
    <3> QED BY <3>1, ListsAre DEF Torrent
  <2>5. /\ new \in Cursor /\ new.h = cur.h /\ new.need = cur.need /\ new.class = class
    BY <1>2, <2>3, <2>4 DEF Cursor
  <2>6. Goes(p, j)
    <3>1. takes(class) = j
      BY <1>1, <1>3 DEF JobRec, PruneRec
    <3> QED BY <2>1, <3>1
  <2> HIDE DEF cur, new
  <2>7. /\ j \in JobRec /\ j.pc = "delete" /\ j.list = job[p].list
        /\ j.acc = job[p].acc /\ j.plan = job[p].plan /\ j.tied = job[p].tied /\ j.out = job[p].out
        /\ j.pr = [job[p].pr EXCEPT !.cur = new]
    BY <1>1, <1>3, <2>5 DEF JobRec, PruneRec, Looking
  <2> HIDE DEF j
  <2>8. /\ j.pr.force = job[p].pr.force /\ j.pr.want = job[p].pr.want /\ j.pr.pol = job[p].pr.pol
        /\ j.pr.base = job[p].pr.base /\ j.pr.size = job[p].pr.size /\ j.pr.got = job[p].pr.got
        /\ j.pr.cut = job[p].pr.cut /\ j.pr.todo = job[p].pr.todo /\ j.pr.cur = new
    BY <1>3, <2>7 DEF PruneRec
  <2>9. Turning(p, j)
    BY <2>7, <2>8 DEF Turning
  <2>10. /\ j.pr.cur \in Cursor /\ j.pr.cur.h \in j.pr.todo
         /\ j.pr.cur.need <=> Needs(p)
         /\ j.pr.cur.class = "evict" => j.pr.cur.need
    BY <1>2, <2>3, <2>5, <2>8
  <2>11. job[p].pr.todo \ j.pr.todo = {}
    BY <2>8
  <2> QED BY <1>1, <1>4, <2>6, <2>9, <2>10, <2>11, TurnStep
<1> QED BY <1>6, <1>7

-----------------------------------------------------------------------------
(* The pool loses a torrent.                                               *)

Lost(p, h) ==
  /\ live' \in Lists /\ DOMAIN live' = DOMAIN live \ {h}
  /\ Pooled(live') = Pooled(live) \ {h} /\ \A g \in DOMAIN live' : live'[g] = live[g]
  /\ Usage(live') + InPool(h) = Usage(live) /\ InPool(h) \in Nat /\ InPool(h) <= Size[h]
  /\ foreign' \in [Proc -> Nat] /\ gone' \in [Proc -> Nat]
  /\ p \in Proc => foreign'[p] = foreign[p] /\ gone'[p] = gone[p]
  /\ \A c \in Cand : RemainsHere(c)
  /\ Brings(p, 0, InPool(h))

LEMMA Losing ==
  ASSUME PoolInv, NEW p, NEW h \in DOMAIN live, live' = Without(live, h),
         Others(p, 0, InPool(h)), removed' = removed \cup ({h} \cap Cand),
         \A q \in Proc \ {p} : job'[q] = job[q]
  PROVE  Lost(p, h)
<1>1. Typed /\ live \in Lists
  BY DEF PoolInv, RowsInv, Typed
<1>2. /\ live' \in Lists /\ DOMAIN live' = DOMAIN live \ {h}
      /\ \A g \in DOMAIN live' : live'[g] = live[g]
  BY <1>1, Leaving
<1>3. Pooled(live') = Pooled(live) \ {h} /\ Pooled(live) \in SUBSET Hash
  BY <1>1, <1>2, ListsAre DEF Pooled
<1>4. h \in Hash /\ Size[h] \in Nat /\ Usage(live) \in Nat /\ Usage(live') \in Nat
  <2>1. h \in Hash /\ Pooled(live') \in SUBSET Hash
    BY <1>1, <1>3, ListsAre
  <2> QED BY <1>3, <2>1, Constants, BytesLaws DEF Usage
<1>5. Usage(live') + InPool(h) = Usage(live) /\ InPool(h) \in Nat /\ InPool(h) <= Size[h]
  <2>1. CASE h \in Pooled(live)
    <3>1. Bytes(Pooled(live)) = Size[h] + Bytes(Pooled(live) \ {h})
      BY <1>3, <2>1, BytesLaws
    <3> QED BY <1>3, <1>4, <2>1, <3>1 DEF Usage, InPool
  <2>2. CASE h \notin Pooled(live)
    <3>1. Pooled(live') = Pooled(live)
      BY <1>3, <2>2
    <3> QED BY <1>4, <2>2, <3>1 DEF Usage, InPool
  <2> QED BY <2>1, <2>2
<1>6. /\ foreign' \in [Proc -> Nat] /\ gone' \in [Proc -> Nat]
      /\ \A q \in Proc \ {p} :
           /\ foreign'[q] = foreign[q] + IF job[q].pc \in Looking THEN 0 ELSE 0
           /\ gone'[q] = gone[q] + IF job[q].pc \in Looking THEN InPool(h) ELSE 0
      /\ p \in Proc => foreign'[p] = foreign[p] /\ gone'[p] = gone[p]
  BY <1>1, <1>5, Counting
<1>7. \A c \in Cand : RemainsHere(c)
  BY <1>2 DEF RemainsHere
<1>8. Shrinks
  BY <1>2, <1>3 DEF Shrinks, Pooled
<1>9. Usage(live') + InPool(h) = Usage(live) + 0
  BY <1>4, <1>5
<1>10. Brings(p, 0, InPool(h))
  BY <1>5, <1>6, <1>8, <1>9 DEF Brings
<1> QED BY <1>2, <1>3, <1>5, <1>6, <1>7, <1>10 DEF Lost

\* What a deletion does to the pool, whether the torrent was still there or not.
Took(p, h) ==
  /\ live' \in Lists /\ foreign' \in [Proc -> Nat] /\ gone' \in [Proc -> Nat]
  /\ foreign'[p] = foreign[p] /\ gone'[p] = gone[p]
  /\ removed \subseteq removed' /\ removed' \subseteq Cand /\ evicted' \subseteq Cand
  /\ DOMAIN live \cap Cand \subseteq DOMAIN live' \cup removed'
  /\ Pooled(live') \subseteq Pooled(live) /\ \A g \in Pooled(live') : live'[g] = live[g]
  /\ Usage(live) <= Usage(live') + Size[h]
  /\ \A c \in Cand : RemainsHere(c)
  /\ \A c \in evicted' \ evicted : rows[c].linked
  /\ \E in, out : Brings(p, in, out)

LEMMA Taking ==
  ASSUME PoolInv, NEW p \in Proc, NEW h \in Hash, (h \in DOMAIN live /\ Takes(p, h)) \/ Stays,
         \A q \in Proc \ {p} : job'[q] = job[q]
  PROVE  Took(p, h)
<1>1. Typed
  BY DEF PoolInv, RowsInv
<1>2. /\ live \in Lists /\ foreign \in [Proc -> Nat] /\ gone \in [Proc -> Nat]
      /\ removed \subseteq Cand /\ evicted \subseteq Cand
  BY <1>1 DEF Typed
<1>3. Size[h] \in Nat
  BY Constants
<1>4. CASE h \in DOMAIN live /\ Takes(p, h)
  <2>1. /\ live' = Without(live, h) /\ Others(p, 0, InPool(h))
        /\ removed' = removed \cup ({h} \cap Cand)
        /\ evicted' = evicted \cup {c \in {h} \cap Cand : rows[c].linked}
    BY <1>4 DEF Takes
  <2>2. Lost(p, h)
    BY <1>4, <2>1, Losing
  <2>3. Usage(live) <= Usage(live') + Size[h]
    <3>1. Usage(live') \in Nat
      <4>1. Pooled(live') \in SUBSET Hash
        BY <2>2, ListsAre DEF Lost, Pooled
      <4> QED BY <4>1, BytesLaws DEF Usage
    <3> QED BY <1>3, <2>2, <3>1 DEF Lost
  <2>4. Pooled(live') \subseteq DOMAIN live'
    BY DEF Pooled
  <2> QED BY <1>2, <2>1, <2>2, <2>3, <2>4 DEF Took, Lost
<1>5. CASE Stays
  <2>1. UNCHANGED <<live, foreign, gone, removed, evicted>>
    BY <1>5 DEF Stays
  <2>2. /\ Usage(live') = Usage(live) /\ Usage(live) \in Nat /\ Shrinks
        /\ \A c \in Cand : RemainsHere(c)
    BY <1>1, <2>1, Stands
  <2>3. Brings(p, 0, 0)
    BY <1>2, <2>1, <2>2 DEF Brings
  <2>4. Pooled(live') = Pooled(live)
    BY <2>1 DEF Pooled
  <2>5. Usage(live) <= Usage(live') + Size[h]
    BY <1>3, <2>2
  <2> QED BY <1>2, <2>1, <2>2, <2>3, <2>4, <2>5 DEF Took
<1> QED BY <1>4, <1>5

\* The whole of a step that takes a torrent.
LEMMA TakeStep ==
  ASSUME PoolInv, NEW p \in Proc, NEW h, Took(p, h), NEW j \in JobRec, Goes(p, j), InHand(j),
         UNCHANGED <<rows, turn>>, Own(p)'
  PROVE  PoolInv'
<1>1. Typed /\ RowsOK
  BY DEF PoolInv, RowsInv
<1>2. rows' \in [Cand -> RowRec] /\ turn' \in {"run", "guard"}
  BY <1>1 DEF Typed
<1>3. Typed'
  BY <1>1, <1>2, GoesTyped DEF Took
<1>4. ASSUME NEW c \in Cand PROVE RowMoves(c)
  <2>1. rows[c] \in RowRec /\ LinkedOK(rows[c]) /\ Here(c) /\ rows'[c] = rows[c]
    BY <1>1 DEF Typed, RowsOK
  <2> QED BY <2>1, FollowsSelf DEF RowMoves, Here, Took, RemainsHere
<1>5. Leaves(p)
  BY <1>3, <1>4 DEF Leaves, Took
<1> QED BY <1>5, Together

LEMMA ProgressIs ==
  ASSUME NEW p, NEW t, t.h \in Hash
  PROVE  /\ Progress(p, t) \in Nat /\ Progress(p, t) <= Size[t.h] /\ Size[t.h] \in Nat
         /\ ~job[p].pr.force => Progress(p, t) = Size[t.h]
<1> DEFINE n == Size[t.h]
<1>1. n \in Nat
  BY Constants
<1>2. OnDisk(t.h) = n \div 2
  BY DEF OnDisk
<1> HIDE DEF n
<1>3. n \div 2 \in Nat /\ n \div 2 <= n
  BY <1>1
<1> QED BY <1>1, <1>2, <1>3 DEF Progress, n

LEMMA CountedIs ==
  ASSUME NEW p, job[p].pr \in PruneRec, job[p].pr.cur \in Cursor
  PROVE  LET pr == job[p].pr  cur == job[p].pr.cur  new == Counted(p)
         IN  /\ new \in PruneRec /\ new.todo = pr.todo \ {cur.h} /\ new.cut = pr.cut \cup {cur.h}
             /\ new.got = pr.got + IF cur.need THEN Progress(p, cur) ELSE 0
             /\ new.size = pr.size + IF cur.need THEN Size[cur.h] ELSE 0
             /\ new.force = pr.force /\ new.want = pr.want /\ new.pol = pr.pol
             /\ new.base = pr.base
<1> DEFINE pr == job[p].pr  cur == job[p].pr.cur  todo == pr.todo \ {cur.h}
           cut == pr.cut \cup {cur.h}
           n == IF cur.class = "evict" THEN pr.n + 1 ELSE pr.n
           got == IF cur.need THEN pr.got + Progress(p, cur) ELSE pr.got
           size == IF cur.need THEN pr.size + Size[cur.h] ELSE pr.size
           new == [pr EXCEPT !.todo = todo, !.cut = cut, !.cur = <<>>, !.n = n, !.got = got,
                             !.size = size]
<1>1. Counted(p) = new
  BY DEF Counted, PruneRec
<1>2. cur.h \in Hash
  BY DEF Cursor
<1>3. Progress(p, cur) \in Nat /\ Size[cur.h] \in Nat
  BY <1>2, ProgressIs
<1>4. pr.n \in Nat /\ pr.got \in Nat /\ pr.size \in Nat /\ pr.todo \in SUBSET Hash /\ pr.cut \in SUBSET Hash
  BY DEF PruneRec
<1>5. /\ n \in Nat /\ got \in Nat /\ size \in Nat /\ todo \in SUBSET Hash /\ cut \in SUBSET Hash
      /\ got = pr.got + IF cur.need THEN Progress(p, cur) ELSE 0
      /\ size = pr.size + IF cur.need THEN Size[cur.h] ELSE 0
  BY <1>2, <1>3, <1>4
<1> HIDE DEF n, got, size
<1>6. todo = pr.todo \ {cur.h} /\ cut = pr.cut \cup {cur.h} /\ pr \in PruneRec
  OBVIOUS
<1> HIDE DEF todo, cut, pr
<1>7. /\ new \in PruneRec /\ new.todo = todo /\ new.cut = cut /\ new.got = got /\ new.size = size
      /\ new.force = pr.force /\ new.want = pr.want /\ new.pol = pr.pol /\ new.base = pr.base
  BY <1>5, <1>6 DEF PruneRec
<1> HIDE DEF new, cur
<1> QED BY <1>1, <1>5, <1>6, <1>7 DEF pr, cur

LEMMA DeletedStep ==
  ASSUME PoolInv, NEW p \in Proc, job[p].pc = "delete", Took(p, job[p].pr.cur.h),
         job[p].pr.cur.h \notin DOMAIN live', UNCHANGED <<rows, turn>>,
         Goes(p, [job[p] EXCEPT !.pc = "pick", !.pr = Counted(p)])
  PROVE  PoolInv'
<1> DEFINE pr == job[p].pr  cur == job[p].pr.cur  h == cur.h  new == Counted(p)
           j == [job[p] EXCEPT !.pc = "pick", !.pr = new]
<1>1. Typed /\ RowsOK /\ job[p] \in JobRec /\ Own(p)
  BY DEF PoolInv, RowsInv, Own, Typed
<1>2. /\ cur \in Cursor /\ h \in pr.todo /\ pr \in PruneRec /\ h \in Hash
      /\ cur.need <=> Needs(p)
  <2>1. cur \in Cursor /\ cur.h \in pr.todo
    BY <1>1 DEF Typed, InHand
  <2>2. cur.need <=> Needs(p)
    BY <1>1 DEF Own, BytesOK, HandOK, At
  <2> QED BY <1>1, <2>1, <2>2 DEF Cursor, JobRec
<1>3. /\ new \in PruneRec /\ new.todo = pr.todo \ {h} /\ new.cut = pr.cut \cup {h}
      /\ new.got = pr.got + IF cur.need THEN Progress(p, cur) ELSE 0
      /\ new.size = pr.size + IF cur.need THEN Size[h] ELSE 0
      /\ new.force = pr.force /\ new.want = pr.want /\ new.pol = pr.pol
      /\ new.base = pr.base
  BY <1>2, CountedIs
<1>4. /\ Progress(p, cur) \in Nat /\ Progress(p, cur) <= Size[h] /\ Size[h] \in Nat
      /\ ~pr.force => Progress(p, cur) = Size[h]
  BY <1>2, ProgressIs
<1>5. Goes(p, j)
  OBVIOUS
<1> HIDE DEF new
<1>6. /\ j \in JobRec /\ j.pc = "pick" /\ j.list = job[p].list /\ j.acc = job[p].acc
      /\ j.plan = job[p].plan /\ j.tied = job[p].tied /\ j.out = job[p].out /\ j.pr = new
  BY <1>1, <1>3 DEF JobRec, Looking
<1> HIDE DEF j
<1>7. InHand(j) /\ job'[p] = j
  BY <1>1, <1>5, <1>6, Going DEF InHand
<1>8. /\ h \in DOMAIN job[p].list /\ h \notin pr.cut /\ h \in OfPolicy(job[p].list, pr.pol)
  BY <1>1, <1>2 DEF Own, Swept, OfPolicy
<1>9. /\ pr.got \in Nat /\ pr.size \in Nat /\ pr.base \in Nat /\ pr.want \in Nat /\ pr.cut \in SUBSET Hash
      /\ Demand(job[p]) \in Int /\ Usage(job[p].list) \in Nat
  BY <1>1, <1>2, SumsAre DEF PruneRec
<1>10. Needs(p)' => Needs(p)
  <2>1. new.got >= pr.got /\ new.got \in Nat
    BY <1>3, <1>4, <1>9
  <2>2. Demand(j) = Demand(job[p])
    BY <1>3, <1>6 DEF Demand
  <2>3. Lacks(j) => Lacks(job[p])
    BY <1>3, <1>6, <1>9, <2>1, <2>2 DEF Lacks
  <2> QED BY <1>1, <1>6, <1>7, <2>3, NeedsIs
<1>11. Accounted(job[p])'
  <2>1. h \in Cand => h \in removed'
    <3>1. h \in Cand => h \in DOMAIN live \cup removed
      BY <1>1, <1>8 DEF Own, Accounted
    <3> QED BY <3>1 DEF Took
  <2>2. /\ (DOMAIN j.list \cup j.tied) \cap Cand \subseteq DOMAIN live' \cup removed'
    BY <1>1, <1>6 DEF Own, Accounted, Took
  <2>3. j.pr.cut \cap Cand \subseteq removed'
    BY <1>1, <1>3, <1>6, <2>1 DEF Own, Accounted, Took
  <2> QED BY <1>6, <1>7, <2>2, <2>3 DEF Accounted
<1>12. OutOK(job'[p])
  BY <1>1, <1>6, <1>7 DEF Own, OutOK
<1>13. Swept(job'[p])
  BY <1>1, <1>3, <1>6, <1>7, <1>8 DEF Own, Swept, Sweeping
<1>14. SumsOK(job'[p])
  <2>1. pr.got <= pr.size /\ pr.base + pr.size <= Bytes(pr.cut)
        /\ (~pr.force => pr.want = 0 /\ pr.got = pr.size)
    BY <1>1 DEF Own, BytesOK, SumsOK
  <2>2. Bytes(pr.cut \cup {h}) = Bytes(pr.cut) + Size[h] /\ Bytes(pr.cut) \in Nat
    BY <1>2, <1>8, <1>9, BytesAdd, BytesLaws
  <2>3. /\ new.got <= new.size /\ new.base + new.size <= Bytes(new.cut)
        /\ (~new.force => new.want = 0 /\ new.got = new.size)
    BY <1>3, <1>4, <1>9, <2>1, <2>2
  <2> QED BY <1>6, <1>7, <2>3 DEF SumsOK
<1>15. HandOK(p)' /\ RoomOK(p)'
  BY <1>1, <1>6, <1>7 DEF Own, BytesOK, HandOK, RoomOK, At
<1>16. StillOver(p)'
  <2> SUFFICES ASSUME ~pr.force, Needs(p)'
               PROVE  Usage(job[p].list) <= Usage(live') + gone'[p] + new.base + new.got
    BY <1>3, <1>6, <1>7 DEF StillOver, At
  <2>1. Usage(job[p].list) <= Usage(live) + gone[p] + pr.base + pr.got
    BY <1>1, <1>10 DEF Own, BytesOK, StillOver, At
  <2>2. new.got = pr.got + Size[h] /\ new.base = pr.base
    BY <1>2, <1>3, <1>4, <1>10
  <2>3. Usage(live) <= Usage(live') + Size[h] /\ gone'[p] = gone[p]
    BY DEF Took
  <2>4. Usage(live) \in Nat /\ Usage(live') \in Nat /\ gone[p] \in Nat
    <3>1. Pooled(live) \in SUBSET Hash /\ Pooled(live') \in SUBSET Hash /\ gone[p] \in Nat
      BY <1>1, ListsAre DEF Typed, Took, Pooled
    <3> QED BY <3>1, BytesLaws DEF Usage
  <2> HIDE DEF pr
  <2> QED BY <1>4, <1>9, <2>1, <2>2, <2>3, <2>4
<1>17. NobodyAdds(p)'
  <2> SUFFICES ASSUME foreign[p] = 0 PROVE NobodyAdds(p)'
    BY DEF NobodyAdds, Took
  <2>1. /\ Pooled(live) \subseteq DOMAIN job[p].list \ pr.cut
        /\ \A g \in Pooled(live) : live[g].shown /\ live[g].cat = job[p].list[g].cat
        /\ Over(job[p].list) /\ Needs(p) => Pooled(live) \subseteq Ahead(job[p])
    BY <1>1 DEF Own, BytesOK, NobodyAdds, At
  <2>2. /\ Pooled(live') \subseteq Pooled(live) \ {h} /\ \A g \in Pooled(live') : live'[g] = live[g]
    BY DEF Took, Pooled
  <2>3. /\ Pooled(live') \subseteq DOMAIN j.list \ j.pr.cut
        /\ \A g \in Pooled(live') : live'[g].shown /\ live'[g].cat = j.list[g].cat
    BY <1>3, <1>6, <2>1, <2>2
  <2>4. Ahead(job[p]) \ {h} \subseteq Ahead(j)
    BY <1>3, <1>6 DEF Ahead
  <2>5. Over(j.list) /\ Needs(p)' => Pooled(live') \subseteq Ahead(j)
    BY <1>6, <1>10, <2>1, <2>2, <2>4
  <2> QED BY <1>6, <1>7, <2>3, <2>5 DEF NobodyAdds, At
<1>18. Own(p)'
  BY <1>11, <1>12, <1>13, <1>14, <1>15, <1>16, <1>17 DEF Own, BytesOK
<1> QED BY <1>5, <1>6, <1>7, <1>18, TakeStep

LEMMA FailedStep ==
  ASSUME PoolInv, NEW p \in Proc, job[p].pc = "delete", Took(p, job[p].pr.cur.h),
         UNCHANGED <<rows, turn>>,
         Goes(p, [job[p] EXCEPT !.pc = "settle", !.pr.broke = TRUE])
  PROVE  PoolInv'
<1> DEFINE j == [job[p] EXCEPT !.pc = "settle", !.pr.broke = TRUE]
<1>1. Typed /\ RowsOK /\ job[p] \in JobRec /\ Own(p)
  BY DEF PoolInv, RowsInv, Own, Typed
<1>2. job[p].pr \in PruneRec
  BY <1>1 DEF JobRec
<1>3. /\ j \in JobRec /\ j.pc = "settle" /\ j.list = job[p].list /\ j.acc = job[p].acc
      /\ j.plan = job[p].plan /\ j.tied = job[p].tied /\ j.out = job[p].out
      /\ j.pr = [job[p].pr EXCEPT !.broke = TRUE]
  BY <1>1, <1>2 DEF JobRec, PruneRec, Looking
<1>4. Goes(p, j)
  OBVIOUS
<1> HIDE DEF j
<1>5. InHand(j) /\ job'[p] = j
  BY <1>1, <1>3, <1>4, Going DEF InHand
<1>6. /\ j.pr.force = job[p].pr.force /\ j.pr.want = job[p].pr.want /\ j.pr.pol = job[p].pr.pol
      /\ j.pr.base = job[p].pr.base /\ j.pr.size = job[p].pr.size /\ j.pr.got = job[p].pr.got
      /\ j.pr.cut = job[p].pr.cut /\ j.pr.todo = job[p].pr.todo /\ j.pr.broke = TRUE
  BY <1>2, <1>3 DEF PruneRec
<1>7. Accounted(job[p])' /\ OutOK(job'[p])
  <2>1. (DOMAIN j.list \cup j.tied) \cap Cand \subseteq DOMAIN live' \cup removed'
    BY <1>1, <1>3 DEF Own, Accounted, Took
  <2>2. j.pr.cut \cap Cand \subseteq removed'
    BY <1>1, <1>6 DEF Own, Accounted, Took
  <2>3. OutOK(j)
    BY <1>1, <1>3 DEF Own, OutOK
  <2> QED BY <1>3, <1>5, <2>1, <2>2, <2>3 DEF Accounted
<1>8. Swept(job'[p])
  BY <1>1, <1>3, <1>5, <1>6 DEF Own, Swept, Sweeping
<1>9. SumsOK(job'[p]) /\ HandOK(p)' /\ RoomOK(p)' /\ StillOver(p)' /\ NobodyAdds(p)'
  BY <1>1, <1>3, <1>5, <1>6 DEF Own, BytesOK, SumsOK, HandOK, RoomOK, StillOver, NobodyAdds, At
<1>10. Own(p)'
  BY <1>7, <1>8, <1>9 DEF Own, BytesOK
<1> QED BY <1>3, <1>4, <1>5, <1>10, TakeStep

LEMMA DeleteOneStep ==
  ASSUME PoolInv, NEW p \in Proc, DeleteOne(p)
  PROVE  PoolInv'
<1> DEFINE h == job[p].pr.cur.h
<1>1. Typed /\ job[p].pc = "delete" /\ UNCHANGED <<rows, turn>>
  BY DEF PoolInv, RowsInv, DeleteOne, At
<1>2. h \in Hash
  <2>1. job[p].pr.cur \in Cursor
    BY <1>1 DEF Typed, InHand
  <2> QED BY <2>1 DEF Cursor
<1>3. Deleted(p, h) \/ Fails(p, h)
  BY DEF DeleteOne
<1>4. /\ (h \in DOMAIN live /\ Takes(p, h)) \/ Stays
      /\ Deleted(p, h) => (h \in DOMAIN live /\ Takes(p, h)) \/ (h \notin DOMAIN live /\ Stays)
  BY <1>3 DEF Deleted, Fails
<1>5. \A q \in Proc \ {p} : job'[q] = job[q]
  <2>1. \E j : Goes(p, j)
    BY <1>3 DEF Deleted, Fails
  <2> QED BY <1>1, <2>1 DEF Goes, Typed
<1>6. Took(p, h)
  BY <1>2, <1>4, <1>5, Taking
<1>7. CASE Deleted(p, h)
  <2>1. h \notin DOMAIN live'
    <3>1. CASE h \in DOMAIN live /\ Takes(p, h)
      BY <1>1, <3>1, Leaving DEF Takes, Typed
    <3>2. CASE h \notin DOMAIN live /\ Stays
      BY <3>2 DEF Stays
    <3> QED BY <1>4, <1>7, <3>1, <3>2
  <2> QED BY <1>1, <1>6, <1>7, <2>1, DeletedStep DEF Deleted
<1>8. CASE Fails(p, h)
  BY <1>1, <1>6, <1>8, FailedStep DEF Fails
<1> QED BY <1>3, <1>7, <1>8

-----------------------------------------------------------------------------
(* A prune goes to its next policy, or has finished.                       *)

\* A prune of a full pool that still needs bytes keeps nothing.
LEMMA KeepsNothing ==
  ASSUME NEW p, \A h \in job[p].pr.todo : Kept(p, h), Over(job[p].list), Needs(p)
  PROVE  job[p].pr.todo = {}
<1> SUFFICES ASSUME NEW h \in job[p].pr.todo PROVE FALSE
  OBVIOUS
<1> DEFINE class == Class(p, job[p].list[h].kind, Needs(p))
<1>1. Kept(p, h)
  OBVIOUS
<1>2. class \subseteq {"evict", "delete", "keep"} /\ class # {} /\ "keep" \notin class
  BY Classes
<1>3. Verdict(p, h) = class \ {"keep"}
  BY DEF Verdict, LimitReached
<1>4. Verdict(p, h) = {} \/ "keep" \in class
  BY <1>1 DEF Kept
<1> HIDE DEF class
<1> QED BY <1>2, <1>3, <1>4

LEMMA LeftOver ==
  ASSUME NEW j \in JobRec, Pooled(j.list) = DOMAIN j.list, j.pr.cut \subseteq DOMAIN j.list,
         NEW P \in SUBSET (DOMAIN j.list \ j.pr.cut)
  PROVE  Bytes(P) + Bytes(j.pr.cut) <= Usage(j.list) /\ Bytes(P) \in Nat
<1> DEFINE whole == DOMAIN j.list  cut == j.pr.cut
<1>1. whole \in SUBSET Hash /\ cut \in SUBSET whole
  BY SumsAre
<1>2. whole \ cut \in SUBSET Hash /\ P \in SUBSET Hash /\ cut \in SUBSET Hash
  BY <1>1
<1> HIDE DEF whole, cut
<1>3. Bytes(whole) = Bytes(cut) + Bytes(whole \ cut)
  BY <1>1, BytesLaws
<1>4. Bytes(P) <= Bytes(whole \ cut)
  BY <1>2, BytesLaws DEF whole, cut
<1>5. Bytes(whole) \in Nat /\ Bytes(cut) \in Nat /\ Bytes(whole \ cut) \in Nat /\ Bytes(P) \in Nat
  BY <1>1, <1>2, BytesLaws
<1>6. Usage(j.list) = Bytes(whole)
  BY DEF Usage, whole
<1>7. Bytes(P) + Bytes(cut) <= Bytes(whole)
  BY <1>3, <1>4, <1>5
<1> QED BY <1>5, <1>6, <1>7 DEF cut

LEMMA SecondPolicyStep ==
  ASSUME PoolInv, NEW p \in Proc, job[p].pc = "pick", \A h \in job[p].pr.todo : Kept(p, h),
         job[p].pr.pol = 1,
         Goes(p, [job[p] EXCEPT !.pr.pol = @ + 1, !.pr.base = @ + job[p].pr.size,
                                !.pr.size = 0, !.pr.got = 0,
                                !.pr.todo = OfPolicy(job[p].list, job[p].pr.pol + 1)]),
         UNCHANGED <<live, rows, turn, foreign, gone, removed, evicted>>
  PROVE  PoolInv'
<1> DEFINE pr == job[p].pr  todo == OfPolicy(job[p].list, 2)  base == pr.base + pr.size
           j == [job[p] EXCEPT !.pr.pol = 2, !.pr.base = base, !.pr.size = 0, !.pr.got = 0,
                               !.pr.todo = todo]
<1>1. Typed /\ RowsOK /\ job[p] \in JobRec /\ Own(p)
  BY DEF PoolInv, RowsInv, Own, Typed
<1>2. /\ pr \in PruneRec /\ job[p].list \in Lists /\ pr.base \in Nat /\ pr.size \in Nat
      /\ pr.got \in Nat /\ Demand(job[p]) \in Int
  BY <1>1, SumsAre
<1>3. Goes(p, j)
  <2>1. job[p].pr.pol + 1 = 2
    OBVIOUS
  <2>2. [job[p] EXCEPT !.pr.pol = @ + 1, !.pr.base = @ + job[p].pr.size,
                       !.pr.size = 0, !.pr.got = 0,
                       !.pr.todo = OfPolicy(job[p].list, job[p].pr.pol + 1)] = j
    BY <1>1, <1>2, <2>1 DEF JobRec, PruneRec
  <2> QED BY <2>2
<1>4. base \in Nat /\ todo \in SUBSET Hash /\ base = pr.base + pr.size
  <2>1. todo \in SUBSET Hash
    BY <1>2, ListsAre DEF OfPolicy
  <2> QED BY <1>2, <2>1
<1>5. \A h \in todo : h \in DOMAIN job[p].list /\ job[p].list[h].cat = Mutable[2]
  BY DEF OfPolicy
<1>6. todo = OfPolicy(job[p].list, 2)
  OBVIOUS
<1> HIDE DEF base, todo
<1>7. /\ j \in JobRec /\ j.pc = "pick" /\ j.list = job[p].list /\ j.acc = job[p].acc
      /\ j.plan = job[p].plan /\ j.tied = job[p].tied /\ j.out = job[p].out
      /\ j.pr = [pr EXCEPT !.pol = 2, !.base = base, !.size = 0, !.got = 0, !.todo = todo]
  BY <1>1, <1>2, <1>4 DEF JobRec, PruneRec
<1> HIDE DEF j
<1>8. InHand(j) /\ job'[p] = j
  BY <1>1, <1>3, <1>7, Going DEF InHand
<1>9. /\ j.pr.force = pr.force /\ j.pr.want = pr.want /\ j.pr.pol = 2
      /\ j.pr.base = base /\ j.pr.size = 0 /\ j.pr.got = 0
      /\ j.pr.cut = pr.cut /\ j.pr.todo = todo
  BY <1>2, <1>7 DEF PruneRec
<1>10. pr.got <= pr.size /\ pr.base + pr.size <= Bytes(pr.cut)
       /\ (~pr.force => pr.want = 0 /\ pr.got = pr.size)
  BY <1>1 DEF Own, BytesOK, SumsOK
<1>11. Needs(p)' => Needs(p)
  <2>1. Demand(j) = Demand(job[p])
    BY <1>7, <1>9 DEF Demand
  <2>2. base < Demand(job[p]) => pr.base + pr.got < Demand(job[p])
    BY <1>2, <1>4, <1>10
  <2>3. base + 0 = base
    BY <1>4
  <2>4. Lacks(j) => Lacks(job[p])
    BY <1>7, <1>9, <2>1, <2>2, <2>3 DEF Lacks
  <2> QED BY <1>1, <1>7, <1>8, <2>4, NeedsIs
<1>12. Accounted(job[p])' /\ OutOK(job'[p])
  BY <1>1, <1>7, <1>8, <1>9 DEF Own, Accounted, OutOK
<1>13. Swept(job'[p])
  <2>1. pr.cut \subseteq OfPolicy(job[p].list, 1) /\ pr.cut \subseteq DOMAIN job[p].list
        /\ Pooled(job[p].list) = DOMAIN job[p].list
    BY <1>1 DEF Own, Swept
  <2>2. todo \cap pr.cut = {}
    BY <1>5, <2>1, Policies DEF OfPolicy
  <2> QED BY <1>6, <1>7, <1>8, <1>9, <2>1, <2>2 DEF Swept, Sweeping
<1>14. SumsOK(job'[p])
  <2>1. base + 0 <= Bytes(pr.cut)
    BY <1>4, <1>10
  <2> QED BY <1>8, <1>9, <1>10, <2>1 DEF SumsOK
<1>15. HandOK(p)' /\ RoomOK(p)'
  BY <1>1, <1>7, <1>8 DEF Own, BytesOK, HandOK, RoomOK, At
<1>16. StillOver(p)'
  <2> SUFFICES ASSUME ~pr.force, Needs(p)'
               PROVE  Usage(job[p].list) <= Usage(live) + gone[p] + base + 0
    BY <1>7, <1>8, <1>9 DEF StillOver, At, Usage, Pooled
  <2>1. Usage(job[p].list) <= Usage(live) + gone[p] + pr.base + pr.got
    BY <1>1, <1>11 DEF Own, BytesOK, StillOver, At
  <2>2. Usage(live) \in Nat /\ Usage(job[p].list) \in Nat /\ gone[p] \in Nat
    <3>1. Pooled(live) \in SUBSET Hash /\ gone[p] \in Nat
      BY <1>1, ListsAre DEF Typed, Pooled
    <3> QED BY <1>1, <3>1, BytesLaws, SumsAre DEF Usage
  <2> HIDE DEF pr
  <2> QED BY <1>2, <1>4, <1>10, <2>1, <2>2
<1>17. NobodyAdds(p)'
  <2> SUFFICES ASSUME foreign[p] = 0 PROVE NobodyAdds(p)'
    BY DEF NobodyAdds
  <2>1. /\ Pooled(live) \subseteq DOMAIN job[p].list \ pr.cut
        /\ \A g \in Pooled(live) : live[g].shown /\ live[g].cat = job[p].list[g].cat
        /\ Over(job[p].list) /\ Needs(p) => Pooled(live) \subseteq Ahead(job[p])
    BY <1>1 DEF Own, BytesOK, NobodyAdds, At
  <2>2. Pooled(live') = Pooled(live)
    BY DEF Pooled
  <2>3. /\ Pooled(live') \subseteq DOMAIN j.list \ j.pr.cut
        /\ \A g \in Pooled(live') : live'[g].shown /\ live'[g].cat = j.list[g].cat
    BY <1>7, <1>9, <2>1, <2>2
  <2>4. ASSUME Over(j.list), Needs(p)' PROVE Pooled(live') \subseteq Ahead(j)
    <3>1. pr.todo = {} /\ Pooled(live) \subseteq Ahead(job[p])
      BY <1>7, <1>11, <2>1, <2>4, KeepsNothing
    <3>2. \A h \in Ahead(job[p]) : h \in DOMAIN j.list /\ j.list[h].cat # Mutable[1]
      BY <1>7, <3>1 DEF Ahead
    <3>3. \A h \in DOMAIN j.list : j.list[h].cat = Mutable[2] => h \in j.pr.todo
      BY <1>6, <1>7, <1>9 DEF OfPolicy
    <3>4. Ahead(job[p]) \subseteq Ahead(j)
      BY <3>2, <3>3 DEF Ahead
    <3> QED BY <2>2, <3>1, <3>4
  <2> QED BY <1>7, <1>8, <2>3, <2>4 DEF NobodyAdds, At
<1>18. Own(p)'
  BY <1>12, <1>13, <1>14, <1>15, <1>16, <1>17 DEF Own, BytesOK
<1> QED BY <1>1, <1>3, <1>7, <1>8, <1>18, QuietStep DEF Typed

LEMMA LastPolicyStep ==
  ASSUME PoolInv, NEW p \in Proc, job[p].pc = "pick", \A h \in job[p].pr.todo : Kept(p, h),
         job[p].pr.pol = 2,
         Goes(p, [job[p] EXCEPT !.pc = "settle", !.pr.todo = {}]),
         UNCHANGED <<live, rows, turn, foreign, gone, removed, evicted>>
  PROVE  PoolInv'
<1> DEFINE pr == job[p].pr  j == [job[p] EXCEPT !.pc = "settle", !.pr.todo = {}]
<1>1. Typed /\ RowsOK /\ job[p] \in JobRec /\ Own(p)
  BY DEF PoolInv, RowsInv, Own, Typed
<1>2. /\ pr \in PruneRec /\ job[p].list \in Lists /\ pr.base \in Nat /\ pr.size \in Nat
      /\ pr.got \in Nat /\ Demand(job[p]) \in Int /\ Demand(job[p]) >= Usage(job[p].list) - Cap
      /\ Usage(job[p].list) \in Nat /\ Cap \in Nat /\ Bytes(pr.cut) \in Nat
  BY <1>1, SumsAre
<1>3. /\ j \in JobRec /\ j.pc = "settle" /\ j.list = job[p].list /\ j.acc = job[p].acc
      /\ j.plan = job[p].plan /\ j.tied = job[p].tied /\ j.out = job[p].out
      /\ j.pr = [pr EXCEPT !.todo = {}]
  BY <1>1, <1>2 DEF JobRec, PruneRec, Looking
<1>4. Goes(p, j)
  OBVIOUS
<1> HIDE DEF j
<1>5. InHand(j) /\ job'[p] = j
  BY <1>1, <1>3, <1>4, Going DEF InHand
<1>6. /\ j.pr.force = pr.force /\ j.pr.want = pr.want /\ j.pr.pol = pr.pol
      /\ j.pr.base = pr.base /\ j.pr.size = pr.size /\ j.pr.got = pr.got
      /\ j.pr.cut = pr.cut /\ j.pr.todo = {}
  BY <1>2, <1>3 DEF PruneRec
<1>7. Accounted(job[p])' /\ OutOK(job'[p])
  BY <1>1, <1>3, <1>5, <1>6 DEF Own, Accounted, OutOK
<1>8. Swept(job'[p])
  BY <1>1, <1>3, <1>5, <1>6 DEF Own, Swept, Sweeping
<1>9. SumsOK(job'[p]) /\ HandOK(p)' /\ RoomOK(p)' /\ StillOver(p)'
  BY <1>1, <1>3, <1>5, <1>6 DEF Own, BytesOK, SumsOK, HandOK, RoomOK, StillOver, At
<1>10. ASSUME foreign[p] = 0 PROVE Usage(live) <= Cap
  <2>1. /\ Pooled(live) \subseteq DOMAIN job[p].list \ pr.cut
        /\ Over(job[p].list) /\ Needs(p) => Pooled(live) \subseteq Ahead(job[p])
    BY <1>1, <1>10 DEF Own, BytesOK, NobodyAdds, At
  <2>2. /\ Pooled(job[p].list) = DOMAIN job[p].list /\ pr.cut \subseteq DOMAIN job[p].list
        /\ pr.got <= pr.size /\ pr.base + pr.size <= Bytes(pr.cut)
    BY <1>1 DEF Own, Swept, BytesOK, SumsOK
  <2>3. Usage(live) + Bytes(pr.cut) <= Usage(job[p].list) /\ Usage(live) \in Nat
    BY <1>1, <2>1, <2>2, LeftOver DEF Usage
  <2>4. CASE ~Over(job[p].list)
    <3>1. Usage(job[p].list) <= Cap
      BY <1>2, <2>4 DEF Over
    <3> QED BY <1>2, <2>3, <3>1
  <2>5. CASE Over(job[p].list) /\ Needs(p)
    <3>1. pr.todo = {}
      BY <2>5, KeepsNothing
    <3>2. ASSUME NEW h \in Pooled(live) PROVE FALSE
      <4>1. h \in DOMAIN job[p].list /\ h \in Ahead(job[p]) /\ job[p].list[h].cat \in Policy
        BY <2>1, <2>2, <2>5 DEF Pooled
      <4> QED BY <3>1, <4>1, Policies DEF Ahead
    <3>3. Pooled(live) = {}
      BY <3>2
    <3> QED BY <1>2, <3>3, NothingListed DEF Usage
  <2>6. CASE Over(job[p].list) /\ ~Needs(p)
    <3>1. ~(pr.base + pr.got < Demand(job[p]))
      BY <1>1, <2>6, NeedsIs DEF Lacks
    <3> HIDE DEF pr
    <3> QED BY <1>2, <2>2, <2>3, <3>1
  <2> QED BY <2>4, <2>5, <2>6
<1>11. NobodyAdds(p)'
  <2>1. Usage(live') = Usage(live)
    BY DEF Usage, Pooled
  <2> QED BY <1>3, <1>5, <1>10, <2>1 DEF NobodyAdds, At
<1>12. Own(p)'
  BY <1>7, <1>8, <1>9, <1>11 DEF Own, BytesOK
<1> QED BY <1>1, <1>3, <1>4, <1>5, <1>12, QuietStep DEF Typed

LEMMA NextPolicyStep ==
  ASSUME PoolInv, NEW p \in Proc, NextPolicy(p)
  PROVE  PoolInv'
<1>1. job[p].pc = "pick" /\ (\A h \in job[p].pr.todo : Kept(p, h))
      /\ UNCHANGED <<live, rows, turn, foreign, gone, removed, evicted>>
  BY DEF NextPolicy, At
<1>2. job[p].pr.pol = 1 \/ job[p].pr.pol = 2
  <2>1. job[p] \in JobRec
    BY DEF PoolInv, RowsInv, Typed
  <2> QED BY <2>1 DEF JobRec, PruneRec
<1>3. CASE job[p].pr.pol = 1
  <2>1. job[p].pr.pol < Len(Mutable)
    BY <1>3, Policies
  <2> QED BY <1>1, <1>3, <2>1, SecondPolicyStep DEF NextPolicy
<1>4. CASE job[p].pr.pol = 2
  <2>1. ~(job[p].pr.pol < Len(Mutable))
    BY <1>4, Policies
  <2> QED BY <1>1, <1>4, <2>1, LastPolicyStep DEF NextPolicy
<1> QED BY <1>2, <1>3, <1>4

LEMMA StepKeeps ==
  ASSUME PoolInv, NEW p \in Proc, Step(p)
  PROVE  PoolInv'
BY FindStep, ListStep, SyncStep, AddStep, SaveStep, WatchStep, PruneListStep, PruneSyncStep,
   PickStep, RecheckStep, DeleteOneStep, NextPolicyStep, SettleStep, FinalStep DEF Step

-----------------------------------------------------------------------------
(* What happens around the processes.                                      *)

LEMMA Outside == "a person" \notin Proc
BY DEF Proc

\* The whole of a step outside the processes that writes no row.
LEMMA OutsideStep ==
  ASSUME PoolInv, UNCHANGED <<rows, job, turn, evicted>>, live' \in Lists,
         foreign' \in [Proc -> Nat], gone' \in [Proc -> Nat],
         removed \subseteq removed', removed' \subseteq Cand, \A c \in Cand : RemainsHere(c),
         NEW o, o \notin Proc, NEW in, NEW out, Brings(o, in, out)
  PROVE  PoolInv'
<1>1. Typed /\ RowsOK
  BY DEF PoolInv, RowsInv
<1>2. Typed'
  BY <1>1 DEF Typed
<1>3. ASSUME NEW c \in Cand PROVE RowMoves(c)
  <2>1. rows[c] \in RowRec /\ LinkedOK(rows[c]) /\ Here(c) /\ rows'[c] = rows[c] /\ RemainsHere(c)
    BY <1>1 DEF Typed, RowsOK
  <2> QED BY <2>1, FollowsSelf DEF RowMoves, Here, RemainsHere
<1>4. Leaves(o)
  BY <1>2, <1>3 DEF Leaves
<1> QED BY <1>4, Together

LEMMA StutterStep ==
  ASSUME PoolInv, UNCHANGED <<live, rows, job, turn, foreign, gone, removed, evicted>>
  PROVE  PoolInv'
<1>1. /\ Typed /\ live \in Lists /\ foreign \in [Proc -> Nat] /\ gone \in [Proc -> Nat]
      /\ removed \subseteq Cand
  BY DEF PoolInv, RowsInv, Typed
<1>2. /\ Usage(live') = Usage(live) /\ Usage(live) \in Nat /\ Shrinks
      /\ \A c \in Cand : RemainsHere(c)
  BY <1>1, Stands
<1>3. PICK o : o \notin Proc
  BY Outside
<1>4. Brings(o, 0, 0)
  BY <1>1, <1>2 DEF Brings
<1> QED BY <1>1, <1>2, <1>3, <1>4, OutsideStep

\* A torrent changes without changing its category or being hidden.
LEMMA AlterStep ==
  ASSUME PoolInv, NEW h \in DOMAIN live, NEW t \in Torrent, t.cat = live[h].cat,
         live[h].shown => t.shown, live' = [live EXCEPT ![h] = t],
         UNCHANGED <<rows, job, turn, foreign, gone, removed, evicted>>
  PROVE  PoolInv'
<1>1. Typed /\ live \in Lists /\ foreign \in [Proc -> Nat] /\ gone \in [Proc -> Nat]
      /\ removed \subseteq Cand
  BY DEF PoolInv, RowsInv, Typed
<1>2. /\ DOMAIN live' = DOMAIN live /\ live'[h] = t
      /\ \A g \in DOMAIN live : g # h => live'[g] = live[g]
      /\ live' = [g \in DOMAIN live' |-> live'[g]]
  BY <1>1, ListsAre
<1>3. live' \in Lists
  <2>1. \A g \in DOMAIN live' : live'[g] \in Torrent
    BY <1>1, <1>2, ListsAre
  <2> QED BY <1>1, <1>2, <2>1, ListsAre
<1>4. /\ Pooled(live') = Pooled(live)
      /\ \A g \in DOMAIN live : live'[g].cat = live[g].cat /\ (live[g].shown => live'[g].shown)
  BY <1>2 DEF Pooled
<1>5. Usage(live') = Usage(live) /\ Usage(live) \in Nat
  <2>1. Pooled(live) \in SUBSET Hash
    BY <1>1, ListsAre DEF Pooled
  <2> QED BY <1>4, <2>1, BytesLaws DEF Usage
<1>6. Shrinks /\ \A c \in Cand : RemainsHere(c)
  BY <1>2, <1>4 DEF Shrinks, RemainsHere, Pooled
<1>7. PICK o : o \notin Proc
  BY Outside
<1>8. Brings(o, 0, 0)
  BY <1>1, <1>5, <1>6 DEF Brings
<1> QED BY <1>1, <1>3, <1>6, <1>7, <1>8, OutsideStep

LEMMA ShowStep ==
  ASSUME PoolInv, NEW h \in Hash, Show(h)
  PROVE  PoolInv'
<1>1. h \in DOMAIN live /\ live[h] \in Torrent /\ live' = [live EXCEPT ![h].shown = TRUE]
      /\ UNCHANGED <<rows, job, turn, foreign, gone, removed, evicted>>
  BY ListsAre DEF Show, PoolInv, RowsInv, Typed
<1> DEFINE t == [live[h] EXCEPT !.shown = TRUE]
<1>2. t \in Torrent /\ t.cat = live[h].cat /\ t.shown
  BY <1>1 DEF Torrent
<1>3. live' = [live EXCEPT ![h] = t]
  BY <1>1
<1> HIDE DEF t
<1> QED BY <1>1, <1>2, <1>3, AlterStep

LEMMA TurnsStep ==
  ASSUME PoolInv, NEW h \in Hash, Turns(h)
  PROVE  PoolInv'
<1>1. h \in DOMAIN live /\ live[h] \in Torrent
      /\ UNCHANGED <<rows, job, turn, foreign, gone, removed, evicted>>
  BY ListsAre DEF Turns, PoolInv, RowsInv, Typed
<1>2. PICK k \in Kind : live' = [live EXCEPT ![h].kind = k]
  BY DEF Turns
<1> DEFINE t == [live[h] EXCEPT !.kind = k]
<1>3. t \in Torrent /\ t.cat = live[h].cat /\ t.shown = live[h].shown
  BY <1>1 DEF Torrent
<1>4. live' = [live EXCEPT ![h] = t]
  BY <1>2
<1> HIDE DEF t
<1> QED BY <1>1, <1>3, <1>4, AlterStep

\* Rows grow old only when the downloader shows all it holds and no listing is waiting.
LEMMA AgeStep ==
  ASSUME PoolInv, Age
  PROVE  PoolInv'
<1>1. Typed /\ RowsOK /\ \A p \in Proc : Own(p)
  BY DEF PoolInv, RowsInv, Own
<1>2. /\ UNCHANGED <<live, job, turn, foreign, gone, removed, evicted>>
      /\ \A p \in Proc : job[p].pc \notin {"sync", "prunesync", "final"}
      /\ \A h \in DOMAIN live : live[h].shown
  BY DEF Age
<1>3. rows' = [c \in Cand |-> IF c \in {d \in Cand : Ageing(rows[d])}
                              THEN [rows[c] EXCEPT !.old = TRUE] ELSE rows[c]]
  BY DEF Age, Fill
<1>4. ASSUME NEW c \in Cand
      PROVE  /\ rows'[c] \in RowRec /\ LinkedOK(rows'[c]) /\ Here(c)'
             /\ rows'[c].state = rows[c].state
  <2>1. rows[c] \in RowRec /\ LinkedOK(rows[c]) /\ Here(c)
    BY <1>1 DEF Typed, RowsOK
  <2>2. CASE Ageing(rows[c])
    <3> DEFINE r == [rows[c] EXCEPT !.old = TRUE]
    <3>1. r \in RowRec /\ r.state = rows[c].state /\ r.linked = rows[c].linked /\ r.old
      BY <2>1 DEF RowRec
    <3>2. rows'[c] = r
      BY <1>3, <2>2
    <3> HIDE DEF r
    <3>3. LinkedOK(r)
      BY <2>1, <2>2, <3>1 DEF LinkedOK, Ageing
    <3>4. Here(c)'
      BY <1>2, <2>1, <2>2, <3>1, <3>2 DEF Here, Ageing
    <3> QED BY <3>1, <3>2, <3>3, <3>4
  <2>3. CASE ~Ageing(rows[c])
    <3>1. rows'[c] = rows[c]
      BY <1>3, <2>3
    <3> QED BY <1>2, <2>1, <3>1 DEF Here
  <2> QED BY <2>2, <2>3
<1>5. Typed'
  <2>1. rows' \in [Cand -> RowRec]
    BY <1>3, <1>4
  <2> QED BY <1>1, <1>2, <2>1 DEF Typed
<1>6. RowsOK'
  <2>1. \A c \in evicted : Active(rows[c]) /\ c \in Cand
    BY <1>1 DEF RowsOK, Typed
  <2>2. \A c \in evicted' : Active(rows'[c])
    BY <1>2, <1>4, <2>1 DEF Active
  <2> QED BY <1>4, <2>2 DEF RowsOK
<1>7. ASSUME NEW p \in Proc PROVE Accounted(job[p])' /\ OutOK(job'[p]) /\ Swept(job'[p]) /\ BytesOK(p)'
  <2>1. Own(p) /\ job'[p] = job[p] /\ job[p].pc \notin {"sync", "prunesync", "final"}
    BY <1>1, <1>2
  <2>2. Accounted(job[p])'
    BY <1>2, <2>1 DEF Own, Accounted
  <2>3. BytesOK(p)'
    <3>1. /\ Usage(live') = Usage(live) /\ Usage(live) \in Nat /\ Shrinks
      BY <1>1, <1>2, Stands
    <3>2. PICK o : o \notin Proc
      BY Outside
    <3>3. Brings(o, 0, 0)
      BY <1>1, <1>2, <3>1 DEF Brings, Typed
    <3>4. live' \in Lists /\ RowsInv
      BY <1>5 DEF Typed, PoolInv
    <3> QED BY <2>1, <3>2, <3>3, <3>4, BytesLeft DEF Own
  <2> QED BY <2>1, <2>2, <2>3 DEF Own
<1> QED BY <1>5, <1>6, <1>7 DEF PoolInv, RowsInv

LEMMA MoveStep ==
  ASSUME PoolInv, NEW o, o \notin Proc, NEW h \in Pooled(live), NEW cat \in (Policy \cup {"other"}) \ {live[h].cat},
         live' = [live EXCEPT ![h].cat = cat],
         Others(o, IF cat = "other" THEN 0 ELSE Size[h], Size[h]),
         removed' = IF cat = "other" THEN removed \cup ({h} \cap Cand) ELSE removed,
         UNCHANGED <<rows, job, turn, evicted>>
  PROVE  PoolInv'
<1> DEFINE t == [live[h] EXCEPT !.cat = cat]  more == IF cat = "other" THEN 0 ELSE Size[h]
<1>1. Typed /\ live \in Lists /\ removed \subseteq Cand /\ h \in DOMAIN live /\ live[h] \in Torrent
      /\ live[h].cat \in Policy /\ Pooled(live) \in SUBSET Hash
  BY ListsAre DEF PoolInv, RowsInv, Typed, Pooled
<1>2. t \in Torrent /\ t.cat = cat
  BY <1>1 DEF Torrent
<1>3. live' = [live EXCEPT ![h] = t]
  OBVIOUS
<1> HIDE DEF t
<1>4. /\ DOMAIN live' = DOMAIN live /\ live'[h] = t
      /\ \A g \in DOMAIN live : g # h => live'[g] = live[g]
      /\ live' = [g \in DOMAIN live' |-> live'[g]]
  BY <1>1, <1>3, ListsAre
<1>5. live' \in Lists
  <2>1. \A g \in DOMAIN live' : live'[g] \in Torrent
    BY <1>1, <1>2, <1>4, ListsAre
  <2> QED BY <1>1, <1>4, <2>1, ListsAre
<1>6. /\ h \in Hash /\ Size[h] \in Nat /\ Size[h] > 0 /\ more \in Nat /\ Usage(live) \in Nat
      /\ Usage(live) = Size[h] + Bytes(Pooled(live) \ {h}) /\ Bytes(Pooled(live) \ {h}) \in Nat
  <2>1. h \in Hash /\ Pooled(live) \ {h} \in SUBSET Hash
    BY <1>1
  <2>2. /\ Size[h] \in Nat /\ Size[h] > 0
    BY <2>1, Constants
  <2> QED BY <1>1, <2>1, <2>2, BytesLaws DEF Usage
<1>7. /\ cat = "other" => Pooled(live') = Pooled(live) \ {h}
      /\ cat # "other" => Pooled(live') = Pooled(live) /\ cat \in Policy
  <2>1. ASSUME NEW g \in DOMAIN live, g # h PROVE g \in Pooled(live') <=> g \in Pooled(live)
    BY <1>4, <2>1 DEF Pooled
  <2>2. h \in Pooled(live') <=> cat \in Policy
    BY <1>1, <1>2, <1>4 DEF Pooled
  <2>3. cat \in Policy <=> cat # "other"
    BY Policies
  <2>4. Pooled(live') \subseteq DOMAIN live /\ Pooled(live) \subseteq DOMAIN live
    BY <1>4 DEF Pooled
  <2> DEFINE new == Pooled(live')  old == Pooled(live)
  <2>5. \A g : g # h => (g \in new <=> g \in old)
    BY <2>1, <2>4
  <2>6. h \in old /\ (h \in new <=> cat # "other")
    BY <2>2, <2>3
  <2> HIDE DEF new, old
  <2>7. /\ cat = "other" => new = old \ {h}
        /\ cat # "other" => new = old
    BY <2>5, <2>6
  <2> QED BY <2>3, <2>7 DEF new, old
<1>8. Usage(live') + Size[h] = Usage(live) + more
  <2>1. CASE cat = "other"
    <3>1. Usage(live') = Bytes(Pooled(live) \ {h}) /\ more = 0
      BY <1>7, <2>1 DEF Usage
    <3> HIDE DEF more
    <3> QED BY <1>6, <3>1
  <2>2. CASE cat # "other"
    <3>1. Usage(live') = Usage(live) /\ more = Size[h]
      BY <1>7, <2>2 DEF Usage
    <3> HIDE DEF more
    <3> QED BY <1>6, <3>1
  <2> QED BY <2>1, <2>2
<1>9. more = 0 => Shrinks
  <2>1. more = 0 => cat = "other"
    BY <1>6
  <2> QED BY <1>4, <1>7, <2>1 DEF Shrinks, Pooled
<1>10. Others(o, more, Size[h]) /\ (more = 0 <=> cat = "other")
  BY <1>6
<1> HIDE DEF more
<1>11. /\ foreign' \in [Proc -> Nat] /\ gone' \in [Proc -> Nat]
       /\ \A q \in Proc \ {o} :
            /\ foreign'[q] = foreign[q] + IF job[q].pc \in Looking THEN more ELSE 0
            /\ gone'[q] = gone[q] + IF job[q].pc \in Looking THEN Size[h] ELSE 0
  BY <1>1, <1>6, <1>10, Counting
<1>12. Brings(o, more, Size[h])
  BY <1>6, <1>8, <1>9, <1>11 DEF Brings
<1>13. removed \subseteq removed' /\ removed' \subseteq Cand /\ (cat = "other" /\ h \in Cand => h \in removed')
  BY <1>1
<1>14. ASSUME NEW c \in Cand PROVE RemainsHere(c)
  <2>1. CASE c = h
    <3>1. t.shown = live[h].shown
      BY <1>1 DEF t, Torrent
    <3> QED BY <1>2, <1>4, <1>7, <1>13, <2>1, <3>1 DEF RemainsHere
  <2>2. CASE c # h
    BY <1>4, <2>2 DEF RemainsHere
  <2> QED BY <2>1, <2>2
<1> QED BY <1>5, <1>11, <1>12, <1>13, <1>14, OutsideStep

LEMMA PersonStep ==
  ASSUME PoolInv, NEW h \in Hash, Person(h)
  PROVE  PoolInv'
<1>1. removed \subseteq Cand /\ UNCHANGED <<rows, job, turn, evicted>>
      /\ \A o : \A q \in Proc \ {o} : job'[q] = job[q]
  BY DEF Person, PoolInv, RowsInv, Typed
<1>2. PICK o : o = "a person" /\ o \notin Proc
  BY Outside
<1>3. CASE /\ h \in Users \ DOMAIN live
           /\ \E cat \in Policy : Arrives(h, cat, TRUE)
           /\ Others(o, Size[h], 0) /\ UNCHANGED removed
  <2>1. PICK cat \in Policy : Arrives(h, cat, TRUE)
    BY <1>3
  <2>2. PICK shown \in BOOLEAN : shown = TRUE
    OBVIOUS
  <2>3. Arrives(h, cat, shown) /\ h \in Hash \ DOMAIN live
    BY <1>3, <2>1, <2>2
  <2>4. Gained(o, h)
    BY <1>1, <1>3, <2>3, Gaining
  <2> QED BY <1>1, <1>3, <1>2, <2>4, OutsideStep DEF Gained
<1>4. CASE /\ h \in DOMAIN live /\ live' = Without(live, h)
           /\ Others(o, 0, InPool(h)) /\ removed' = removed \cup ({h} \cap Cand)
  <2>1. Lost(o, h)
    BY <1>1, <1>4, Losing
  <2>2. removed \subseteq removed' /\ removed' \subseteq Cand
    BY <1>1, <1>4
  <2> QED BY <1>1, <1>2, <2>1, <2>2, OutsideStep DEF Lost
<1>5. CASE /\ h \in Pooled(live)
           /\ \E cat \in (Policy \cup {"other"}) \ {live[h].cat} :
             /\ live' = [live EXCEPT ![h].cat = cat]
             /\ Others(o, IF cat = "other" THEN 0 ELSE Size[h], Size[h])
             /\ removed' = IF cat = "other" THEN removed \cup ({h} \cap Cand) ELSE removed
  BY <1>1, <1>5, <1>2, MoveStep
<1> QED BY <1>3, <1>4, <1>5, <1>2 DEF Person

-----------------------------------------------------------------------------
(* The theorems.                                                           *)

LEMMA InitPool == Init => PoolInv
<1> SUFFICES ASSUME Init PROVE PoolInv
  OBVIOUS
<1>1. Resting(Idle) /\ Idle.pc = "idle"
  BY Idles DEF Idle
<1>2. /\ Idle \in JobRec /\ Idle.list = <<>> /\ Idle.acc = {} /\ Idle.plan = <<>>
      /\ Idle.tied = {} /\ Idle.out = {} /\ Idle.pr.todo = {} /\ Idle.pr.cut = {}
      /\ Idle.pr.pol = 1 /\ Idle.pr.base = 0 /\ Idle.pr.size = 0 /\ Idle.pr.got = 0
      /\ Idle.pr.want = 0
  BY <1>1 DEF Resting, NoPrune
<1>3. /\ live = <<>> /\ rows = [c \in Cand |-> NoRow] /\ job = [p \in Proc |-> Idle]
      /\ turn = "guard" /\ foreign = [p \in Proc |-> 0] /\ gone = [p \in Proc |-> 0]
      /\ removed = {} /\ evicted = {}
  BY DEF Init
<1>4. /\ NoRow \in RowRec /\ ~NoRow.linked /\ ~NoRow.old /\ NoRow.state = "none"
  BY DEF NoRow, RowRec
<1>5. Typed
  BY <1>1, <1>2, <1>3, <1>4, NothingListed DEF Typed, InHand
<1>6. RowsOK
  BY <1>3, <1>4, NothingListed DEF RowsOK, LinkedOK, Here
<1>7. ASSUME NEW p \in Proc PROVE Accounted(job[p]) /\ OutOK(job[p]) /\ Swept(job[p]) /\ BytesOK(p)
  <2>1. job[p] = Idle
    BY <1>3
  <2>2. Accounted(job[p]) /\ OutOK(job[p])
    BY <1>1, <1>2, <2>1, NothingListed DEF Accounted, OutOK
  <2>3. Swept(job[p])
    BY <1>1, <1>2, <2>1, NothingListed DEF Swept, Sweeping
  <2>4. SumsOK(job[p]) /\ HandOK(p) /\ RoomOK(p)
    <3>1. SumsOK(Idle)
      BY <1>2, NothingListed DEF SumsOK
    <3> QED BY <1>1, <1>2, <2>1, <3>1, NothingListed DEF HandOK, RoomOK, At
  <2>5. StillOver(p) /\ NobodyAdds(p)
    BY <1>1, <2>1 DEF StillOver, NobodyAdds, At
  <2> QED BY <2>2, <2>3, <2>4, <2>5 DEF BytesOK
<1> QED BY <1>5, <1>6, <1>7 DEF PoolInv, RowsInv

LEMMA NextPool == PoolInv /\ [Next]_vars => PoolInv'
<1> SUFFICES ASSUME PoolInv, [Next]_vars PROVE PoolInv'
  OBVIOUS
<1>1. CASE UNCHANGED vars
  <2>1. UNCHANGED <<live, rows, job, turn, foreign, gone, removed, evicted>>
    BY <1>1 DEF vars
  <2> QED BY <2>1, StutterStep
<1>2. CASE Next
  <2>1. CASE Schedule \/ Command \/ Age
    BY <2>1, ScheduleStep, CommandStep, AgeStep
  <2>2. CASE Showing
    BY <2>2, ShowStep DEF Showing
  <2>3. CASE \E p \in Proc : Step(p) \/ Dies(p)
    BY <2>3, StepKeeps, DiesStep
  <2>4. CASE \E h \in Hash : Turns(h) \/ Person(h)
    BY <2>4, TurnsStep, PersonStep
  <2> QED BY <1>2, <2>1, <2>2, <2>3, <2>4 DEF Next
<1> QED BY <1>1, <1>2

\* The listings, rows and sums of every reachable state.
THEOREM PoolInvariant == PoolSpec => []PoolInv
BY InitPool, NextPool, PTL DEF PoolSpec

\* The types hold; a row says deleted only of what was taken away, and no run adds again
\* what was evicted before it began.
THEOREM RowsAreTrueHolds == PoolSpec => []RowsAreTrue
<1>1. ASSUME PoolInv PROVE RowsAreTrue
  <2>1. /\ live \in Lists /\ rows \in [Cand -> RowRec] /\ foreign \in [Proc -> Nat]
        /\ gone \in [Proc -> Nat]
    BY <1>1 DEF PoolInv, RowsInv, Typed
  <2>2. \A c \in Cand : LinkedOK(rows[c]) /\ Here(c)
    BY <1>1 DEF PoolInv, RowsInv, RowsOK
  <2>3. \A p \in Proc : Swept(job[p]) /\ OutOK(job[p])
    BY <1>1 DEF PoolInv, RowsInv
  <2>4. DOMAIN live \subseteq Hash /\ \A h \in DOMAIN live : live[h] \in Torrent
    BY <2>1, ListsAre
  <2>5. \A p \in Proc : Pooled(job[p].list) = DOMAIN job[p].list /\ foreign[p] >= 0 /\ gone[p] >= 0
    BY <2>1, <2>3 DEF Swept
  <2>6. PoolTypeOK
    BY <2>1, <2>2, <2>4, <2>5 DEF PoolTypeOK, Torrent, RowRec, LinkedOK
  <2>7. EvictedStaysOut
    BY <2>3 DEF EvictedStaysOut, OutOK
  <2>8. AliveNotDeleted
    BY <2>2 DEF AliveNotDeleted, Here
  <2> QED BY <2>6, <2>7, <2>8 DEF RowsAreTrue
<1> QED BY <1>1, PoolInvariant, PTL

\* What is added fits, and what is evicted unforced is in the way, as the pool is when the
\* decision takes effect, but for what others added or took in between.
THEOREM DecisionsStillRightHolds == PoolSpec => []DecisionsStillRight
<1>1. ASSUME PoolInv PROVE DecisionsStillRight
  <2>1. Typed /\ \A p \in Proc : BytesOK(p) /\ job[p] \in JobRec /\ gone[p] \in Nat
    BY <1>1 DEF PoolInv, RowsInv, Typed
  <2>2. WithinPlan
    BY <2>1 DEF WithinPlan, BytesOK, RoomOK
  <2>3. ASSUME NEW p \in Proc, At(p, "delete"), job[p].pr.cur.class = "evict", ~job[p].pr.force
        PROVE  Usage(live) + gone[p] > Cap
    <3>1. Needs(p)
      BY <2>1, <2>3 DEF BytesOK, HandOK
    <3>2. Over(job[p].list) /\ job[p].pr.base + job[p].pr.got < Demand(job[p]) /\ job[p].pr.want = 0
      BY <2>1, <2>3, <3>1, NeedsIs DEF Lacks, BytesOK, SumsOK
    <3>3. /\ job[p].pr.base \in Nat /\ job[p].pr.got \in Nat /\ Usage(job[p].list) \in Nat
          /\ Cap \in Nat /\ Demand(job[p]) \in {job[p].pr.want, Usage(job[p].list) - Cap}
      BY <2>1, SumsAre
    <3>4. job[p].pr.base + job[p].pr.got < Usage(job[p].list) - Cap
      BY <3>2, <3>3
    <3>5. Usage(job[p].list) <= Usage(live) + gone[p] + job[p].pr.base + job[p].pr.got
      BY <2>1, <2>3, <3>1 DEF BytesOK, StillOver
    <3>6. Usage(live) \in Nat /\ gone[p] \in Nat
      <4>1. Pooled(live) \in SUBSET Hash
        BY <2>1, ListsAre DEF Typed, Pooled
      <4> QED BY <2>1, <4>1, BytesLaws DEF Usage
    <3> QED BY <3>3, <3>4, <3>5, <3>6
  <2> QED BY <2>2, <2>3 DEF DecisionsStillRight, NoNeedlessEviction
<1> QED BY <1>1, PoolInvariant, PTL

\* A prune that found the pool over its maximum leaves it within, unless others added.
THEOREM CapReachedHolds == PoolSpec => []CapReached
<1>1. ASSUME PoolInv PROVE CapReached
  <2>1. \A p \in Proc : BytesOK(p) /\ foreign[p] \in Nat
    BY <1>1 DEF PoolInv, RowsInv, Typed
  <2>2. \A p \in Proc : At(p, "final") /\ foreign[p] = 0 => ~Over(job[p].list)
    BY <2>1 DEF BytesOK, NobodyAdds
  <2> QED BY <2>1, <2>2 DEF CapReached
<1> QED BY <1>1, PoolInvariant, PTL

==============================================================================
