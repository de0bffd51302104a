------------------------- MODULE MediaLibrary_proofs -------------------------
(***************************************************************************)
(* Proofs about the media library: MediaInventory, MediaImport,            *)
(* MediaCleanup and SeriesReview, for any sets of paths, fingerprints and  *)
(* row identifiers, finite or not, any library, any number of sources,     *)
(* artifacts and configurations, and any number of deaths.                 *)
(***************************************************************************)
EXTENDS MediaCleanup, SeriesReview, WellFoundedInduction, FiniteSetTheorems, TLAPS

-----------------------------------------------------------------------------
(* The latest generation of a path. *)

\* A bounded, non-empty set of naturals has a greatest element.
LEMMA GreatestNatural ==
  ASSUME NEW S \in SUBSET Nat, S # {}, NEW B \in Nat, \A n \in S : n <= B
  PROVE  \E m \in S : \A n \in S : n <= m
<1> DEFINE T == {B - n : n \in S}
<1>1. T \subseteq Nat
  <2> SUFFICES ASSUME NEW n \in S PROVE B - n \in Nat
    OBVIOUS
  <2> QED OBVIOUS
<1>2. T # {}
  OBVIOUS
<1>3. PICK x \in T : \A y \in T : ~ (<<y, x>> \in OpToRel(<, Nat))
  BY <1>1, <1>2, NatLessThanWellFounded, WFMin
<1>4. \A y \in T : ~(y < x)
  BY <1>1, <1>3 DEF OpToRel
<1>5. PICK m \in S : x = B - m
  OBVIOUS
<1>6. \A n \in S : n <= m
  <2> SUFFICES ASSUME NEW n \in S PROVE n <= m
    OBVIOUS
  <2>1. ~(B - n < B - m)
    BY <1>4, <1>5
  <2> QED BY <2>1
<1> QED BY <1>6

\* Generations are bounded, however many rows there are.
GenBounded == \E B \in Nat : \A r \in Known : row[r].gen <= B

\* A path that has any row has a latest one.
LEMMA LatestExists ==
  ASSUME TypeOK, GenBounded, NEW q \in Known
  PROVE  \E r \in Latest(row[q].path) : row[q].gen <= row[r].gen
<1> DEFINE here == {r \in Known : row[r].path = row[q].path}
           S == {row[r].gen : r \in here}
<1>1. \A r \in Known : row[r].gen \in Nat
  BY DEF TypeOK, RowRec, Known
<1>2. S \in SUBSET Nat /\ S # {}
  BY <1>1
<1>3. PICK B \in Nat : \A r \in Known : row[r].gen <= B
  BY DEF GenBounded
<1>4. \A n \in S : n <= B
  BY <1>3
<1>5. PICK m \in S : \A n \in S : n <= m
  BY <1>2, <1>4, GreatestNatural
<1>6. PICK r \in here : row[r].gen = m
  OBVIOUS
<1>7. r \in Latest(row[q].path) /\ row[q].gen <= row[r].gen
  BY <1>5, <1>6 DEF Latest
<1> QED BY <1>7

-----------------------------------------------------------------------------
(* What one publication does to one row. *)

\* A new row is the first observation of a path nothing else stands for.
LEMMA PublishedFresh ==
  ASSUME NEW inv, NEW fresh \in Fresh(inv), NEW p \in NewPaths(inv)
  PROVE  /\ fresh[p] \in Row \ Known
         /\ Published(inv, fresh)[fresh[p]] = FirstSeen(inv, p)
<1>1. fresh \in [NewPaths(inv) -> Row \ Known] /\ IsInjective(fresh)
  BY DEF Fresh
<1>2. \A q \in NewPaths(inv) : fresh[q] = fresh[p] => q = p
  BY <1>1 DEF IsInjective
<1>3. (CHOOSE q \in NewPaths(inv) : fresh[q] = fresh[p]) = p
  BY <1>2
<1>4. \A q \in Path : fresh[p] \notin Kept(inv, q) /\ fresh[p] \notin Relocated(inv, q)
  BY <1>1 DEF Kept, Latest, Relocated, Aliases, Live
<1>5. fresh[p] \notin Live
  BY <1>1 DEF Live
<1> QED BY <1>1, <1>3, <1>4, <1>5, Zenon DEF Published

\* A row that no path got keeps out of the table.
LEMMA PublishedUnknown ==
  ASSUME NEW inv, NEW fresh \in Fresh(inv), NEW r \in Row \ Known,
         \A p \in NewPaths(inv) : fresh[p] # r
  PROVE  Published(inv, fresh)[r] = row[r]
<1>1. \A q \in Path : r \notin Kept(inv, q) /\ r \notin Relocated(inv, q)
  BY DEF Kept, Latest, Relocated, Aliases, Live
<1>2. r \notin Live
  BY DEF Live
<1> QED BY <1>1, <1>2, Zenon DEF Published

\* A saturating counter stays below its cap.
LEMMA CappedBounds ==
  ASSUME NEW n \in Nat, NEW cap \in Nat
  PROVE  Capped(n, cap) \in 0..cap
BY DEF Capped

\* A row that is there keeps its generation and its fingerprint, and its path unless it
\* is relocated.
LEMMA PublishedKnown ==
  ASSUME TypeOK, NEW inv, NEW fresh \in Fresh(inv), NEW r \in Known
  PROVE  LET new == Published(inv, fresh)[r]
         IN  /\ new \in RowRec
             /\ new.status # "none"
             /\ new.gen = row[r].gen /\ new.fp = row[r].fp
             /\ \/ new.path = row[r].path
                \/ \E p \in Path : r \in Relocated(inv, p) /\ new.path = p
             /\ row[r].status = "removed" => new = row[r]
<1> DEFINE new == Published(inv, fresh)[r]
<1>1. row[r] \in RowRec /\ r \in Row /\ row[r].status # "none"
  BY DEF TypeOK, Known
<1>2. \A p \in NewPaths(inv) : fresh[p] # r
  BY DEF Fresh
<1>3. MissingScans \in Nat
  BY InventoryAssumption
<1>4. Observed(row[r]) \in RowRec
  <2>1. row[r].stable + 1 \in Nat
    BY <1>1 DEF RowRec, StableEnough
  <2>2. Capped(row[r].stable + 1, StableEnough) \in 0..StableEnough
    BY <2>1, CappedBounds DEF StableEnough
  <2>3. 0 \in 0..MissingScans
    BY <1>3
  <2> QED BY <1>1, <2>2, <2>3 DEF Observed, RowRec
<1>5. Unseen(inv, r) \in RowRec /\ Unseen(inv, r).status # "none"
  <2>1. row[r].missing + 1 \in Nat
    BY <1>1, <1>3 DEF RowRec
  <2>2. Capped(row[r].missing + 1, MissingScans) \in 0..MissingScans
    BY <2>1, <1>3, CappedBounds
  <2> QED BY <1>1, <2>2 DEF Unseen, RowRec, SourceStatus
<1>6. CASE \E p \in Path : r \in Kept(inv, p)
  <2>1. r \in Live
    BY <1>6 DEF Kept
  <2>2. \A p \in Path : r \notin Relocated(inv, p)
    BY <1>6, <1>1 DEF Kept, Latest, Relocated, Aliases
  <2>3. new = Observed(row[r])
    BY <1>2, <1>6, <2>2, <1>1, Zenon DEF Published
  <2>4. /\ new.status = row[r].status /\ new.gen = row[r].gen
        /\ new.path = row[r].path /\ new.fp = row[r].fp
    BY <1>1, <2>3 DEF Observed, RowRec
  <2> QED BY <1>1, <1>4, <2>1, <2>3, <2>4 DEF Live
<1>7. CASE \E p \in Path : r \in Relocated(inv, p)
  <2> DEFINE there == CHOOSE p \in Path : r \in Relocated(inv, p)
  <2>1. there \in Path /\ r \in Relocated(inv, there)
    BY <1>7
  <2>2. r \in Live /\ \A p \in Path : r \notin Kept(inv, p)
    BY <1>7, <1>1 DEF Kept, Latest, Relocated, Aliases
  <2>3. new = [Observed(row[r]) EXCEPT !.path = there]
    BY <1>2, <1>7, <2>2, <1>1, Zenon DEF Published
  <2>4. /\ new \in RowRec /\ new.status = row[r].status
        /\ new.gen = row[r].gen /\ new.path = there /\ new.fp = row[r].fp
    BY <1>1, <1>4, <2>1, <2>3 DEF Observed, RowRec
  <2> QED BY <1>1, <2>1, <2>2, <2>4 DEF Live
<1>8. CASE \A p \in Path : r \notin Kept(inv, p) /\ r \notin Relocated(inv, p)
  <2>1. CASE r \in Live
    <3>1. new = Unseen(inv, r)
      BY <1>2, <1>8, <2>1, <1>1, Zenon DEF Published
    <3>2. new.gen = row[r].gen /\ new.path = row[r].path /\ new.fp = row[r].fp
      BY <1>1, <3>1 DEF Unseen, RowRec
    <3> QED BY <1>5, <2>1, <3>1, <3>2 DEF Live
  <2>2. CASE r \notin Live
    <3>1. new = row[r]
      BY <1>2, <1>8, <2>2, <1>1, Zenon DEF Published
    <3> QED BY <1>1, <3>1
  <2> QED BY <2>1, <2>2
<1> QED BY <1>6, <1>7, <1>8

-----------------------------------------------------------------------------
(* A publication. *)

\* The key of the table and the bound of its generations, with the types.
IInv == TypeOK /\ KeyUnique /\ GenBounded

\* A path's first observation takes a generation above all the path ever had.
LEMMA FirstSeenIsNew ==
  ASSUME IInv, NEW inv \in Inventory, NEW p \in NewPaths(inv)
  PROVE  /\ FirstSeen(inv, p) \in RowRec
         /\ FirstSeen(inv, p).status # "none"
         /\ FirstSeen(inv, p).path = p
         /\ \A q \in Known : row[q].path = p => row[q].gen < FirstSeen(inv, p).gen
         /\ \A B \in Nat : (\A r \in Known : row[r].gen <= B)
                             => FirstSeen(inv, p).gen <= B + 1
<1> DEFINE new == FirstSeen(inv, p)
           last == CHOOSE r \in Latest(p) : TRUE
<1>1. p \in Path /\ inv[p] \in Ident \cup {None}
  BY DEF NewPaths, Inventory
<1>2. \A r \in Known : r \in Row /\ row[r].gen \in Nat
  BY DEF IInv, TypeOK, RowRec, Known
<1>3. MissingScans \in Nat
  BY InventoryAssumption
<1>4. /\ new.path = p /\ new.status # "none"
      /\ new.gen \in Nat => new \in RowRec
  BY <1>1, <1>3 DEF FirstSeen, RowRec, SourceStatus, StableEnough
<1>5. CASE Latest(p) = {}
  <2>1. new.gen = 1
    BY <1>5 DEF FirstSeen
  <2>2. \A q \in Known : row[q].path # p
    BY <1>5, LatestExists DEF IInv
  <2> QED BY <1>4, <2>1, <2>2
<1>6. CASE Latest(p) # {}
  <2>1. last \in Latest(p)
    BY <1>6
  <2>2. last \in Known /\ \A q \in Known : row[q].path = p => row[q].gen <= row[last].gen
    BY <2>1 DEF Latest
  <2>3. new.gen = row[last].gen + 1
    BY <1>6 DEF FirstSeen
  <2>4. ASSUME NEW q \in Known, row[q].path = p
        PROVE  row[q].gen < new.gen
    <3> HIDE DEF new, last
    <3> QED BY <1>2, <2>2, <2>3, <2>4
  <2>5. \A B \in Nat : (\A r \in Known : row[r].gen <= B) => new.gen <= B + 1
    <3> HIDE DEF new, last
    <3> QED BY <1>2, <2>2, <2>3
  <2>6. new.gen \in Nat
    BY <1>2, <2>2, <2>3
  <2> QED BY <1>4, <2>4, <2>5, <2>6
<1> QED BY <1>5, <1>6

LEMMA PublishedInvariant ==
  ASSUME IInv, NEW inv \in Inventory, ~KeyClash(inv),
         NEW fresh \in Fresh(inv), row' = Published(inv, fresh)
  PROVE  row' \in [Row -> RowRec] /\ KeyUnique' /\ GenBounded'
<1> DEFINE Stays(r) == r \in Known /\ row'[r].path = row[r].path
           Moves(r) == r \in Known /\ \E p \in Path : r \in Relocated(inv, p) /\ row'[r].path = p
           Arrives(r) == \E p \in NewPaths(inv) : fresh[p] = r
<1>1. ASSUME NEW r \in Known
      PROVE  /\ row'[r] \in RowRec /\ row'[r].gen = row[r].gen
             /\ Stays(r) \/ Moves(r)
  BY PublishedKnown DEF IInv
<1>2. ASSUME NEW p \in NewPaths(inv)
      PROVE  row'[fresh[p]] = FirstSeen(inv, p) /\ fresh[p] \in Row \ Known
  BY PublishedFresh
<1>3. ASSUME NEW r \in Row \ Known, ~Arrives(r)
      PROVE  row'[r] = row[r]
  BY <1>3, PublishedUnknown
<1>4. row' \in [Row -> RowRec]
  <2>1. row' = [r \in Row |-> row'[r]]
    BY DEF Published
  <2>2. ASSUME NEW r \in Row PROVE row'[r] \in RowRec
    <3>1. CASE r \in Known
      BY <3>1, <1>1
    <3>2. CASE Arrives(r)
      BY <3>2, <1>2, FirstSeenIsNew
    <3>3. CASE r \notin Known /\ ~Arrives(r)
      BY <3>3, <1>3 DEF IInv, TypeOK
    <3> QED BY <3>1, <3>2, <3>3
  <2> QED BY <2>1, <2>2
<1>5. \A r \in Known' : Stays(r) \/ Moves(r) \/ Arrives(r)
  <2> SUFFICES ASSUME NEW r \in Row, row'[r].status # "none", r \notin Known, ~Arrives(r)
               PROVE  FALSE
    BY <1>1 DEF Known
  <2> QED BY <1>3 DEF Known
<1>6. KeyUnique'
  <2> SUFFICES ASSUME NEW r \in Known', NEW q \in Known',
                      row'[r].path = row'[q].path, row'[r].gen = row'[q].gen, r # q
               PROVE  FALSE
    BY DEF KeyUnique
  <2>1. CASE Stays(r) /\ Stays(q)
    BY <2>1, <1>1 DEF IInv, KeyUnique
  <2>2. CASE Moves(r) /\ Stays(q)
    <3>1. PICK p \in Path : r \in Relocated(inv, p) /\ row'[r].path = p
      BY <2>2
    <3>2. q \in Known \ {r} /\ row[q].path = p
      BY <2>2, <3>1
    <3>3. row[q].gen = row[r].gen
      BY <2>2, <1>1
    <3> QED BY <3>1, <3>2, <3>3 DEF KeyClash
  <2>3. CASE Stays(r) /\ Moves(q)
    <3>1. PICK p \in Path : q \in Relocated(inv, p) /\ row'[q].path = p
      BY <2>3
    <3>2. r \in Known \ {q} /\ row[r].path = p
      BY <2>3, <3>1
    <3>3. row[r].gen = row[q].gen
      BY <2>3, <1>1
    <3> QED BY <3>1, <3>2, <3>3 DEF KeyClash
  <2>4. CASE Moves(r) /\ Moves(q)
    <3>1. PICK p \in Path : r \in Relocated(inv, p) /\ q \in Relocated(inv, p)
      BY <2>4
    <3> QED BY <3>1 DEF Relocated
  <2>5. CASE Arrives(r) /\ Arrives(q)
    <3>1. PICK p \in NewPaths(inv) : fresh[p] = r
      BY <2>5
    <3>2. PICK u \in NewPaths(inv) : fresh[u] = q
      BY <2>5
    <3>3. row'[r].path = p /\ row'[q].path = u
      BY <1>2, <3>1, <3>2, FirstSeenIsNew
    <3> QED BY <3>1, <3>2, <3>3
  <2>6. ASSUME NEW a \in Row, NEW b \in Known, Arrives(a), Stays(b) \/ Moves(b),
               row'[a].path = row'[b].path, row'[a].gen = row'[b].gen
        PROVE  FALSE
    <3>1. PICK p \in NewPaths(inv) : fresh[p] = a
      BY <2>6
    <3>2. row'[a].path = p /\ row'[a].gen = FirstSeen(inv, p).gen
      BY <1>2, <3>1, FirstSeenIsNew
    <3>3. CASE Stays(b)
      <4>1. row[b].gen < FirstSeen(inv, p).gen
        BY <2>6, <3>2, <3>3, FirstSeenIsNew
      <4>2. row[b].gen \in Nat
        BY DEF IInv, TypeOK, RowRec, Known
      <4>3. row[b].gen = FirstSeen(inv, p).gen
        BY <1>1, <2>6, <3>2
      <4> QED BY <4>1, <4>2, <4>3
    <3>4. CASE Moves(b)
      BY <2>6, <3>2, <3>4 DEF NewPaths
    <3> QED BY <2>6, <3>3, <3>4
  <2>7. CASE Arrives(r) /\ (Stays(q) \/ Moves(q))
    BY <2>6, <2>7 DEF Known
  <2>8. CASE (Stays(r) \/ Moves(r)) /\ Arrives(q)
    BY <2>6, <2>8 DEF Known
  <2> QED BY <1>5, <2>1, <2>2, <2>3, <2>4, <2>5, <2>7, <2>8
<1>7. GenBounded'
  <2>1. PICK B \in Nat : \A r \in Known : row[r].gen <= B
    BY DEF IInv, GenBounded
  <2>2. ASSUME NEW r \in Known' PROVE row'[r].gen <= B + 1
    <3>1. CASE r \in Known
      <4>1. row[r].gen \in Nat /\ row[r].gen <= B
        BY <2>1, <3>1 DEF IInv, TypeOK, RowRec, Known
      <4> QED BY <1>1, <3>1, <4>1
    <3>2. CASE Arrives(r)
      BY <1>2, <2>1, <3>2, FirstSeenIsNew
    <3> QED BY <1>5, <3>1, <3>2
  <2> QED BY <2>2 DEF GenBounded
<1> QED BY <1>4, <1>6, <1>7
-----------------------------------------------------------------------------
(* The specification. *)

\* No row, no walk: nothing to be unique or bounded.
LEMMA InitInvariant == Init => IInv
<1> SUFFICES ASSUME Init PROVE IInv
  OBVIOUS
<1>1. Known = {}
  BY DEF Init, Known, NoRow
<1>2. NoRow \in RowRec
  BY InventoryAssumption DEF NoRow, RowRec, SourceStatus, StableEnough
<1>3. TypeOK
  BY <1>2 DEF Init, TypeOK, NoWalk, Inventory
<1> QED BY <1>1, <1>3 DEF IInv, KeyUnique, GenBounded

\* Changing a live row's status or age leaves the keys of the table alone.
LEMMA KeysUntouched ==
  ASSUME IInv, NEW r \in Known, NEW new \in RowRec,
         row' = [row EXCEPT ![r] = new], new.status # "none",
         new.path = row[r].path, new.gen = row[r].gen
  PROVE  row' \in [Row -> RowRec] /\ KeyUnique' /\ GenBounded'
<1>1. row \in [Row -> RowRec] /\ r \in Row
  BY DEF IInv, TypeOK, Known
<1>2. row' \in [Row -> RowRec]
  BY <1>1
<1>3. /\ Known' = Known
      /\ \A q \in Known : row'[q].path = row[q].path /\ row'[q].gen = row[q].gen
  BY <1>1 DEF Known
<1>4. KeyUnique'
  BY <1>3 DEF IInv, KeyUnique
<1>5. GenBounded'
  BY <1>3 DEF IInv, GenBounded
<1> QED BY <1>2, <1>4, <1>5

LEMMA StepInvariant == IInv /\ [Next]_inventoryVars => IInv'
<1> SUFFICES ASSUME IInv, [Next]_inventoryVars PROVE IInv'
  OBVIOUS
<1>0. TypeOK
  BY DEF IInv
<1>1. ASSUME UNCHANGED row, disk' \in Inventory,
             walk' \in [unread : SUBSET Path, inv : Inventory],
             outcome' \in {"none", "running", "failed", "complete", "rejected"}
      PROVE  IInv'
  BY <1>1 DEF IInv, TypeOK, KeyUnique, GenBounded, Known
<1>2. ASSUME UNCHANGED <<disk, walk, outcome>>, row' \in [Row -> RowRec],
             KeyUnique', GenBounded'
      PROVE  IInv'
  BY <1>0, <1>2 DEF IInv, TypeOK
<1>3. CASE BeginScan
  BY <1>0, <1>1, <1>3 DEF BeginScan, TypeOK, NoWalk, Inventory
<1>4. CASE \E p \in Path : ReadPath(p)
  <2>1. PICK p \in Path : ReadPath(p)
    BY <1>4
  <2>2. walk'.unread \in SUBSET Path /\ walk'.inv \in Inventory
        /\ walk' \in [unread : SUBSET Path, inv : Inventory]
    BY <1>0, <2>1 DEF ReadPath, TypeOK, Inventory
  <2> QED BY <1>0, <1>1, <2>1, <2>2 DEF ReadPath, TypeOK
<1>5. CASE FailScan
  BY <1>0, <1>1, <1>5 DEF FailScan, TypeOK, NoWalk, Inventory
<1>6. CASE Publish
  <2>1. PICK fresh \in Fresh(walk.inv) : row' = Published(walk.inv, fresh)
    BY <1>6 DEF Publish
  <2>2. walk.inv \in Inventory /\ ~KeyClash(walk.inv)
    BY <1>0, <1>6 DEF Publish, TypeOK
  <2>3. row' \in [Row -> RowRec] /\ KeyUnique' /\ GenBounded'
    BY <2>1, <2>2, PublishedInvariant
  <2> QED BY <1>0, <1>6, <2>3 DEF Publish, IInv, TypeOK
<1>7. CASE PublishRejected
  BY <1>0, <1>1, <1>7 DEF PublishRejected, TypeOK
<1>8. CASE \E r \in Row : Imported(r)
  <2>1. PICK r \in Row : Imported(r)
    BY <1>8
  <2> DEFINE new == [row[r] EXCEPT !.status = "imported"]
  <2>2. r \in Known /\ row[r] \in RowRec
    BY <1>0, <2>1 DEF Imported, Live, TypeOK, Known
  <2>3. /\ new \in RowRec /\ new.status # "none"
        /\ new.path = row[r].path /\ new.gen = row[r].gen
    BY <2>2 DEF RowRec, SourceStatus
  <2>4. row' = [row EXCEPT ![r] = new]
    BY <2>1 DEF Imported
  <2>5. row' \in [Row -> RowRec] /\ KeyUnique' /\ GenBounded'
    BY <2>2, <2>3, <2>4, KeysUntouched
  <2> QED BY <1>2, <2>1, <2>5 DEF Imported
<1>9. CASE \E r \in Row : Tombstone(r)
  <2>1. PICK r \in Row : Tombstone(r)
    BY <1>9
  <2> DEFINE new == [row[r] EXCEPT !.status = "removed"]
  <2>2. r \in Known /\ row[r] \in RowRec
    BY <1>0, <2>1 DEF Tombstone, Live, TypeOK, Known
  <2>3. /\ new \in RowRec /\ new.status # "none"
        /\ new.path = row[r].path /\ new.gen = row[r].gen
    BY <2>2 DEF RowRec, SourceStatus
  <2>4. row' = [row EXCEPT ![r] = new]
    BY <2>1 DEF Tombstone
  <2>5. row' \in [Row -> RowRec] /\ KeyUnique' /\ GenBounded'
    BY <2>2, <2>3, <2>4, KeysUntouched
  <2> QED BY <1>2, <2>1, <2>5 DEF Tombstone
<1>10. CASE \E r \in Row : GracePasses(r)
  <2>1. PICK r \in Row : GracePasses(r)
    BY <1>10
  <2> DEFINE new == [row[r] EXCEPT !.aged = TRUE]
  <2>2. r \in Known /\ row[r] \in RowRec
    BY <1>0, <2>1 DEF GracePasses, Live, TypeOK, Known
  <2>3. /\ new \in RowRec /\ new.status # "none"
        /\ new.path = row[r].path /\ new.gen = row[r].gen
    BY <2>2 DEF RowRec, Known
  <2>4. row' = [row EXCEPT ![r] = new]
    BY <2>1 DEF GracePasses
  <2>5. row' \in [Row -> RowRec] /\ KeyUnique' /\ GenBounded'
    BY <2>2, <2>3, <2>4, KeysUntouched
  <2> QED BY <1>2, <2>1, <2>5 DEF GracePasses
<1>11. CASE \E p \in Path, v \in Ident \cup {None} : TouchSource(p, v)
  <2>1. disk' \in Inventory /\ UNCHANGED <<row, walk, outcome>>
    BY <1>0, <1>11 DEF TouchSource, TypeOK, Inventory
  <2> QED BY <1>0, <1>1, <2>1 DEF TypeOK
<1>12. CASE UNCHANGED inventoryVars
  BY <1>0, <1>1, <1>12 DEF inventoryVars, TypeOK
<1> QED BY <1>3, <1>4, <1>5, <1>6, <1>7, <1>8, <1>9, <1>10, <1>11, <1>12 DEF Next

LEMMA Invariant == Spec => []IInv
BY InitInvariant, StepInvariant, PTL DEF Spec

\* The rows and the traversal keep their types through every scan, however many
\* paths, fingerprints and rows there are.
THEOREM TypeCorrect == Spec => []TypeOK
<1>1. IInv => TypeOK
  BY DEF IInv
<1> QED BY <1>1, Invariant, PTL

\* media_source_files never violates UNIQUE(profile, path, generation): the only
\* rename that would is the one publish does not get through.
THEOREM KeyUniqueHolds == Spec => []KeyUnique
<1>1. IInv => KeyUnique
  BY DEF IInv
<1> QED BY <1>1, Invariant, PTL

\* No scan, import or cleanup writes a removed row again.
THEOREM TombstonesStayHolds == Spec => TombstonesStay
<1> DEFINE Stay == \A r \in Row : row[r].status = "removed" => row'[r] = row[r]
<1>1. IInv /\ [Next]_inventoryVars => [Stay]_inventoryVars
  <2> SUFFICES ASSUME IInv, Next, NEW r \in Row, row[r].status = "removed"
               PROVE  row'[r] = row[r]
    BY DEF inventoryVars
  <2>0. row \in [Row -> RowRec] /\ r \in Known /\ r \notin Live
    BY DEF IInv, TypeOK, Known, Live
  <2>1. CASE Publish
    <3>1. PICK fresh \in Fresh(walk.inv) : row' = Published(walk.inv, fresh)
      BY <2>1 DEF Publish
    <3> QED BY <2>0, <3>1, PublishedKnown DEF IInv
  <2>2. CASE \E q \in Row : Imported(q) \/ Tombstone(q) \/ GracePasses(q)
    BY <2>0, <2>2 DEF Imported, Tombstone, GracePasses
  <2>3. CASE UNCHANGED row
    BY <2>3
  <2> QED
    BY <2>1, <2>2, <2>3
    DEF Next, BeginScan, ReadPath, FailScan, PublishRejected, TouchSource
<1> QED BY <1>1, Invariant, PTL DEF Spec, TombstonesStay

-----------------------------------------------------------------------------
(* The snapshot. *)

\* The live rows of a path that are not counted missing.
Present(p) == {r \in Live : row[r].path = p /\ row[r].missing = 0}

\* What SnapshotAgreement says of one path, without counting.
AgreesAt(p) ==
  IF walk.inv[p] = None THEN Present(p) = {}
  ELSE \E r \in Row : Present(p) = {r} /\ row[r].fp = walk.inv[p]

Agrees == outcome = "complete" => \A p \in Path : AgreesAt(p)

LEMMA AgreesCounted == Agrees => SnapshotAgreement
<1> SUFFICES ASSUME Agrees, outcome = "complete", NEW p \in Path
             PROVE  IF walk.inv[p] = None THEN Present(p) = {}
                    ELSE /\ Cardinality(Present(p)) = 1
                         /\ \A r \in Present(p) : row[r].fp = walk.inv[p]
  BY DEF SnapshotAgreement, Present
<1>1. CASE walk.inv[p] = None
  BY <1>1 DEF Agrees, AgreesAt
<1>2. CASE walk.inv[p] # None
  <2>1. PICK r \in Row : Present(p) = {r} /\ row[r].fp = walk.inv[p]
    BY <1>2 DEF Agrees, AgreesAt
  <2>2. Cardinality(Present(p)) = 1
    BY <2>1, FS_Singleton
  <2> QED BY <1>2, <2>1, <2>2
<1> QED BY <1>1, <1>2

\* A path has one kept row or one relocated row, or none of either.
LEMMA OneStandsFor ==
  ASSUME IInv, NEW inv \in Inventory, NEW p \in Path, NEW r \in Row, NEW q \in Row,
         r \in Kept(inv, p) \cup Relocated(inv, p), q \in Kept(inv, p) \cup Relocated(inv, p)
  PROVE  r = q
<1>1. CASE Kept(inv, p) = {}
  BY <1>1 DEF Relocated
<1>2. CASE Kept(inv, p) # {}
  <2>1. r \in Latest(p) /\ q \in Latest(p)
    BY <1>2 DEF Relocated, Kept
  <2>2. r \in Known /\ q \in Known /\ row[r].path = row[q].path
    BY <2>1 DEF Latest
  <2>3. row[q].gen <= row[r].gen /\ row[r].gen <= row[q].gen
    BY <2>1 DEF Latest
  <2>4. row[r].gen \in Nat /\ row[q].gen \in Nat
    BY DEF IInv, TypeOK, RowRec
  <2>5. row[r].gen = row[q].gen
    BY <2>3, <2>4
  <2> QED BY <2>2, <2>5 DEF IInv, KeyUnique
<1> QED BY <1>1, <1>2

\* A row stands for the path it was kept or relocated for, and for no other.
LEMMA PublishedPresent ==
  ASSUME IInv, NEW inv \in Inventory, NEW fresh \in Fresh(inv), NEW r \in Known
  PROVE  LET new == Published(inv, fresh)[r]
         IN  /\ \A p \in Path : r \in Kept(inv, p) \cup Relocated(inv, p) =>
                  /\ new.status \notin {"none", "removed"} /\ new.path = p
                  /\ new.missing = 0 /\ new.fp = inv[p] /\ inv[p] # None
             /\ (\A p \in Path : r \notin Kept(inv, p) \cup Relocated(inv, p)) =>
                  new.status \in {"none", "removed"} \/ new.missing # 0
<1> DEFINE new == Published(inv, fresh)[r]
<1>1. row[r] \in RowRec /\ r \in Row /\ row[r].status # "none"
  BY DEF IInv, TypeOK, Known
<1>2. \A p \in NewPaths(inv) : fresh[p] # r
  BY DEF Fresh
<1>3. ASSUME NEW p \in Path, r \in Kept(inv, p)
      PROVE  /\ new.status \notin {"none", "removed"} /\ new.path = p
             /\ new.missing = 0 /\ new.fp = inv[p] /\ inv[p] # None
  <2>1. /\ r \in Live /\ row[r].path = p /\ row[r].fp = inv[p] /\ inv[p] # None
    BY <1>3 DEF Kept, Latest
  <2>2. \A q \in Path : r \notin Relocated(inv, q)
    BY <2>1 DEF Relocated, Aliases
  <2>3. new = Observed(row[r])
    BY <1>1, <1>2, <1>3, <2>2, Zenon DEF Published
  <2> QED BY <1>1, <2>1, <2>3 DEF Observed, RowRec, Live
<1>4. ASSUME NEW p \in Path, r \in Relocated(inv, p)
      PROVE  /\ new.status \notin {"none", "removed"} /\ new.path = p
             /\ new.missing = 0 /\ new.fp = inv[p] /\ inv[p] # None
  <2> DEFINE there == CHOOSE q \in Path : r \in Relocated(inv, q)
  <2>1. /\ r \in Live /\ row[r].fp = inv[p] /\ inv[p] # None
        /\ OnlyCopy(inv, p)
    BY <1>4 DEF Relocated, Aliases
  <2>2. \A q \in Path : r \notin Kept(inv, q)
    BY <1>4 DEF Relocated, Aliases, Kept, Latest
  <2>3. \A q \in Path : r \in Relocated(inv, q) => q = p
    BY <2>1 DEF Relocated, Aliases, OnlyCopy
  <2>4. there = p
    BY <1>4, <2>3
  <2>5. new = [Observed(row[r]) EXCEPT !.path = there]
    BY <1>1, <1>2, <1>4, <2>2, Zenon DEF Published
  <2> QED BY <1>1, <2>1, <2>4, <2>5 DEF Observed, RowRec, Live
<1>5. ASSUME \A p \in Path : r \notin Kept(inv, p) \cup Relocated(inv, p)
      PROVE  new.status \in {"none", "removed"} \/ new.missing # 0
  <2>1. CASE r \in Live
    <3>1. new = Unseen(inv, r)
      BY <1>1, <1>2, <1>5, <2>1, Zenon DEF Published
    <3>2. new.missing = Capped(row[r].missing + 1, MissingScans)
      BY <1>1, <3>1 DEF Unseen, RowRec
    <3>3. row[r].missing \in Nat /\ MissingScans \in Nat \ {0}
      BY <1>1, InventoryAssumption DEF RowRec
    <3> QED BY <3>2, <3>3 DEF Capped
  <2>2. CASE r \notin Live
    <3>1. new = row[r]
      BY <1>1, <1>2, <1>5, <2>2, Zenon DEF Published
    <3> QED BY <2>2, <3>1 DEF Live
  <2> QED BY <2>1, <2>2
<1> QED BY <1>3, <1>4, <1>5

\* A publication makes the rows agree with what was walked.
LEMMA PublishedAgrees ==
  ASSUME IInv, NEW fresh \in Fresh(walk.inv), row' = Published(walk.inv, fresh), walk' = walk,
         NEW p \in Path
  PROVE  AgreesAt(p)'
<1> DEFINE inv == walk.inv
           Stands(r) == r \in Kept(inv, p) \cup Relocated(inv, p)
<1>0. inv \in Inventory /\ fresh \in Fresh(inv) /\ row' = Published(inv, fresh)
  BY DEF IInv, TypeOK
<1> HIDE DEF inv
<1>1. ASSUME NEW r \in Known
      PROVE  r \in Present(p)' <=> Stands(r)
  <2>1. CASE \E q \in Path : r \in Kept(inv, q) \cup Relocated(inv, q)
    <3>1. PICK q \in Path : r \in Kept(inv, q) \cup Relocated(inv, q)
      BY <2>1
    <3>2. row'[r].status \notin {"none", "removed"} /\ row'[r].path = q /\ row'[r].missing = 0
      BY <1>0, <3>1, PublishedPresent
    <3>3. Stands(r) => row'[r].path = p
      BY <1>0, PublishedPresent
    <3> QED BY <3>1, <3>2, <3>3 DEF Present, Live, Known
  <2>2. CASE \A q \in Path : r \notin Kept(inv, q) \cup Relocated(inv, q)
    <3>1. row'[r].status \in {"none", "removed"} \/ row'[r].missing # 0
      BY <1>0, <2>2, PublishedPresent
    <3> QED BY <2>2, <3>1 DEF Present, Live, Known
  <2> QED BY <2>1, <2>2
<1>2. ASSUME NEW r \in Row \ Known
      PROVE  r \in Present(p)' <=> p \in NewPaths(inv) /\ fresh[p] = r
  <2>1. CASE \E q \in NewPaths(inv) : fresh[q] = r
    <3>1. PICK q \in NewPaths(inv) : fresh[q] = r
      BY <2>1
    <3>2. row'[r] = FirstSeen(inv, q)
      BY <1>0, <3>1, PublishedFresh
    <3>3. /\ row'[r].path = q /\ row'[r].missing = 0
          /\ row'[r].status \in {"changed", "stabilizing"}
      BY <3>2 DEF FirstSeen
    <3>4. p \in NewPaths(inv) /\ fresh[p] = r => row'[r].path = p
      <4>1. p \in NewPaths(inv) /\ fresh[p] = r => row'[r] = FirstSeen(inv, p)
        BY <1>0, PublishedFresh
      <4> QED BY <4>1 DEF FirstSeen
    <3> QED BY <3>1, <3>3, <3>4 DEF Present, Live, Known
  <2>2. CASE \A q \in NewPaths(inv) : fresh[q] # r
    <3>1. row'[r] = row[r]
      BY <1>0, <2>2, PublishedUnknown
    <3> QED BY <2>2, <3>1 DEF Present, Live, Known
  <2> QED BY <2>1, <2>2
<1>3. Present(p)' \subseteq Row
  BY DEF Present, Live, Known
<1>4. CASE inv[p] = None
  <2>1. p \notin NewPaths(inv) /\ \A r \in Row : ~Stands(r)
    BY <1>4 DEF NewPaths, Kept, Relocated
  <2>2. Present(p)' = {}
    BY <1>1, <1>2, <1>3, <2>1
  <2> QED BY <1>4, <2>2 DEF AgreesAt, inv
<1>5. CASE inv[p] # None /\ p \in NewPaths(inv)
  <2>1. \A r \in Row : ~Stands(r)
    BY <1>5 DEF NewPaths
  <2>2. fresh[p] \in Row \ Known /\ row'[fresh[p]] = FirstSeen(inv, p)
    BY <1>0, <1>5, PublishedFresh
  <2>3. Present(p)' = {fresh[p]}
    BY <1>1, <1>2, <1>3, <1>5, <2>1, <2>2
  <2>4. row'[fresh[p]].fp = inv[p]
    BY <2>2 DEF FirstSeen
  <2> QED BY <1>5, <2>2, <2>3, <2>4 DEF AgreesAt, inv
<1>6. CASE inv[p] # None /\ p \notin NewPaths(inv)
  <2>1. PICK r \in Row : Stands(r)
    BY <1>6 DEF NewPaths, Kept, Relocated, Aliases, Live, Known
  <2>2. r \in Known
    BY <2>1 DEF Kept, Relocated, Aliases, Live
  <2>3. \A q \in Row : Stands(q) => q = r
    BY <1>0, <2>1, OneStandsFor
  <2>4. Present(p)' = {r}
    BY <1>1, <1>2, <1>3, <1>6, <2>1, <2>2, <2>3
  <2>5. row'[r].fp = inv[p]
    BY <1>0, <2>1, <2>2, PublishedPresent
  <2> QED BY <1>6, <2>1, <2>4, <2>5 DEF AgreesAt, inv
<1> QED BY <1>4, <1>5, <1>6

\* Until the next walk nothing takes a row away that is present, or counts one so.
LEMMA StepAgrees == IInv /\ Agrees /\ [Next]_inventoryVars => Agrees'
<1> SUFFICES ASSUME IInv, Agrees, [Next]_inventoryVars, outcome' = "complete", NEW p \in Path
             PROVE  AgreesAt(p)'
  BY DEF Agrees
<1>0. row \in [Row -> RowRec] /\ MissingScans \in Nat \ {0}
  BY InventoryAssumption DEF IInv, TypeOK
<1>1. CASE Publish
  BY <1>1, PublishedAgrees DEF Publish
<1>2. ASSUME UNCHANGED <<walk, outcome>>, NEW r \in Live,
             \/ row[r].missing = 0 /\ row' = [row EXCEPT ![r].status = "imported"]
             \/ row[r].missing # 0 /\ row' = [row EXCEPT ![r].status = "removed"]
             \/ row[r].missing # 0 /\ row' = [row EXCEPT ![r].aged = TRUE]
      PROVE  AgreesAt(p)'
  <2>1. /\ r \in Row /\ row[r] \in RowRec /\ row[r].status \notin {"none", "removed"}
        /\ \A q \in Row : q # r => row'[q] = row[q]
        /\ row'[r].path = row[r].path /\ row'[r].missing = row[r].missing
        /\ row'[r].fp = row[r].fp
    BY <1>0, <1>2 DEF Live, Known, RowRec
  <2>2. row[r].missing = 0 => row'[r].status = "imported"
    BY <1>0, <1>2, <2>1 DEF RowRec
  <2>3. Present(p)' = Present(p)
    BY <2>1, <2>2 DEF Present, Live, Known
  <2>4. AgreesAt(p) /\ walk' = walk
    BY <1>2 DEF Agrees
  <2>5. \A q \in Row : row'[q].fp = row[q].fp
    BY <2>1
  <2> QED BY <2>3, <2>4, <2>5 DEF AgreesAt
<1>3. CASE \E r \in Row : Imported(r) \/ Tombstone(r) \/ GracePasses(r)
  <2>1. PICK r \in Row : Imported(r) \/ Tombstone(r) \/ GracePasses(r)
    BY <1>3
  <2>2. r \in Live /\ UNCHANGED <<walk, outcome>>
    BY <2>1 DEF Imported, Tombstone, GracePasses
  <2>3. row[r].missing \in Nat
    BY <1>0, <2>2 DEF RowRec, Live, Known
  <2> QED BY <1>0, <1>2, <2>1, <2>2, <2>3 DEF Imported, Tombstone, GracePasses
<1>4. CASE UNCHANGED <<row, walk, outcome>>
  BY <1>4 DEF Agrees, AgreesAt, Present, Live, Known
<1> QED BY <1>1, <1>3, <1>4
    DEF Next, BeginScan, ReadPath, FailScan, PublishRejected, TouchSource, inventoryVars

\* After a complete scan every file that was walked has one live row that is not counted
\* missing, with its fingerprint, and no other path has one, for any number of copies,
\* renames, replacements and returns (Engine.publish).
THEOREM SnapshotAgreementHolds == Spec => []SnapshotAgreement
<1>1. Init => Agrees
  BY DEF Init, Agrees
<1>2. IInv /\ Agrees /\ [Next]_inventoryVars => Agrees'
  BY StepAgrees
<1> QED BY <1>1, <1>2, Invariant, AgreesCounted, PTL DEF Spec

-----------------------------------------------------------------------------
(* The inductive invariant. *)

\* A row that is there is one of a path.
PathsOK == \A r \in Known : row[r].path \in Path

\* A review names a library path.
ReviewsOK == \A s \in Row : dec[s].rev > 0 => dec[s].target \in Target

\* Only rows that are there have outputs.
Referenced == ref \subseteq Artifact \X Known

\* A publication's fence tells what it was made from: its output's path, and the
\* decision of its source unless a later one was made.
FenceOK(a) ==
  LET s == pub[a].src
      fence == pub[a].fence
  IN  /\ s \in Known
      /\ art[a].status # "none"
      /\ art[a].target = fence.target
      /\ fence.review <= dec[s].rev
      /\ fence.review > 0 /\ fence.review = dec[s].rev => fence.target = dec[s].target

FencesOK == \A a \in Artifact : pub[a].status # "none" => FenceOK(a)

\* Where the engine has a source, and where it has an artifact in hand.
SourcePc == {"link", "place", "intend", "link_temp", "link_target", "finish", "unlink_temp",
             "pub_done", "undo_target", "undo_temp", "undo_art", "succeed", "retire",
             "retire_next", "retire_unlink", "retire_done"}
ArtifactPc == {"link_temp", "link_target", "finish", "unlink_temp", "pub_done",
               "undo_target", "undo_temp", "undo_art", "retire_unlink", "retire_done"}

\* Where it is not recovering, and where it is.
ImportPc  == {"idle", "work", "link", "place", "intend", "succeed", "retire", "retire_next",
              "retire_unlink", "retire_done", "reconcile"}
RecoverPc == {"recover", "undo_target", "undo_temp", "undo_art"}

\* The decision on the source, if there is one, is for this library path.
Agreed(s, t) == dec[s].rev > 0 => t = dec[s].target

\* The publication in hand is the one to be linked and activated.
ToActivate ==
  \/ me.pc \in {"link_temp", "link_target"}
  \/ me.pc = "finish" /\ Publishing

\* The publication in hand is not settled yet.
Unsettled ==
  \/ ToActivate
  \/ me.pc \in {"unlink_temp", "pub_done", "undo_target", "undo_temp", "undo_art"}

\* What each program counter knows.
EngineOK ==
  /\ me.pc \in SourcePc => me.src \in Known
  /\ me.pc \in ArtifactPc => me.art \in Artifact
  /\ me.pc \in ImportPc => ~me.recovering
  /\ me.pc \in RecoverPc => me.recovering
  /\ me.recovering => /\ \A a \in me.todo : pub[a].status = "pending"
                      /\ me.pc # "recover" => me.art \notin me.todo
  /\ me.pc \in {"link", "place", "intend"} =>
       job[me.src].target \in Target /\ Agreed(me.src, job[me.src].target)
  /\ Unsettled => pub[me.art].status = "pending"
  /\ ToActivate => pub[me.art].src = me.src /\ Agreed(me.src, art[me.art].target)
  /\ me.pc \in {"link_temp", "link_target"} => Publishing
  /\ me.pc = "finish" /\ ~Publishing => art[me.art].status = "active"
  /\ me.pc \in {"undo_art", "pub_done"} => temp[me.art] = None

ImportInv ==
  /\ ImportTypeOK /\ IInv /\ PathsOK /\ ReviewsOK /\ Referenced
  /\ FencesOK /\ EngineOK /\ TempRecorded

-----------------------------------------------------------------------------
(* What a step keeps. *)

\* The table of sources stays one: typed, keyed, with a path per row, and no row goes.
RowsStep ==
  /\ row' \in [Row -> RowRec] /\ KeyUnique' /\ GenBounded' /\ PathsOK'
  /\ Known \subseteq Known'

\* No artifact disappears or gets another path.
ArtKept ==
  \A a \in Artifact : art[a].status # "none" =>
    art'[a].status # "none" /\ art'[a].target = art[a].target

\* No publication begins, or changes its source or its fence.
PubKept ==
  \A a \in Artifact : pub'[a].status # "none" =>
    /\ pub[a].status # "none"
    /\ pub'[a].src = pub[a].src /\ pub'[a].fence = pub[a].fence

\* The parts that an action may disturb make up the invariant.
LEMMA AssembleParts ==
  ASSUME ImportInv, ImportTypeOK', UNCHANGED <<walk, outcome>>, RowsStep,
         ReviewsOK', Referenced', FencesOK', EngineOK', TempRecorded'
  PROVE  ImportInv'
<1>1. TypeOK'
  BY Zenon DEF ImportInv, IInv, TypeOK, ImportTypeOK
<1>2. IInv' /\ PathsOK'
  BY <1>1, Zenon DEF IInv, RowsStep
<1> QED BY <1>2, Zenon DEF ImportInv

\* A fence holds as long as the publication, its output and its source are there.
LEMMA FenceKept ==
  ASSUME NEW a \in Artifact, FenceOK(a), UNCHANGED dec, Known \subseteq Known',
         pub'[a].src = pub[a].src, pub'[a].fence = pub[a].fence,
         art[a].status # "none" =>
           art'[a].status # "none" /\ art'[a].target = art[a].target
  PROVE  FenceOK(a)'
BY DEF FenceOK

\* Steps that begin no publication and decide nothing.
LEMMA Assemble ==
  ASSUME ImportInv, ImportTypeOK', UNCHANGED <<walk, outcome, dec>>, RowsStep,
         ArtKept, PubKept, Referenced', EngineOK', TempRecorded'
  PROVE  ImportInv'
<1>1. ReviewsOK'
  BY Zenon DEF ImportInv, ReviewsOK
<1>2. FencesOK'
  <2> SUFFICES ASSUME NEW a \in Artifact, pub'[a].status # "none" PROVE FenceOK(a)'
    BY Zenon DEF FencesOK
  <2>1. /\ pub[a].status # "none"
        /\ pub'[a].src = pub[a].src /\ pub'[a].fence = pub[a].fence
    BY DEF PubKept
  <2>2. FenceOK(a)
    BY <2>1 DEF ImportInv, FencesOK
  <2> QED BY <2>1, <2>2, FenceKept DEF ArtKept, RowsStep
<1> QED BY <1>1, <1>2, AssembleParts

\* A table that is left alone stays what it is.
LEMMA SameRows == ASSUME ImportInv, UNCHANGED row PROVE RowsStep
BY DEF ImportInv, ImportTypeOK, IInv, KeyUnique, GenBounded, PathsOK, Known, RowsStep

\* Statuses and ages are no part of the table's keys.
LEMMA Relabelled ==
  ASSUME ImportInv, row' \in [Row -> RowRec],
         \A r \in Row : /\ row'[r].path = row[r].path /\ row'[r].gen = row[r].gen
                        /\ (row'[r].status = "none") = (row[r].status = "none")
  PROVE  RowsStep /\ Known' = Known
<1>1. Known' = Known
  BY DEF Known
<1>2. KeyUnique'
  BY <1>1 DEF ImportInv, IInv, KeyUnique, Known
<1>3. GenBounded'
  <2>1. PICK B \in Nat : \A r \in Known : row[r].gen <= B
    BY DEF ImportInv, IInv, GenBounded
  <2>2. \A r \in Known' : row'[r].gen <= B
    BY <1>1, <2>1 DEF Known
  <2> QED BY <2>2 DEF GenBounded
<1>4. PathsOK'
  BY <1>1 DEF ImportInv, PathsOK, Known
<1> QED BY <1>1, <1>2, <1>3, <1>4 DEF RowsStep

\* A row is changed in its status alone.
LEMMA Labelled ==
  ASSUME ImportInv, NEW s \in Known, NEW status \in SourceStatus \ {"none"},
         row' = [row EXCEPT ![s].status = status]
  PROVE  RowsStep /\ Known' = Known
<1>1. row \in [Row -> RowRec] /\ s \in Row /\ row[s].status # "none"
  BY DEF ImportInv, ImportTypeOK, Known
<1>2. DEFINE new == [row[s] EXCEPT !.status = status]
<1>3. /\ new \in RowRec /\ new.status = status
      /\ new.path = row[s].path /\ new.gen = row[s].gen
  BY <1>1 DEF RowRec
<1>4. row' = [row EXCEPT ![s] = new]
  OBVIOUS
<1>5. row' \in [Row -> RowRec]
  <2> HIDE DEF new
  <2> QED BY <1>1, <1>3, <1>4
<1>6. ASSUME NEW r \in Row
      PROVE  /\ row'[r].path = row[r].path /\ row'[r].gen = row[r].gen
             /\ (row'[r].status = "none") = (row[r].status = "none")
  <2> HIDE DEF new
  <2>1. CASE r = s
    BY <2>1, <1>1, <1>3, <1>4
  <2>2. CASE r # s
    BY <2>2, <1>1, <1>4
  <2> QED BY <2>1, <2>2
<1> QED BY <1>5, <1>6, Relabelled

\* A published scan.
LEMMA Rescanned ==
  ASSUME ImportInv, ~KeyClash(disk), NEW fresh \in Fresh(disk),
         row' = Published(disk, fresh)
  PROVE  RowsStep
<1>1. disk \in Inventory /\ IInv /\ TypeOK
  BY DEF ImportInv, ImportTypeOK, IInv
<1>2. row' \in [Row -> RowRec] /\ KeyUnique' /\ GenBounded'
  BY <1>1, PublishedInvariant
<1>3. ASSUME NEW r \in Known
      PROVE  row'[r].status # "none" /\ row'[r].path \in Path
  <2>1. /\ row'[r].status # "none"
        /\ \/ row'[r].path = row[r].path
           \/ \E p \in Path : r \in Relocated(disk, p) /\ row'[r].path = p
    BY <1>1, PublishedKnown
  <2> QED BY <2>1 DEF ImportInv, PathsOK
<1>4. Known \subseteq Known'
  BY <1>3 DEF Known
<1>5. PathsOK'
  <2> SUFFICES ASSUME NEW r \in Row, row'[r].status # "none", r \notin Known
               PROVE  row'[r].path \in Path
    BY <1>3 DEF PathsOK, Known
  <2>1. PICK p \in NewPaths(disk) : fresh[p] = r
    BY PublishedUnknown DEF Known
  <2>2. row'[r] = FirstSeen(disk, p)
    BY <2>1, PublishedFresh
  <2> QED BY <2>2 DEF FirstSeen, NewPaths
<1> QED BY <1>2, <1>4, <1>5 DEF RowsStep

-----------------------------------------------------------------------------
(* The engine's locals. *)

\* Going on keeps what is in hand.
LEMMA GoesOn ==
  ASSUME me \in Engine, NEW pc \in Pc, Goto(pc)
  PROVE  /\ me' \in Engine /\ me'.pc = pc /\ me'.recovering = me.recovering
         /\ me'.src = me.src /\ me'.art = me.art /\ me'.preds = me.preds
         /\ me'.todo = me.todo /\ me'.was = me.was
BY DEF Goto, Engine

\* Back in a loop nothing is in hand.
LEMMA LoopingFields ==
  ASSUME me \in Engine, NEW pc \in Pc, NEW rest \in SUBSET Artifact
  PROVE  /\ Looping(pc, rest) \in Engine /\ Looping(pc, rest).pc = pc
         /\ pc = "recover" => Looping(pc, rest).recovering = TRUE
         /\ pc # "recover" => Looping(pc, rest).recovering = FALSE
         /\ Looping(pc, rest).todo = rest /\ Looping(pc, rest).src = None
         /\ Looping(pc, rest).preds = {}
<1> DEFINE rec == (pc = "recover")
           new == [Stopped EXCEPT !.pc = pc, !.recovering = rec, !.cfg = me.cfg, !.todo = rest]
<1>1. Looping(pc, rest) = new
  BY DEF Looping
<1>2. rec \in BOOLEAN /\ me.cfg \in Config \cup {None}
  BY DEF Engine
<1>3. /\ new \in Engine /\ new.pc = pc /\ new.recovering = rec
      /\ new.todo = rest /\ new.src = None /\ new.preds = {}
  <2> HIDE DEF rec
  <2> QED BY <1>2 DEF Engine, Stopped, ArtStatus
<1> QED BY <1>1, <1>3

\* The two loops are that of recover and that of process_pending.
LEMMA BackToLoop ==
  ASSUME me \in Engine, NEW rest \in SUBSET Artifact
  PROVE  /\ Looping("recover", rest) \in Engine
         /\ Looping("recover", rest).pc = "recover"
         /\ Looping("recover", rest).recovering = TRUE
         /\ Looping("recover", rest).todo = rest
         /\ Looping("recover", rest).preds = {} /\ Looping("recover", rest).art = None
         /\ Looping("work", {}) \in Engine
         /\ Looping("work", {}).pc = "work"
         /\ Looping("work", {}).recovering = FALSE
         /\ Looping("work", {}).preds = {} /\ Looping("work", {}).art = None
<1>1. "recover" \in Pc /\ "work" \in Pc
  BY DEF Pc
<1>2. "work" # "recover"
  OBVIOUS
<1>3. {} \in SUBSET Artifact
  OBVIOUS
<1>4. /\ Looping("recover", rest) \in Engine
      /\ Looping("recover", rest).pc = "recover"
      /\ Looping("recover", rest).recovering = TRUE
  BY <1>1, LoopingFields
<1>7. /\ Looping("recover", rest).todo = rest /\ Looping("recover", rest).preds = {}
      /\ Looping("recover", rest).art = None /\ Looping("work", {}).art = None
  BY DEF Looping, Stopped
<1>5. /\ Looping("work", {}) \in Engine
      /\ Looping("work", {}).pc = "work"
      /\ Looping("work", {}).preds = {}
  BY <1>1, <1>3, LoopingFields, Zenon
<1>6. Looping("work", {}).recovering = FALSE
  BY <1>1, <1>2, <1>3, LoopingFields, Zenon
<1> QED BY <1>4, <1>5, <1>6, <1>7

\* An engine that is between sources has nothing to know.
LEMMA NothingInHand ==
  ASSUME me'.pc \in {"idle", "work", "reconcile"}, me'.recovering = FALSE
  PROVE  EngineOK'
BY DEF EngineOK, SourcePc, ArtifactPc, ImportPc, RecoverPc, ToActivate, Unsettled

\* Nor has one that looks for the next publication to recover.
LEMMA BetweenRecoveries ==
  ASSUME me'.pc = "recover", me'.recovering = TRUE,
         \A a \in me'.todo : pub'[a].status = "pending"
  PROVE  EngineOK'
BY DEF EngineOK, SourcePc, ArtifactPc, ImportPc, RecoverPc, ToActivate, Unsettled

\* Steps of the engine that touch nothing but its locals.
LEMMA LocalStep ==
  ASSUME ImportInv, UNCHANGED <<inventoryVars, lib, temp, tables, cfg>>,
         me' \in Engine, crashes' \in 0..MaxCrashes, EngineOK'
  PROVE  ImportInv'
<1>1. RowsStep
  BY SameRows DEF inventoryVars
<1>2. ImportTypeOK'
  BY DEF ImportInv, ImportTypeOK, inventoryVars, tables
<1>3. ArtKept /\ PubKept /\ Referenced' /\ TempRecorded'
  BY DEF ImportInv, ArtKept, PubKept, Referenced, TempRecorded, Known, inventoryVars, tables
<1> QED BY <1>1, <1>2, <1>3, Assemble DEF inventoryVars, tables

\* One publication gets another outcome.
LEMMA Settled ==
  ASSUME ImportInv, NEW a \in Artifact, NEW status \in {"conflict", "done"},
         pub[a].status = "pending", pub' = [pub EXCEPT ![a].status = status]
  PROVE  /\ pub' \in [Artifact -> PubRec] /\ PubKept
         /\ pub'[a].status = status
         /\ \A b \in Artifact \ {a} : pub'[b] = pub[b]
<1>1. pub \in [Artifact -> PubRec]
  BY DEF ImportInv, ImportTypeOK
<1> DEFINE new == [pub[a] EXCEPT !.status = status]
<1>2. /\ new \in PubRec /\ new.status = status
      /\ new.src = pub[a].src /\ new.fence = pub[a].fence
  BY <1>1 DEF PubRec, PubStatus
<1>3. pub' = [pub EXCEPT ![a] = new]
  OBVIOUS
<1> HIDE DEF new
<1>4. /\ pub' \in [Artifact -> PubRec] /\ pub'[a] = new
      /\ \A b \in Artifact \ {a} : pub'[b] = pub[b]
  BY <1>1, <1>2, <1>3
<1> QED BY <1>2, <1>4 DEF PubKept

\* One artifact gets another status.
LEMMA Restated ==
  ASSUME ImportInv, NEW a \in Artifact, NEW status \in ArtStatus \ {"none"},
         art' = [art EXCEPT ![a].status = status]
  PROVE  /\ art' \in [Artifact -> ArtRec] /\ ArtKept
         /\ art'[a] = [art[a] EXCEPT !.status = status]
         /\ art'[a].status = status /\ art'[a].target = art[a].target
         /\ art'[a].owned = art[a].owned
         /\ \A b \in Artifact \ {a} : art'[b] = art[b]
<1>1. art \in [Artifact -> ArtRec]
  BY DEF ImportInv, ImportTypeOK
<1> DEFINE new == [art[a] EXCEPT !.status = status]
<1>2. /\ new \in ArtRec /\ new.status = status
      /\ new.target = art[a].target /\ new.owned = art[a].owned
  BY <1>1 DEF ArtRec
<1>3. art' = [art EXCEPT ![a] = new]
  OBVIOUS
<1>4. /\ art' \in [Artifact -> ArtRec] /\ art'[a] = new
      /\ \A b \in Artifact \ {a} : art'[b] = art[b]
  <2> HIDE DEF new
  <2> QED BY <1>1, <1>2, <1>3
<1> QED BY <1>2, <1>4 DEF ArtKept

\* One job gets another status.
LEMMA JobStatusType ==
  ASSUME job \in [Row -> JobRec], NEW s \in Row, NEW status \in JobStatus
  PROVE  [job EXCEPT ![s].status = status] \in [Row -> JobRec]
<1> DEFINE new == [job[s] EXCEPT !.status = status]
<1>1. new \in JobRec
  BY DEF JobRec
<1> HIDE DEF new
<1>2. [job EXCEPT ![s] = new] \in [Row -> JobRec]
  BY <1>1
<1> QED BY <1>2 DEF new

-----------------------------------------------------------------------------
(* Errors. *)

\* While it recovers, what the engine has in hand is not settled yet.
LEMMA RecoveringUnsettled ==
  ASSUME ImportInv, me.recovering, me.pc \in SourcePc
  PROVE  /\ Unsettled /\ me.art \in Artifact /\ pub[me.art].status = "pending"
         /\ me.art \notin me.todo /\ me.todo \in SUBSET Artifact
         /\ \A a \in me.todo : pub[a].status = "pending"
<1>1. Unsettled /\ me.pc \in ArtifactPc /\ me.pc # "recover"
  BY Zenon DEF ImportInv, EngineOK, SourcePc, ArtifactPc, ImportPc, Unsettled, ToActivate, Publishing
<1>2. me.todo \in SUBSET Artifact
  BY DEF ImportInv, ImportTypeOK, Engine
<1> QED BY <1>1, <1>2, Zenon DEF ImportInv, EngineOK

\* An error that is caught leaves a conflict or an open job behind.
LEMMA StepFail ==
  ASSUME ImportInv, UNCHANGED crashes, me.pc \in SourcePc, Fail
  PROVE  ImportInv'
<1>1. /\ UNCHANGED <<inventoryVars, lib, temp, art, ref, dec, cfg, crashes>>
      /\ me \in Engine
  BY DEF Fail, ImportInv, ImportTypeOK
<1>2. RowsStep /\ ArtKept
  BY <1>1, SameRows DEF inventoryVars, ArtKept
<1>3. Referenced'
  BY <1>1 DEF ImportInv, Referenced, Known, inventoryVars
<1>4. CASE me.recovering
  <2>1. /\ me.art \in Artifact /\ pub[me.art].status = "pending"
        /\ me.art \notin me.todo /\ me.todo \in SUBSET Artifact
        /\ \A a \in me.todo : pub[a].status = "pending"
    BY <1>4, RecoveringUnsettled
  <2>2. pub' = Settle("conflict") /\ me' = Looping("recover", me.todo) /\ UNCHANGED job
    BY <1>4 DEF Fail
  <2>3. /\ pub' \in [Artifact -> PubRec] /\ PubKept /\ pub'[me.art].status = "conflict"
        /\ \A b \in Artifact \ {me.art} : pub'[b] = pub[b]
    BY <2>1, <2>2, Settled DEF Settle
  <2>4. /\ me' \in Engine /\ me'.pc = "recover" /\ me'.recovering = TRUE
        /\ me'.todo = me.todo
    BY <1>1, <2>1, <2>2, BackToLoop
  <2>5. EngineOK'
    <3>1. ASSUME NEW b \in me.todo PROVE pub'[b].status = "pending"
      <4>1. b \in Artifact \ {me.art} /\ pub[b].status = "pending"
        BY <2>1
      <4> QED BY <2>3, <4>1
    <3> QED BY <2>4, <3>1, BetweenRecoveries
  <2>6. TempRecorded'
    BY <1>1, <2>3 DEF ImportInv, TempRecorded
  <2>7. ImportTypeOK'
    BY <1>1, <2>2, <2>3, <2>4 DEF ImportInv, ImportTypeOK, inventoryVars
  <2> QED BY <1>1, <1>2, <1>3, <2>3, <2>5, <2>6, <2>7, Assemble DEF inventoryVars
<1>5. CASE ~me.recovering
  <2>1. job' = [job EXCEPT ![me.src].status = "open"] /\ me' = Looping("work", {})
        /\ UNCHANGED pub
    BY <1>5 DEF Fail
  <2>2. me.src \in Row
    BY DEF ImportInv, EngineOK, Known
  <2>3. job' \in [Row -> JobRec]
    BY <2>1, <2>2, JobStatusType DEF ImportInv, ImportTypeOK, JobStatus
  <2>4. me' \in Engine /\ me'.pc = "work" /\ me'.recovering = FALSE
    BY <1>1, <2>1, BackToLoop
  <2>5. EngineOK'
    BY <2>4, NothingInHand
  <2>6. ImportTypeOK' /\ PubKept /\ TempRecorded'
    BY <1>1, <2>1, <2>3, <2>4
    DEF ImportInv, ImportTypeOK, inventoryVars, PubKept, TempRecorded
  <2> QED BY <1>1, <1>2, <1>3, <2>5, <2>6, Assemble DEF inventoryVars
<1> QED BY <1>4, <1>5

\* One that is not caught ends the run.
LEMMA StepClash ==
  ASSUME ImportInv, UNCHANGED crashes, Clash
  PROVE  ImportInv'
<1>1. me' \in Engine /\ me'.pc = "idle" /\ me'.recovering = FALSE
  BY DEF Clash, Stopped, Engine, ArtStatus, Pc
<1>2. EngineOK'
  BY <1>1, NothingInHand
<1> QED BY <1>1, <1>2, LocalStep DEF Clash, ImportInv, ImportTypeOK

-----------------------------------------------------------------------------
(* scan, process_pending and recover. *)

\* A scan publishes its rows and looks for what is pending.
LEMMA StepScanPublish ==
  ASSUME ImportInv, UNCHANGED crashes, ScanPublish
  PROVE  ImportInv'
<1> DEFINE todo == {a \in Artifact : pub[a].status = "pending"}
<1>1. /\ UNCHANGED <<disk, walk, outcome, lib, temp, tables, cfg, crashes>>
      /\ me \in Engine /\ cfg \in Config
  BY DEF ScanPublish, ImportInv, ImportTypeOK
<1>2. RowsStep
  BY Rescanned DEF ScanPublish
<1>3. me' = [Looping("recover", todo) EXCEPT !.cfg = cfg]
  BY DEF ScanPublish
<1>4. /\ Looping("recover", todo) \in Engine /\ Looping("recover", todo).pc = "recover"
      /\ Looping("recover", todo).recovering = TRUE /\ Looping("recover", todo).todo = todo
  BY <1>1, BackToLoop
<1>5. me' \in Engine /\ me'.pc = "recover" /\ me'.recovering = TRUE /\ me'.todo = todo
  <2> HIDE DEF todo
  <2> QED BY <1>1, <1>3, <1>4 DEF Engine
<1>6. EngineOK'
  BY <1>1, <1>5, BetweenRecoveries DEF tables
<1>7. Referenced'
  BY <1>1, <1>2 DEF ImportInv, Referenced, RowsStep, tables
<1>8. ArtKept /\ PubKept /\ TempRecorded'
  BY <1>1 DEF ImportInv, ArtKept, PubKept, TempRecorded, tables
<1>9. ImportTypeOK'
  BY <1>1, <1>2, <1>5 DEF ImportInv, ImportTypeOK, tables, RowsStep
<1> QED BY <1>1, <1>2, <1>6, <1>7, <1>8, <1>9, Assemble DEF tables

\* A run without a scan, and the ends of the two loops.
LEMMA StepLoops ==
  ASSUME ImportInv, UNCHANGED crashes, ProcessOnly \/ ScanDone \/ RecoverDone
  PROVE  ImportInv'
<1>1. me \in Engine /\ cfg \in Config
  BY DEF ImportInv, ImportTypeOK
<1>2. /\ Looping("work", {}) \in Engine /\ Looping("work", {}).pc = "work"
      /\ Looping("work", {}).recovering = FALSE
  BY <1>1, BackToLoop
<1>3. /\ Stopped \in Engine /\ Stopped.pc = "idle" /\ Stopped.recovering = FALSE
  BY DEF Stopped, Engine, Pc, ArtStatus
<1>4. /\ [Looping("work", {}) EXCEPT !.cfg = cfg] \in Engine
      /\ [Looping("work", {}) EXCEPT !.cfg = cfg].pc = "work"
      /\ [Looping("work", {}) EXCEPT !.cfg = cfg].recovering = FALSE
  BY <1>1, <1>2 DEF Engine
<1>5. me' \in Engine /\ me'.pc \in {"idle", "work"} /\ me'.recovering = FALSE
  BY <1>2, <1>3, <1>4, Zenon DEF ProcessOnly, ScanDone, RecoverDone
<1>6. EngineOK'
  BY <1>5, NothingInHand
<1>7. UNCHANGED <<inventoryVars, lib, temp, tables, cfg>>
  BY DEF ProcessOnly, ScanDone, RecoverDone
<1> QED BY <1>5, <1>6, <1>7, LocalStep DEF ImportInv, ImportTypeOK

\* A publication whose fence does not fit any more is handed to the operator.
LEMMA StepRecoverRefused ==
  ASSUME ImportInv, UNCHANGED crashes, NEW a \in Artifact, RecoverRefused(a)
  PROVE  ImportInv'
<1>1. /\ UNCHANGED <<inventoryVars, lib, temp, art, ref, job, dec, cfg, crashes>>
      /\ me \in Engine /\ me.pc = "recover" /\ me.todo \in SUBSET Artifact
      /\ a \in me.todo /\ pub' = [pub EXCEPT ![a].status = "conflict"]
      /\ me' = Looping("recover", me.todo \ {a})
  BY DEF RecoverRefused, ImportInv, ImportTypeOK, Engine
<1>2. \A b \in me.todo : pub[b].status = "pending"
  BY <1>1 DEF ImportInv, EngineOK, RecoverPc
<1>3. /\ pub' \in [Artifact -> PubRec] /\ PubKept /\ pub'[a].status = "conflict"
      /\ \A b \in Artifact \ {a} : pub'[b] = pub[b]
  BY <1>1, <1>2, Settled
<1>4. /\ me' \in Engine /\ me'.pc = "recover" /\ me'.recovering = TRUE
      /\ me'.todo = me.todo \ {a}
  BY <1>1, BackToLoop
<1>5. EngineOK'
  BY <1>1, <1>2, <1>3, <1>4, BetweenRecoveries
<1>6. RowsStep /\ ArtKept
  BY <1>1, SameRows DEF inventoryVars, ArtKept
<1>7. Referenced' /\ TempRecorded'
  BY <1>1, <1>3 DEF ImportInv, Referenced, TempRecorded, Known, inventoryVars
<1>8. ImportTypeOK'
  BY <1>1, <1>3, <1>4 DEF ImportInv, ImportTypeOK, inventoryVars
<1> QED BY <1>1, <1>3, <1>5, <1>6, <1>7, <1>8, Assemble DEF inventoryVars

\* A publication is taken up again: its fence still fits, so its output is on the
\* path of its plan, and of its review.
LEMMA StepRecoverPick ==
  ASSUME ImportInv, UNCHANGED crashes, NEW a \in Artifact, RecoverPick(a)
  PROVE  ImportInv'
<1> DEFINE s == pub[a].src
           pc == Recovery(a)
           was == art[a].status
           rest == me.todo \ {a}
           now == [me EXCEPT !.pc = pc, !.art = a, !.src = s, !.todo = rest, !.was = was]
<1>1. /\ UNCHANGED <<inventoryVars, lib, temp, tables, cfg, crashes>>
      /\ me \in Engine /\ me.pc = "recover" /\ me.todo \in SUBSET Artifact
      /\ a \in me.todo /\ pub[a].fence = FenceNow(s)
      /\ me' = now
  BY DEF RecoverPick, ImportInv, ImportTypeOK, Engine
<1>2. me.recovering /\ \A b \in me.todo : pub[b].status = "pending"
  BY <1>1 DEF ImportInv, EngineOK, RecoverPc
<1>3. FenceOK(a) /\ pub[a].status = "pending"
  BY <1>1, <1>2 DEF ImportInv, FencesOK
<1>4. /\ s \in Known /\ s \in Row /\ was \in ArtStatus
      /\ dec[s].rev \in Nat
  BY <1>3 DEF FenceOK, Known, ImportInv, ImportTypeOK, ArtRec, DecRec, Revision
<1>5. pub[a].fence.review = dec[s].rev /\ art[a].target = pub[a].fence.target
  <2> HIDE DEF s
  <2>1. FenceNow(s).review = dec[s].rev
    BY DEF FenceNow
  <2>2. art[a].target = pub[a].fence.target
    BY <1>3, Zenon DEF FenceOK
  <2> QED BY <1>1, <2>1, <2>2
<1>6. dec[s].rev > 0 => art[a].target = dec[s].target
  BY <1>3, <1>5 DEF FenceOK
<1>7. /\ pc \in {"unlink_temp", "pub_done", "link_temp", "undo_target", "undo_art"}
      /\ pc \in {"undo_art", "pub_done"} => temp[a] = None
  BY DEF Recovery
<1>8. pc \in Pc
  BY <1>7 DEF Pc
<1>9. /\ now \in Engine /\ now.pc = pc /\ now.art = a /\ now.src = s
      /\ now.todo = rest /\ now.recovering = me.recovering
  <2> HIDE DEF pc, s, was, rest
  <2>1. rest \in SUBSET Artifact
    BY <1>1 DEF rest
  <2> QED BY <1>1, <1>4, <1>8, <2>1 DEF Engine
<1>10. /\ me'.pc \in {"unlink_temp", "pub_done", "link_temp", "undo_target", "undo_art"}
       /\ me'.art = a /\ me'.src = s /\ me'.todo = rest /\ me'.recovering
       /\ me'.pc \in {"undo_art", "pub_done"} => temp'[a] = None
  <2> HIDE DEF pc, s, was, rest, now
  <2> QED BY <1>1, <1>2, <1>7, <1>9
<1>11. /\ s \in Known' /\ pub'[a].status = "pending" /\ pub'[a].src = s
       /\ Agreed(s, art[a].target)' /\ \A b \in rest : pub'[b].status = "pending"
  BY <1>1, <1>2, <1>3, <1>4, <1>6 DEF Agreed, Known, inventoryVars, tables
<1>12. EngineOK'
  <2> HIDE DEF pc, was, now
  <2>1. /\ ~(me'.pc \in ImportPc) /\ me'.pc \notin {"link", "place", "intend", "finish", "recover"}
    BY <1>10 DEF ImportPc
  <2>2. ToActivate' => me'.pc = "link_temp"
    BY <1>10 DEF ToActivate
  <2>3. ToActivate' => pub'[me'.art].src = me'.src /\ Agreed(me.src, art[me.art].target)'
    BY <1>10, <1>11 DEF Agreed
  <2>4. /\ me'.src \in Known' /\ me'.art \in Artifact /\ pub'[me'.art].status = "pending"
        /\ \A b \in me'.todo : pub'[b].status = "pending"
        /\ me'.art \notin me'.todo
        /\ me'.pc \in {"undo_art", "pub_done"} => temp'[me'.art] = None
        /\ Publishing'
    BY <1>10, <1>11 DEF Publishing
  <2> QED BY <1>10, <2>1, <2>3, <2>4, Zenon DEF EngineOK
<1>13. me' \in Engine
  BY <1>1, <1>9, Zenon
<1> QED BY <1>1, <1>12, <1>13, LocalStep DEF ImportInv, ImportTypeOK

\* The undo of a publication takes its target link first, if it is the recorded file.
LEMMA StepUndoTarget ==
  ASSUME ImportInv, UNCHANGED crashes, UndoTarget
  PROVE  ImportInv'
<1>1. CASE Fail
  BY <1>1, StepFail DEF UndoTarget, SourcePc
<1>2. CASE ~Fail
  <2>1. /\ me.pc = "undo_target" /\ me \in Engine /\ Goto("undo_temp")
        /\ UNCHANGED <<inventoryVars, temp, tables, cfg>>
        /\ lib' = [lib EXCEPT ![art[me.art].target] = None] \/ lib' = lib
    BY <1>2 DEF UndoTarget, ImportInv, ImportTypeOK
  <2>2. lib' \in [Target -> Ident \cup {None}]
    BY <2>1 DEF ImportInv, ImportTypeOK
  <2>3. /\ me' \in Engine /\ me'.pc = "undo_temp" /\ me'.recovering = me.recovering
        /\ me'.src = me.src /\ me'.art = me.art /\ me'.todo = me.todo
    BY <2>1, GoesOn DEF Pc
  <2>4. /\ me.recovering /\ me.src \in Known /\ me.art \in Artifact
        /\ pub[me.art].status = "pending" /\ me.art \notin me.todo
        /\ \A a \in me.todo : pub[a].status = "pending"
    BY <2>1 DEF ImportInv, EngineOK, SourcePc, ArtifactPc, RecoverPc, Unsettled
  <2>5. EngineOK'
    <3>1. /\ ~(me'.pc \in ImportPc) /\ me'.pc \notin {"link", "place", "intend", "link_temp", "link_target", "finish", "recover"}
          /\ ~ToActivate' /\ me'.pc \notin {"undo_art", "pub_done"}
      BY <2>3 DEF ImportPc, ToActivate
    <3>2. /\ me'.src \in Known' /\ me'.art \in Artifact /\ me'.recovering
          /\ pub'[me'.art].status = "pending" /\ me'.art \notin me'.todo
          /\ \A a \in me'.todo : pub'[a].status = "pending"
      BY <2>1, <2>3, <2>4 DEF Known, inventoryVars, tables
    <3> QED BY <3>1, <3>2, Zenon DEF EngineOK
  <2>6. RowsStep
    BY <2>1, SameRows DEF inventoryVars
  <2>7. ArtKept /\ PubKept /\ Referenced' /\ TempRecorded'
    BY <2>1 DEF ImportInv, ArtKept, PubKept, Referenced, TempRecorded, Known, inventoryVars, tables
  <2>8. ImportTypeOK'
    BY <2>1, <2>2, <2>3 DEF ImportInv, ImportTypeOK, inventoryVars, tables
  <2> QED BY <2>1, <2>5, <2>6, <2>7, <2>8, Assemble DEF inventoryVars, tables
<1> QED BY <1>1, <1>2

\* The artifact of an undone publication is given up.
LEMMA StepUndoArtifact ==
  ASSUME ImportInv, UNCHANGED crashes, UndoArtifact
  PROVE  ImportInv'
<1>1. /\ me.pc = "undo_art" /\ me \in Engine /\ Goto("pub_done")
      /\ art' = [art EXCEPT ![me.art].status = "removed"]
      /\ UNCHANGED <<inventoryVars, lib, temp, pub, ref, job, dec, cfg>>
  BY DEF UndoArtifact, ImportInv, ImportTypeOK
<1>2. /\ me.recovering /\ me.src \in Known /\ me.art \in Artifact
      /\ pub[me.art].status = "pending" /\ me.art \notin me.todo
      /\ \A a \in me.todo : pub[a].status = "pending"
      /\ temp[me.art] = None
  BY <1>1 DEF ImportInv, EngineOK, SourcePc, ArtifactPc, RecoverPc, Unsettled
<1>3. art' \in [Artifact -> ArtRec] /\ ArtKept
  BY <1>1, <1>2, Restated DEF ArtStatus
<1>4. /\ me' \in Engine /\ me'.pc = "pub_done" /\ me'.recovering = me.recovering
      /\ me'.src = me.src /\ me'.art = me.art /\ me'.todo = me.todo
  BY <1>1, GoesOn DEF Pc
<1>5. EngineOK'
  <2>1. /\ ~(me'.pc \in ImportPc) /\ me'.pc \notin {"link", "place", "intend", "link_temp", "link_target", "finish", "recover"}
        /\ ~ToActivate'
    BY <1>4 DEF ImportPc, ToActivate
  <2>2. /\ me'.src \in Known' /\ me'.art \in Artifact /\ me'.recovering
        /\ pub'[me'.art].status = "pending" /\ me'.art \notin me'.todo
        /\ \A a \in me'.todo : pub'[a].status = "pending"
        /\ temp'[me'.art] = None
    BY <1>1, <1>2, <1>4 DEF Known, inventoryVars
  <2> QED BY <2>1, <2>2, Zenon DEF EngineOK
<1>6. RowsStep
  BY <1>1, SameRows DEF inventoryVars
<1>7. PubKept /\ Referenced' /\ TempRecorded'
  BY <1>1 DEF ImportInv, PubKept, Referenced, TempRecorded, Known, inventoryVars
<1>8. ImportTypeOK'
  BY <1>1, <1>3, <1>4 DEF ImportInv, ImportTypeOK, inventoryVars
<1> QED BY <1>1, <1>3, <1>5, <1>6, <1>7, <1>8, Assemble DEF inventoryVars

\* The temporary link goes last, and only if it is the recorded file.
LEMMA StepUnlinkTemp ==
  ASSUME ImportInv, UNCHANGED crashes, UnlinkTemp
  PROVE  ImportInv'
<1>1. CASE Fail
  BY <1>1, StepFail DEF UnlinkTemp, SourcePc
<1>2. CASE ~Fail
  <2> DEFINE next == IF me.pc = "undo_temp" THEN "undo_art" ELSE "pub_done"
  <2>1. /\ me.pc \in {"unlink_temp", "undo_temp"} /\ me \in Engine /\ Goto(next)
        /\ UNCHANGED <<inventoryVars, lib, tables, cfg>>
        /\ temp' = [temp EXCEPT ![me.art] = None]
    BY <1>2 DEF UnlinkTemp, ImportInv, ImportTypeOK
  <2>2. /\ me.src \in Known /\ me.art \in Artifact
        /\ pub[me.art].status = "pending"
        /\ me.pc = "undo_temp" => me.recovering
        /\ me.recovering => /\ me.art \notin me.todo
                            /\ \A a \in me.todo : pub[a].status = "pending"
    BY <2>1 DEF ImportInv, EngineOK, SourcePc, ArtifactPc, RecoverPc, Unsettled
  <2>3. temp' \in [Artifact -> Ident \cup {None}] /\ temp'[me.art] = None
        /\ \A a \in Artifact \ {me.art} : temp'[a] = temp[a]
    BY <2>1, <2>2 DEF ImportInv, ImportTypeOK
  <2>4. /\ next \in Pc /\ next \in {"undo_art", "pub_done"}
        /\ next = "undo_art" => me.pc = "undo_temp"
    BY DEF Pc
  <2>5. /\ me' \in Engine /\ me'.pc = next /\ me'.recovering = me.recovering
        /\ me'.src = me.src /\ me'.art = me.art /\ me'.todo = me.todo
    <3> HIDE DEF next
    <3> QED BY <2>1, <2>4, GoesOn
  <2>6. EngineOK'
    <3>1. /\ ~(me'.pc \in ImportPc) /\ me'.pc \notin {"link", "place", "intend", "link_temp", "link_target", "finish", "recover"}
          /\ ~ToActivate'
          /\ me'.pc \in RecoverPc => me'.recovering
      BY <2>2, <2>4, <2>5 DEF ImportPc, ToActivate, RecoverPc
    <3>2. /\ me'.src \in Known' /\ me'.art \in Artifact
          /\ pub'[me'.art].status = "pending" /\ temp'[me'.art] = None
          /\ me'.recovering => /\ me'.art \notin me'.todo
                               /\ \A a \in me'.todo : pub'[a].status = "pending"
      <4> HIDE DEF next
      <4> QED BY <2>1, <2>2, <2>3, <2>5 DEF Known, inventoryVars, tables
    <3> QED BY <3>1, <3>2, Zenon DEF EngineOK
  <2>7. RowsStep
    BY <2>1, SameRows DEF inventoryVars
  <2>8. ArtKept /\ PubKept /\ Referenced' /\ TempRecorded'
    BY <2>1, <2>3 DEF ImportInv, ArtKept, PubKept, Referenced, TempRecorded, Known, inventoryVars, tables
  <2>9. ImportTypeOK'
    BY <2>1, <2>3, <2>5 DEF ImportInv, ImportTypeOK, inventoryVars, tables
  <2> QED BY <2>1, <2>6, <2>7, <2>8, <2>9, Assemble DEF inventoryVars, tables
<1> QED BY <1>1, <1>2

\* A publication is done when no temporary link is left.
LEMMA StepPublicationDone ==
  ASSUME ImportInv, UNCHANGED crashes, PublicationDone
  PROVE  ImportInv'
<1>1. /\ me.pc = "pub_done" /\ me \in Engine /\ me.todo \in SUBSET Artifact
      /\ pub' = Settle("done")
      /\ UNCHANGED <<inventoryVars, lib, temp, art, ref, job, dec, cfg>>
  BY DEF PublicationDone, ImportInv, ImportTypeOK, Engine
<1>2. /\ me.src \in Known /\ me.art \in Artifact /\ temp[me.art] = None
      /\ pub[me.art].status = "pending"
      /\ me.recovering => /\ me.art \notin me.todo
                          /\ \A a \in me.todo : pub[a].status = "pending"
  BY <1>1 DEF ImportInv, EngineOK, SourcePc, ArtifactPc, Unsettled
<1>3. /\ pub' \in [Artifact -> PubRec] /\ PubKept
      /\ \A b \in Artifact \ {me.art} : pub'[b] = pub[b]
  BY <1>1, <1>2, Settled DEF Settle
<1>4. me' \in Engine /\ EngineOK'
  <2>1. CASE me.recovering
    <3>0. me' = Looping("recover", me.todo)
      BY <2>1 DEF PublicationDone
    <3>1. /\ me' \in Engine /\ me'.pc = "recover" /\ me'.recovering = TRUE
          /\ me'.todo = me.todo
      BY <1>1, <3>0, BackToLoop
    <3>2. ASSUME NEW b \in me.todo PROVE pub'[b].status = "pending"
      <4>1. b \in Artifact \ {me.art} /\ pub[b].status = "pending"
        BY <1>1, <1>2, <2>1
      <4> QED BY <1>3, <4>1
    <3> QED BY <3>1, <3>2, BetweenRecoveries
  <2>2. CASE ~me.recovering
    <3>1. me' = [me EXCEPT !.pc = "succeed"]
      BY <2>2 DEF PublicationDone
    <3>2. me' \in Engine /\ me'.pc = "succeed" /\ me'.recovering = me.recovering
          /\ me'.src = me.src
      BY <1>1, <3>1 DEF Engine, Pc
    <3>3. me'.src \in Known' /\ ~me'.recovering
      BY <1>1, <1>2, <2>2, <3>2 DEF Known, inventoryVars
    <3> QED BY <3>2, <3>3
            DEF EngineOK, SourcePc, ArtifactPc, ImportPc, RecoverPc, ToActivate, Unsettled
  <2> QED BY <2>1, <2>2
<1>5. RowsStep
  BY <1>1, SameRows DEF inventoryVars
<1>6. ArtKept /\ Referenced' /\ TempRecorded'
  BY <1>1, <1>2, <1>3 DEF ImportInv, ArtKept, Referenced, TempRecorded, Known, inventoryVars
<1>7. ImportTypeOK'
  BY <1>1, <1>3, <1>4 DEF ImportInv, ImportTypeOK, inventoryVars
<1> QED BY <1>1, <1>3, <1>4, <1>5, <1>6, <1>7, Assemble DEF inventoryVars

-----------------------------------------------------------------------------
(* plan_import and execute_link. *)

\* An import is given the path of its review, and is given one at all.
LEMMA MappingAgrees ==
  ASSUME ImportInv, NEW s \in Row, NEW t \in Mappings(s) \ {None}
  PROVE  t \in Target /\ Agreed(s, t)
<1>1. /\ dec[s].rev \in Nat /\ job[s].target \in Target \cup {None}
      /\ dec[s].rev > 0 => dec[s].target \in Target
  BY DEF ImportInv, ImportTypeOK, ReviewsOK, DecRec, JobRec, Place, Revision
<1>2. CASE dec[s].rev > 0
  BY <1>1, <1>2 DEF Mappings, Agreed
<1>3. CASE ~(dec[s].rev > 0)
  BY <1>1, <1>3 DEF Mappings, Agreed
<1> QED BY <1>2, <1>3

\* Plans keep the job's type: a first revision is one, and there is room for it.
LEMMA PlanTypes ==
  ASSUME ImportInv, NEW s \in Row
  PROVE  /\ \A t \in Target : Planned(s, t) \in JobRec /\ Planned(s, t).target = t
         /\ Unplanned(s) \in JobRec
<1>1. job[s] \in JobRec /\ dec[s].rev \in Revision /\ job[s].rev \in Revision
  BY DEF ImportInv, ImportTypeOK, DecRec, JobRec
<1>2. AtLeastOne(job[s].rev) \in Revision
  BY <1>1, ImportAssumption DEF AtLeastOne, Revision
<1>3. ASSUME NEW t \in Target PROVE Planned(s, t) \in JobRec /\ Planned(s, t).target = t
  BY <1>1, <1>2 DEF Planned, JobRec, JobStatus, Place
<1>4. Unplanned(s) \in JobRec
  <2> DEFINE rev == AtLeastOne(job[s].rev)
  <2>1. Unplanned(s) = [job[s] EXCEPT !.status = "open", !.rev = rev]
    BY DEF Unplanned
  <2> HIDE DEF rev
  <2>2. rev \in Revision
    BY <1>2 DEF rev
  <2> QED BY <1>1, <2>1, <2>2 DEF JobRec, JobStatus
<1> QED BY <1>3, <1>4

\* A source is planned.
LEMMA StepPlan ==
  ASSUME ImportInv, UNCHANGED crashes, NEW s \in Row, Plan(s)
  PROVE  ImportInv'
<1>1. /\ me.pc = "work" /\ me \in Engine /\ s \in Known
      /\ UNCHANGED <<disk, walk, outcome, lib, temp, art, pub, ref, dec, cfg>>
      /\ job \in [Row -> JobRec]
  BY DEF Plan, Live, ImportInv, ImportTypeOK
<1>2. me.recovering = FALSE
  BY <1>1 DEF ImportInv, EngineOK, ImportPc, Engine
<1>3. ASSUME row' = [row EXCEPT ![s].status = "ready"] \/ row' = row
      PROVE  RowsStep /\ Known' = Known
  <2>1. CASE row' = row
    BY <2>1, SameRows DEF Known
  <2>2. CASE row' = [row EXCEPT ![s].status = "ready"]
    <3>1. "ready" \in SourceStatus \ {"none"}
      BY DEF SourceStatus
    <3> QED BY <1>1, <2>2, <3>1, Labelled
  <2> QED BY <1>3, <2>1, <2>2
<1>4. ASSUME RowsStep, Known' = Known, job' \in [Row -> JobRec], me' \in Engine, EngineOK'
      PROVE  ImportInv'
  <2>1. ArtKept /\ PubKept /\ Referenced' /\ TempRecorded'
    BY <1>1, <1>4 DEF ImportInv, ArtKept, PubKept, Referenced, TempRecorded
  <2>2. ImportTypeOK'
    BY <1>1, <1>4 DEF ImportInv, ImportTypeOK, RowsStep
  <2> QED BY <1>1, <1>4, <2>1, <2>2, Assemble
<1>5. ASSUME NEW t \in Mappings(s) \ {None},
             row' = [row EXCEPT ![s].status = "ready"],
             job' = [job EXCEPT ![s] = Planned(s, t)],
             me' = [me EXCEPT !.pc = "link", !.src = s, !.preds = Predecessors(s)]
      PROVE  ImportInv'
  <2>1. t \in Target /\ Agreed(s, t)
    BY MappingAgrees
  <2>2. Planned(s, t) \in JobRec /\ Planned(s, t).target = t
    BY <2>1, PlanTypes
  <2>3. job' \in [Row -> JobRec] /\ job'[s].target = t
    BY <1>1, <1>5, <2>2
  <2>4. me' \in Engine /\ me'.pc = "link" /\ me'.src = s /\ me'.recovering = FALSE
    <3> DEFINE preds == Predecessors(s)
    <3>1. preds \in SUBSET Row
      BY DEF Predecessors, Known
    <3>2. me' = [me EXCEPT !.pc = "link", !.src = s, !.preds = preds]
      BY <1>5
    <3> HIDE DEF preds
    <3> QED BY <1>1, <1>2, <3>1, <3>2 DEF Engine, Pc
  <2>5. RowsStep /\ Known' = Known
    BY <1>3, <1>5
  <2>6. EngineOK'
    <3>1. /\ me'.src \in Known' /\ job'[me'.src].target \in Target
          /\ Agreed(me.src, job[me.src].target)'
      BY <1>1, <2>1, <2>3, <2>4, <2>5 DEF Agreed
    <3> QED BY <2>4, <3>1
            DEF EngineOK, SourcePc, ArtifactPc, ImportPc, RecoverPc, ToActivate, Unsettled
  <2> QED BY <1>4, <2>3, <2>4, <2>5, <2>6
<1>6. ASSUME row' = IF ShowsSource(s) THEN [row EXCEPT ![s].status = "ready"] ELSE row,
             job' = [job EXCEPT ![s] = Unplanned(s)], UNCHANGED me
      PROVE  ImportInv'
  <2>1. job' \in [Row -> JobRec]
    BY <1>1, <1>6, PlanTypes
  <2>2. EngineOK'
    BY <1>1, <1>2, <1>6, NothingInHand
  <2> QED BY <1>1, <1>3, <1>4, <1>6, <2>1, <2>2
<1> QED BY <1>5, <1>6, Zenon DEF Plan

\* An imported source is looked at again.
LEMMA StepPlanImported ==
  ASSUME ImportInv, UNCHANGED crashes, NEW s \in Row, PlanImported(s)
  PROVE  ImportInv'
<1>1. /\ me.pc = "work" /\ me \in Engine /\ s \in Known
      /\ UNCHANGED <<inventoryVars, lib, temp, art, pub, ref, dec, cfg>>
      /\ job \in [Row -> JobRec]
  BY DEF PlanImported, Live, ImportInv, ImportTypeOK
<1>2. me.recovering = FALSE
  BY <1>1 DEF ImportInv, EngineOK, ImportPc, Engine
<1>3. ASSUME job' \in [Row -> JobRec], me' \in Engine, EngineOK'
      PROVE  ImportInv'
  <2>1. ArtKept /\ PubKept /\ Referenced' /\ TempRecorded'
    BY <1>1 DEF ImportInv, ArtKept, PubKept, Referenced, TempRecorded, Known, inventoryVars
  <2>2. ImportTypeOK'
    BY <1>1, <1>3 DEF ImportInv, ImportTypeOK, inventoryVars
  <2>3. RowsStep
    BY <1>1, SameRows DEF inventoryVars
  <2> QED BY <1>1, <1>3, <2>1, <2>2, <2>3, Assemble DEF inventoryVars
<1>4. CASE me' = [me EXCEPT !.pc = "retire", !.src = s] /\ UNCHANGED job
  <2>1. me' \in Engine /\ me'.pc = "retire" /\ me'.src = s /\ me'.recovering = FALSE
    BY <1>1, <1>2, <1>4 DEF Engine, Pc
  <2>2. me'.src \in Known'
    BY <1>1, <2>1 DEF Known, inventoryVars
  <2>3. EngineOK'
    BY <2>1, <2>2
       DEF EngineOK, SourcePc, ArtifactPc, ImportPc, RecoverPc, ToActivate, Unsettled
  <2> QED BY <1>1, <1>3, <1>4, <2>1, <2>3
<1>5. CASE job' = [job EXCEPT ![s].status = "target_missing"] /\ UNCHANGED me
  <2>1. job' \in [Row -> JobRec]
    BY <1>1, <1>5, JobStatusType DEF JobStatus
  <2>2. EngineOK'
    BY <1>1, <1>2, <1>5, NothingInHand
  <2> QED BY <1>1, <1>3, <1>5, <2>1, <2>2
<1> QED BY <1>4, <1>5, Zenon DEF PlanImported

\* What the engine knows before it places a link.
LEMMA Placing ==
  ASSUME ImportInv, me.pc \in {"link", "place", "intend"}
  PROVE  /\ me.src \in Known /\ me.src \in Row /\ me.recovering = FALSE /\ me \in Engine
         /\ job[me.src].target \in Target /\ Agreed(me.src, job[me.src].target)
<1>1. me.src \in Known /\ ~me.recovering /\ me \in Engine
  BY DEF ImportInv, EngineOK, SourcePc, ImportPc, ImportTypeOK
<1>2. me.recovering = FALSE /\ me.src \in Row
  BY <1>1 DEF Engine, Known
<1> QED BY <1>1, <1>2 DEF ImportInv, EngineOK

\* The first look at the gate and the source.
LEMMA StepLinkStart ==
  ASSUME ImportInv, UNCHANGED crashes, LinkStart
  PROVE  ImportInv'
<1>1. CASE Fail
  BY <1>1, StepFail DEF LinkStart, SourcePc
<1>2. CASE Goto("place") /\ UNCHANGED <<inventoryVars, lib, temp, tables, cfg>>
  <2>1. me.pc = "link" /\ me \in Engine
    BY DEF LinkStart, ImportInv, ImportTypeOK
  <2>2. /\ me' \in Engine /\ me'.pc = "place" /\ me'.recovering = me.recovering
        /\ me'.src = me.src
    BY <1>2, <2>1, GoesOn DEF Pc
  <2>3. /\ me'.src \in Known' /\ me'.recovering = FALSE
        /\ job'[me'.src].target \in Target /\ Agreed(me.src, job[me.src].target)'
    BY <1>2, <2>1, <2>2, Placing DEF Known, Agreed, inventoryVars, tables
  <2>4. EngineOK'
    BY <2>2, <2>3
       DEF EngineOK, SourcePc, ArtifactPc, ImportPc, RecoverPc, ToActivate, Unsettled
  <2> QED BY <1>2, <2>2, <2>4, LocalStep DEF ImportInv, ImportTypeOK
<1> QED BY <1>1, <1>2, Zenon DEF LinkStart

\* A fingerprint is below the path of every source.
LEMMA Found ==
  ASSUME ImportInv, NEW s \in Known
  PROVE  disk[row[s].path] \in Ident \cup {None}
BY DEF ImportInv, PathsOK, ImportTypeOK, Inventory

\* A file that is there already is adopted.
LEMMA StepPlaceExisting ==
  ASSUME ImportInv, UNCHANGED crashes, PlaceExisting
  PROVE  ImportInv'
<1> DEFINE s == me.src
           t == job[s].target
<1>1. /\ me.pc = "place"
      /\ UNCHANGED <<inventoryVars, lib, temp, pub, ref, job, dec, cfg>>
  BY DEF PlaceExisting
<1>2. /\ s \in Known /\ me.recovering = FALSE /\ me \in Engine /\ t \in Target
      /\ art \in [Artifact -> ArtRec] /\ lib \in [Target -> Ident \cup {None}]
  BY <1>1, Placing DEF ImportInv, ImportTypeOK
<1>3. PICK a \in Artifact :
        /\ me' = [me EXCEPT !.pc = "finish", !.art = a, !.was = "active"]
        /\ \/ a \in ActiveAt(t) /\ UNCHANGED art
           \/ /\ art[a].status = "none"
              /\ art' = [art EXCEPT ![a] = [status |-> "active", target |-> t,
                                            owned |-> FALSE, receipt |-> lib[t]]]
  BY Zenon DEF PlaceExisting, ActiveAt, At
<1>4. /\ art' \in [Artifact -> ArtRec] /\ art'[a].status = "active" /\ ArtKept
  <2>1. CASE a \in ActiveAt(t) /\ UNCHANGED art
    BY <1>2, <2>1 DEF ActiveAt, At, ArtKept
  <2>2. CASE /\ art[a].status = "none"
             /\ art' = [art EXCEPT ![a] = [status |-> "active", target |-> t,
                                           owned |-> FALSE, receipt |-> lib[t]]]
    <3> DEFINE new == [status |-> "active", target |-> t, owned |-> FALSE, receipt |-> lib[t]]
    <3>1. new \in ArtRec /\ new.status = "active"
      BY <1>2 DEF ArtRec, ArtStatus, Place
    <3>2. art' = [art EXCEPT ![a] = new]
      BY <2>2
    <3> HIDE DEF new
    <3> QED BY <1>2, <2>2, <3>1, <3>2 DEF ArtKept
  <2> QED BY <1>3, <2>1, <2>2
<1>5. /\ me' \in Engine /\ me'.pc = "finish" /\ me'.art = a /\ me'.src = s
      /\ me'.recovering = FALSE /\ me'.was = "active"
  BY <1>2, <1>3 DEF Engine, Pc, ArtStatus
<1>6. EngineOK'
  <2>1. me'.src \in Known' /\ me'.art \in Artifact /\ art'[me'.art].status = "active"
    BY <1>1, <1>2, <1>4, <1>5 DEF Known, inventoryVars
  <2>2. ~ToActivate' /\ ~Unsettled'
    BY <1>5 DEF ToActivate, Unsettled, Publishing
  <2> QED BY <1>5, <2>1, <2>2 DEF EngineOK, SourcePc, ArtifactPc, ImportPc, RecoverPc
<1>7. RowsStep
  BY <1>1, SameRows DEF inventoryVars
<1>8. PubKept /\ Referenced' /\ TempRecorded'
  BY <1>1 DEF ImportInv, PubKept, Referenced, TempRecorded, Known, inventoryVars
<1>9. ImportTypeOK'
  BY <1>1, <1>4, <1>5 DEF ImportInv, ImportTypeOK, inventoryVars
<1> QED BY <1>1, <1>4, <1>6, <1>7, <1>8, <1>9, Assemble DEF inventoryVars

\* The artifacts of a path whose file is gone: they lose their place, and nothing else.
LEMMA GivenAway ==
  ASSUME art \in [Artifact -> ArtRec], NEW t \in Target,
         art' = [b \in Artifact |-> IF b \in ActiveAt(t)
                                      THEN [art[b] EXCEPT !.status = "target_missing"]
                                      ELSE art[b]]
  PROVE  /\ art' \in [Artifact -> ArtRec]
         /\ \A b \in Artifact :
              /\ art'[b].target = art[b].target /\ art'[b].owned = art[b].owned
              /\ art'[b].receipt = art[b].receipt
              /\ \/ art'[b] = art[b] /\ b \notin ActiveAt(t)
                 \/ art'[b].status = "target_missing" /\ b \in ActiveAt(t)
<1>1. ASSUME NEW b \in Artifact
      PROVE  /\ art'[b] \in ArtRec /\ art'[b].target = art[b].target
             /\ art'[b].owned = art[b].owned /\ art'[b].receipt = art[b].receipt
             /\ \/ art'[b] = art[b] /\ b \notin ActiveAt(t)
                \/ art'[b].status = "target_missing" /\ b \in ActiveAt(t)
  <2>1. CASE b \in ActiveAt(t)
    <3>1. art'[b] = [art[b] EXCEPT !.status = "target_missing"] /\ art[b] \in ArtRec
      BY <2>1
    <3> QED BY <2>1, <3>1 DEF ArtRec, ArtStatus
  <2>2. CASE b \notin ActiveAt(t)
    <3>1. art'[b] = art[b] /\ art[b] \in ArtRec
      BY <2>2
    <3> QED BY <2>2, <3>1
  <2> QED BY <2>1, <2>2
<1>2. art' = [b \in Artifact |-> art'[b]]
  OBVIOUS
<1> QED BY <1>1, <1>2

\* What stood for the path is marked as missing.
LEMMA StepPlaceMissing ==
  ASSUME ImportInv, UNCHANGED crashes, PlaceMissing
  PROVE  ImportInv'
<1>1. /\ me.pc = "place" /\ Goto("intend")
      /\ UNCHANGED <<inventoryVars, lib, temp, pub, ref, job, dec, cfg>>
  BY DEF PlaceMissing
<1>2. /\ me.src \in Known /\ me.recovering = FALSE /\ me \in Engine
      /\ job[me.src].target \in Target /\ Agreed(me.src, job[me.src].target)
      /\ art \in [Artifact -> ArtRec]
  BY <1>1, Placing DEF ImportInv, ImportTypeOK
<1>3. art' \in [Artifact -> ArtRec] /\ ArtKept
  <2>1. /\ art' \in [Artifact -> ArtRec]
        /\ \A b \in Artifact : /\ art'[b].target = art[b].target
                               /\ art'[b].status \in {art[b].status, "target_missing"}
    BY <1>2, GivenAway DEF PlaceMissing
  <2> QED BY <2>1 DEF ArtKept
<1>4. /\ me' \in Engine /\ me'.pc = "intend" /\ me'.recovering = FALSE /\ me'.src = me.src
  BY <1>1, <1>2, GoesOn DEF Pc
<1>5. /\ me'.src \in Known'
      /\ job'[me'.src].target \in Target /\ Agreed(me.src, job[me.src].target)'
  BY <1>1, <1>2, <1>4 DEF Known, Agreed, inventoryVars
<1>6. EngineOK'
  BY <1>4, <1>5 DEF EngineOK, SourcePc, ArtifactPc, ImportPc, RecoverPc, ToActivate, Unsettled
<1>7. RowsStep
  BY <1>1, SameRows DEF inventoryVars
<1>8. PubKept /\ Referenced' /\ TempRecorded'
  BY <1>1 DEF ImportInv, PubKept, Referenced, TempRecorded, Known, inventoryVars
<1>9. ImportTypeOK'
  BY <1>1, <1>3, <1>4 DEF ImportInv, ImportTypeOK, inventoryVars
<1> QED BY <1>1, <1>3, <1>6, <1>7, <1>8, <1>9, Assemble DEF inventoryVars

\* The intent: the artifact and its publication, bound to the plan and the review of
\* now, before there is any link.
LEMMA StepPlaceIntent ==
  ASSUME ImportInv, UNCHANGED crashes, PlaceIntent
  PROVE  ImportInv'
<1> DEFINE s == me.src
           t == job[s].target
           found == disk[row[s].path]
           new == [status |-> "publishing", target |-> t, owned |-> TRUE, receipt |-> found]
           begun == [status |-> "pending", src |-> s, fence |-> FenceNow(s)]
<1>1. /\ me.pc = "intend" /\ found # None
      /\ UNCHANGED <<inventoryVars, lib, temp, ref, job, dec, cfg>>
  BY DEF PlaceIntent
<1>2. /\ s \in Known /\ s \in Row /\ me.recovering = FALSE /\ me \in Engine
      /\ t \in Target /\ Agreed(s, t)
      /\ art \in [Artifact -> ArtRec] /\ pub \in [Artifact -> PubRec]
  BY <1>1, Placing DEF ImportInv, ImportTypeOK
<1>3. found \in Ident
  BY <1>1, <1>2, Found
<1>4. PICK a \in Artifact :
        /\ art[a].status = "none"
        /\ art' = [art EXCEPT ![a] = new]
        /\ pub' = [pub EXCEPT ![a] = begun]
        /\ me' = [me EXCEPT !.pc = "link_temp", !.art = a, !.was = "publishing"]
  BY Zenon DEF PlaceIntent
<1>5. /\ new \in ArtRec /\ new.status = "publishing" /\ new.target = t
  BY <1>2, <1>3 DEF ArtRec, ArtStatus, Place
<1>6. /\ begun \in PubRec /\ begun.status = "pending" /\ begun.src = s
      /\ begun.fence = FenceNow(s)
  <2>1. FenceNow(s) \in Fence
    <3>1. /\ job[s].rev \in Revision /\ dec[s].rev \in Revision /\ me.cfg \in Config \cup {None}
      BY <1>2 DEF ImportInv, ImportTypeOK, JobRec, DecRec, Engine
    <3> QED BY <1>2, <3>1 DEF FenceNow, Fence, Place
  <2> DEFINE fence == FenceNow(s)
  <2>2. fence \in Fence
    BY <2>1
  <2> HIDE DEF fence, s
  <2>3. /\ [status |-> "pending", src |-> s, fence |-> fence] \in PubRec
    BY <1>2, <2>2 DEF PubRec, PubStatus
  <2> QED BY <2>3 DEF fence, s
<1>7. /\ FenceNow(s).target = t /\ FenceNow(s).review = dec[s].rev
      /\ dec[s].rev \in Nat
  BY <1>2 DEF FenceNow, ImportInv, ImportTypeOK, DecRec, Revision
<1>8. /\ art'[a].status = "publishing" /\ art'[a].target = t
      /\ art' \in [Artifact -> ArtRec]
      /\ \A b \in Artifact \ {a} : art[b].status # "none" =>
           art'[b].status # "none" /\ art'[b].target = art[b].target
  <2> HIDE DEF new
  <2> QED BY <1>2, <1>4, <1>5
<1>9. /\ pub' \in [Artifact -> PubRec] /\ pub'[a] = begun
      /\ \A b \in Artifact \ {a} : pub'[b] = pub[b]
  <2> HIDE DEF begun
  <2> QED BY <1>2, <1>4, <1>6
<1>10. RowsStep /\ Known' = Known
  BY <1>1, SameRows DEF inventoryVars, Known
<1>11. FencesOK'
  <2> HIDE DEF begun, new
  <2>1. FenceOK(a)'
    <3>1. pub'[a].src = s /\ pub'[a].fence = FenceNow(s)
      BY <1>6, <1>9
    <3>2. /\ s \in Known' /\ art'[a].status # "none" /\ art'[a].target = pub'[a].fence.target
          /\ pub'[a].fence.review = dec'[s].rev /\ dec'[s].rev \in Nat
          /\ dec'[s].rev > 0 => pub'[a].fence.target = dec'[s].target
      <4> HIDE DEF s, t
      <4> QED BY <1>1, <1>2, <1>7, <1>8, <1>10, <3>1 DEF Agreed
    <3> HIDE DEF s, t
    <3> QED BY <3>1, <3>2 DEF FenceOK
  <2>2. ASSUME NEW b \in Artifact \ {a}, pub'[b].status # "none" PROVE FenceOK(b)'
    <3>1. FenceOK(b) /\ pub'[b] = pub[b]
      BY <1>9, <2>2 DEF ImportInv, FencesOK
    <3> QED BY <1>1, <1>8, <1>10, <3>1, FenceKept
  <2> QED BY <2>1, <2>2, Zenon DEF FencesOK
<1>12. /\ me' \in Engine /\ me'.pc = "link_temp" /\ me'.art = a /\ me'.src = s
       /\ me'.recovering = FALSE /\ me'.was = "publishing"
  BY <1>2, <1>4 DEF Engine, Pc, ArtStatus
<1>13. EngineOK'
  <2> HIDE DEF begun, new
  <2>1. /\ me'.src \in Known' /\ me'.art \in Artifact /\ pub'[me'.art].status = "pending"
        /\ pub'[me'.art].src = me'.src /\ Agreed(me.src, art[me.art].target)'
        /\ Publishing'
    BY <1>1, <1>2, <1>6, <1>8, <1>9, <1>10, <1>12 DEF Agreed, Publishing
  <2> QED BY <1>12, <2>1 DEF EngineOK, SourcePc, ArtifactPc, ImportPc, RecoverPc
<1>14. ReviewsOK' /\ Referenced' /\ TempRecorded'
  <2> HIDE DEF begun, new
  <2> QED BY <1>1, <1>6, <1>9, <1>10 DEF ImportInv, ReviewsOK, Referenced, TempRecorded
<1>15. ImportTypeOK'
  BY <1>1, <1>8, <1>9, <1>12 DEF ImportInv, ImportTypeOK, inventoryVars
<1> QED BY <1>1, <1>10, <1>11, <1>13, <1>14, <1>15, AssembleParts DEF inventoryVars

\* Nothing is placed.
LEMMA StepPlaceFails ==
  ASSUME ImportInv, UNCHANGED crashes, PlaceFails
  PROVE  ImportInv'
<1>1. me.pc \in {"place", "intend"} /\ (Fail \/ Clash)
  BY DEF PlaceFails
<1> QED BY <1>1, StepFail, StepClash DEF SourcePc

\* What the engine knows of the publication it makes or completes.
LEMMA InHand ==
  ASSUME ImportInv, me.pc \in {"link_temp", "link_target"} \/ (me.pc = "finish" /\ Publishing)
  PROVE  /\ me.src \in Known /\ me.src \in Row /\ me.art \in Artifact /\ me \in Engine
         /\ pub[me.art].status = "pending" /\ pub[me.art].src = me.src
         /\ Agreed(me.src, art[me.art].target) /\ Publishing
         /\ me.recovering => /\ me.art \notin me.todo
                             /\ \A a \in me.todo : pub[a].status = "pending"
<1>1. ToActivate /\ Unsettled /\ me.pc \in SourcePc /\ me.pc \in ArtifactPc /\ me.pc # "recover"
  BY DEF ToActivate, Unsettled, SourcePc, ArtifactPc
<1>2. me \in Engine
  BY DEF ImportInv, ImportTypeOK
<1> QED BY <1>1, <1>2 DEF ImportInv, EngineOK, Known

\* The next step of the publication in hand.
LEMMA StillInHand ==
  ASSUME ImportInv, me.pc \in {"link_temp", "link_target"},
         NEW pc \in {"link_target", "finish"}, Goto(pc),
         UNCHANGED <<inventoryVars, tables>>
  PROVE  me' \in Engine /\ EngineOK'
<1>1. pc \in Pc
  BY DEF Pc
<1>2. /\ me.src \in Known /\ me.art \in Artifact /\ me \in Engine
      /\ pub[me.art].status = "pending" /\ pub[me.art].src = me.src
      /\ Agreed(me.src, art[me.art].target) /\ Publishing
      /\ me.recovering => /\ me.art \notin me.todo
                          /\ \A a \in me.todo : pub[a].status = "pending"
  BY InHand
<1>3. /\ me' \in Engine /\ me'.pc = pc /\ me'.recovering = me.recovering
      /\ me'.src = me.src /\ me'.art = me.art /\ me'.todo = me.todo /\ me'.was = me.was
  BY <1>1, <1>2, GoesOn
<1>4. /\ me'.src \in Known' /\ me'.art \in Artifact
      /\ pub'[me'.art].status = "pending" /\ pub'[me'.art].src = me'.src
      /\ Agreed(me.src, art[me.art].target)' /\ Publishing'
      /\ me'.recovering => /\ me'.art \notin me'.todo
                           /\ \A a \in me'.todo : pub'[a].status = "pending"
  BY <1>2, <1>3 DEF Agreed, Publishing, Known, inventoryVars, tables
<1>5. /\ me'.pc \notin ImportPc /\ me'.pc \notin RecoverPc
      /\ me'.pc \notin {"link", "place", "intend", "undo_art", "pub_done"}
  BY <1>3 DEF ImportPc, RecoverPc
<1> QED BY <1>3, <1>4, <1>5, Zenon DEF EngineOK

\* The temporary link, or the one that a crash left.
LEMMA StepLinkTemp ==
  ASSUME ImportInv, UNCHANGED crashes, LinkTemp
  PROVE  ImportInv'
<1>1. CASE Fail
  BY <1>1, StepFail DEF LinkTemp, SourcePc
<1>2. CASE ~Fail
  <2> DEFINE found == disk[row[me.src].path]
  <2>1. /\ me.pc = "link_temp" /\ Goto("link_target")
        /\ UNCHANGED <<inventoryVars, lib, tables, cfg>>
        /\ temp' = temp \/ temp' = [temp EXCEPT ![me.art] = found]
    BY <1>2 DEF LinkTemp
  <2>2. /\ me.src \in Known /\ me.art \in Artifact /\ pub[me.art].status = "pending"
        /\ temp \in [Artifact -> Ident \cup {None}]
    BY <2>1, InHand DEF ImportInv, ImportTypeOK
  <2>3. found \in Ident \cup {None}
    BY <2>2, Found
  <2>4. /\ temp' \in [Artifact -> Ident \cup {None}]
        /\ \A b \in Artifact \ {me.art} : temp'[b] = temp[b]
    <3> HIDE DEF found
    <3> QED BY <2>1, <2>2, <2>3
  <2>5. me' \in Engine /\ EngineOK'
    BY <2>1, StillInHand
  <2>6. RowsStep
    BY <2>1, SameRows DEF inventoryVars
  <2>7. ArtKept /\ PubKept /\ Referenced' /\ TempRecorded'
    BY <2>1, <2>2, <2>4
    DEF ImportInv, ArtKept, PubKept, Referenced, TempRecorded, Known, inventoryVars, tables
  <2>8. ImportTypeOK'
    BY <2>1, <2>4, <2>5 DEF ImportInv, ImportTypeOK, inventoryVars, tables
  <2> QED BY <2>1, <2>5, <2>6, <2>7, <2>8, Assemble DEF inventoryVars, tables
<1> QED BY <1>1, <1>2

\* The final link, after a look at the temporary one.
LEMMA StepLinkTarget ==
  ASSUME ImportInv, UNCHANGED crashes, LinkTarget
  PROVE  ImportInv'
<1>1. CASE Fail
  BY <1>1, StepFail DEF LinkTarget, SourcePc
<1>2. CASE ~Fail
  <2>1. /\ me.pc = "link_target" /\ Goto("finish")
        /\ UNCHANGED <<inventoryVars, temp, tables, cfg>>
        /\ lib' = lib \/ lib' = [lib EXCEPT ![art[me.art].target] = temp[me.art]]
    BY <1>2 DEF LinkTarget
  <2>2. lib' \in [Target -> Ident \cup {None}]
    <3>1. me.art \in Artifact
      BY <2>1, InHand
    <3> QED BY <2>1, <3>1 DEF ImportInv, ImportTypeOK
  <2>3. me' \in Engine /\ EngineOK'
    BY <2>1, StillInHand
  <2>4. RowsStep
    BY <2>1, SameRows DEF inventoryVars
  <2>5. ArtKept /\ PubKept /\ Referenced' /\ TempRecorded'
    BY <2>1
    DEF ImportInv, ArtKept, PubKept, Referenced, TempRecorded, Known, inventoryVars, tables
  <2>6. ImportTypeOK'
    BY <2>1, <2>2, <2>3 DEF ImportInv, ImportTypeOK, inventoryVars, tables
  <2> QED BY <2>1, <2>3, <2>4, <2>5, <2>6, Assemble DEF inventoryVars, tables
<1> QED BY <1>1, <1>2

\* finish_link's transaction.
LEMMA StepFinish ==
  ASSUME ImportInv, UNCHANGED crashes, Finish
  PROVE  ImportInv'
<1> DEFINE s == me.src
           a == me.art
           t == art[a].target
           next == IF Publishing THEN "unlink_temp" ELSE "succeed"
           done == [job[s] EXCEPT !.status = "imported", !.target = t]
<1>1. /\ me.pc = "finish" /\ me \in Engine
      /\ UNCHANGED <<disk, walk, outcome, lib, temp, pub, dec, cfg>>
      /\ art' = [art EXCEPT ![a].status = "active"]
      /\ ref' = ref \cup {<<a, s>>}
      /\ row' = [row EXCEPT ![s].status = "imported"]
      /\ Goto(next)
  BY DEF Finish, ImportInv, ImportTypeOK
<1>2. job' = [job EXCEPT ![s] = done]
  BY DEF Finish
<1>3. s \in Known /\ s \in Row /\ a \in Artifact
  BY <1>1 DEF ImportInv, EngineOK, SourcePc, ArtifactPc, Known
<1>4. RowsStep /\ Known' = Known
  <2>1. "imported" \in SourceStatus \ {"none"}
    BY DEF SourceStatus
  <2> QED BY <1>1, <1>3, <2>1, Labelled
<1>5. art' \in [Artifact -> ArtRec] /\ ArtKept
  <2>1. "active" \in ArtStatus \ {"none"}
    BY DEF ArtStatus
  <2> QED BY <1>1, <1>3, <2>1, Restated
<1>6. job' \in [Row -> JobRec]
  <2>1. job \in [Row -> JobRec] /\ t \in Place
    BY <1>3 DEF ImportInv, ImportTypeOK, ArtRec
  <2>2. done \in JobRec
    <3> HIDE DEF t
    <3> QED BY <1>3, <2>1 DEF JobRec, JobStatus
  <2> HIDE DEF done
  <2> QED BY <1>2, <1>3, <2>1, <2>2
<1>7. Referenced'
  BY <1>1, <1>3, <1>4 DEF ImportInv, Referenced
<1>8. /\ next \in Pc /\ next \in {"unlink_temp", "succeed"}
      /\ next = "unlink_temp" => Publishing
      /\ next = "succeed" => me.recovering = FALSE
  BY <1>1 DEF Pc, Publishing, Engine
<1>9. /\ me' \in Engine /\ me'.pc = next /\ me'.recovering = me.recovering
      /\ me'.src = me.src /\ me'.art = me.art /\ me'.todo = me.todo
  <2> HIDE DEF next
  <2> QED BY <1>1, <1>8, GoesOn
<1>10. EngineOK'
  <2>1. CASE next = "succeed"
    <3>1. me'.pc = "succeed" /\ me'.recovering = FALSE /\ me'.src \in Known'
      BY <1>3, <1>4, <1>8, <1>9, <2>1
    <3> QED BY <3>1
            DEF EngineOK, SourcePc, ArtifactPc, ImportPc, RecoverPc, ToActivate, Unsettled
  <2>2. CASE next = "unlink_temp"
    <3>1. /\ pub[a].status = "pending"
          /\ me.recovering => /\ a \notin me.todo
                              /\ \A b \in me.todo : pub[b].status = "pending"
      BY <1>1, <1>8, <2>2, InHand
    <3>2. /\ me'.pc = "unlink_temp" /\ me'.src \in Known' /\ me'.art \in Artifact
          /\ pub'[me'.art].status = "pending"
          /\ me'.recovering => /\ me'.art \notin me'.todo
                               /\ \A b \in me'.todo : pub'[b].status = "pending"
      BY <1>1, <1>3, <1>4, <1>9, <2>2, <3>1
    <3> QED BY <3>2 DEF EngineOK, ImportPc, RecoverPc, ToActivate
  <2> QED BY <1>8, <2>1, <2>2
<1>11. PubKept /\ TempRecorded'
  BY <1>1 DEF ImportInv, PubKept, TempRecorded
<1>12. ImportTypeOK'
  <2>1. ref' \subseteq Artifact \X Row
    BY <1>1, <1>3 DEF ImportInv, ImportTypeOK
  <2> QED BY <1>1, <1>4, <1>5, <1>6, <1>9, <2>1 DEF ImportInv, ImportTypeOK, RowsStep
<1> QED BY <1>1, <1>4, <1>5, <1>7, <1>10, <1>11, <1>12, Assemble

\* The output is not what was recorded, or its path belongs to another.
LEMMA StepFinishFails ==
  ASSUME ImportInv, UNCHANGED crashes, FinishFails
  PROVE  ImportInv'
<1>1. me.pc = "finish" /\ (Fail \/ Clash)
  BY DEF FinishFails
<1> QED BY <1>1, StepFail, StepClash DEF SourcePc

-----------------------------------------------------------------------------
(* The end of plan_import, and retire_old. *)

\* What the engine knows after an import.
LEMMA Imports ==
  ASSUME ImportInv, me.pc \in {"succeed", "retire", "retire_next", "retire_unlink", "retire_done"}
  PROVE  me.src \in Known /\ me.src \in Row /\ me.recovering = FALSE /\ me \in Engine
<1>1. me.src \in Known /\ ~me.recovering /\ me \in Engine
  BY DEF ImportInv, EngineOK, SourcePc, ImportPc, ImportTypeOK
<1> QED BY <1>1 DEF Engine, Known

\* Going on among these places needs the source only, and the output where one is.
LEMMA KeepsRetiring ==
  ASSUME me'.pc \in {"retire", "retire_next", "retire_unlink", "retire_done"},
         me'.src \in Known', me'.recovering = FALSE,
         me'.pc \in {"retire_unlink", "retire_done"} => me'.art \in Artifact
  PROVE  EngineOK'
BY DEF EngineOK, SourcePc, ArtifactPc, ImportPc, RecoverPc, ToActivate, Unsettled

\* The predecessors in hand are rows that are there.
PredsOK == me.preds \subseteq Known

\* The heir takes the outputs of its predecessors over, which are given up.
LEMMA StepSucceed ==
  ASSUME ImportInv, PredsOK, UNCHANGED crashes, Succeed
  PROVE  ImportInv' /\ Known' = Known
<1> DEFINE s == me.src
<1>1. /\ me.pc = "succeed" /\ Goto("retire")
      /\ UNCHANGED <<disk, walk, outcome, lib, temp, art, pub, job, dec, cfg>>
      /\ \/ /\ ref' = ref \cup Inherited(s)
            /\ row' = [r \in Row |-> IF r \in me.preds
                         THEN [row[r] EXCEPT !.status = "removed"] ELSE row[r]]
         \/ UNCHANGED <<ref, row>>
  BY DEF Succeed
<1>2. s \in Known /\ s \in Row /\ me.recovering = FALSE /\ me \in Engine
  BY <1>1, Imports
<1>3. ref' \subseteq Artifact \X Known
  BY <1>1, <1>2 DEF Inherited, ImportInv, Referenced
<1>4. RowsStep /\ Known' = Known
  <2>1. CASE UNCHANGED row
    BY <2>1, SameRows DEF Known
  <2>2. CASE row' = [r \in Row |-> IF r \in me.preds
                       THEN [row[r] EXCEPT !.status = "removed"] ELSE row[r]]
    <3>1. ASSUME NEW r \in Row
          PROVE  /\ row'[r] \in RowRec
                 /\ row'[r].path = row[r].path /\ row'[r].gen = row[r].gen
                 /\ (row'[r].status = "none") = (row[r].status = "none")
      <4>1. row[r] \in RowRec
        BY DEF ImportInv, ImportTypeOK
      <4>2. CASE r \in me.preds
        <5>1. row'[r] = [row[r] EXCEPT !.status = "removed"] /\ row[r].status # "none"
          BY <2>2, <4>2 DEF PredsOK, Known
        <5> QED BY <4>1, <5>1 DEF RowRec, SourceStatus
      <4>3. CASE r \notin me.preds
        BY <2>2, <4>1, <4>3
      <4> QED BY <4>2, <4>3
    <3>2. row' \in [Row -> RowRec]
      BY <2>2, <3>1
    <3> QED BY <3>1, <3>2, Relabelled
  <2> QED BY <1>1, <2>1, <2>2
<1>5. /\ me' \in Engine /\ me'.pc = "retire" /\ me'.recovering = FALSE /\ me'.src = s
  BY <1>1, <1>2, GoesOn DEF Pc
<1>6. EngineOK'
  BY <1>2, <1>4, <1>5, KeepsRetiring
<1>7. Referenced'
  BY <1>3, <1>4 DEF Referenced
<1>8. ArtKept /\ PubKept /\ TempRecorded'
  BY <1>1 DEF ImportInv, ArtKept, PubKept, TempRecorded
<1>9. ImportTypeOK'
  <2>1. ref' \subseteq Artifact \X Row
    BY <1>3 DEF Known
  <2> QED BY <1>1, <1>4, <1>5, <2>1 DEF ImportInv, ImportTypeOK, RowsStep
<1> QED BY <1>1, <1>4, <1>6, <1>7, <1>8, <1>9, Assemble

\* The repair starts, if the new output is the reviewed one.
LEMMA StepRetireStart ==
  ASSUME ImportInv, UNCHANGED crashes, RetireStart
  PROVE  ImportInv'
<1>1. CASE Fail
  BY <1>1, StepFail DEF RetireStart, SourcePc
<1>2. CASE ~Fail
  <2> DEFINE todo == Outdated(me.src)
  <2>1. /\ me.pc = "retire" /\ UNCHANGED <<inventoryVars, lib, temp, tables, cfg>>
        /\ me' = [me EXCEPT !.pc = "retire_next", !.art = None, !.todo = todo]
    BY <1>2 DEF RetireStart
  <2>2. me.src \in Known /\ me.recovering = FALSE /\ me \in Engine
    BY <2>1, Imports
  <2>3. todo \in SUBSET Artifact
    BY DEF Outdated
  <2>4. /\ me' \in Engine /\ me'.pc = "retire_next" /\ me'.recovering = FALSE
        /\ me'.src = me.src
    <3> HIDE DEF todo
    <3> QED BY <2>1, <2>2, <2>3 DEF Engine, Pc
  <2>5. me'.src \in Known'
    BY <2>1, <2>2, <2>4 DEF Known, inventoryVars
  <2>6. EngineOK'
    BY <2>4, <2>5, KeepsRetiring
  <2> QED BY <2>1, <2>4, <2>6, LocalStep DEF ImportInv, ImportTypeOK
<1> QED BY <1>1, <1>2

\* The intent to retire an output.
LEMMA StepRetirePick ==
  ASSUME ImportInv, UNCHANGED crashes, NEW a \in Artifact, RetirePick(a)
  PROVE  ImportInv'
<1> DEFINE was == art[a].status
           rest == me.todo \ {a}
<1>1. /\ me.pc = "retire_next"
      /\ UNCHANGED <<inventoryVars, lib, temp, pub, ref, job, dec, cfg>>
      /\ art' = [art EXCEPT ![a].status = "retiring"]
      /\ me' = [me EXCEPT !.pc = "retire_unlink", !.art = a, !.was = was, !.todo = rest]
  BY DEF RetirePick
<1>2. me.src \in Known /\ me.recovering = FALSE /\ me \in Engine
  BY <1>1, Imports
<1>3. was \in ArtStatus /\ rest \in SUBSET Artifact
  BY <1>2 DEF ImportInv, ImportTypeOK, ArtRec, Engine
<1>4. art' \in [Artifact -> ArtRec] /\ ArtKept
  <2>1. "retiring" \in ArtStatus \ {"none"}
    BY DEF ArtStatus
  <2> QED BY <1>1, <2>1, Restated
<1>5. /\ me' \in Engine /\ me'.pc = "retire_unlink" /\ me'.recovering = FALSE
      /\ me'.src = me.src /\ me'.art = a
  <2> HIDE DEF was, rest
  <2> QED BY <1>1, <1>2, <1>3 DEF Engine, Pc
<1>6. me'.src \in Known'
  BY <1>1, <1>2, <1>5 DEF Known, inventoryVars
<1>7. EngineOK'
  BY <1>5, <1>6, KeepsRetiring
<1>8. RowsStep
  BY <1>1, SameRows DEF inventoryVars
<1>9. PubKept /\ Referenced' /\ TempRecorded'
  BY <1>1 DEF ImportInv, PubKept, Referenced, TempRecorded, Known, inventoryVars
<1>10. ImportTypeOK'
  BY <1>1, <1>4, <1>5 DEF ImportInv, ImportTypeOK, inventoryVars
<1> QED BY <1>1, <1>4, <1>7, <1>8, <1>9, <1>10, Assemble DEF inventoryVars

\* An output that others need is only let go.
LEMMA StepRetireRelease ==
  ASSUME ImportInv, UNCHANGED crashes, NEW a \in Artifact, RetireRelease(a)
  PROVE  ImportInv'
<1> DEFINE rest == me.todo \ {a}
<1>1. /\ me.pc = "retire_next"
      /\ UNCHANGED <<inventoryVars, lib, temp, art, pub, job, dec, cfg>>
      /\ ref' = ref \ {<<a, me.src>>}
      /\ me' = [me EXCEPT !.todo = rest]
  BY DEF RetireRelease
<1>2. me.src \in Known /\ me.recovering = FALSE /\ me \in Engine
  BY <1>1, Imports
<1>3. rest \in SUBSET Artifact
  BY <1>2 DEF Engine
<1>4. /\ me' \in Engine /\ me'.pc = "retire_next" /\ me'.recovering = FALSE
      /\ me'.src = me.src
  <2> HIDE DEF rest
  <2> QED BY <1>1, <1>2, <1>3 DEF Engine
<1>5. me'.src \in Known'
  BY <1>1, <1>2, <1>4 DEF Known, inventoryVars
<1>6. EngineOK'
  BY <1>4, <1>5, KeepsRetiring
<1>7. RowsStep
  BY <1>1, SameRows DEF inventoryVars
<1>8. ArtKept /\ PubKept /\ Referenced' /\ TempRecorded'
  BY <1>1 DEF ImportInv, ArtKept, PubKept, Referenced, TempRecorded, Known, inventoryVars
<1>9. ImportTypeOK'
  BY <1>1, <1>4 DEF ImportInv, ImportTypeOK, inventoryVars
<1> QED BY <1>1, <1>6, <1>7, <1>8, <1>9, Assemble DEF inventoryVars

\* The retired output's file goes.
LEMMA StepRetireUnlink ==
  ASSUME ImportInv, UNCHANGED crashes, RetireUnlink
  PROVE  ImportInv'
<1>1. CASE Fail
  BY <1>1, StepFail DEF RetireUnlink, SourcePc
<1>2. CASE ~Fail
  <2>1. /\ me.pc = "retire_unlink" /\ Goto("retire_done")
        /\ UNCHANGED <<inventoryVars, temp, tables, cfg>>
        /\ lib' = [lib EXCEPT ![art[me.art].target] = None]
    BY <1>2, Zenon DEF RetireUnlink
  <2>2. me.src \in Known /\ me.recovering = FALSE /\ me \in Engine
    BY <2>1, Imports
  <2>3. me.art \in Artifact
    BY <2>1 DEF ImportInv, EngineOK, ArtifactPc
  <2>4. /\ me' \in Engine /\ me'.pc = "retire_done" /\ me'.recovering = FALSE
        /\ me'.src = me.src /\ me'.art = me.art
    BY <2>1, <2>2, GoesOn DEF Pc
  <2>5. me'.src \in Known'
    BY <2>1, <2>2, <2>4 DEF Known, inventoryVars
  <2>6. EngineOK'
    BY <2>3, <2>4, <2>5, KeepsRetiring
  <2>7. RowsStep
    BY <2>1, SameRows DEF inventoryVars
  <2>8. ArtKept /\ PubKept /\ Referenced' /\ TempRecorded'
    BY <2>1 DEF ImportInv, ArtKept, PubKept, Referenced, TempRecorded, Known, inventoryVars, tables
  <2>9. ImportTypeOK'
    BY <2>1, <2>4 DEF ImportInv, ImportTypeOK, inventoryVars, tables
  <2> QED BY <2>1, <2>6, <2>7, <2>8, <2>9, Assemble DEF inventoryVars, tables
<1> QED BY <1>1, <1>2

\* The retired output is nobody's.
LEMMA StepRetireArtifact ==
  ASSUME ImportInv, UNCHANGED crashes, RetireArtifact
  PROVE  ImportInv'
<1>1. /\ me.pc = "retire_done" /\ Goto("retire_next")
      /\ UNCHANGED <<inventoryVars, lib, temp, pub, job, dec, cfg>>
      /\ art' = [art EXCEPT ![me.art].status = "retired"]
      /\ ref' = ref \ {<<me.art, me.src>>}
  BY DEF RetireArtifact
<1>2. me.src \in Known /\ me.recovering = FALSE /\ me \in Engine
  BY <1>1, Imports
<1>3. me.art \in Artifact
  BY <1>1 DEF ImportInv, EngineOK, ArtifactPc
<1>4. art' \in [Artifact -> ArtRec] /\ ArtKept
  <2>1. "retired" \in ArtStatus \ {"none"}
    BY DEF ArtStatus
  <2> QED BY <1>1, <1>3, <2>1, Restated
<1>5. /\ me' \in Engine /\ me'.pc = "retire_next" /\ me'.recovering = FALSE
      /\ me'.src = me.src
  BY <1>1, <1>2, GoesOn DEF Pc
<1>6. me'.src \in Known'
  BY <1>1, <1>2, <1>5 DEF Known, inventoryVars
<1>7. EngineOK'
  BY <1>5, <1>6, KeepsRetiring
<1>8. RowsStep
  BY <1>1, SameRows DEF inventoryVars
<1>9. PubKept /\ Referenced' /\ TempRecorded'
  BY <1>1 DEF ImportInv, PubKept, Referenced, TempRecorded, Known, inventoryVars
<1>10. ImportTypeOK'
  BY <1>1, <1>4, <1>5 DEF ImportInv, ImportTypeOK, inventoryVars
<1> QED BY <1>1, <1>4, <1>7, <1>8, <1>9, <1>10, Assemble DEF inventoryVars

\* Nothing is left to retire.
LEMMA StepRetireDone ==
  ASSUME ImportInv, UNCHANGED crashes, RetireDone
  PROVE  ImportInv'
<1>1. /\ me' = Looping("work", {}) /\ me \in Engine
      /\ UNCHANGED <<inventoryVars, lib, temp, tables, cfg>>
  BY DEF RetireDone, ImportInv, ImportTypeOK
<1>2. me' \in Engine /\ me'.pc = "work" /\ me'.recovering = FALSE
  BY <1>1, BackToLoop
<1>3. EngineOK'
  BY <1>2, NothingInHand
<1> QED BY <1>1, <1>2, <1>3, LocalStep DEF ImportInv, ImportTypeOK

-----------------------------------------------------------------------------
(* The operator, the user and the machine. *)

\* What happens beside the engine touches none of its tables.
LEMMA BesideEngine ==
  ASSUME ImportInv, UNCHANGED <<row, walk, outcome, temp, tables, me, crashes>>,
         disk' \in Inventory, lib' \in [Target -> Ident \cup {None}], cfg' \in Config
  PROVE  ImportInv' /\ Known' = Known
<1>1. RowsStep /\ Known' = Known
  BY SameRows DEF Known
<1>2. ArtKept /\ PubKept /\ Referenced' /\ TempRecorded'
  BY <1>1 DEF ImportInv, ArtKept, PubKept, Referenced, TempRecorded, tables
<1>3. ImportTypeOK'
  BY DEF ImportInv, ImportTypeOK, tables
<1>4. EngineOK'
  BY <1>1 DEF ImportInv, EngineOK, ToActivate, Unsettled, Publishing, Agreed, tables
<1> QED BY <1>1, <1>2, <1>3, <1>4, Assemble DEF tables

\* People and the configuration file.
LEMMA StepUser ==
  ASSUME ImportInv, UNCHANGED crashes, UserStep \/ ChangeConfig
  PROVE  ImportInv' /\ UNCHANGED me /\ Known' = Known
<1>1. CASE UserStep
  <2>1. CASE \E p \in Path, v \in Ident \cup {None} :
               TouchSource(p, v) /\ UNCHANGED <<lib, temp, tables, cfg, me>>
    <3>1. PICK p \in Path, v \in Ident \cup {None} :
            TouchSource(p, v) /\ UNCHANGED <<lib, temp, tables, cfg, me>>
      BY <2>1
    <3>2. disk' \in Inventory
      BY <3>1 DEF TouchSource, ImportInv, ImportTypeOK, Inventory
    <3> QED BY <3>1, <3>2, BesideEngine DEF TouchSource, ImportInv, ImportTypeOK
  <2>2. CASE \E t \in Edited, v \in Ident \cup {None} : TouchLibrary(t, v)
    <3>1. PICK t \in Edited, v \in Ident \cup {None} : TouchLibrary(t, v)
      BY <2>2
    <3>2. lib' \in [Target -> Ident \cup {None}]
      BY <3>1 DEF TouchLibrary, ImportInv, ImportTypeOK
    <3> QED BY <3>1, <3>2, BesideEngine DEF TouchLibrary, inventoryVars, ImportInv, ImportTypeOK
  <2> QED BY <1>1, <2>1, <2>2 DEF UserStep
<1>2. CASE ChangeConfig
  BY <1>2, BesideEngine DEF ChangeConfig, inventoryVars, ImportInv, ImportTypeOK
<1> QED BY <1>1, <1>2

\* A decision outdates the fences of every publication of its source.
LEMMA StepReview ==
  ASSUME ImportInv, UNCHANGED crashes, NEW s \in Row, NEW t \in Target, Review(s, t)
  PROVE  ImportInv' /\ UNCHANGED me /\ Known' = Known
<1> DEFINE rev == (IF job[s].rev > dec[s].rev THEN job[s].rev ELSE dec[s].rev) + 1
           new == [target |-> t, rev |-> rev]
<1>1. /\ me.pc = "idle" /\ me \in Engine /\ rev <= MaxRevision
      /\ dec' = [dec EXCEPT ![s] = new]
      /\ job' = job \/ job' = [job EXCEPT ![s].status = "open"]
      /\ UNCHANGED <<inventoryVars, lib, temp, art, pub, ref, cfg, me, crashes>>
      /\ job \in [Row -> JobRec] /\ dec \in [Row -> DecRec]
  BY DEF Review, ImportInv, ImportTypeOK
<1>2. rev \in Revision /\ rev > dec[s].rev /\ \A q \in Row : dec[q].rev \in Nat
  <2>1. job[s].rev \in Nat /\ \A q \in Row : dec[q].rev \in Nat
    BY <1>1 DEF JobRec, DecRec, Revision
  <2>2. rev \in Nat /\ rev > dec[s].rev
    BY <2>1
  <2> HIDE DEF rev
  <2> QED BY <1>1, <2>1, <2>2, ImportAssumption DEF Revision
<1>3. job' \in [Row -> JobRec]
  BY <1>1, JobStatusType DEF JobStatus
<1>4. /\ new.rev = rev /\ new.target = t /\ new \in DecRec
  BY <1>2 DEF DecRec, Place
<1>5. /\ dec' \in [Row -> DecRec] /\ dec'[s] = new
      /\ \A q \in Row \ {s} : dec'[q] = dec[q]
  <2> HIDE DEF new
  <2> QED BY <1>1, <1>4
<1>6. RowsStep /\ Known' = Known
  BY <1>1, SameRows DEF Known, inventoryVars
<1>7. ReviewsOK'
  <2> HIDE DEF new, rev
  <2> QED BY <1>4, <1>5 DEF ImportInv, ReviewsOK
<1>8. FencesOK'
  <2> SUFFICES ASSUME NEW a \in Artifact, pub'[a].status # "none" PROVE FenceOK(a)'
    BY Zenon DEF FencesOK
  <2>1. FenceOK(a) /\ pub' = pub /\ art' = art /\ pub[a].src \in Row
    BY <1>1 DEF ImportInv, FencesOK, FenceOK, Known
  <2>2. CASE pub[a].src = s
    <3>1. pub[a].fence.review <= dec[s].rev /\ pub[a].fence.review \in Nat
      BY <2>1, <2>2 DEF FenceOK, ImportInv, ImportTypeOK, PubRec, Fence, Revision
    <3>2. pub[a].fence.review < rev
      <4> HIDE DEF rev
      <4>1. rev \in Nat
        BY <1>2 DEF Revision
      <4> QED BY <1>2, <3>1, <4>1
    <3>3. dec'[s].rev = rev
      BY <1>4, <1>5
    <3>4. pub[a].fence.review <= dec'[s].rev /\ pub[a].fence.review # dec'[s].rev
      <4> HIDE DEF rev
      <4>1. rev \in Nat
        BY <1>2 DEF Revision
      <4> QED BY <3>1, <3>2, <3>3, <4>1
    <3> HIDE DEF new, rev
    <3> QED BY <1>6, <2>1, <2>2, <3>4 DEF FenceOK
  <2>3. CASE pub[a].src # s
    <3>1. dec'[pub[a].src] = dec[pub[a].src]
      BY <1>5, <2>1, <2>3
    <3> QED BY <1>6, <2>1, <3>1 DEF FenceOK
  <2> QED BY <2>2, <2>3
<1>9. EngineOK'
  <2>1. me.recovering = FALSE
    BY <1>1 DEF ImportInv, EngineOK, ImportPc, Engine
  <2> QED BY <1>1, <2>1, NothingInHand
<1>10. Referenced' /\ TempRecorded'
  BY <1>1, <1>6 DEF ImportInv, Referenced, TempRecorded
<1>11. ImportTypeOK'
  BY <1>1, <1>3, <1>5 DEF ImportInv, ImportTypeOK, inventoryVars
<1> QED BY <1>1, <1>6, <1>7, <1>8, <1>9, <1>10, <1>11, AssembleParts DEF inventoryVars

\* A death loses what the engine has in hand, and nothing else.
LEMMA StepCrash ==
  ASSUME ImportInv, Crash
  PROVE  ImportInv' /\ me'.preds = {}
<1>1. /\ me' = Stopped /\ crashes' = crashes + 1 /\ crashes < MaxCrashes
      /\ UNCHANGED <<inventoryVars, lib, temp, tables, cfg>>
  BY DEF Crash
<1>2. /\ me' \in Engine /\ me'.pc = "idle" /\ me'.recovering = FALSE /\ me'.preds = {}
  BY <1>1 DEF Stopped, Engine, ArtStatus, Pc
<1>3. EngineOK'
  BY <1>2, NothingInHand
<1>4. crashes' \in 0..MaxCrashes
  BY <1>1, ImportAssumption DEF ImportInv, ImportTypeOK
<1> QED BY <1>1, <1>2, <1>3, <1>4, LocalStep

\* Time passes for a missing source.
LEMMA StepGrace ==
  ASSUME ImportInv, UNCHANGED crashes, Grace
  PROVE  ImportInv' /\ UNCHANGED me /\ Known' = Known
<1>1. PICK r \in Row : /\ GracePasses(r) /\ me.pc = "idle"
                       /\ UNCHANGED <<lib, temp, tables, cfg, me>>
  BY DEF Grace
<1> DEFINE new == [row[r] EXCEPT !.aged = TRUE]
<1>2. /\ row \in [Row -> RowRec] /\ row' = [row EXCEPT ![r] = new]
      /\ UNCHANGED <<disk, walk, outcome>>
  BY <1>1 DEF GracePasses, ImportInv, ImportTypeOK
<1>3. /\ new \in RowRec /\ new.status = row[r].status
      /\ new.path = row[r].path /\ new.gen = row[r].gen
  BY <1>2 DEF RowRec
<1>4. /\ row' \in [Row -> RowRec]
      /\ \A q \in Row : /\ row'[q].path = row[q].path /\ row'[q].gen = row[q].gen
                        /\ row'[q].status = row[q].status
  <2> HIDE DEF new
  <2> QED BY <1>2, <1>3
<1>5. RowsStep /\ Known' = Known
  BY <1>4, Relabelled
<1>6. EngineOK'
  <2>1. me.recovering = FALSE
    BY <1>1 DEF ImportInv, EngineOK, ImportPc, ImportTypeOK, Engine
  <2> QED BY <1>1, <2>1, NothingInHand
<1>7. ArtKept /\ PubKept /\ Referenced' /\ TempRecorded'
  BY <1>1, <1>5 DEF ImportInv, ArtKept, PubKept, Referenced, TempRecorded, tables
<1>8. ImportTypeOK'
  BY <1>1, <1>2, <1>4 DEF ImportInv, ImportTypeOK, tables
<1> QED BY <1>1, <1>2, <1>5, <1>6, <1>7, <1>8, Assemble DEF tables

-----------------------------------------------------------------------------
(* Every step of the importer. *)

\* Nothing is published, planned or referred to before the first scan.
LEMMA ImportStarts == ImportInit => ImportInv /\ PredsOK
<1> SUFFICES ASSUME ImportInit PROVE ImportInv /\ PredsOK
  OBVIOUS
<1>1. /\ Init /\ IInv /\ TypeOK
  BY InitInvariant DEF ImportInit, IInv
<1>2. Known = {}
  BY <1>1 DEF Init, Known, NoRow
<1>3. /\ me \in Engine /\ me.pc = "idle" /\ me.recovering = FALSE /\ me.preds = {}
  BY DEF ImportInit, Stopped, Engine, Pc, ArtStatus
<1>4. EngineOK
  BY <1>3 DEF EngineOK, SourcePc, ArtifactPc, ImportPc, RecoverPc, ToActivate, Unsettled
<1>5. /\ NoArt \in ArtRec /\ NoPub \in PubRec /\ NoJob \in JobRec /\ NoDec \in DecRec
  <2>1. 0 \in Revision
    BY ImportAssumption DEF Revision
  <2> QED BY <2>1 DEF NoArt, ArtRec, ArtStatus, Place, NoPub, PubRec, PubStatus, Fence,
                      NoJob, JobRec, JobStatus, NoDec, DecRec
<1>6. ImportTypeOK
  <2>1. crashes \in 0..MaxCrashes
    BY ImportAssumption DEF ImportInit
  <2> QED BY <1>1, <1>3, <1>5, <2>1 DEF ImportInit, ImportTypeOK, TypeOK
<1>7. PathsOK /\ Referenced /\ PredsOK
  BY <1>2, <1>3 DEF PathsOK, Referenced, PredsOK, ImportInit
<1>8. ReviewsOK /\ FencesOK /\ TempRecorded
  BY DEF ImportInit, NoDec, NoPub, ReviewsOK, FencesOK, TempRecorded
<1> QED BY <1>1, <1>4, <1>6, <1>7, <1>8 DEF ImportInv

\* The engine's steps, one by one.
LEMMA StepEngine ==
  ASSUME ImportInv, PredsOK, UNCHANGED crashes, EngineStep \/ ProcessOnly \/ ScanDone
  PROVE  ImportInv'
<1>1. CASE \E a \in Artifact : RecoverRefused(a) \/ RecoverPick(a)
  BY <1>1, StepRecoverRefused, StepRecoverPick
<1>2. CASE \E s \in Row : Plan(s) \/ PlanImported(s)
  BY <1>2, StepPlan, StepPlanImported
<1>3. CASE \E a \in Artifact : RetirePick(a) \/ RetireRelease(a)
  BY <1>3, StepRetirePick, StepRetireRelease
<1>4. CASE ScanPublish \/ RecoverDone \/ UndoTarget \/ UndoArtifact \/ ProcessOnly \/ ScanDone
  BY <1>4, StepScanPublish, StepLoops, StepUndoTarget, StepUndoArtifact
<1>5. CASE LinkStart \/ PlaceExisting \/ PlaceMissing \/ PlaceIntent \/ PlaceFails
  BY <1>5, StepLinkStart, StepPlaceExisting, StepPlaceMissing, StepPlaceIntent, StepPlaceFails
<1>6. CASE LinkTemp \/ LinkTarget \/ Finish \/ FinishFails
  BY <1>6, StepLinkTemp, StepLinkTarget, StepFinish, StepFinishFails
<1>7. CASE UnlinkTemp \/ PublicationDone \/ Succeed
  BY <1>7, StepUnlinkTemp, StepPublicationDone, StepSucceed
<1>8. CASE RetireStart \/ RetireUnlink \/ RetireArtifact \/ RetireDone
  BY <1>8, StepRetireStart, StepRetireUnlink, StepRetireArtifact, StepRetireDone
<1> QED BY <1>1, <1>2, <1>3, <1>4, <1>5, <1>6, <1>7, <1>8, Zenon DEF EngineStep

-----------------------------------------------------------------------------
(* What the engine has in hand from step to step. *)

\* It is back between two sources, or two recoveries, with nothing.
EmptyHanded == me'.preds = {} /\ me'.art = None /\ me'.pc \in {"idle", "recover", "work"}

\* It goes on with the same source.
SameSource ==
  /\ me'.preds = me.preds /\ me'.src = me.src
  /\ me.pc \in SourcePc /\ me'.pc \in SourcePc

\* It takes a source up.
TakesUp ==
  \/ \E s \in Row : Plan(s) /\ me'.pc = "link" /\ me'.src = s /\ me'.preds = Predecessors(s)
  \/ /\ me.pc \in {"recover", "work"} /\ me'.preds = me.preds
     /\ me'.pc \notin {"recover", "work", "succeed", "reconcile"}
     /\ me'.pc \in {"unlink_temp", "pub_done"} => me'.recovering

\* Errors leave it with nothing.
LEMMA FailLocals ==
  ASSUME me \in Engine, Fail \/ Clash
  PROVE  EmptyHanded
<1>1. me.todo \in SUBSET Artifact
  BY DEF Engine
<1>2. CASE Clash
  <2>1. me' = [Stopped EXCEPT !.calm = FALSE]
    BY <1>2 DEF Clash
  <2> QED BY <2>1 DEF Stopped, EmptyHanded
<1>3. CASE Fail /\ me.recovering
  <2>1. me' = Looping("recover", me.todo)
    BY <1>3 DEF Fail
  <2> QED BY <1>1, <2>1, BackToLoop DEF EmptyHanded
<1>4. CASE Fail /\ ~me.recovering
  <2>1. me' = Looping("work", {})
    BY <1>4 DEF Fail
  <2> QED BY <1>1, <2>1, BackToLoop DEF EmptyHanded
<1> QED BY <1>2, <1>3, <1>4

\* A step to the next place keeps the source.
LEMMA GotoLocals ==
  ASSUME me \in Engine, NEW pc \in SourcePc, Goto(pc), me.pc \in SourcePc
  PROVE  SameSource /\ me'.pc = pc /\ me'.recovering = me.recovering
<1>1. pc \in Pc
  BY DEF SourcePc, Pc
<1> QED BY <1>1, GoesOn DEF SameSource

\* Every step of the engine is of one of these kinds.
LEMMA EngineLocals ==
  ASSUME ImportInv, EngineStep \/ ProcessOnly \/ ScanDone
  PROVE  EmptyHanded \/ SameSource \/ TakesUp \/ UNCHANGED me
<1>0. me \in Engine /\ me.todo \in SUBSET Artifact
  BY DEF ImportInv, ImportTypeOK, Engine
<1>1. CASE Fail \/ Clash
  BY <1>0, <1>1, FailLocals
<1>2. CASE ScanPublish \/ ProcessOnly
  <2>1. me' = [Looping("recover", {a \in Artifact : pub[a].status = "pending"}) EXCEPT !.cfg = cfg]
        \/ me' = [Looping("work", {}) EXCEPT !.cfg = cfg]
    BY <1>2 DEF ScanPublish, ProcessOnly
  <2> QED BY <2>1 DEF Looping, Stopped, EmptyHanded
<1>3. CASE ScanDone \/ RecoverDone \/ RetireDone
  <2>1. me' = Stopped \/ me' = Looping("work", {})
    BY <1>3 DEF ScanDone, RecoverDone, RetireDone
  <2>2. Stopped.pc = "idle" /\ Stopped.preds = {} /\ Stopped.art = None
    BY DEF Stopped
  <2> QED BY <1>0, <2>1, <2>2, BackToLoop DEF EmptyHanded
<1>4. CASE \E a \in Artifact : RecoverRefused(a)
  BY <1>4 DEF RecoverRefused, Looping, Stopped, EmptyHanded
<1>5. CASE \E a \in Artifact : RecoverPick(a)
  <2>1. PICK a \in Artifact : RecoverPick(a)
    BY <1>5
  <2> DEFINE pc == Recovery(a)
             src == pub[a].src
             rest == me.todo \ {a}
             was == art[a].status
  <2>2. /\ me' = [me EXCEPT !.pc = pc, !.art = a, !.src = src, !.todo = rest, !.was = was]
        /\ me.pc = "recover"
    BY <2>1 DEF RecoverPick
  <2>3. pc \in {"unlink_temp", "pub_done", "link_temp", "undo_target", "undo_art"}
    BY DEF Recovery
  <2>4. me.recovering
    BY <2>2 DEF ImportInv, EngineOK, RecoverPc
  <2> HIDE DEF pc, src, rest, was
  <2>5. me'.pc = pc /\ me'.preds = me.preds /\ me'.recovering = me.recovering
    BY <1>0, <2>2 DEF Engine
  <2> QED BY <2>2, <2>3, <2>4, <2>5 DEF TakesUp
<1>6. CASE \E s \in Row : Plan(s)
  <2>1. PICK s \in Row : Plan(s)
    BY <1>6
  <2>2. CASE UNCHANGED me
    BY <2>2
  <2>3. CASE me' = [me EXCEPT !.pc = "link", !.src = s, !.preds = Predecessors(s)]
    <3>1. me'.pc = "link" /\ me'.src = s /\ me'.preds = Predecessors(s)
      BY <1>0, <2>3 DEF Engine
    <3> QED BY <2>1, <3>1 DEF TakesUp
  <2> QED BY <2>1, <2>2, <2>3 DEF Plan
<1>7. CASE \E s \in Row : PlanImported(s)
  <2>1. PICK s \in Row : PlanImported(s)
    BY <1>7
  <2>2. me.pc = "work"
    BY <2>1 DEF PlanImported
  <2>3. CASE me' = [me EXCEPT !.pc = "retire", !.src = s]
    <3>1. me'.pc = "retire" /\ me'.preds = me.preds
      BY <1>0, <2>3 DEF Engine
    <3> QED BY <2>2, <3>1 DEF TakesUp
  <2> QED BY <2>1, <2>3 DEF PlanImported
<1>8. CASE UndoTarget \/ UndoArtifact \/ LinkStart \/ PlaceMissing \/ LinkTemp \/ LinkTarget
  <2>1. CASE ~(Fail \/ Clash)
    <3>1. me.pc \in SourcePc /\ \E pc \in SourcePc : Goto(pc)
      BY <1>8, <2>1, Zenon
         DEF UndoTarget, UndoArtifact, LinkStart, PlaceMissing, LinkTemp, LinkTarget, SourcePc
    <3> QED BY <1>0, <3>1, GotoLocals
  <2> QED BY <1>1, <2>1
<1>9. CASE Finish \/ UnlinkTemp \/ Succeed \/ RetireUnlink \/ RetireArtifact
  <2>1. CASE ~(Fail \/ Clash)
    <3>1. me.pc \in SourcePc /\ \E pc \in SourcePc : Goto(pc)
      BY <1>9, <2>1 DEF Finish, UnlinkTemp, Succeed, RetireUnlink, RetireArtifact, SourcePc
    <3> QED BY <1>0, <3>1, GotoLocals
  <2> QED BY <1>1, <2>1
<1>10. CASE PlaceExisting \/ PlaceIntent
  <2>1. PICK a \in Artifact, pc \in {"finish", "link_temp"}, was \in {"active", "publishing"} :
          me' = [me EXCEPT !.pc = pc, !.art = a, !.was = was]
    BY <1>10 DEF PlaceExisting, PlaceIntent, ActiveAt, At
  <2>2. me.pc \in {"place", "intend"}
    BY <1>10 DEF PlaceExisting, PlaceIntent
  <2>3. me'.pc = pc /\ me'.preds = me.preds /\ me'.src = me.src
    BY <1>0, <2>1 DEF Engine
  <2> QED BY <2>2, <2>3 DEF SameSource, SourcePc
<1>11. CASE PlaceFails \/ FinishFails
  BY <1>1, <1>11 DEF PlaceFails, FinishFails
<1>12. CASE PublicationDone
  <2>1. CASE me.recovering
    <3>1. me' = Looping("recover", me.todo)
      BY <1>12, <2>1 DEF PublicationDone
    <3> QED BY <3>1 DEF Looping, Stopped, EmptyHanded
  <2>2. CASE ~me.recovering
    <3>1. me' = [me EXCEPT !.pc = "succeed"] /\ me.pc = "pub_done"
      BY <1>12, <2>2 DEF PublicationDone
    <3>2. me'.pc = "succeed" /\ me'.preds = me.preds /\ me'.src = me.src
      BY <1>0, <3>1 DEF Engine
    <3> QED BY <3>1, <3>2 DEF SameSource, SourcePc
  <2> QED BY <2>1, <2>2
<1>13. CASE RetireStart
  <2>1. CASE ~(Fail \/ Clash)
    <3> DEFINE todo == Outdated(me.src)
    <3>1. me' = [me EXCEPT !.pc = "retire_next", !.art = None, !.todo = todo] /\ me.pc = "retire"
      BY <1>13, <2>1 DEF RetireStart
    <3> HIDE DEF todo
    <3>2. me'.pc = "retire_next" /\ me'.preds = me.preds /\ me'.src = me.src
      BY <1>0, <3>1 DEF Engine
    <3> QED BY <3>1, <3>2 DEF SameSource, SourcePc
  <2> QED BY <1>1, <2>1
<1>14. CASE \E a \in Artifact : RetirePick(a) \/ RetireRelease(a)
  <2>1. PICK a \in Artifact : RetirePick(a) \/ RetireRelease(a)
    BY <1>14
  <2> DEFINE rest == me.todo \ {a}
             was == art[a].status
  <2>2. /\ me.pc = "retire_next"
        /\ \/ me' = [me EXCEPT !.pc = "retire_unlink", !.art = a, !.was = was, !.todo = rest]
           \/ me' = [me EXCEPT !.todo = rest]
    BY <2>1 DEF RetirePick, RetireRelease
  <2> HIDE DEF rest, was
  <2>3. me'.pc \in {"retire_unlink", "retire_next"} /\ me'.preds = me.preds /\ me'.src = me.src
    BY <1>0, <2>2 DEF Engine
  <2> QED BY <2>2, <2>3 DEF SameSource, SourcePc
<1> QED BY <1>1, <1>2, <1>3, <1>4, <1>5, <1>6, <1>7, <1>8, <1>9, <1>10, <1>11, <1>12,
           <1>13, <1>14, Zenon DEF EngineStep

-----------------------------------------------------------------------------
(* Outputs and the sources they support. *)

\* Between the transaction of finish_link and the one that gives its predecessors up,
\* the source is imported, and is not one of them.
HeirsOK ==
  /\ me.pc \in {"recover", "work"} => me.preds = {}
  /\ me.src \notin me.preds
  /\ me.pc \in {"unlink_temp", "pub_done", "succeed"} /\ ~me.recovering =>
       row[me.src].status = "imported"

\* The importer alone, without the cleanup, keeps every output supported.
SupportInv == ImportInv /\ PredsOK /\ HeirsOK /\ OutputsSupported

\* A published scan removes no row.
LEMMA PublishedLive ==
  ASSUME NEW inv, NEW fresh \in Fresh(inv), NEW r \in Live, row \in [Row -> RowRec]
  PROVE  Published(inv, fresh)[r].status \notin {"none", "removed"}
<1> DEFINE new == Published(inv, fresh)[r]
<1>1. /\ r \in Known /\ r \in Row /\ row[r] \in RowRec
      /\ row[r].status \notin {"none", "removed"}
  BY DEF Live, Known
<1>2. \A p \in NewPaths(inv) : fresh[p] # r
  BY <1>1 DEF Fresh
<1>3. Observed(row[r]).status = row[r].status
  BY <1>1 DEF Observed, RowRec
<1>4. CASE \E p \in Path : r \in Kept(inv, p)
  <2>1. \A p \in Path : r \notin Relocated(inv, p)
    BY <1>4, <1>1 DEF Kept, Latest, Relocated, Aliases
  <2>2. new = Observed(row[r])
    BY <1>2, <1>4, <2>1, <1>1, Zenon DEF Published
  <2> QED BY <1>1, <1>3, <2>2
<1>5. CASE \E p \in Path : r \in Relocated(inv, p)
  <2> DEFINE there == CHOOSE p \in Path : r \in Relocated(inv, p)
  <2>1. \A p \in Path : r \notin Kept(inv, p)
    BY <1>5, <1>1 DEF Kept, Latest, Relocated, Aliases
  <2>2. new = [Observed(row[r]) EXCEPT !.path = there]
    BY <1>2, <1>5, <2>1, <1>1, Zenon DEF Published
  <2>3. new.status = Observed(row[r]).status
    BY <1>1, <2>2 DEF Observed, RowRec
  <2> QED BY <1>1, <1>3, <2>3
<1>6. CASE \A p \in Path : r \notin Kept(inv, p) /\ r \notin Relocated(inv, p)
  <2>1. new = Unseen(inv, r)
    BY <1>2, <1>6, <1>1, Zenon DEF Published
  <2>2. new.status \in {"changed", "missing_pending"}
    BY <1>1, <2>1 DEF Unseen, RowRec
  <2> QED BY <2>2
<1> QED BY <1>4, <1>5, <1>6

\* More references and more live sources support what was supported.
LEMMA SupportKept ==
  ASSUME OutputsSupported, Live \subseteq Live', ref \subseteq ref',
         \A a \in Artifact : art'[a].status = "active" /\ art'[a].owned =>
           art[a].status = "active" /\ art[a].owned
  PROVE  OutputsSupported'
<1> SUFFICES ASSUME NEW a \in Artifact, art'[a].status = "active" /\ art'[a].owned
             PROVE  \E s \in Row : <<a, s>> \in ref' /\ row'[s].status \notin {"none", "removed"}
  BY DEF OutputsSupported, Referring
<1>1. PICK s \in Row : <<a, s>> \in ref /\ row[s].status \notin {"none", "removed"}
  BY DEF OutputsSupported, Referring
<1>2. s \in Live
  BY <1>1 DEF Live, Known
<1>3. s \in Live'
  BY <1>2
<1> QED BY <1>1, <1>3 DEF Live, Known

\* Between two sources there is nobody to inherit.
LEMMA EmptyHeirs == ASSUME EmptyHanded PROVE HeirsOK'
BY DEF EmptyHanded, HeirsOK

\* Rows, artifacts and references that stay keep their support.
LEMMA SupportUnchanged ==
  ASSUME OutputsSupported, UNCHANGED <<row, art, ref>>
  PROVE  OutputsSupported'
BY DEF OutputsSupported, Referring

\* An imported source is live, whatever is written to another row.
LEMMA LabelledLive ==
  ASSUME row \in [Row -> RowRec], NEW s \in Row, NEW status \in {"ready", "imported"},
         row' = [row EXCEPT ![s].status = status]
  PROVE  /\ row'[s].status = status /\ Live \subseteq Live' /\ s \in Live'
         /\ \A r \in Row \ {s} : row'[r] = row[r]
<1> DEFINE new == [row[s] EXCEPT !.status = status]
<1>1. row[s] \in RowRec /\ row' = [row EXCEPT ![s] = new]
  OBVIOUS
<1>2. new.status = status
  BY <1>1 DEF RowRec
<1>3. row'[s] = new /\ \A r \in Row \ {s} : row'[r] = row[r]
  <2> HIDE DEF new
  <2> QED BY <1>1
<1> HIDE DEF new
<1>4. row'[s].status = status
  BY <1>2, <1>3
<1> QED BY <1>3, <1>4 DEF Live, Known

\* The outputs after each step of the engine.
LEMMA OutputsStep ==
  ASSUME SupportInv, EngineStep \/ ProcessOnly \/ ScanDone
  PROVE  OutputsSupported'
<1>0. /\ ImportInv /\ OutputsSupported /\ row \in [Row -> RowRec] /\ me \in Engine
      /\ art \in [Artifact -> ArtRec] /\ ref \subseteq Artifact \X Known
  BY DEF SupportInv, ImportInv, ImportTypeOK, Referenced
<1>1. CASE UNCHANGED <<row, art, ref>>
  BY <1>0, <1>1, SupportUnchanged
<1>2. CASE ScanPublish
  <2>1. PICK fresh \in Fresh(disk) : row' = Published(disk, fresh)
    BY <1>2 DEF ScanPublish
  <2>2. ASSUME NEW r \in Live PROVE r \in Live'
    <3>1. row'[r].status \notin {"none", "removed"}
      BY <1>0, <2>1, PublishedLive
    <3> QED BY <3>1 DEF Live, Known
  <2> QED BY <1>0, <1>2, <2>2, SupportKept DEF ScanPublish, tables
<1>3. CASE \E s \in Row : Plan(s)
  <2>1. PICK s \in Row : Plan(s)
    BY <1>3
  <2>2. UNCHANGED <<art, ref>> /\ (row' = [row EXCEPT ![s].status = "ready"] \/ UNCHANGED row)
    BY <2>1 DEF Plan
  <2>3. Live \subseteq Live'
    BY <1>0, <2>2, LabelledLive DEF Live, Known
  <2> QED BY <1>0, <2>2, <2>3, SupportKept
<1>4. CASE UndoArtifact
  <2>1. /\ UNCHANGED <<row, ref>> /\ art' = [art EXCEPT ![me.art].status = "removed"]
        /\ me.art \in Artifact
    BY <1>4 DEF UndoArtifact, inventoryVars, SupportInv, ImportInv, EngineOK, ArtifactPc
  <2>2. "removed" \in ArtStatus \ {"none"}
    BY DEF ArtStatus
  <2>3. art'[me.art].status = "removed" /\ \A b \in Artifact \ {me.art} : art'[b] = art[b]
    BY <1>0, <2>1, <2>2, Restated
  <2> QED BY <1>0, <2>1, <2>3, SupportKept DEF Live, Known
<1>5. CASE PlaceExisting
  <2> DEFINE t == job[me.src].target
  <2>1. UNCHANGED <<row, ref>>
    BY <1>5 DEF PlaceExisting, inventoryVars
  <2>2. \/ UNCHANGED art
        \/ \E a \in Artifact : art' = [art EXCEPT ![a] = [status |-> "active", target |-> t,
                                                         owned |-> FALSE, receipt |-> lib[t]]]
    BY <1>5, Zenon DEF PlaceExisting
  <2>3. \A b \in Artifact : art'[b].owned => art'[b] = art[b]
    <3>1. CASE UNCHANGED art
      BY <3>1
    <3>2. ASSUME NEW a \in Artifact,
                 art' = [art EXCEPT ![a] = [status |-> "active", target |-> t,
                                            owned |-> FALSE, receipt |-> lib[t]]]
          PROVE  \A b \in Artifact : art'[b].owned => art'[b] = art[b]
      <4> DEFINE new == [status |-> "active", target |-> t, owned |-> FALSE, receipt |-> lib[t]]
      <4>1. ~new.owned
        OBVIOUS
      <4>2. art' = [art EXCEPT ![a] = new]
        BY <3>2
      <4> HIDE DEF new
      <4> QED BY <1>0, <4>1, <4>2
    <3> QED BY <2>2, <3>1, <3>2
  <2> QED BY <1>0, <2>1, <2>3, SupportKept DEF Live, Known
<1>6. CASE PlaceIntent
  <2> DEFINE new == [status |-> "publishing", target |-> job[me.src].target, owned |-> TRUE,
                     receipt |-> disk[row[me.src].path]]
  <2>1. UNCHANGED <<row, ref>>
    BY <1>6 DEF PlaceIntent, inventoryVars
  <2>2. PICK a \in Artifact : art' = [art EXCEPT ![a] = new]
    BY <1>6, Zenon DEF PlaceIntent
  <2>3. new.status = "publishing"
    OBVIOUS
  <2> HIDE DEF new
  <2>4. \A b \in Artifact : art'[b].status = "active" => art'[b] = art[b]
    BY <1>0, <2>2, <2>3
  <2> QED BY <1>0, <2>1, <2>4, SupportKept DEF Live, Known
<1>16. CASE PlaceMissing
  <2>1. UNCHANGED <<row, ref>>
    BY <1>16 DEF PlaceMissing, inventoryVars
  <2>2. job[me.src].target \in Target
    BY <1>0, <1>16, Placing DEF PlaceMissing
  <2>3. \A b \in Artifact : art'[b].status = "active" => art'[b] = art[b]
    BY <1>0, <1>16, <2>2, GivenAway DEF PlaceMissing
  <2> QED BY <1>0, <2>1, <2>3, SupportKept DEF Live, Known
<1>7. CASE Finish
  <2>1. /\ art' = [art EXCEPT ![me.art].status = "active"]
        /\ ref' = ref \cup {<<me.art, me.src>>}
        /\ row' = [row EXCEPT ![me.src].status = "imported"]
        /\ me.art \in Artifact /\ me.src \in Row
    BY <1>7 DEF Finish, SupportInv, ImportInv, EngineOK, ArtifactPc, SourcePc, Known
  <2>2. Live \subseteq Live' /\ row'[me.src].status = "imported"
    BY <1>0, <2>1, LabelledLive
  <2>3. "active" \in ArtStatus \ {"none"}
    BY DEF ArtStatus
  <2>4. \A b \in Artifact \ {me.art} : art'[b] = art[b]
    BY <1>0, <2>1, <2>3, Restated
  <2> SUFFICES ASSUME NEW a \in Artifact, art'[a].status = "active" /\ art'[a].owned
               PROVE  \E q \in Row : <<a, q>> \in ref' /\ row'[q].status \notin {"none", "removed"}
    BY DEF OutputsSupported, Referring
  <2>5. CASE a = me.art
    BY <2>1, <2>2, <2>5
  <2>6. CASE a # me.art
    <3>1. PICK q \in Row : <<a, q>> \in ref /\ row[q].status \notin {"none", "removed"}
      BY <1>0, <2>4, <2>6 DEF OutputsSupported, Referring
    <3>2. q \in Live
      BY <3>1 DEF Live, Known
    <3> QED BY <2>1, <2>2, <3>1, <3>2 DEF Live, Known
  <2> QED BY <2>5, <2>6
<1>8. CASE Succeed /\ dec[me.src].rev > 0
  <2> DEFINE s == me.src
  <2>1. /\ me.pc = "succeed" /\ UNCHANGED art /\ ref' = ref \cup Inherited(s)
        /\ row' = [r \in Row |-> IF r \in me.preds
                     THEN [row[r] EXCEPT !.status = "removed"] ELSE row[r]]
    BY <1>8 DEF Succeed
  <2>2. s \in Row /\ s \notin me.preds /\ row[s].status = "imported"
    BY <1>0, <2>1, Imports DEF SupportInv, HeirsOK
  <2> SUFFICES ASSUME NEW a \in Artifact, art'[a].status = "active" /\ art'[a].owned
               PROVE  \E q \in Row : <<a, q>> \in ref' /\ row'[q].status \notin {"none", "removed"}
    BY DEF OutputsSupported, Referring
  <2>3. PICK q \in Row : <<a, q>> \in ref /\ row[q].status \notin {"none", "removed"}
    BY <1>0, <2>1 DEF OutputsSupported, Referring
  <2>4. CASE q \notin me.preds
    BY <2>1, <2>3, <2>4
  <2>5. CASE q \in me.preds
    <3>1. <<a, s>> \in Inherited(s)
      BY <2>3, <2>5 DEF Inherited, Referring
    <3>2. row'[s] = row[s]
      BY <2>1, <2>2
    <3> QED BY <2>1, <2>2, <3>1, <3>2
  <2> QED BY <2>4, <2>5
<1>9. CASE \E a \in Artifact : RetirePick(a)
  <2>1. PICK a \in Artifact : RetirePick(a)
    BY <1>9
  <2>2. UNCHANGED <<row, ref>> /\ art' = [art EXCEPT ![a].status = "retiring"]
    BY <2>1 DEF RetirePick, inventoryVars
  <2>3. "retiring" \in ArtStatus \ {"none"}
    BY DEF ArtStatus
  <2>4. art'[a].status = "retiring" /\ \A b \in Artifact \ {a} : art'[b] = art[b]
    BY <1>0, <2>2, <2>3, Restated
  <2> QED BY <1>0, <2>2, <2>4, SupportKept DEF Live, Known
<1>10. CASE \E a \in Artifact : RetireRelease(a)
  <2>1. PICK b \in Artifact : RetireRelease(b)
    BY <1>10
  <2>2. /\ UNCHANGED <<row, art>> /\ ref' = ref \ {<<b, me.src>>}
        /\ ~art[b].owned \/ Supports(b, me.src) # {}
    BY <2>1 DEF RetireRelease, inventoryVars
  <2> SUFFICES ASSUME NEW a \in Artifact, art'[a].status = "active" /\ art'[a].owned
               PROVE  \E q \in Row : <<a, q>> \in ref' /\ row'[q].status \notin {"none", "removed"}
    BY DEF OutputsSupported, Referring
  <2>3. PICK q \in Row : <<a, q>> \in ref /\ row[q].status \notin {"none", "removed"}
    BY <1>0, <2>2 DEF OutputsSupported, Referring
  <2>4. CASE a # b
    BY <2>2, <2>3, <2>4
  <2>5. CASE a = b
    <3>1. PICK r \in Row : <<a, r>> \in ref /\ r # me.src /\ row[r].status # "removed"
      BY <2>2, <2>5 DEF Supports, Referring
    <3>2. row[r].status # "none"
      BY <1>0, <3>1 DEF Known
    <3> QED BY <2>2, <2>5, <3>1, <3>2
  <2> QED BY <2>4, <2>5
<1>11. CASE RetireArtifact
  <2>1. /\ UNCHANGED row /\ art' = [art EXCEPT ![me.art].status = "retired"]
        /\ ref' = ref \ {<<me.art, me.src>>} /\ me.art \in Artifact
    BY <1>11 DEF RetireArtifact, inventoryVars, SupportInv, ImportInv, EngineOK, ArtifactPc
  <2>2. "retired" \in ArtStatus \ {"none"}
    BY DEF ArtStatus
  <2>3. art'[me.art].status = "retired" /\ \A b \in Artifact \ {me.art} : art'[b] = art[b]
    BY <1>0, <2>1, <2>2, Restated
  <2> SUFFICES ASSUME NEW a \in Artifact, art'[a].status = "active" /\ art'[a].owned
               PROVE  \E q \in Row : <<a, q>> \in ref' /\ row'[q].status \notin {"none", "removed"}
    BY DEF OutputsSupported, Referring
  <2>4. a # me.art
    BY <2>3
  <2>5. PICK q \in Row : <<a, q>> \in ref /\ row[q].status \notin {"none", "removed"}
    BY <1>0, <2>3, <2>4 DEF OutputsSupported, Referring
  <2> QED BY <2>1, <2>4, <2>5
<1>12. CASE Fail \/ Clash
  BY <1>1, <1>12 DEF Fail, Clash, inventoryVars, tables
<1>13. CASE RecoverDone \/ ProcessOnly \/ ScanDone \/ UndoTarget
            \/ \E a \in Artifact : RecoverRefused(a) \/ RecoverPick(a)
  BY <1>1, <1>12, <1>13
     DEF RecoverDone, ProcessOnly, ScanDone, UndoTarget, RecoverRefused, RecoverPick,
         inventoryVars, tables
<1>14. CASE LinkStart \/ PlaceFails \/ LinkTemp \/ LinkTarget \/ FinishFails \/ UnlinkTemp
            \/ PublicationDone \/ \E s \in Row : PlanImported(s)
  BY <1>1, <1>12, <1>14
     DEF LinkStart, PlaceFails, LinkTemp, LinkTarget, FinishFails, UnlinkTemp,
         PublicationDone, PlanImported, inventoryVars, tables
<1>15. CASE RetireStart \/ RetireUnlink \/ RetireDone \/ (Succeed /\ ~(dec[me.src].rev > 0))
  BY <1>1, <1>12, <1>15
     DEF RetireStart, RetireUnlink, RetireDone, Succeed, inventoryVars, tables
<1> QED BY <1>2, <1>3, <1>4, <1>5, <1>6, <1>7, <1>8, <1>9, <1>10, <1>11, <1>13, <1>14,
           <1>15, <1>16, Zenon DEF EngineStep

\* No step of the engine makes a row disappear.
LEMMA KnownGrows ==
  ASSUME ImportInv, PredsOK, UNCHANGED crashes, EngineStep \/ ProcessOnly \/ ScanDone
  PROVE  Known \subseteq Known'
<1>1. CASE UNCHANGED row
  BY <1>1 DEF Known
<1>2. CASE ScanPublish
  BY <1>2, Rescanned DEF ScanPublish, RowsStep
<1>3. CASE \E s \in Row : Plan(s)
  <2>1. PICK s \in Row : Plan(s)
    BY <1>3
  <2>2. s \in Known /\ (row' = [row EXCEPT ![s].status = "ready"] \/ UNCHANGED row)
    BY <2>1 DEF Plan, Live
  <2>3. "ready" \in SourceStatus \ {"none"}
    BY DEF SourceStatus
  <2> QED BY <1>1, <2>2, <2>3, Labelled
<1>4. CASE Finish
  <2>1. me.src \in Known /\ row' = [row EXCEPT ![me.src].status = "imported"]
    BY <1>4 DEF Finish, ImportInv, EngineOK, SourcePc
  <2>2. "imported" \in SourceStatus \ {"none"}
    BY DEF SourceStatus
  <2> QED BY <2>1, <2>2, Labelled
<1>5. CASE Succeed
  BY <1>5, StepSucceed
<1>6. CASE RecoverDone \/ ProcessOnly \/ ScanDone \/ UndoTarget \/ UndoArtifact
            \/ \E a \in Artifact : RecoverRefused(a) \/ RecoverPick(a)
  BY <1>1, <1>6
     DEF RecoverDone, ProcessOnly, ScanDone, UndoTarget, UndoArtifact, RecoverRefused,
         RecoverPick, Fail, inventoryVars
<1>7. CASE LinkStart \/ PlaceExisting \/ PlaceMissing \/ PlaceIntent \/ PlaceFails
            \/ \E s \in Row : PlanImported(s)
  BY <1>1, <1>7
     DEF LinkStart, PlaceExisting, PlaceMissing, PlaceIntent, PlaceFails, PlanImported, Fail, Clash,
         inventoryVars
<1>8. CASE LinkTemp \/ LinkTarget \/ FinishFails \/ UnlinkTemp \/ PublicationDone
  BY <1>1, <1>8
     DEF LinkTemp, LinkTarget, FinishFails, UnlinkTemp, PublicationDone, Fail, Clash,
         inventoryVars
<1>9. CASE RetireStart \/ RetireUnlink \/ RetireArtifact \/ RetireDone
            \/ \E a \in Artifact : RetirePick(a) \/ RetireRelease(a)
  BY <1>1, <1>9
     DEF RetireStart, RetireUnlink, RetireArtifact, RetireDone, RetirePick, RetireRelease,
         Fail, inventoryVars
<1> QED BY <1>2, <1>3, <1>4, <1>5, <1>6, <1>7, <1>8, <1>9, Zenon DEF EngineStep

\* The predecessors the engine has in hand stay rows that are there.
LEMMA PredsStep ==
  ASSUME ImportInv, PredsOK, UNCHANGED crashes, EngineStep \/ ProcessOnly \/ ScanDone
  PROVE  PredsOK'
<1>1. Known \subseteq Known'
  BY KnownGrows
<1>2. CASE me'.preds = me.preds
  BY <1>1, <1>2 DEF PredsOK
<1>3. CASE me'.preds = {}
  BY <1>3 DEF PredsOK
<1>4. CASE \E s \in Row : me'.preds = Predecessors(s)
  BY <1>1, <1>4 DEF PredsOK, Predecessors
<1> QED BY <1>2, <1>3, <1>4, EngineLocals DEF EmptyHanded, SameSource, TakesUp

\* A source that goes on to the removal of its temporary link was just imported.
LEMMA ImportedOnTheWay ==
  ASSUME ImportInv, HeirsOK, EngineStep \/ ProcessOnly \/ ScanDone,
         me'.pc \in {"unlink_temp", "pub_done", "succeed"}, ~me'.recovering
  PROVE  row'[me'.src].status = "imported"
<1>0. me \in Engine /\ row \in [Row -> RowRec] /\ ~EmptyHanded
  BY DEF ImportInv, ImportTypeOK, EmptyHanded
<1>1. CASE Fail \/ Clash
  BY <1>0, <1>1, FailLocals
<1>2. CASE Finish
  <2>1. /\ me.src \in Row /\ row' = [row EXCEPT ![me.src].status = "imported"]
        /\ \E pc \in Pc : Goto(pc)
    BY <1>2 DEF Finish, ImportInv, EngineOK, SourcePc, Known, Pc
  <2> QED BY <1>0, <2>1, LabelledLive, GoesOn
<1>3. CASE UnlinkTemp /\ ~Fail
  <2>1. /\ me.pc \in {"unlink_temp", "undo_temp"} /\ UNCHANGED row
        /\ Goto(IF me.pc = "undo_temp" THEN "undo_art" ELSE "pub_done")
    BY <1>3 DEF UnlinkTemp, inventoryVars
  <2>2. "undo_art" \in Pc /\ "pub_done" \in Pc
    BY DEF Pc
  <2>3. me'.src = me.src /\ me'.recovering = me.recovering /\ me.pc = "unlink_temp"
    BY <1>0, <2>1, <2>2, GoesOn
  <2> QED BY <2>1, <2>3 DEF HeirsOK
<1>4. CASE PublicationDone
  <2>1. CASE me.recovering
    <3>1. me' = Looping("recover", me.todo)
      BY <1>4, <2>1 DEF PublicationDone
    <3> QED BY <3>1 DEF Looping, Stopped
  <2>2. CASE ~me.recovering
    <3>1. me' = [me EXCEPT !.pc = "succeed"] /\ me.pc = "pub_done" /\ UNCHANGED row
      BY <1>4, <2>2 DEF PublicationDone, inventoryVars
    <3>2. me'.src = me.src
      BY <1>0, <3>1 DEF Engine
    <3> QED BY <2>2, <3>1, <3>2 DEF HeirsOK
  <2> QED BY <2>1, <2>2
<1>5. CASE UndoArtifact
  <2>1. me.pc = "undo_art" /\ Goto("pub_done") /\ me.recovering
    BY <1>5 DEF UndoArtifact, ImportInv, EngineOK, RecoverPc
  <2> QED BY <1>0, <2>1, GoesOn DEF Pc
<1>6. CASE \E a \in Artifact : RecoverPick(a) \/ RecoverRefused(a)
  <2>1. me.recovering
    BY <1>6 DEF RecoverPick, RecoverRefused, ImportInv, EngineOK, RecoverPc
  <2>2. CASE \E a \in Artifact : RecoverPick(a)
    <3>1. PICK a \in Artifact : RecoverPick(a)
      BY <2>2
    <3> DEFINE pc == Recovery(a)
               src == pub[a].src
               rest == me.todo \ {a}
               was == art[a].status
    <3>2. me' = [me EXCEPT !.pc = pc, !.art = a, !.src = src, !.todo = rest, !.was = was]
      BY <3>1 DEF RecoverPick
    <3> HIDE DEF pc, src, rest, was
    <3>3. me'.recovering = me.recovering
      BY <1>0, <3>2 DEF Engine
    <3> QED BY <2>1, <3>3
  <2>3. CASE \E a \in Artifact : RecoverRefused(a)
    BY <2>3 DEF RecoverRefused, Looping, Stopped
  <2> QED BY <1>6, <2>2, <2>3
<1>7. CASE ScanPublish \/ ProcessOnly \/ ScanDone \/ RecoverDone \/ RetireDone
  <2>1. CASE ScanPublish \/ ProcessOnly
    <3>1. me' = [Looping("recover", {a \in Artifact : pub[a].status = "pending"}) EXCEPT !.cfg = cfg]
          \/ me' = [Looping("work", {}) EXCEPT !.cfg = cfg]
      BY <2>1 DEF ScanPublish, ProcessOnly
    <3> QED BY <1>0, <3>1 DEF Looping, Stopped, EmptyHanded
  <2>2. CASE ScanDone \/ RecoverDone \/ RetireDone
    <3>1. me' = Stopped \/ me' = Looping("work", {})
      BY <2>2 DEF ScanDone, RecoverDone, RetireDone
    <3>2. Stopped.pc = "idle"
      BY DEF Stopped
    <3> QED BY <1>0, <3>1, <3>2, BackToLoop
  <2> QED BY <1>7, <2>1, <2>2
<1>8. CASE UndoTarget \/ LinkStart \/ PlaceMissing \/ LinkTemp \/ LinkTarget
  <2>1. CASE ~(Fail \/ Clash)
    <3>1. \E pc \in {"undo_temp", "place", "intend", "link_target", "finish"} : Goto(pc)
      BY <1>8, <2>1, Zenon DEF UndoTarget, LinkStart, PlaceMissing, LinkTemp, LinkTarget
    <3> QED BY <1>0, <3>1, GoesOn DEF Pc
  <2> QED BY <1>1, <2>1
<1>9. CASE Succeed \/ RetireUnlink \/ RetireArtifact
  <2>1. CASE ~(Fail \/ Clash)
    <3>1. \E pc \in {"retire", "retire_done", "retire_next"} : Goto(pc)
      BY <1>9, <2>1 DEF Succeed, RetireUnlink, RetireArtifact
    <3> QED BY <1>0, <3>1, GoesOn DEF Pc
  <2> QED BY <1>1, <2>1
<1>10. CASE PlaceExisting \/ PlaceIntent
  <2>1. PICK a \in Artifact, pc \in {"finish", "link_temp"}, was \in {"active", "publishing"} :
          me' = [me EXCEPT !.pc = pc, !.art = a, !.was = was]
    BY <1>10 DEF PlaceExisting, PlaceIntent, ActiveAt, At
  <2> QED BY <1>0, <2>1 DEF Engine
<1>11. CASE PlaceFails \/ FinishFails
  BY <1>1, <1>11 DEF PlaceFails, FinishFails
<1>12. CASE \E s \in Row : Plan(s) \/ PlanImported(s)
  <2>1. PICK s \in Row : Plan(s) \/ PlanImported(s)
    BY <1>12
  <2> DEFINE preds == Predecessors(s)
  <2>2. /\ me.pc = "work"
        /\ \/ me' = me
           \/ me' = [me EXCEPT !.pc = "link", !.src = s, !.preds = preds]
           \/ me' = [me EXCEPT !.pc = "retire", !.src = s]
    BY <2>1 DEF Plan, PlanImported
  <2> HIDE DEF preds
  <2> QED BY <1>0, <2>2 DEF Engine
<1>13. CASE RetireStart
  <2>1. CASE ~(Fail \/ Clash)
    <3> DEFINE todo == Outdated(me.src)
    <3>1. me' = [me EXCEPT !.pc = "retire_next", !.art = None, !.todo = todo]
      BY <1>13, <2>1 DEF RetireStart
    <3> HIDE DEF todo
    <3> QED BY <1>0, <3>1 DEF Engine
  <2> QED BY <1>1, <2>1
<1>14. CASE \E a \in Artifact : RetirePick(a) \/ RetireRelease(a)
  <2>1. PICK a \in Artifact : RetirePick(a) \/ RetireRelease(a)
    BY <1>14
  <2> DEFINE rest == me.todo \ {a}
             was == art[a].status
  <2>2. /\ me.pc = "retire_next"
        /\ \/ me' = [me EXCEPT !.pc = "retire_unlink", !.art = a, !.was = was, !.todo = rest]
           \/ me' = [me EXCEPT !.todo = rest]
    BY <2>1 DEF RetirePick, RetireRelease
  <2> HIDE DEF rest, was
  <2> QED BY <1>0, <2>2 DEF Engine
<1> QED BY <1>1, <1>2, <1>3, <1>4, <1>5, <1>6, <1>7, <1>8, <1>9, <1>10, <1>11, <1>12,
           <1>13, <1>14, Zenon DEF EngineStep

\* The engine's steps keep the heirs of replaced sources apart from them.
LEMMA HeirsStep ==
  ASSUME ImportInv, HeirsOK, EngineStep \/ ProcessOnly \/ ScanDone
  PROVE  HeirsOK'
<1>1. me'.pc \in {"unlink_temp", "pub_done", "succeed"} /\ ~me'.recovering =>
        row'[me'.src].status = "imported"
  BY ImportedOnTheWay
<1>2. CASE EmptyHanded
  BY <1>2, EmptyHeirs
<1>3. CASE SameSource
  <2>1. me'.pc \notin {"recover", "work"}
    BY <1>3 DEF SameSource, SourcePc
  <2> QED BY <1>1, <1>3, <2>1 DEF SameSource, HeirsOK
<1>4. CASE \E s \in Row : Plan(s) /\ me'.pc = "link" /\ me'.src = s /\ me'.preds = Predecessors(s)
  BY <1>1, <1>4 DEF HeirsOK, Predecessors
<1>5. CASE me.pc \in {"recover", "work"} /\ me'.preds = me.preds
  BY <1>1, <1>5 DEF HeirsOK
<1>6. CASE UNCHANGED me
  BY <1>1, <1>6 DEF HeirsOK
<1> QED BY <1>2, <1>3, <1>4, <1>5, <1>6, EngineLocals DEF TakesUp

\* The engine's steps keep the invariant of the importer alone.
LEMMA SupportStep == SupportInv /\ [ImportNext]_importVars => SupportInv'
<1> SUFFICES ASSUME SupportInv, [ImportNext]_importVars PROVE SupportInv'
  OBVIOUS
<1>0. ImportInv /\ PredsOK /\ HeirsOK /\ OutputsSupported
  BY DEF SupportInv
<1>1. CASE (EngineStep \/ ProcessOnly \/ ScanDone) /\ UNCHANGED crashes
  BY <1>0, <1>1, StepEngine, PredsStep, HeirsStep, OutputsStep DEF SupportInv
<1>2. CASE UserStep /\ UNCHANGED crashes
  <2>1. ImportInv' /\ UNCHANGED me /\ Known' = Known
    BY <1>0, <1>2, StepUser
  <2>2. UNCHANGED <<row, art, ref>>
    BY <1>2 DEF UserStep, TouchSource, TouchLibrary, inventoryVars, tables
  <2> QED BY <1>0, <2>1, <2>2, SupportUnchanged DEF SupportInv, PredsOK, HeirsOK
<1>3. CASE OperatorStep /\ UNCHANGED crashes
  <2>1. ImportInv' /\ UNCHANGED me /\ Known' = Known
    BY <1>0, <1>3, StepUser, StepReview DEF OperatorStep
  <2>2. UNCHANGED <<row, art, ref>>
    BY <1>3 DEF OperatorStep, Review, ChangeConfig, inventoryVars, tables
  <2> QED BY <1>0, <2>1, <2>2, SupportUnchanged DEF SupportInv, PredsOK, HeirsOK
<1>4. CASE Crash
  <2>1. ImportInv' /\ me'.preds = {}
    BY <1>0, <1>4, StepCrash
  <2>2. me'.pc = "idle" /\ me'.art = None /\ UNCHANGED <<row, art, ref>>
    BY <1>4 DEF Crash, Stopped, inventoryVars, tables
  <2> QED BY <1>0, <2>1, <2>2, SupportUnchanged, EmptyHeirs DEF SupportInv, PredsOK, EmptyHanded
<1>5. CASE UNCHANGED importVars
  <2>1. ImportInv'
    BY <1>0, <1>5, LocalStep DEF importVars, ImportInv, ImportTypeOK, EngineOK,
       SourcePc, ArtifactPc, ImportPc, RecoverPc, ToActivate, Unsettled, Publishing, Agreed,
       Known, tables, inventoryVars
  <2> QED BY <1>0, <1>5, <2>1, SupportUnchanged
          DEF SupportInv, PredsOK, HeirsOK, Known, importVars, tables, inventoryVars
<1> QED BY <1>1, <1>2, <1>3, <1>4, <1>5 DEF ImportNext

\* The importer alone has every output supported from the start.
LEMMA SupportStarts == ImportInit => SupportInv
<1> SUFFICES ASSUME ImportInit PROVE SupportInv
  OBVIOUS
<1>1. ImportInv /\ PredsOK
  BY ImportStarts
<1>2. HeirsOK /\ OutputsSupported
  BY DEF ImportInit, Stopped, NoArt, HeirsOK, OutputsSupported
<1> QED BY <1>1, <1>2 DEF SupportInv

\* The invariant of the importer without the cleanup, across crashes, retries, reviews,
\* configuration changes and whatever the user does to both trees.
THEOREM SupportInvariant == ImportSpec => []SupportInv
<1>1. ImportInit => SupportInv
  BY SupportStarts
<1>2. SupportInv /\ [ImportNext]_importVars => SupportInv'
  BY SupportStep
<1> QED BY <1>1, <1>2, PTL DEF ImportSpec

\* Rows, artifacts, publications, jobs, files and the engine's locals have their types.
THEOREM ImportTypeCorrect == ImportSpec => []ImportTypeOK
<1>1. SupportInv => ImportTypeOK
  BY DEF SupportInv, ImportInv
<1> QED BY <1>1, SupportInvariant, PTL

\* No output the engine owns and calls active is orphaned by the importer itself: the
\* heir takes the references over in the transaction that gives its predecessors up.
THEOREM OutputsSupportedHolds == ImportSpec => []OutputsSupported
<1>1. SupportInv => OutputsSupported
  BY DEF SupportInv
<1> QED BY <1>1, SupportInvariant, PTL

\* Every temporary link is named by a publication that recover or the operator will see.
THEOREM TempRecordedHolds == ImportSpec => []TempRecorded
<1>1. SupportInv => TempRecorded
  BY DEF SupportInv, ImportInv
<1> QED BY <1>1, SupportInvariant, PTL

-----------------------------------------------------------------------------
(* Publications and reviews. *)

\* A step makes a publication active only under the latest review of its source.
Respects ==
  \A a \in Artifact :
    art[a].status = "publishing" /\ art'[a].status = "active" =>
      LET s == pub[a].src
      IN  dec[s].rev > 0 => art[a].target = dec[s].target

\* An artifact that only gets another status than "active" gives no offence.
LEMMA RestatedRespects ==
  ASSUME ImportInv, NEW a \in Artifact, NEW status \in ArtStatus \ {"none", "active"},
         art' = [art EXCEPT ![a].status = status]
  PROVE  Respects
<1>1. art'[a].status = status /\ \A b \in Artifact \ {a} : art'[b] = art[b]
  BY Restated
<1> QED BY <1>1 DEF Respects

\* Only finish_link activates a publication: the one the engine has in hand, whose
\* library path its source's review, if there is one, agrees with.
LEMMA EngineRespects ==
  ASSUME ImportInv, EngineStep \/ ProcessOnly \/ ScanDone
  PROVE  Respects
<1>0. art \in [Artifact -> ArtRec]
  BY DEF ImportInv, ImportTypeOK
<1>1. CASE UNCHANGED art
  BY <1>1 DEF Respects
<1>2. CASE UndoArtifact
  <2>1. me.art \in Artifact /\ art' = [art EXCEPT ![me.art].status = "removed"]
    BY <1>2 DEF UndoArtifact, ImportInv, EngineOK, ArtifactPc
  <2> QED BY <2>1, RestatedRespects DEF ArtStatus
<1>3. CASE PlaceExisting
  <2> DEFINE t == job[me.src].target
             new == [status |-> "active", target |-> t, owned |-> FALSE, receipt |-> lib[t]]
  <2>1. \/ UNCHANGED art
        \/ \E a \in Artifact : art[a].status = "none" /\ art' = [art EXCEPT ![a] = new]
    BY <1>3, Zenon DEF PlaceExisting
  <2> HIDE DEF new
  <2>2. \A b \in Artifact : art[b].status = "publishing" => art'[b] = art[b]
    BY <1>0, <2>1
  <2> QED BY <2>2 DEF Respects
<1>4. CASE PlaceMissing \/ PlaceIntent
  <2> DEFINE new == [status |-> "publishing", target |-> job[me.src].target, owned |-> TRUE,
                     receipt |-> disk[row[me.src].path]]
  <2>1. CASE PlaceMissing
    <3>1. job[me.src].target \in Target
      BY <2>1, Placing DEF PlaceMissing
    <3>2. \A b \in Artifact : art[b].status = "publishing" => art'[b] = art[b]
      BY <1>0, <2>1, <3>1, GivenAway DEF PlaceMissing, ActiveAt
    <3> QED BY <3>2 DEF Respects
  <2>2. CASE PlaceIntent
    <3>1. PICK a \in Artifact : art[a].status = "none" /\ art' = [art EXCEPT ![a] = new]
      BY <2>2, Zenon DEF PlaceIntent
    <3> HIDE DEF new
    <3>2. \A b \in Artifact : art[b].status = "publishing" => art'[b] = art[b]
      BY <1>0, <3>1
    <3> QED BY <3>2 DEF Respects
  <2> QED BY <1>4, <2>1, <2>2
<1>5. CASE Finish
  <2>1. me.art \in Artifact /\ me.pc = "finish" /\ art' = [art EXCEPT ![me.art].status = "active"]
    BY <1>5 DEF Finish, ImportInv, EngineOK, ArtifactPc
  <2>2. \A b \in Artifact \ {me.art} : art'[b] = art[b]
    BY <2>1, Restated DEF ArtStatus
  <2>3. CASE Publishing
    <3>1. pub[me.art].src = me.src /\ Agreed(me.src, art[me.art].target)
      BY <2>1, <2>3, InHand
    <3> QED BY <2>2, <3>1 DEF Respects, Agreed
  <2>4. CASE ~Publishing
    <3>1. art[me.art].status = "active"
      BY <2>1, <2>4 DEF ImportInv, EngineOK
    <3> QED BY <2>2, <3>1 DEF Respects
  <2> QED BY <2>3, <2>4
<1>6. CASE \E a \in Artifact : RetirePick(a)
  <2>1. PICK a \in Artifact : art' = [art EXCEPT ![a].status = "retiring"]
    BY <1>6 DEF RetirePick
  <2> QED BY <2>1, RestatedRespects DEF ArtStatus
<1>7. CASE RetireArtifact
  <2>1. me.art \in Artifact /\ art' = [art EXCEPT ![me.art].status = "retired"]
    BY <1>7 DEF RetireArtifact, ImportInv, EngineOK, ArtifactPc
  <2> QED BY <2>1, RestatedRespects DEF ArtStatus
<1>8. CASE ScanPublish \/ RecoverDone \/ ProcessOnly \/ ScanDone \/ UndoTarget
            \/ \E a \in Artifact : RecoverRefused(a) \/ RecoverPick(a) \/ RetireRelease(a)
  BY <1>1, <1>8
     DEF ScanPublish, RecoverDone, ProcessOnly, ScanDone, UndoTarget, RecoverRefused,
         RecoverPick, RetireRelease, Fail, tables
<1>9. CASE LinkStart \/ PlaceFails \/ LinkTemp \/ LinkTarget \/ FinishFails
            \/ \E s \in Row : Plan(s) \/ PlanImported(s)
  BY <1>1, <1>9
     DEF LinkStart, PlaceFails, LinkTemp, LinkTarget, FinishFails, Plan, PlanImported,
         Fail, Clash, tables
<1>10. CASE UnlinkTemp \/ PublicationDone \/ Succeed \/ RetireStart \/ RetireUnlink \/ RetireDone
  BY <1>1, <1>10
     DEF UnlinkTemp, PublicationDone, Succeed, RetireStart, RetireUnlink, RetireDone,
         Fail, tables
<1> QED BY <1>2, <1>3, <1>4, <1>5, <1>6, <1>7, <1>8, <1>9, <1>10, Zenon DEF EngineStep

\* A publication becomes active only under the latest review of its source, whichever
\* run of the engine completes it.
THEOREM ReviewWinsHolds == ImportSpec => ReviewWins
<1>1. SupportInv /\ [ImportNext]_importVars =>
        [\A a \in Artifact :
           art[a].status = "publishing" /\ art'[a].status = "active" =>
             LET s == pub[a].src
             IN  dec[s].rev > 0 => art[a].target = dec[s].target]_importVars
  <2> SUFFICES ASSUME SupportInv, ImportNext PROVE Respects
    BY DEF Respects
  <2>1. CASE EngineStep \/ ProcessOnly \/ ScanDone
    BY <2>1, EngineRespects DEF SupportInv
  <2>2. CASE OperatorStep \/ UserStep \/ Crash
    <3>1. UNCHANGED art
      BY <2>2 DEF OperatorStep, Review, ChangeConfig, UserStep, TouchLibrary, Crash, tables
    <3> QED BY <3>1 DEF Respects
  <2> QED BY <2>1, <2>2 DEF ImportNext
<1> QED BY <1>1, SupportInvariant, PTL DEF ImportSpec, ReviewWins

-----------------------------------------------------------------------------
(* What the library keeps of an imported source. *)

Standing == {"active", "deleting", "target_missing", "removed"}

\* The output that stands, or once stood, for a source at the path it is imported to.
Stands(a, s) ==
  /\ art[a].target = job[s].target /\ <<a, s>> \in ref
  /\ art[a].status \in Standing

\* Whoever is imported has one.
Counted == \A s \in Live : job[s].status = "imported" => \E a \in Artifact : Stands(a, s)

\* Only rows that are there have been planned, and they have a fingerprint.
FirstScanned ==
  /\ \A s \in Row \ Known : job[s].status = "none"
  /\ \A s \in Known : row[s].fp # None

\* The partial unique index media_active_path.
OnePath ==
  \A a, b \in Artifact :
    /\ art[a].status \in HoldsPath /\ art[b].status \in HoldsPath
    /\ art[a].target = art[b].target
    => a = b

\* Nobody is imported to an output before it is active, and an output has a library path.
Unshared ==
  \A a \in Artifact :
    /\ art[a].status \in {"none", "publishing"} => Referring(a) = {}
    /\ art[a].status # "none" => art[a].target \in Target

\* Nothing but the output in hand counts for its path.
Alone(a) == \A b \in Artifact \ {a} : art[b].target = art[a].target => art[b].status \notin HoldsPath

\* What the engine is about to take: outputs its source was imported to before.
TakesOK ==
  /\ me.pc = "undo_target" => me.was = art[me.art].status
  /\ me.pc \in {"retire_next", "retire_unlink", "retire_done"} =>
       \A a \in me.todo : /\ art[a].target # job[me.src].target
                          /\ art[a].status \in {"active", "retiring"}
  /\ me.pc \in {"retire_unlink", "retire_done"} =>
       /\ art[me.art].status = "retiring" /\ art[me.art].target # job[me.src].target
       /\ me.art \notin me.todo
  /\ me.pc = "retire_unlink" /\ me.was # "retiring" =>
       Alone(me.art) /\ Supports(me.art, me.src) = {}

\* Between two sources the engine has no output in hand.
FreeHands == me.pc \in {"work", "reconcile"} => me.art = None

StaysInv == Counted /\ FirstScanned /\ OnePath /\ Unshared /\ TakesOK /\ FreeHands

-----------------------------------------------------------------------------

\* Where nothing is about to be taken there is nothing to know.
LEMMA TakesNothing ==
  ASSUME me'.pc \notin {"undo_target", "retire_next", "retire_unlink", "retire_done"}
  PROVE  TakesOK'
BY DEF TakesOK

\* An engine with nothing in hand is about to take nothing.
LEMMA EmptyTakes == ASSUME EmptyHanded PROVE TakesOK'
BY TakesNothing DEF EmptyHanded

\* A source that is imported was so before, to the same path.
JobsKept ==
  \A s \in Row : job'[s].status = "imported" =>
    job[s].status = "imported" /\ job'[s].target = job[s].target

\* A source is planned again, or its output is missed.
Reopens ==
  \E s \in Known, status \in {"open", "target_missing"} : job' = [job EXCEPT ![s].status = status]

\* A job that is opened again is imported no more; the others are as they were.
LEMMA Reopened ==
  ASSUME job \in [Row -> JobRec], Reopens \/ UNCHANGED job
  PROVE  JobsKept /\ \A q \in Row \ Known : job'[q] = job[q]
<1>1. CASE UNCHANGED job
  BY <1>1 DEF JobsKept
<1>2. ASSUME NEW s \in Known, NEW status \in {"open", "target_missing"},
             job' = [job EXCEPT ![s].status = status]
      PROVE  JobsKept /\ \A q \in Row \ Known : job'[q] = job[q]
  <2> DEFINE new == [job[s] EXCEPT !.status = status]
  <2>1. s \in Row /\ new.status = status /\ status # "imported"
    BY <1>2 DEF Known, JobRec
  <2>2. job'[s] = new /\ \A q \in Row \ {s} : job'[q] = job[q]
    <3> HIDE DEF new
    <3>1. job' = [job EXCEPT ![s] = new]
      BY <1>2 DEF new
    <3> QED BY <2>1, <3>1
  <2> HIDE DEF new
  <2> QED BY <2>1, <2>2 DEF JobsKept
<1> QED BY <1>1, <1>2 DEF Reopens

\* As long as the outputs stay that count, no source is imported that was not, and no row
\* comes back, the imported ones are counted.
LEMMA CountedKept ==
  ASSUME StaysInv, JobsKept, Live' \cap Known \subseteq Live,
         \A a \in Artifact, s \in Live : Stands(a, s) /\ s \in Live' /\ job'[s].status = "imported" =>
           /\ art'[a].target = art[a].target /\ <<a, s>> \in ref'
           /\ art'[a].status \in Standing
  PROVE  Counted'
<1> SUFFICES ASSUME NEW s \in Live', job'[s].status = "imported"
             PROVE  \E a \in Artifact : Stands(a, s)'
  BY DEF Counted
<1>1. s \in Row
  BY DEF Live, Known
<1>2. job[s].status = "imported" /\ job'[s].target = job[s].target
  BY <1>1 DEF JobsKept
<1>3. s \in Live
  BY <1>1, <1>2 DEF StaysInv, FirstScanned
<1>4. PICK a \in Artifact : Stands(a, s)
  BY <1>2, <1>3 DEF StaysInv, Counted
<1>5. /\ art'[a].target = art[a].target /\ <<a, s>> \in ref'
      /\ art'[a].status \in Standing
  BY <1>3, <1>4
<1> QED BY <1>2, <1>4, <1>5 DEF Standing, Stands

\* Steps that leave rows, outputs and supports alone, and at most open a job.
LEMMA QuietBooks ==
  ASSUME ImportInv, StaysInv, UNCHANGED <<row, art, ref>>, Reopens \/ UNCHANGED job
  PROVE  Counted' /\ FirstScanned' /\ OnePath' /\ Unshared'
<1>1. JobsKept /\ \A q \in Row \ Known : job'[q] = job[q]
  BY Reopened DEF ImportInv, ImportTypeOK
<1>2. Live' = Live /\ Known' = Known
  BY DEF Live, Known
<1>3. Counted'
  BY <1>1, <1>2, CountedKept DEF Standing, Stands
<1>4. OnePath' /\ Unshared'
  BY DEF StaysInv, OnePath, Unshared, Referring
<1>5. FirstScanned'
  BY <1>1, <1>2 DEF StaysInv, FirstScanned
<1> QED BY <1>3, <1>4, <1>5

\* Where the tables stay as they are.
LEMMA FailReopens ==
  ASSUME ImportInv, me.pc \in SourcePc, Fail
  PROVE  UNCHANGED <<row, art, ref>> /\ (Reopens \/ UNCHANGED job)
<1>1. me.src \in Known
  BY DEF ImportInv, EngineOK
<1> QED BY <1>1 DEF Fail, Reopens, inventoryVars

\* A publication of a scan counts misses, follows renames and brings new rows.
LEMMA BooksScan ==
  ASSUME ImportInv, StaysInv, ScanPublish
  PROVE  Counted' /\ FirstScanned' /\ OnePath' /\ Unshared'
<1>1. PICK fresh \in Fresh(disk) : row' = Published(disk, fresh)
  BY DEF ScanPublish
<1>2. /\ UNCHANGED <<art, ref, job>> /\ TypeOK /\ disk \in Inventory
  BY DEF ScanPublish, tables, ImportInv, IInv, ImportTypeOK
<1>3. \A r \in Known : /\ row'[r].fp = row[r].fp
                       /\ row'[r].status # "none"
                       /\ row[r].status = "removed" => row'[r] = row[r]
  BY <1>1, <1>2, PublishedKnown
<1>4. Live' \cap Known \subseteq Live /\ Known \subseteq Known'
  BY <1>3 DEF Live, Known
<1>5. JobsKept
  BY <1>2 DEF JobsKept
<1>6. Counted'
  BY <1>2, <1>4, <1>5, CountedKept DEF Standing, Stands
<1>7. OnePath' /\ Unshared'
  BY <1>2 DEF StaysInv, OnePath, Unshared, Referring
<1>8. ASSUME NEW r \in Known' PROVE row'[r].fp # None
  <2>1. CASE r \in Known
    BY <1>3, <2>1 DEF StaysInv, FirstScanned
  <2>2. CASE r \notin Known
    <3>1. r \in Row \ Known /\ row'[r].status # "none"
      BY <2>2 DEF Known
    <3>2. PICK p \in NewPaths(disk) : fresh[p] = r
      BY <1>1, <3>1, PublishedUnknown DEF Known
    <3>3. row'[r] = FirstSeen(disk, p)
      BY <1>1, <3>2, PublishedFresh
    <3>4. row'[r].fp = disk[p] /\ disk[p] # None
      BY <3>2, <3>3 DEF FirstSeen, NewPaths
    <3> QED BY <3>4
  <2> QED BY <2>1, <2>2
<1>9. FirstScanned'
  BY <1>2, <1>4, <1>8 DEF StaysInv, FirstScanned
<1> QED BY <1>6, <1>7, <1>9

\* A row that gets another label keeps its fingerprint.
LEMMA LabelledFile ==
  ASSUME row \in [Row -> RowRec], NEW s \in Row, NEW status \in {"ready", "imported"},
         row' = [row EXCEPT ![s].status = status]
  PROVE  \A r \in Row : row'[r].fp = row[r].fp
<1> DEFINE new == [row[s] EXCEPT !.status = status]
<1>1. row[s] \in RowRec /\ row' = [row EXCEPT ![s] = new] /\ new.fp = row[s].fp
  BY DEF RowRec
<1> HIDE DEF new
<1> QED BY <1>1

\* A plan opens the job of its source.
LEMMA BooksPlan ==
  ASSUME ImportInv, StaysInv, NEW s \in Row, Plan(s)
  PROVE  Counted' /\ FirstScanned' /\ OnePath' /\ Unshared'
<1>1. /\ row \in [Row -> RowRec] /\ job \in [Row -> JobRec] /\ s \in Live /\ s \in Known
      /\ UNCHANGED <<art, ref>>
      /\ row' = [row EXCEPT ![s].status = "ready"] \/ row' = row
  BY DEF Plan, ImportInv, ImportTypeOK, Live
<1>2. Live' = Live /\ Known' = Known /\ \A r \in Row : row'[r].fp = row[r].fp
  <2>1. CASE row' = row
    BY <2>1 DEF Live, Known
  <2>2. CASE row' = [row EXCEPT ![s].status = "ready"]
    <3>1. \A r \in Row \ {s} : row'[r] = row[r]
      BY <1>1, <2>2, LabelledLive
    <3>2. row'[s].status = "ready" /\ \A r \in Row : row'[r].fp = row[r].fp
      BY <1>1, <2>2, LabelledLive, LabelledFile
    <3> QED BY <1>1, <3>1, <3>2 DEF Live, Known
  <2> QED BY <1>1, <2>1, <2>2
<1>3. job'[s].status # "imported" /\ \A q \in Row \ {s} : job'[q] = job[q]
  <2>1. \/ \E t : job' = [job EXCEPT ![s] = Planned(s, t)]
        \/ job' = [job EXCEPT ![s] = Unplanned(s)]
    BY DEF Plan
  <2>2. \A t : Planned(s, t).status = "open"
    BY DEF Planned
  <2>3. Unplanned(s).status = "open"
    BY <1>1 DEF Unplanned, JobRec
  <2> QED BY <1>1, <2>1, <2>2, <2>3
<1>4. JobsKept
  BY <1>3 DEF JobsKept
<1>5. Counted'
  BY <1>1, <1>2, <1>4, CountedKept DEF Standing, Stands
<1>6. OnePath' /\ Unshared'
  BY <1>1 DEF StaysInv, OnePath, Unshared, Referring
<1>7. FirstScanned'
  <2>1. \A q \in Row \ Known : job'[q] = job[q]
    BY <1>1, <1>3
  <2>2. \A q \in Known : row'[q].fp = row[q].fp
    BY <1>2 DEF Known
  <2> QED BY <1>2, <2>1, <2>2 DEF StaysInv, FirstScanned
<1> QED BY <1>5, <1>6, <1>7

\* An output that is there is adopted only where no other holds its path.
LEMMA BooksAdopt ==
  ASSUME ImportInv, StaysInv, PlaceExisting
  PROVE  Counted' /\ FirstScanned' /\ OnePath' /\ Unshared'
<1> DEFINE t == job[me.src].target
           new == [status |-> "active", target |-> t, owned |-> FALSE, receipt |-> lib[t]]
<1>1. UNCHANGED <<row, ref, job>> /\ art \in [Artifact -> ArtRec]
  BY DEF PlaceExisting, inventoryVars, ImportInv, ImportTypeOK
<1>2. \/ UNCHANGED art
      \/ /\ ~PathTaken(t)
         /\ \E a \in Artifact : art[a].status = "none" /\ art' = [art EXCEPT ![a] = new]
  BY Zenon DEF PlaceExisting
<1>3. CASE UNCHANGED art
  BY <1>1, <1>3, QuietBooks
<1>4. ASSUME ~PathTaken(t), NEW a \in Artifact, art[a].status = "none",
             art' = [art EXCEPT ![a] = new]
      PROVE  Counted' /\ FirstScanned' /\ OnePath' /\ Unshared'
  <2>1. new.status = "active" /\ new.target = t
    OBVIOUS
  <2>2. \A b \in Artifact : art[b].target = t => art[b].status \notin HoldsPath
    BY <1>4 DEF PathTaken, At
  <2>9. t \in Target
    BY DEF PlaceExisting, ImportInv, EngineOK
  <2> HIDE DEF new, t
  <2>3. art'[a] = new /\ \A b \in Artifact \ {a} : art'[b] = art[b]
    BY <1>1, <1>4
  <2>4. OnePath'
    BY <2>1, <2>2, <2>3 DEF StaysInv, OnePath
  <2>5. Unshared'
    BY <1>1, <1>4, <2>1, <2>3, <2>9 DEF StaysInv, Unshared, Referring
  <2>6. JobsKept /\ Live' = Live /\ Known' = Known
    BY <1>1 DEF JobsKept, Live, Known
  <2>7. Counted'
    BY <1>1, <1>4, <2>3, <2>6, CountedKept DEF Standing, Stands
  <2>8. FirstScanned'
    BY <1>1, <2>6 DEF StaysInv, FirstScanned
  <2> QED BY <2>4, <2>5, <2>7, <2>8
<1> QED BY <1>2, <1>3, <1>4

\* An output whose file is gone gives its path up, and still stands for its sources.
LEMMA BooksMissing ==
  ASSUME ImportInv, StaysInv, PlaceMissing
  PROVE  Counted' /\ FirstScanned' /\ OnePath' /\ Unshared'
<1>1. UNCHANGED <<row, ref, job>> /\ art \in [Artifact -> ArtRec]
  BY DEF PlaceMissing, inventoryVars, ImportInv, ImportTypeOK
<1>2. \A b \in Artifact :
        /\ art'[b].target = art[b].target
        /\ \/ art'[b] = art[b]
           \/ art'[b].status = "target_missing" /\ art[b].status = "active"
  <2>1. job[me.src].target \in Target
    BY Placing DEF PlaceMissing
  <2> QED BY <1>1, <2>1, GivenAway DEF PlaceMissing, ActiveAt
<1>3. OnePath'
  <2>1. ASSUME NEW b \in Artifact, art'[b].status \in HoldsPath
        PROVE  art[b].status \in HoldsPath /\ art'[b].target = art[b].target
    BY <1>2, <2>1 DEF HoldsPath
  <2> QED BY <2>1 DEF StaysInv, OnePath
<1>4. Unshared'
  <2>1. ASSUME NEW b \in Artifact, art'[b].status \in {"none", "publishing"}
        PROVE  Referring(b) = {}
    <3>1. art'[b] = art[b]
      BY <1>2, <2>1
    <3> QED BY <2>1, <3>1 DEF StaysInv, Unshared
  <2>2. ASSUME NEW b \in Artifact, art'[b].status # "none"
        PROVE  art'[b].target \in Target
    <3>1. art[b].status # "none" /\ art'[b].target = art[b].target
      BY <1>2, <2>2
    <3> QED BY <3>1 DEF StaysInv, Unshared
  <2> QED BY <1>1, <2>1, <2>2 DEF Unshared, Referring
<1>5. JobsKept /\ Live' = Live /\ Known' = Known
  BY <1>1 DEF JobsKept, Live, Known
<1>6. Counted'
  <2>1. ASSUME NEW b \in Artifact, NEW q \in Live, Stands(b, q)
        PROVE  /\ art'[b].target = art[b].target /\ <<b, q>> \in ref'
               /\ art'[b].status \in Standing
    BY <1>1, <1>2, <2>1 DEF Standing, Stands
  <2> QED BY <1>5, <2>1, CountedKept
<1>7. FirstScanned'
  BY <1>1, <1>5 DEF StaysInv, FirstScanned
<1> QED BY <1>3, <1>4, <1>6, <1>7

\* A publication begins only where no output holds its path.
LEMMA BooksIntent ==
  ASSUME ImportInv, StaysInv, PlaceIntent
  PROVE  Counted' /\ FirstScanned' /\ OnePath' /\ Unshared'
<1> DEFINE t == job[me.src].target
           new == [status |-> "publishing", target |-> t, owned |-> TRUE,
                   receipt |-> disk[row[me.src].path]]
<1>1. UNCHANGED <<row, ref, job>> /\ art \in [Artifact -> ArtRec] /\ t \in Target
  <2>1. t \in Target
    BY Placing DEF PlaceIntent
  <2> QED BY <2>1 DEF PlaceIntent, inventoryVars, ImportInv, ImportTypeOK
<1>2. PICK a \in Artifact : art[a].status = "none" /\ art' = [art EXCEPT ![a] = new]
  BY Zenon DEF PlaceIntent
<1>3. \A b \in Artifact : art[b].target = t => art[b].status \notin HoldsPath
  BY DEF PlaceIntent, PathTaken, At
<1>4. new.status = "publishing" /\ new.target = t
  OBVIOUS
<1> HIDE DEF new, t
<1>5. art'[a] = new /\ \A b \in Artifact \ {a} : art'[b] = art[b]
  BY <1>1, <1>2
<1>6. OnePath'
  BY <1>3, <1>4, <1>5 DEF StaysInv, OnePath
<1>7. Unshared'
  <2>1. Referring(a) = {}
    BY <1>2 DEF StaysInv, Unshared
  <2> QED BY <1>1, <1>4, <1>5, <2>1 DEF StaysInv, Unshared, Referring
<1>8. JobsKept /\ Live' = Live /\ Known' = Known
  BY <1>1 DEF JobsKept, Live, Known
<1>9. Counted'
  BY <1>1, <1>2, <1>5, <1>8, CountedKept DEF Standing, Stands
<1>10. FirstScanned'
  BY <1>1, <1>8 DEF StaysInv, FirstScanned
<1> QED BY <1>6, <1>7, <1>9, <1>10

\* The output that is activated stands for the source imported to it.
LEMMA BooksFinish ==
  ASSUME ImportInv, StaysInv, Finish
  PROVE  Counted' /\ FirstScanned' /\ OnePath' /\ Unshared'
<1> DEFINE s == me.src
           a == me.art
           t == art[a].target
           done == [job[s] EXCEPT !.status = "imported", !.target = t]
<1>1. /\ me.pc = "finish" /\ CanActivate(a)
      /\ art' = [art EXCEPT ![a].status = "active"] /\ ref' = ref \cup {<<a, s>>}
      /\ job' = [job EXCEPT ![s].status = "imported", ![s].target = t]
      /\ row' = [row EXCEPT ![s].status = "imported"]
  BY DEF Finish
<1>2. /\ a \in Artifact /\ s \in Known /\ s \in Row /\ job \in [Row -> JobRec]
      /\ row \in [Row -> RowRec]
  BY <1>1 DEF ImportInv, ImportTypeOK, EngineOK, SourcePc, ArtifactPc, Known
<1>3. /\ art'[a].status = "active" /\ art'[a].target = t
      /\ \A b \in Artifact \ {a} : art'[b] = art[b]
  BY <1>1, <1>2, Restated DEF ArtStatus
<1>4. job'[s].status = "imported" /\ job'[s].target = t /\ \A q \in Row \ {s} : job'[q] = job[q]
  <2>1. job' = [job EXCEPT ![s] = done]
    BY <1>1, <1>2
  <2>2. done.status = "imported" /\ done.target = t
    BY <1>2 DEF JobRec
  <2> HIDE DEF done, s
  <2> QED BY <1>2, <2>1, <2>2
<1>5. /\ row'[s].status = "imported" /\ \A r \in Row \ {s} : row'[r] = row[r]
      /\ \A r \in Row : row'[r].fp = row[r].fp
  BY <1>1, <1>2, LabelledLive, LabelledFile
<1> HIDE DEF s, a, t
<1>6. Known' = Known
  BY <1>2, <1>5 DEF Known
<1>7. OnePath'
  <2>1. \A b \in Artifact \ {a} : art[b].target = t => art[b].status \notin HoldsPath
    BY <1>1 DEF CanActivate, At, t
  <2> QED BY <1>3, <2>1 DEF StaysInv, OnePath
<1>8. Unshared'
  <2>1. ASSUME NEW b \in Artifact, art'[b].status \in {"none", "publishing"}
        PROVE  Referring(b)' = {}
    <3>1. b # a /\ art[b].status \in {"none", "publishing"}
      BY <1>3, <2>1
    <3>2. \A q \in Row : <<b, q>> \notin ref
      BY <3>1 DEF StaysInv, Unshared, Referring
    <3> QED BY <1>1, <3>1, <3>2 DEF Referring
  <2>2. art[a].status # "none"
    BY <1>1, <1>2 DEF a, ImportInv, EngineOK, Unsettled, ToActivate, FencesOK, FenceOK
  <2>3. \A b \in Artifact : art'[b].status # "none" => art'[b].target \in Target
    BY <1>2, <1>3, <2>2 DEF StaysInv, Unshared, t
  <2> QED BY <2>1, <2>3 DEF Unshared
<1>9. Counted'
  <2> SUFFICES ASSUME NEW q \in Live', job'[q].status = "imported"
               PROVE  \E b \in Artifact : Stands(b, q)'
    BY DEF Counted
  <2>1. CASE q = s
    BY <1>1, <1>2, <1>3, <1>4, <2>1 DEF Standing, Stands
  <2>2. CASE q # s
    <3>1. q \in Row /\ q \in Live /\ job'[q] = job[q]
      BY <1>4, <1>5, <2>2 DEF Live, Known
    <3>2. PICK b \in Artifact : Stands(b, q)
      BY <3>1 DEF StaysInv, Counted
    <3> QED BY <1>1, <1>3, <3>1, <3>2 DEF Standing, Stands, t
  <2> QED BY <2>1, <2>2
<1>10. FirstScanned'
  <2>1. \A q \in Row \ Known : job'[q] = job[q]
    BY <1>2, <1>4
  <2>2. \A q \in Known : row'[q].fp = row[q].fp
    BY <1>5 DEF Known
  <2> QED BY <1>6, <2>1, <2>2 DEF StaysInv, FirstScanned
<1> QED BY <1>7, <1>8, <1>9, <1>10

\* Heirs inherit; whoever they replace is there no more.
LEMMA BooksSucceed ==
  ASSUME ImportInv, PredsOK, StaysInv, Succeed
  PROVE  Counted' /\ FirstScanned' /\ OnePath' /\ Unshared'
<1>1. /\ UNCHANGED <<art, job>>
      /\ \/ UNCHANGED <<ref, row>>
         \/ /\ ref' = ref \cup Inherited(me.src)
            /\ row' = [r \in Row |-> IF r \in me.preds
                         THEN [row[r] EXCEPT !.status = "removed"] ELSE row[r]]
  BY DEF Succeed
<1>2. CASE UNCHANGED <<ref, row>>
  BY <1>1, <1>2, QuietBooks
<1>3. CASE /\ ref' = ref \cup Inherited(me.src)
           /\ row' = [r \in Row |-> IF r \in me.preds
                        THEN [row[r] EXCEPT !.status = "removed"] ELSE row[r]]
  <2>1. ASSUME NEW r \in Row
        PROVE  /\ row'[r].fp = row[r].fp
               /\ row'[r].status \in {row[r].status, "removed"}
    <3>1. row[r] \in RowRec
      BY DEF ImportInv, ImportTypeOK
    <3>2. CASE r \in me.preds
      <4>1. row'[r] = [row[r] EXCEPT !.status = "removed"]
        BY <1>3, <3>2
      <4> QED BY <3>1, <4>1 DEF RowRec
    <3>3. CASE r \notin me.preds
      BY <1>3, <3>3
    <3> QED BY <3>2, <3>3
  <2>2. Live' \subseteq Live /\ Known \subseteq Known'
    BY <2>1 DEF Live, Known
  <2>3. JobsKept
    BY <1>1 DEF JobsKept
  <2>4. Counted'
    BY <1>1, <1>3, <2>2, <2>3, CountedKept DEF Standing, Stands
  <2>5. OnePath'
    BY <1>1 DEF StaysInv, OnePath
  <2>6. Unshared'
    <3>1. ASSUME NEW b \in Artifact, art[b].status \in {"none", "publishing"}
          PROVE  Referring(b)' = {}
      <4>1. Referring(b) = {}
        BY <3>1 DEF StaysInv, Unshared
      <4>2. \A q \in Row : <<b, q>> \notin ref'
        BY <1>3, <4>1 DEF Referring, Inherited
      <4> QED BY <4>2 DEF Referring
    <3> QED BY <1>1, <3>1 DEF StaysInv, Unshared
  <2>7. FirstScanned'
    <3>1. ASSUME NEW q \in Known' PROVE row'[q].fp # None
      <4>1. q \in Row /\ row'[q].status # "none"
        BY <3>1 DEF Known
      <4>2. CASE q \in Known
        BY <2>1, <4>1, <4>2 DEF StaysInv, FirstScanned
      <4>3. CASE q \notin Known
        BY <1>3, <4>1, <4>3 DEF PredsOK, Known
      <4> QED BY <4>2, <4>3
    <3> QED BY <1>1, <2>2, <3>1 DEF StaysInv, FirstScanned
  <2> QED BY <2>4, <2>5, <2>6, <2>7
<1> QED BY <1>1, <1>2, <1>3

\* One artifact gets a status that neither holds its path nor awaits its first source.
LEMMA BooksRestated ==
  ASSUME ImportInv, StaysInv, NEW a \in Artifact,
         NEW status \in {"retiring", "retired", "removed"}, art[a].status # "none",
         art' = [art EXCEPT ![a].status = status], ref' \subseteq ref, UNCHANGED <<row, job>>,
         \A b \in Artifact, s \in Live : Stands(b, s) /\ job[s].status = "imported" =>
           <<b, s>> \in ref' /\ (b = a => status = "removed")
  PROVE  Counted' /\ FirstScanned' /\ OnePath' /\ Unshared'
<1>1. /\ art'[a].status = status /\ art'[a].target = art[a].target
      /\ \A b \in Artifact \ {a} : art'[b] = art[b]
  BY Restated DEF ArtStatus
<1>2. OnePath'
  BY <1>1 DEF StaysInv, OnePath, HoldsPath
<1>3. Unshared'
  BY <1>1 DEF StaysInv, Unshared, Referring
<1>4. JobsKept /\ Live' = Live /\ Known' = Known
  BY DEF JobsKept, Live, Known
<1>5. Counted'
  <2>1. ASSUME NEW b \in Artifact, NEW s \in Live, Stands(b, s), job'[s].status = "imported"
        PROVE  /\ art'[b].target = art[b].target /\ <<b, s>> \in ref'
               /\ art'[b].status \in Standing
    BY <1>1, <2>1 DEF Standing, Stands
  <2> QED BY <1>4, <2>1, CountedKept
<1>6. FirstScanned'
  BY <1>4 DEF StaysInv, FirstScanned
<1> QED BY <1>2, <1>3, <1>5, <1>6

\* A repair takes only an output that stands for nobody else.
LEMMA BooksRetire ==
  ASSUME ImportInv, StaysInv, NEW a \in Artifact, RetirePick(a) \/ RetireRelease(a)
  PROVE  Counted' /\ FirstScanned' /\ OnePath' /\ Unshared'
<1>1. /\ me.pc = "retire_next" /\ a \in me.todo /\ UNCHANGED <<row, job>>
  BY DEF RetirePick, RetireRelease, inventoryVars
<1>2. art[a].target # job[me.src].target
  BY <1>1 DEF StaysInv, TakesOK
<1>5. art[a].status # "none" /\ a \in Artifact
  BY <1>1 DEF StaysInv, TakesOK
<1>3. CASE RetirePick(a)
  <2>1. /\ Supports(a, me.src) = {} /\ UNCHANGED ref
        /\ art' = [art EXCEPT ![a].status = "retiring"]
    BY <1>3 DEF RetirePick
  <2>2. ASSUME NEW s \in Live, Stands(a, s) PROVE FALSE
    <3>1. s \in Row /\ row[s].status # "removed" /\ s # me.src
      BY <1>2, <2>2 DEF Standing, Stands, Live, Known
    <3>2. s \in Supports(a, me.src)
      BY <2>2, <3>1 DEF Standing, Stands, Supports, Referring
    <3> QED BY <2>1, <3>2
  <2>3. \A b \in Artifact, s \in Live : Stands(b, s) => <<b, s>> \in ref' /\ b # a
    BY <2>1, <2>2 DEF Standing, Stands
  <2> QED BY <1>1, <1>5, <2>1, <2>3, BooksRestated
<1>4. CASE RetireRelease(a)
  <2>1. ref' = ref \ {<<a, me.src>>} /\ UNCHANGED art
    BY <1>4 DEF RetireRelease
  <2>2. JobsKept /\ Live' = Live /\ Known' = Known
    BY <1>1 DEF JobsKept, Live, Known
  <2>3. Counted'
    BY <1>2, <2>1, <2>2, CountedKept DEF Standing, Stands
  <2>4. OnePath' /\ Unshared'
    BY <2>1 DEF StaysInv, OnePath, Unshared, Referring
  <2>5. FirstScanned'
    BY <1>1, <2>2 DEF StaysInv, FirstScanned
  <2> QED BY <2>3, <2>4, <2>5
<1> QED BY <1>3, <1>4

\* An undone publication and a retired output stand for nobody.
LEMMA BooksGiveUp ==
  ASSUME ImportInv, StaysInv, UndoArtifact \/ RetireArtifact
  PROVE  Counted' /\ FirstScanned' /\ OnePath' /\ Unshared'
<1>1. me.art \in Artifact /\ UNCHANGED <<row, job>>
  BY DEF UndoArtifact, RetireArtifact, ImportInv, EngineOK, ArtifactPc, inventoryVars
<1>2. CASE UndoArtifact
  <2>1. art' = [art EXCEPT ![me.art].status = "removed"] /\ UNCHANGED ref
    BY <1>2 DEF UndoArtifact
  <2>2. art[me.art].status # "none"
    BY <1>1, <1>2 DEF UndoArtifact, ImportInv, EngineOK, Unsettled, FencesOK, FenceOK
  <2> QED BY <1>1, <2>1, <2>2, BooksRestated DEF Standing, Stands
<1>3. CASE RetireArtifact
  <2>1. /\ art' = [art EXCEPT ![me.art].status = "retired"] /\ ref' = ref \ {<<me.art, me.src>>}
        /\ me.pc = "retire_done"
    BY <1>3 DEF RetireArtifact
  <2>2. art[me.art].status = "retiring"
    BY <2>1 DEF StaysInv, TakesOK
  <2>3. \A b \in Artifact, s \in Live : Stands(b, s) => <<b, s>> \in ref' /\ b # me.art
    BY <2>1, <2>2 DEF Standing, Stands
  <2>4. art[me.art].status # "none" /\ ref' \subseteq ref
    BY <2>1, <2>2
  <2>5. \A b \in Artifact, s \in Live : Stands(b, s) /\ job[s].status = "imported" =>
          <<b, s>> \in ref' /\ (b = me.art => "retired" = "removed")
    BY <2>3
  <2> QED BY <1>1, <2>1, <2>4, <2>5, BooksRestated, Zenon
<1> QED BY <1>2, <1>3

\* The engine's steps keep the books.
LEMMA BooksStep ==
  ASSUME ImportInv, PredsOK, StaysInv, EngineStep \/ ProcessOnly \/ ScanDone
  PROVE  Counted' /\ FirstScanned' /\ OnePath' /\ Unshared'
<1>1. CASE ProcessOnly \/ ScanDone \/ RecoverDone \/ RetireDone
           \/ \E a \in Artifact : RecoverRefused(a) \/ RecoverPick(a)
  BY <1>1, QuietBooks
     DEF ProcessOnly, ScanDone, RecoverDone, RetireDone, RecoverRefused, RecoverPick,
         inventoryVars, tables
<1>2. CASE UndoTarget \/ LinkStart \/ LinkTemp \/ LinkTarget \/ UnlinkTemp \/ RetireStart
           \/ RetireUnlink
  <2>1. me.pc \in SourcePc
    BY <1>2
       DEF UndoTarget, LinkStart, LinkTemp, LinkTarget, UnlinkTemp, RetireStart, RetireUnlink,
           SourcePc
  <2>2. Fail \/ UNCHANGED <<row, art, ref, job>>
    BY <1>2, Zenon
       DEF UndoTarget, LinkStart, LinkTemp, LinkTarget, UnlinkTemp, RetireStart, RetireUnlink,
           inventoryVars, tables
  <2> QED BY <2>1, <2>2, FailReopens, QuietBooks
<1>3. CASE PlaceFails \/ FinishFails \/ PublicationDone
  <2>1. me.pc \in SourcePc
    BY <1>3 DEF PlaceFails, FinishFails, PublicationDone, SourcePc
  <2>2. Clash => UNCHANGED <<row, art, ref, job>>
    BY DEF Clash, inventoryVars, tables
  <2>3. PublicationDone => UNCHANGED <<row, art, ref, job>>
    BY DEF PublicationDone, inventoryVars
  <2>4. Fail \/ Clash \/ PublicationDone
    BY <1>3 DEF PlaceFails, FinishFails
  <2> QED BY <2>1, <2>2, <2>3, <2>4, FailReopens, QuietBooks
<1>4. CASE \E s \in Row : PlanImported(s)
  <2>1. PICK s \in Row : PlanImported(s)
    BY <1>4
  <2>2. /\ s \in Known /\ UNCHANGED <<row, art, ref>>
        /\ UNCHANGED job \/ job' = [job EXCEPT ![s].status = "target_missing"]
    BY <2>1 DEF PlanImported, Live, inventoryVars
  <2> QED BY <2>2, QuietBooks DEF Reopens
<1>5. CASE ScanPublish \/ PlaceExisting \/ PlaceMissing \/ PlaceIntent \/ Finish \/ Succeed
           \/ UndoArtifact \/ RetireArtifact
           \/ \E s \in Row : Plan(s)
           \/ \E a \in Artifact : RetirePick(a) \/ RetireRelease(a)
  BY <1>5, BooksScan, BooksAdopt, BooksMissing, BooksIntent, BooksFinish, BooksSucceed, BooksGiveUp,
     BooksPlan, BooksRetire
<1>6. ASSUME NEW s \in Row, Plan(s) \/ PlanImported(s)
      PROVE  Counted' /\ FirstScanned' /\ OnePath' /\ Unshared'
  BY <1>4, <1>5, <1>6
<1>7. ASSUME NEW a \in Artifact, RecoverRefused(a) \/ RecoverPick(a) \/ RetirePick(a) \/ RetireRelease(a)
      PROVE  Counted' /\ FirstScanned' /\ OnePath' /\ Unshared'
  <2>1. CASE RecoverRefused(a) \/ RecoverPick(a)
    BY <1>1, <2>1
  <2>2. CASE RetirePick(a) \/ RetireRelease(a)
    BY <2>2, BooksRetire
  <2> QED BY <1>7, <2>1, <2>2
<1> QED BY <1>1, <1>2, <1>3, <1>5, <1>6, <1>7 DEF EngineStep

-----------------------------------------------------------------------------
(* What is about to be taken. *)

\* The engine is back where it is said to be.
LEMMA LoopsAt == ASSUME NEW pc, NEW rest PROVE Looping(pc, rest).pc = pc
BY DEF Looping, Stopped

\* A repair takes up what stands for nobody, and nobody comes to need it meanwhile.
LEMMA TakesStep ==
  ASSUME ImportInv, StaysInv, EngineStep \/ ProcessOnly \/ ScanDone
  PROVE  TakesOK'
<1>0. me \in Engine /\ art \in [Artifact -> ArtRec]
  BY DEF ImportInv, ImportTypeOK
<1>1. CASE Fail \/ Clash
  BY <1>0, <1>1, FailLocals, EmptyTakes
<1>2. CASE ScanPublish \/ ProcessOnly \/ ScanDone \/ RecoverDone \/ RetireDone
           \/ \E a \in Artifact : RecoverRefused(a)
  <2>1. \/ me' = [Looping("recover", {a \in Artifact : pub[a].status = "pending"})
                   EXCEPT !.cfg = cfg]
        \/ me' = [Looping("work", {}) EXCEPT !.cfg = cfg]
        \/ \E a \in Artifact : me' = Looping("recover", me.todo \ {a})
        \/ me' = Looping("work", {}) \/ me' = Stopped
    BY <1>2 DEF ScanPublish, ProcessOnly, ScanDone, RecoverDone, RetireDone, RecoverRefused
  <2>2. CASE \/ me' = [Looping("recover", {a \in Artifact : pub[a].status = "pending"})
                        EXCEPT !.cfg = cfg]
             \/ me' = [Looping("work", {}) EXCEPT !.cfg = cfg]
    <3> QED BY <2>2, TakesNothing DEF Looping, Stopped
  <2>3. CASE \/ \E a \in Artifact : me' = Looping("recover", me.todo \ {a})
             \/ me' = Looping("work", {}) \/ me' = Stopped
    <3>1. Stopped.pc = "idle" /\ Looping("work", {}).pc = "work"
      BY DEF Stopped, Looping
    <3>2. \A rest : Looping("recover", rest).pc = "recover"
      BY LoopsAt
    <3>3. me'.pc \in {"recover", "work", "idle"}
      BY <2>3, <3>1, <3>2
    <3> QED BY <3>3, TakesNothing
  <2> QED BY <2>1, <2>2, <2>3
<1>3. ASSUME NEW a \in Artifact, RecoverPick(a)
      PROVE  TakesOK'
  <2> DEFINE pc == Recovery(a)
             src == pub[a].src
             rest == me.todo \ {a}
             was == art[a].status
  <2>1. me' = [me EXCEPT !.pc = pc, !.art = a, !.src = src, !.todo = rest, !.was = was]
        /\ UNCHANGED art
    BY <1>3 DEF RecoverPick, tables
  <2>2. pc \in {"unlink_temp", "pub_done", "link_temp", "undo_target", "undo_art"}
    BY DEF Recovery
  <2> HIDE DEF pc, src, rest
  <2>3. me'.pc = pc /\ me'.art = a /\ me'.was = art[a].status
    BY <1>0, <2>1 DEF Engine
  <2> QED BY <2>1, <2>2, <2>3 DEF TakesOK
<1>4. ASSUME NEW s \in Row, Plan(s) \/ PlanImported(s)
      PROVE  TakesOK'
  <2>1. me'.pc \in {"link", "retire", "work"}
    BY <1>0, <1>4 DEF Plan, PlanImported, Engine
  <2> QED BY <2>1, TakesNothing
<1>5. CASE PlaceExisting \/ PlaceIntent
  <2>1. me'.pc \in {"finish", "link_temp"}
    BY <1>0, <1>5 DEF PlaceExisting, PlaceIntent, Engine
  <2> QED BY <2>1, TakesNothing
<1>6. CASE LinkStart \/ PlaceMissing \/ LinkTemp \/ LinkTarget \/ Finish \/ UnlinkTemp
           \/ Succeed \/ UndoTarget \/ UndoArtifact
  <2>1. Fail \/ \E pc \in {"place", "intend", "link_target", "finish", "unlink_temp", "succeed",
                           "undo_art", "pub_done", "retire", "undo_temp"} : Goto(pc)
    BY <1>6, Zenon
       DEF LinkStart, PlaceMissing, LinkTemp, LinkTarget, Finish, UnlinkTemp, Succeed,
           UndoTarget, UndoArtifact
  <2>2. ASSUME NEW pc \in {"place", "intend", "link_target", "finish", "unlink_temp", "succeed",
                           "undo_art", "pub_done", "retire", "undo_temp"}, Goto(pc)
        PROVE  TakesOK'
    <3>1. me'.pc = pc
      BY <1>0, <2>2 DEF Goto, Engine
    <3> QED BY <2>2, <3>1, TakesNothing
  <2> QED BY <1>1, <2>1, <2>2
<1>7. CASE PublicationDone
  <2>1. me' = Looping("recover", me.todo) \/ me' = [me EXCEPT !.pc = "succeed"]
    BY <1>7 DEF PublicationDone
  <2>2. me'.pc \in {"recover", "succeed"}
    BY <1>0, <2>1 DEF Looping, Stopped, Engine
  <2> QED BY <2>2, TakesNothing
<1>8. CASE RetireStart /\ ~Fail
  <2> DEFINE rest == Outdated(me.src)
  <2>1. me' = [me EXCEPT !.pc = "retire_next", !.art = None, !.todo = rest]
        /\ UNCHANGED <<art, job>>
    BY <1>8, Zenon DEF RetireStart, tables
  <2>2. \A a \in rest : /\ art[a].target # job[me.src].target
                        /\ art[a].status \in {"active", "retiring"}
    BY DEF Outdated
  <2> HIDE DEF rest
  <2>3. me'.pc = "retire_next" /\ me'.todo = rest /\ me'.src = me.src
    BY <1>0, <2>1 DEF Engine
  <2> QED BY <2>1, <2>2, <2>3 DEF TakesOK
<1>9. ASSUME NEW a \in Artifact, RetirePick(a)
      PROVE  TakesOK'
  <2> DEFINE was == art[a].status
             rest == me.todo \ {a}
  <2>1. /\ me.pc = "retire_next" /\ a \in me.todo /\ Supports(a, me.src) = {}
        /\ UNCHANGED <<row, ref, job>>
        /\ art' = [art EXCEPT ![a].status = "retiring"]
        /\ me' = [me EXCEPT !.pc = "retire_unlink", !.art = a, !.was = was, !.todo = rest]
    BY <1>9 DEF RetirePick, inventoryVars
  <2>2. /\ art'[a].status = "retiring" /\ art'[a].target = art[a].target
        /\ \A b \in Artifact \ {a} : art'[b] = art[b]
    BY <2>1, Restated DEF ArtStatus
  <2>3. /\ \A b \in me.todo : /\ art[b].target # job[me.src].target
                              /\ art[b].status \in {"active", "retiring"}
        /\ me.todo \subseteq Artifact
    BY <1>0, <2>1 DEF StaysInv, TakesOK, Engine
  <2>4. was # "retiring" => Alone(a)'
    <3> SUFFICES ASSUME was # "retiring", NEW b \in Artifact \ {a},
                        art'[b].target = art'[a].target, art'[b].status \in HoldsPath
                 PROVE  FALSE
      BY DEF Alone
    <3>1. b # a /\ art[b].status \in HoldsPath /\ art[a].status = "active"
      BY <2>1, <2>2, <2>3
    <3> QED BY <2>2, <3>1 DEF StaysInv, OnePath, HoldsPath
  <2>5. Supports(a, me.src)' = {} \/ me'.src # me.src
    BY <2>1 DEF Supports, Referring
  <2>6. /\ me'.pc = "retire_unlink" /\ me'.art = a /\ me'.was = was /\ me'.todo = rest
        /\ me'.src = me.src
    <3> HIDE DEF was, rest
    <3> QED BY <1>0, <2>1 DEF Engine
  <2>7. Supports(me.art, me.src)' = {}
    BY <2>1, <2>6 DEF Supports, Referring
  <2>8. \A b \in rest : b \in me.todo /\ b # a /\ b \in Artifact
    BY <2>3
  <2> HIDE DEF was, rest
  <2>9. Alone(me.art)' \/ was = "retiring"
    BY <2>4, <2>6 DEF Alone
  <2>10. \A b \in me'.todo : /\ art'[b].target # job'[me'.src].target
                             /\ art'[b].status \in {"active", "retiring"}
    BY <2>1, <2>2, <2>3, <2>6, <2>8
  <2>11. /\ art'[me'.art].status = "retiring" /\ art'[me'.art].target # job'[me'.src].target
         /\ me'.art \notin me'.todo
    BY <2>1, <2>2, <2>3, <2>6, <2>8
  <2> QED BY <2>6, <2>7, <2>9, <2>10, <2>11 DEF TakesOK
<1>10. ASSUME NEW a \in Artifact, RetireRelease(a)
       PROVE  TakesOK'
  <2> DEFINE rest == me.todo \ {a}
  <2>1. /\ me.pc = "retire_next" /\ me' = [me EXCEPT !.todo = rest] /\ UNCHANGED <<art, job>>
    BY <1>10 DEF RetireRelease
  <2>2. me'.pc = "retire_next" /\ me'.todo \subseteq me.todo /\ me'.src = me.src
    BY <1>0, <2>1 DEF Engine
  <2> QED BY <2>1, <2>2 DEF StaysInv, TakesOK
<1>11. CASE RetireUnlink /\ ~Fail
  <2>1. /\ me.pc = "retire_unlink" /\ Goto("retire_done") /\ UNCHANGED <<art, job>>
    BY <1>11, Zenon DEF RetireUnlink, tables
  <2>2. /\ me'.pc = "retire_done" /\ me'.todo = me.todo /\ me'.src = me.src /\ me'.art = me.art
    BY <1>0, <2>1, GoesOn DEF Pc
  <2> QED BY <2>1, <2>2 DEF StaysInv, TakesOK
<1>12. CASE RetireArtifact
  <2>1. /\ me.pc = "retire_done" /\ Goto("retire_next") /\ UNCHANGED job
        /\ art' = [art EXCEPT ![me.art].status = "retired"]
    BY <1>12 DEF RetireArtifact
  <2>2. /\ me'.pc = "retire_next" /\ me'.todo = me.todo /\ me'.src = me.src
    BY <1>0, <2>1, GoesOn DEF Pc
  <2>3. /\ \A a \in me.todo : /\ art[a].target # job[me.src].target
                              /\ art[a].status \in {"active", "retiring"}
        /\ me.art \notin me.todo /\ me.todo \subseteq Artifact
    BY <1>0, <2>1 DEF StaysInv, TakesOK, Engine
  <2>4. \A a \in me.todo : art'[a] = art[a]
    BY <1>0, <2>1, <2>3
  <2> QED BY <2>1, <2>2, <2>3, <2>4 DEF TakesOK
<1>13. CASE PlaceFails \/ FinishFails
  BY <1>1, <1>13 DEF PlaceFails, FinishFails
<1> QED BY <1>1, <1>2, <1>3, <1>4, <1>5, <1>6, <1>7, <1>8, <1>9, <1>10, <1>11, <1>12, <1>13,
           Zenon DEF EngineStep

\* The books, and what is about to be taken, after any step.
LEMMA StaysStep ==
  ASSUME ImportInv, PredsOK, StaysInv, [ImportNext]_importVars
  PROVE  StaysInv'
<1>1. CASE EngineStep \/ ProcessOnly \/ ScanDone
  <2>1. FreeHands'
    BY <1>1, EngineLocals DEF StaysInv, FreeHands, EmptyHanded, SameSource, SourcePc, TakesUp
  <2> QED BY <1>1, <2>1, BooksStep, TakesStep DEF StaysInv
<1>2. CASE \E s \in Row, t \in Target : Review(s, t)
  <2>1. PICK s \in Row, t \in Target : Review(s, t)
    BY <1>2
  <2>2. /\ s \in Known /\ UNCHANGED <<row, art, ref>> /\ me'.pc = "idle"
        /\ UNCHANGED job \/ job' = [job EXCEPT ![s].status = "open"]
    BY <2>1 DEF Review, inventoryVars
  <2>3. FreeHands'
    BY <2>2 DEF FreeHands
  <2> QED BY <2>2, <2>3, QuietBooks, TakesNothing DEF StaysInv, Reopens
<1>3. CASE UserStep \/ ChangeConfig \/ UNCHANGED importVars
  <2>1. UNCHANGED <<row, art, ref, job, me>>
    BY <1>3 DEF UserStep, TouchSource, TouchLibrary, ChangeConfig, importVars, inventoryVars,
                tables
  <2>2. TakesOK' /\ FreeHands'
    BY <2>1 DEF StaysInv, TakesOK, Alone, Supports, Referring, FreeHands
  <2> QED BY <2>1, <2>2, QuietBooks DEF StaysInv
<1>4. CASE Crash
  <2>1. UNCHANGED <<row, art, ref, job>> /\ me'.pc = "idle"
    BY <1>4 DEF Crash, Stopped, inventoryVars, tables
  <2>2. FreeHands'
    BY <2>1 DEF FreeHands
  <2> QED BY <2>1, <2>2, QuietBooks, TakesNothing DEF StaysInv
<1> QED BY <1>1, <1>2, <1>3, <1>4 DEF ImportNext, OperatorStep

\* Nothing has been imported at first.
LEMMA StaysStarts == ImportInit => StaysInv
<1> SUFFICES ASSUME ImportInit PROVE StaysInv
  OBVIOUS
<1>1. Known = {} /\ Live = {}
  BY DEF ImportInit, Init, NoRow, Known, Live
<1>2. Counted /\ FirstScanned
  BY <1>1 DEF ImportInit, NoJob, Counted, FirstScanned
<1>3. OnePath /\ Unshared /\ TakesOK /\ FreeHands
  BY DEF ImportInit, NoArt, OnePath, HoldsPath, Unshared, Referring, TakesOK, Stopped, FreeHands
<1> QED BY <1>2, <1>3 DEF StaysInv

\* Neither a repair nor the undo of a publication takes a file that still stands for an
\* imported source.
LEMMA StaysSafe ==
  ASSUME ImportInv, StaysInv, ImportNext, ~UserStep, ~StaleIntent,
         NEW s \in Live, ~GivenUp(s), LosesFile(s)
  PROVE  FALSE
<1>1. /\ s \in Known /\ row[s].fp # None /\ job[s].status = "imported"
      /\ lib[job[s].target] = row[s].fp /\ lib'[job[s].target] = None
  BY DEF Live, StaysInv, FirstScanned, LosesFile
<1>2. lib' # lib
  BY <1>1
<1>3. PICK b \in Artifact : Stands(b, s)
  BY <1>1 DEF StaysInv, Counted
<1>4. CASE RetireUnlink \/ UndoTarget
  <2>1. lib' = [lib EXCEPT ![art[me.art].target] = None]
    BY <1>2, <1>4, Zenon DEF RetireUnlink, UndoTarget, Fail
  <2>2. job[s].target = art[me.art].target /\ me.art \in Artifact
    <3>1. lib \in [Target -> Ident \cup {None}]
      BY DEF ImportInv, ImportTypeOK
    <3>2. me.art \in Artifact
      BY <1>4 DEF RetireUnlink, UndoTarget, ImportInv, EngineOK, ArtifactPc
    <3> QED BY <1>1, <2>1, <3>1, <3>2
  <2>3. s \notin Referring(me.art) /\ Alone(me.art)
    <3>1. CASE RetireUnlink
      <4>1. /\ me.pc = "retire_unlink" /\ me.was # "retiring"
        BY <3>1 DEF RetireUnlink, StaleIntent
      <4>2. /\ Alone(me.art) /\ Supports(me.art, me.src) = {}
            /\ art[me.art].target # job[me.src].target
        BY <4>1 DEF StaysInv, TakesOK
      <4>3. s # me.src /\ row[s].status # "removed"
        BY <2>2, <4>2 DEF Live
      <4> QED BY <4>2, <4>3 DEF Supports
    <3>2. CASE UndoTarget
      <4>1. art[me.art].status = "publishing"
        BY <3>2 DEF UndoTarget, StaleIntent, StaysInv, TakesOK
      <4>2. Referring(me.art) = {}
        BY <2>2, <4>1 DEF StaysInv, Unshared
      <4>3. Alone(me.art)
        BY <2>2, <4>1 DEF StaysInv, OnePath, HoldsPath, Alone
      <4> QED BY <4>2, <4>3
    <3> QED BY <1>4, <3>1, <3>2
  <2>4. art[b].status \in {"target_missing", "removed"}
    <3>1. art[b].status \in Standing /\ art[b].target = art[me.art].target /\ b # me.art
      BY <1>1, <1>3, <2>2, <2>3 DEF Stands, Referring, Known
    <3>2. art[b].status \notin HoldsPath
      BY <1>3, <2>3, <3>1 DEF Alone
    <3> QED BY <3>1, <3>2 DEF Standing, HoldsPath
  <2>5. b \in At(job[s].target) /\ s \in Referring(b)
    BY <1>1, <1>3 DEF Standing, Stands, At, Referring, Known
  <2> QED BY <2>3, <2>4, <2>5 DEF GivenUp
<1>5. CASE LinkTarget
  <2>1. lib' = lib \/ lib' = [lib EXCEPT ![art[me.art].target] = temp[me.art]]
    BY <1>5, Zenon DEF LinkTarget, Fail
  <2>2. lib[art[me.art].target] = None \/ lib' = lib
    BY <1>5, Zenon DEF LinkTarget, Fail
  <2>3. lib \in [Target -> Ident \cup {None}]
    BY DEF ImportInv, ImportTypeOK
  <2>4. job[s].target # art[me.art].target /\ job[s].target \in Target
    BY <1>1, <1>2, <1>3, <2>2 DEF Standing, Stands, StaysInv, Unshared
  <2> QED BY <1>1, <1>2, <2>1, <2>3, <2>4
<1>6. lib' = lib \/ RetireUnlink \/ UndoTarget \/ LinkTarget
  <2>1. CASE EngineStep
    <3>1. CASE ScanPublish \/ RecoverDone \/ UndoArtifact \/ PublicationDone \/ Succeed
               \/ RetireArtifact \/ RetireDone \/ Finish \/ PlaceExisting \/ PlaceMissing \/ PlaceIntent
      BY <3>1 DEF ScanPublish, RecoverDone, UndoArtifact, PublicationDone, Succeed,
                  RetireArtifact, RetireDone, Finish, PlaceExisting, PlaceMissing, PlaceIntent
    <3>2. CASE LinkStart \/ PlaceFails \/ LinkTemp \/ FinishFails \/ UnlinkTemp \/ RetireStart
      BY <3>2 DEF LinkStart, PlaceFails, LinkTemp, FinishFails, UnlinkTemp, RetireStart, Fail, Clash
    <3>3. CASE \/ \E a \in Artifact : RecoverRefused(a) \/ RecoverPick(a) \/ RetirePick(a)
                                        \/ RetireRelease(a)
               \/ \E r \in Row : Plan(r) \/ PlanImported(r)
      BY <3>3 DEF RecoverRefused, RecoverPick, RetirePick, RetireRelease, Plan, PlanImported
    <3> QED BY <2>1, <3>1, <3>2, <3>3, Zenon DEF EngineStep
  <2>2. CASE ProcessOnly \/ ScanDone \/ OperatorStep \/ Crash
    BY <2>2 DEF ProcessOnly, ScanDone, OperatorStep, Review, ChangeConfig, Crash
  <2> QED BY <2>1, <2>2 DEF ImportNext
<1> QED BY <1>2, <1>4, <1>5, <1>6

\* The library file of an imported source that is there stays, for any number of sources,
\* paths, outputs and deaths, and whatever people do to the library: stale intents apart,
\* and outputs the tables gave up before (Engine.retire_old, Engine.recover_publication).
THEOREM OutputStaysHolds == ImportSpec => OutputStays
<1>1. SupportInv /\ StaysInv /\ [ImportNext]_importVars => StaysInv'
  BY StaysStep DEF SupportInv
<1>2. SupportInv /\ StaysInv /\ [ImportNext]_importVars =>
        [UserStep \/ StaleIntent \/ \A s \in Live : ~GivenUp(s) => ~LosesFile(s)]_importVars
  BY StaysSafe DEF SupportInv
<1> QED BY StaysStarts, SupportInvariant, <1>1, <1>2, PTL DEF ImportSpec, OutputStays

-----------------------------------------------------------------------------
(* The cleanup. *)

\* Of the manifest in hand each entry is still to do, being removed or gone, unless one
\* of them was refused.
SweepOK ==
  /\ sweep.todo \subseteq Known
  /\ sweep.pc \in {"execute", "entry", "unlink", "mark_removed"} => sweep.src \in Known
  /\ sweep.pc \in {"unlink", "mark_removed"} => sweep.entry \in Artifact
  /\ sweep.pc \in {"entry", "unlink", "mark_removed"} => manifest[sweep.src] \subseteq Artifact
  /\ sweep.pc \in {"entry", "unlink", "mark_removed"} /\ ~sweep.conflict =>
       \A a \in manifest[sweep.src] :
         \/ a \in sweep.entries
         \/ sweep.pc # "entry" /\ a = sweep.entry
         \/ art[a].status = "removed"

CleanupInv == CleanupTypeOK /\ ImportInv /\ PredsOK /\ SweepOK

\* The engine publishes and repairs before it reconciles, or not at all.
LEMMA EngineApart ==
  ASSUME ImportInv, EngineStep
  PROVE  me.pc # "reconcile" /\ me'.pc # "reconcile"
<1>1. me.pc # "reconcile"
  <2>1. CASE \/ ScanPublish \/ RecoverDone \/ UndoTarget \/ UndoArtifact
             \/ \E a \in Artifact : RecoverRefused(a) \/ RecoverPick(a)
             \/ \E s \in Row : Plan(s) \/ PlanImported(s)
    BY <2>1 DEF ScanPublish, RecoverDone, UndoTarget, UndoArtifact, RecoverRefused,
                RecoverPick, Plan, PlanImported
  <2>2. CASE \/ LinkStart \/ PlaceExisting \/ PlaceMissing \/ PlaceIntent \/ PlaceFails
             \/ LinkTemp \/ LinkTarget \/ Finish \/ FinishFails
    BY <2>2 DEF LinkStart, PlaceExisting, PlaceMissing, PlaceIntent, PlaceFails, LinkTemp, LinkTarget,
                Finish, FinishFails
  <2>3. CASE \/ UnlinkTemp \/ PublicationDone \/ Succeed
             \/ RetireStart \/ RetireUnlink \/ RetireArtifact \/ RetireDone
             \/ \E a \in Artifact : RetirePick(a) \/ RetireRelease(a)
    BY <2>3 DEF UnlinkTemp, PublicationDone, Succeed, RetireStart, RetireUnlink,
                RetireArtifact, RetireDone, RetirePick, RetireRelease
  <2> QED BY <2>1, <2>2, <2>3, Zenon DEF EngineStep
<1>2. me'.pc # "reconcile"
  BY <1>1, EngineLocals DEF EmptyHanded, SameSource, SourcePc, TakesUp
<1> QED BY <1>1, <1>2

\* Without a sweep there is little to know.
LEMMA SweptNothing ==
  ASSUME sweep' = NoSweep
  PROVE  /\ SweepOK' /\ sweep' \in Sweep /\ sweep'.pc = "off"
BY DEF NoSweep, Sweep, SweepOK

\* A sweep that waits for the next source needs to know its list only.
LEMMA Picking ==
  ASSUME sweep'.pc = "pick", sweep'.todo \subseteq Known'
  PROVE  SweepOK'
BY DEF SweepOK

\* While the engine reconciles its own locals say nothing.
LEMMA Reconciling ==
  ASSUME ImportInv, me.pc = "reconcile", UNCHANGED me
  PROVE  EngineOK'
<1>1. me.recovering = FALSE
  BY DEF ImportInv, EngineOK, ImportPc, ImportTypeOK, Engine
<1> QED BY <1>1, NothingInHand

\* Steps of the cleanup that change no table and no file: the two locals and the manifests.
LEMMA CleanupLocals ==
  ASSUME CleanupInv, UNCHANGED <<inventoryVars, lib, temp, tables, cfg, crashes>>,
         \/ UNCHANGED me /\ me.pc = "reconcile"
         \/ me' \in Engine /\ me'.pc \in {"idle", "reconcile"} /\ ~me'.recovering /\ me'.preds \subseteq Known
  PROVE  ImportInv' /\ PredsOK' /\ Known' = Known
<1>0. ImportInv /\ PredsOK
  BY DEF CleanupInv
<1>1. Known' = Known
  BY DEF Known, inventoryVars
<1>2. me' \in Engine /\ EngineOK'
  <2>1. CASE UNCHANGED me /\ me.pc = "reconcile"
    BY <1>0, <2>1, Reconciling DEF ImportInv, ImportTypeOK
  <2>2. CASE me' \in Engine /\ me'.pc \in {"idle", "reconcile"} /\ ~me'.recovering
    <3>1. me'.recovering = FALSE
      BY <2>2 DEF Engine
    <3> QED BY <2>2, <3>1, NothingInHand
  <2> QED BY <2>1, <2>2
<1>3. ImportInv'
  BY <1>0, <1>2, LocalStep DEF ImportInv, ImportTypeOK
<1>4. PredsOK'
  BY <1>0, <1>1 DEF PredsOK
<1> QED BY <1>1, <1>3, <1>4

\* What StartReconcile to ReconcileDone do to the sweep.
LEMMA StepReconcile ==
  ASSUME CleanupInv, UNCHANGED crashes,
         StartReconcile \/ ReconcileDone \/ \E s \in Row : PassOver(s) \/ PickDue(s)
  PROVE  CleanupInv'
<1>0. /\ ImportInv /\ PredsOK /\ SweepOK /\ me \in Engine /\ sweep \in Sweep
      /\ manifest \in [Row -> (SUBSET Artifact) \cup {None}]
      /\ (sweep.pc # "off") = (me.pc = "reconcile")
  BY DEF CleanupInv, CleanupTypeOK, ImportTypeOK
<1>1. CASE StartReconcile
  <2>1. /\ me.pc = "work" /\ me' = [me EXCEPT !.pc = "reconcile"]
        /\ sweep' = [NoSweep EXCEPT !.pc = "pick", !.todo = Missing, !.mass = Mass]
        /\ UNCHANGED <<inventoryVars, lib, temp, tables, cfg, manifest>>
    BY <1>1 DEF StartReconcile
  <2>2. me' \in Engine /\ me'.pc = "reconcile" /\ me'.recovering = me.recovering /\ me'.preds = me.preds
    BY <1>0, <2>1 DEF Engine, Pc
  <2>3. ~me.recovering
    BY <1>0, <2>1 DEF ImportInv, EngineOK, ImportPc
  <2>4. ImportInv' /\ PredsOK' /\ Known' = Known
    BY <1>0, <2>1, <2>2, <2>3, CleanupLocals DEF PredsOK
  <2>5. Missing \subseteq Known /\ Missing \subseteq Row
    BY DEF Missing, Live, Known
  <2>6. sweep' \in Sweep /\ sweep'.pc = "pick" /\ sweep'.todo = Missing
    <3> DEFINE missing == Missing
               mass == Mass
    <3>1. sweep' = [NoSweep EXCEPT !.pc = "pick", !.todo = missing, !.mass = mass]
      BY <2>1
    <3>2. mass \in BOOLEAN
      BY DEF Mass
    <3>3. missing \in SUBSET Row
      BY <2>5
    <3> HIDE DEF missing, mass
    <3>4. sweep' \in Sweep /\ sweep'.pc = "pick" /\ sweep'.todo = missing
      BY <3>1, <3>2, <3>3 DEF NoSweep, Sweep
    <3> QED BY <3>4 DEF missing
  <2>7. SweepOK'
    BY <2>4, <2>5, <2>6, Picking
  <2> QED BY <1>0, <2>1, <2>2, <2>4, <2>6, <2>7 DEF CleanupInv, CleanupTypeOK, ImportInv
<1>2. CASE ReconcileDone
  <2>1. /\ sweep' = NoSweep /\ me' = Stopped
        /\ UNCHANGED <<inventoryVars, lib, temp, tables, cfg, manifest>>
    BY <1>2 DEF ReconcileDone
  <2>2. me' \in Engine /\ me'.pc = "idle" /\ me'.recovering = FALSE /\ me'.preds = {}
    BY <2>1 DEF Stopped, Engine, Pc, ArtStatus
  <2>3. ImportInv' /\ PredsOK' /\ Known' = Known
    BY <2>1, <2>2, CleanupLocals
  <2> QED BY <1>0, <2>1, <2>2, <2>3, SweptNothing DEF CleanupInv, CleanupTypeOK, ImportInv
<1>3. CASE \E s \in Row : PassOver(s)
  <2>1. PICK s \in Row : PassOver(s)
    BY <1>3
  <2> DEFINE rest == sweep.todo \ {s}
  <2>2. /\ sweep.pc = "pick" /\ sweep' = [sweep EXCEPT !.todo = rest]
        /\ UNCHANGED <<inventoryVars, lib, temp, tables, cfg, me, manifest>>
    BY <2>1 DEF PassOver
  <2>3. rest \subseteq sweep.todo /\ rest \in SUBSET Row
    BY <1>0 DEF Sweep
  <2>4. sweep' \in Sweep /\ sweep'.pc = "pick" /\ sweep'.todo = rest
    <3> HIDE DEF rest
    <3> QED BY <1>0, <2>2, <2>3 DEF Sweep
  <2>5. ImportInv' /\ PredsOK' /\ Known' = Known
    BY <1>0, <2>2, CleanupLocals
  <2>6. SweepOK'
    BY <1>0, <2>3, <2>4, <2>5, Picking DEF SweepOK
  <2>7. me' = me /\ manifest' = manifest /\ sweep'.pc # "off" /\ me.pc = "reconcile"
    BY <1>0, <2>2, <2>4
  <2> QED BY <1>0, <2>4, <2>5, <2>6, <2>7 DEF CleanupInv, CleanupTypeOK, ImportInv
<1>4. CASE \E s \in Row : PickDue(s)
  <2>1. PICK s \in Row : PickDue(s)
    BY <1>4
  <2> DEFINE rest == sweep.todo \ {s}
             found == ManifestOf(s)
  <2>2. /\ sweep.pc = "pick" /\ s \in sweep.todo
        /\ sweep' = [sweep EXCEPT !.pc = "execute", !.todo = rest, !.src = s,
                                  !.entries = found, !.conflict = FALSE]
        /\ UNCHANGED <<inventoryVars, lib, temp, tables, cfg, me, manifest>>
    BY <2>1 DEF PickDue
  <2>3. /\ rest \subseteq sweep.todo /\ rest \in SUBSET Row /\ s \in Known
        /\ found \in SUBSET Artifact
    <3>1. sweep.todo \subseteq Row
      BY <1>0 DEF Sweep
    <3>2. s \in Known
      BY <1>0, <2>2 DEF SweepOK
    <3>3. FreshManifest(s) \in SUBSET Artifact
      BY DEF FreshManifest
    <3>4. manifest[s] # None => manifest[s] \in SUBSET Artifact
      <4>1. manifest[s] \in (SUBSET Artifact) \cup {None}
        BY <1>0
      <4> QED BY <4>1, Zenon
    <3> QED BY <3>1, <3>2, <3>3, <3>4 DEF ManifestOf
  <2>4. sweep' \in Sweep /\ sweep'.pc = "execute" /\ sweep'.todo = rest /\ sweep'.src = s
    <3> HIDE DEF rest, found
    <3> QED BY <1>0, <2>2, <2>3 DEF Sweep
  <2>5. ImportInv' /\ PredsOK' /\ Known' = Known
    BY <1>0, <2>2, CleanupLocals
  <2>6. SweepOK'
    BY <1>0, <2>3, <2>4, <2>5 DEF SweepOK
  <2>7. me' = me /\ manifest' = manifest /\ sweep'.pc # "off" /\ me.pc = "reconcile"
    BY <1>0, <2>2, <2>4
  <2> QED BY <1>0, <2>4, <2>5, <2>6, <2>7 DEF CleanupInv, CleanupTypeOK, ImportInv
<1> QED BY <1>1, <1>2, <1>3, <1>4

\* execute_cleanup's first commit writes the manifest it has in hand.
LEMMA StepExecuteCleanup ==
  ASSUME CleanupInv, UNCHANGED crashes, ExecuteCleanup
  PROVE  CleanupInv'
<1> DEFINE s == sweep.src
<1>0. /\ ImportInv /\ PredsOK /\ SweepOK /\ me \in Engine /\ sweep \in Sweep
      /\ manifest \in [Row -> (SUBSET Artifact) \cup {None}]
      /\ (sweep.pc # "off") = (me.pc = "reconcile")
      /\ sweep.pc = "execute" /\ me.pc = "reconcile" /\ s \in Known /\ s \in Row
      /\ UNCHANGED <<inventoryVars, lib, temp, tables, cfg>>
  BY DEF CleanupInv, CleanupTypeOK, ImportTypeOK, ExecuteCleanup, SweepOK, Known
<1>1. CASE me' = Stopped /\ sweep' = NoSweep /\ UNCHANGED manifest
  <2>1. me' \in Engine /\ me'.pc = "idle" /\ me'.recovering = FALSE /\ me'.preds = {}
    BY <1>1 DEF Stopped, Engine, Pc, ArtStatus
  <2>2. ImportInv' /\ PredsOK' /\ Known' = Known
    BY <1>0, <2>1, CleanupLocals
  <2> QED BY <1>0, <1>1, <2>1, <2>2, SweptNothing DEF CleanupInv, CleanupTypeOK, ImportInv
<1>2. CASE /\ sweep' = [sweep EXCEPT !.pc = "entry"]
           /\ manifest' = [manifest EXCEPT ![s] = sweep.entries]
           /\ UNCHANGED me
  <2>1. ImportInv' /\ PredsOK' /\ Known' = Known
    BY <1>0, <1>2, CleanupLocals
  <2>2. /\ sweep' \in Sweep /\ sweep'.pc = "entry" /\ sweep'.src = s
        /\ sweep'.todo = sweep.todo /\ sweep'.entries = sweep.entries
    BY <1>0, <1>2 DEF Sweep
  <2>3. /\ manifest' \in [Row -> (SUBSET Artifact) \cup {None}]
        /\ manifest'[s] = sweep.entries
    <3>1. sweep.entries \in SUBSET Artifact
      BY <1>0 DEF Sweep
    <3> QED BY <1>0, <1>2, <3>1
  <2>4. SweepOK'
    <3> HIDE DEF s
    <3>1. sweep'.todo \subseteq Known' /\ sweep'.src \in Known'
      BY <1>0, <2>1, <2>2 DEF SweepOK
    <3>2. manifest'[sweep'.src] = sweep'.entries /\ sweep'.entries \subseteq Artifact
      BY <2>2, <2>3 DEF Sweep
    <3> QED BY <2>2, <3>1, <3>2 DEF SweepOK
  <2>5. me' = me /\ sweep'.pc # "off"
    BY <1>2, <2>2
  <2> QED BY <1>0, <2>1, <2>2, <2>3, <2>4, <2>5 DEF CleanupInv, CleanupTypeOK, ImportInv
<1>3. CASE sweep' = [sweep EXCEPT !.pc = "pick"] /\ UNCHANGED <<me, manifest>>
  <2>1. ImportInv' /\ PredsOK' /\ Known' = Known
    BY <1>0, <1>3, CleanupLocals
  <2>2. sweep' \in Sweep /\ sweep'.pc = "pick" /\ sweep'.todo = sweep.todo
    BY <1>0, <1>3 DEF Sweep
  <2>3. SweepOK'
    BY <1>0, <2>1, <2>2, Picking DEF SweepOK
  <2>4. me' = me /\ manifest' = manifest /\ sweep'.pc # "off"
    BY <1>3, <2>2
  <2> QED BY <1>0, <2>1, <2>2, <2>3, <2>4 DEF CleanupInv, CleanupTypeOK, ImportInv
<1> QED BY <1>1, <1>2, <1>3, Zenon DEF ExecuteCleanup

\* A refused entry is a conflict of the whole manifest.
LEMMA StepRefuseEntry ==
  ASSUME CleanupInv, UNCHANGED crashes, NEW a \in Artifact, RefuseEntry(a)
  PROVE  CleanupInv'
<1> DEFINE rest == sweep.entries \ {a}
<1>0. /\ ImportInv /\ PredsOK /\ SweepOK /\ sweep \in Sweep
      /\ manifest \in [Row -> (SUBSET Artifact) \cup {None}]
      /\ (sweep.pc # "off") = (me.pc = "reconcile")
      /\ sweep.pc = "entry" /\ me.pc = "reconcile"
      /\ sweep' = [sweep EXCEPT !.entries = rest, !.conflict = TRUE]
      /\ UNCHANGED <<inventoryVars, lib, temp, tables, cfg, me, manifest>>
  BY DEF CleanupInv, CleanupTypeOK, RefuseEntry
<1>1. ImportInv' /\ PredsOK' /\ Known' = Known
  BY <1>0, CleanupLocals
<1>2. /\ sweep' \in Sweep /\ sweep'.pc = "entry" /\ sweep'.src = sweep.src
      /\ sweep'.todo = sweep.todo /\ sweep'.conflict = TRUE
  <2>1. rest \in SUBSET Artifact
    BY <1>0 DEF Sweep
  <2> HIDE DEF rest
  <2> QED BY <1>0, <2>1 DEF Sweep
<1>3. SweepOK'
  BY <1>0, <1>1, <1>2 DEF SweepOK
<1>4. me' = me /\ manifest' = manifest
  BY <1>0
<1> QED BY <1>0, <1>1, <1>2, <1>3, <1>4 DEF CleanupInv, CleanupTypeOK, ImportInv

\* The engine between two steps of the cleanup, when an artifact gets another status.
LEMMA CleanupArtifact ==
  ASSUME CleanupInv, UNCHANGED <<inventoryVars, lib, temp, pub, ref, job, dec, cfg, me, crashes>>,
         me.pc = "reconcile", NEW a \in Artifact, NEW status \in ArtStatus \ {"none"},
         art' = [art EXCEPT ![a].status = status]
  PROVE  ImportInv' /\ PredsOK' /\ Known' = Known
<1>0. ImportInv /\ PredsOK
  BY DEF CleanupInv
<1>1. RowsStep /\ Known' = Known
  BY <1>0, SameRows DEF Known, inventoryVars
<1>2. art' \in [Artifact -> ArtRec] /\ ArtKept
  BY <1>0, Restated
<1>3. EngineOK'
  BY <1>0, Reconciling
<1>4. PubKept /\ Referenced' /\ TempRecorded'
  BY <1>0, <1>1 DEF ImportInv, PubKept, Referenced, TempRecorded
<1>5. ImportTypeOK'
  BY <1>0, <1>2 DEF ImportInv, ImportTypeOK, inventoryVars
<1>6. ImportInv'
  BY <1>0, <1>1, <1>2, <1>3, <1>4, <1>5, Assemble DEF inventoryVars
<1> QED BY <1>0, <1>1, <1>6 DEF PredsOK

\* The intent to delete.
LEMMA StepMarkDeleting ==
  ASSUME CleanupInv, UNCHANGED crashes, NEW a \in Artifact, MarkDeleting(a)
  PROVE  CleanupInv'
<1> DEFINE rest == sweep.entries \ {a}
<1>0. /\ ImportInv /\ PredsOK /\ SweepOK /\ sweep \in Sweep
      /\ manifest \in [Row -> (SUBSET Artifact) \cup {None}]
      /\ (sweep.pc # "off") = (me.pc = "reconcile")
      /\ sweep.pc = "entry" /\ me.pc = "reconcile" /\ a \in sweep.entries
      /\ UNCHANGED <<inventoryVars, lib, temp, pub, ref, job, dec, cfg, manifest>>
  BY DEF CleanupInv, CleanupTypeOK, MarkDeleting
<1>1. CASE /\ art' = [art EXCEPT ![a].status = "deleting"]
           /\ sweep' = [sweep EXCEPT !.pc = "unlink", !.entries = rest, !.entry = a]
           /\ UNCHANGED me
  <2>1. ImportInv' /\ PredsOK' /\ Known' = Known
    BY <1>0, <1>1, CleanupArtifact DEF ArtStatus
  <2>2. \A b \in Artifact \ {a} : art'[b] = art[b]
    BY <1>0, <1>1, Restated DEF ArtStatus
  <2>3. /\ sweep' \in Sweep /\ sweep'.pc = "unlink" /\ sweep'.src = sweep.src
        /\ sweep'.todo = sweep.todo /\ sweep'.entries = rest /\ sweep'.entry = a
        /\ sweep'.conflict = sweep.conflict
    <3>1. rest \in SUBSET Artifact
      BY <1>0 DEF Sweep
    <3> HIDE DEF rest
    <3> QED BY <1>0, <1>1, <3>1 DEF Sweep
  <2>4. me' = me /\ manifest' = manifest
    BY <1>0, <1>1
  <2>5. SweepOK'
    <3>1. /\ sweep'.todo \subseteq Known' /\ sweep'.src \in Known'
      BY <1>0, <2>1, <2>3 DEF SweepOK
    <3>2. ASSUME ~sweep.conflict, NEW b \in manifest[sweep.src]
          PROVE  b \in rest \/ b = a \/ art'[b].status = "removed"
      <4>1. b \in sweep.entries \/ art[b].status = "removed"
        BY <1>0, <3>2 DEF SweepOK
      <4>2. b \in Artifact
        BY <1>0, <3>2 DEF SweepOK
      <4> QED BY <2>2, <4>1, <4>2
    <3>3. manifest[sweep.src] \subseteq Artifact
      BY <1>0 DEF SweepOK
    <3> QED BY <2>3, <2>4, <3>1, <3>2, <3>3 DEF SweepOK
  <2> QED BY <1>0, <2>1, <2>3, <2>4, <2>5 DEF CleanupInv, CleanupTypeOK, ImportInv
<1>2. CASE me' = [Stopped EXCEPT !.calm = FALSE] /\ sweep' = NoSweep /\ UNCHANGED art
  <2>1. me' \in Engine /\ me'.pc = "idle" /\ me'.recovering = FALSE /\ me'.preds = {}
    BY <1>2 DEF Stopped, Engine, Pc, ArtStatus
  <2>2. ImportInv' /\ PredsOK' /\ Known' = Known
    BY <1>0, <1>2, <2>1, CleanupLocals DEF tables
  <2> QED BY <1>0, <1>2, <2>1, <2>2, SweptNothing DEF CleanupInv, CleanupTypeOK, ImportInv
<1> QED BY <1>1, <1>2 DEF MarkDeleting

\* Only the recorded file is unlinked; another one is a conflict.
LEMMA StepUnlinkEntry ==
  ASSUME CleanupInv, UNCHANGED crashes, UnlinkEntry
  PROVE  CleanupInv'
<1> DEFINE t == art[sweep.entry].target
<1>0. /\ ImportInv /\ PredsOK /\ SweepOK /\ sweep \in Sweep
      /\ manifest \in [Row -> (SUBSET Artifact) \cup {None}]
      /\ (sweep.pc # "off") = (me.pc = "reconcile")
      /\ sweep.pc = "unlink" /\ me.pc = "reconcile"
      /\ UNCHANGED <<inventoryVars, temp, tables, cfg, me, manifest>>
  BY DEF CleanupInv, CleanupTypeOK, UnlinkEntry
<1>1. lib' \in [Target -> Ident \cup {None}]
  BY DEF UnlinkEntry, CleanupInv, ImportInv, ImportTypeOK
<1>2. ImportInv' /\ Known' = Known
  <2>1. disk' \in Inventory /\ cfg' \in Config
    BY <1>0 DEF ImportInv, ImportTypeOK, inventoryVars
  <2> QED BY <1>0, <1>1, <2>1, BesideEngine DEF inventoryVars
<1>3. PredsOK'
  BY <1>0, <1>2 DEF PredsOK
<1>4. me' = me /\ manifest' = manifest /\ art' = art
  BY <1>0 DEF tables
<1>5. CASE sweep' = [sweep EXCEPT !.pc = "mark_removed"]
  <2>1. /\ sweep' \in Sweep /\ sweep'.pc = "mark_removed" /\ sweep'.src = sweep.src
        /\ sweep'.todo = sweep.todo /\ sweep'.entries = sweep.entries
        /\ sweep'.entry = sweep.entry /\ sweep'.conflict = sweep.conflict
    BY <1>0, <1>5 DEF Sweep
  <2>2. SweepOK'
    BY <1>0, <1>2, <1>4, <2>1 DEF SweepOK
  <2> QED BY <1>0, <1>2, <1>3, <1>4, <2>1, <2>2 DEF CleanupInv, CleanupTypeOK, ImportInv
<1>6. CASE sweep' = [sweep EXCEPT !.pc = "entry", !.conflict = TRUE]
  <2>1. /\ sweep' \in Sweep /\ sweep'.pc = "entry" /\ sweep'.src = sweep.src
        /\ sweep'.todo = sweep.todo /\ sweep'.conflict = TRUE
    BY <1>0, <1>6 DEF Sweep
  <2>2. SweepOK'
    BY <1>0, <1>2, <1>4, <2>1 DEF SweepOK
  <2> QED BY <1>0, <1>2, <1>3, <1>4, <2>1, <2>2 DEF CleanupInv, CleanupTypeOK, ImportInv
<1> QED BY <1>5, <1>6 DEF UnlinkEntry

\* The unlinked entry is removed for good.
LEMMA StepMarkRemoved ==
  ASSUME CleanupInv, UNCHANGED crashes, MarkRemoved
  PROVE  CleanupInv'
<1> DEFINE a == sweep.entry
<1>0. /\ ImportInv /\ PredsOK /\ SweepOK /\ sweep \in Sweep
      /\ manifest \in [Row -> (SUBSET Artifact) \cup {None}]
      /\ (sweep.pc # "off") = (me.pc = "reconcile")
      /\ sweep.pc = "mark_removed" /\ me.pc = "reconcile" /\ a \in Artifact
      /\ art' = [art EXCEPT ![a].status = "removed"]
      /\ sweep' = [sweep EXCEPT !.pc = "entry", !.entry = None]
      /\ UNCHANGED <<inventoryVars, lib, temp, pub, ref, job, dec, cfg, me, manifest>>
  BY DEF CleanupInv, CleanupTypeOK, MarkRemoved, SweepOK
<1>1. ImportInv' /\ PredsOK' /\ Known' = Known
  BY <1>0, CleanupArtifact DEF ArtStatus
<1>2. art'[a].status = "removed" /\ \A b \in Artifact \ {a} : art'[b] = art[b]
  BY <1>0, Restated DEF ArtStatus
<1>3. /\ sweep' \in Sweep /\ sweep'.pc = "entry" /\ sweep'.src = sweep.src
      /\ sweep'.todo = sweep.todo /\ sweep'.entries = sweep.entries
      /\ sweep'.conflict = sweep.conflict
  BY <1>0 DEF Sweep
<1>4. me' = me /\ manifest' = manifest
  BY <1>0
<1>5. SweepOK'
  <2>1. sweep'.todo \subseteq Known' /\ sweep'.src \in Known' /\ manifest[sweep.src] \subseteq Artifact
    BY <1>0, <1>1, <1>3 DEF SweepOK
  <2>2. ASSUME ~sweep.conflict, NEW b \in manifest[sweep.src]
        PROVE  b \in sweep.entries \/ art'[b].status = "removed"
    <3>1. b \in sweep.entries \/ b = a \/ art[b].status = "removed"
      BY <1>0, <2>2 DEF SweepOK
    <3> QED BY <1>2, <2>1, <2>2, <3>1
  <2> QED BY <1>3, <1>4, <2>1, <2>2 DEF SweepOK
<1> QED BY <1>0, <1>1, <1>3, <1>4, <1>5 DEF CleanupInv, CleanupTypeOK, ImportInv

\* The tombstone is written when the whole manifest is gone.
LEMMA StepSettleCleanup ==
  ASSUME CleanupInv, UNCHANGED crashes, SettleCleanup
  PROVE  /\ CleanupInv' /\ sweep.src \in Row
         /\ \A r \in Row \ {sweep.src} : row'[r] = row[r]
         /\ sweep.conflict => row' = row
         /\ ~sweep.conflict => \A a \in manifest[sweep.src] : art[a].status = "removed"
<1> DEFINE s == sweep.src
<1>0. /\ ImportInv /\ PredsOK /\ SweepOK /\ sweep \in Sweep /\ me \in Engine
      /\ manifest \in [Row -> (SUBSET Artifact) \cup {None}]
      /\ (sweep.pc # "off") = (me.pc = "reconcile")
      /\ sweep.pc = "entry" /\ me.pc = "reconcile" /\ sweep.entries = {}
      /\ s \in Known /\ s \in Row
      /\ manifest' = [manifest EXCEPT ![s] = None]
      /\ sweep' = [sweep EXCEPT !.pc = "pick", !.entry = None, !.conflict = FALSE]
      /\ UNCHANGED <<disk, walk, outcome, lib, temp, tables, cfg, me>>
  BY DEF CleanupInv, CleanupTypeOK, ImportInv, ImportTypeOK, SettleCleanup, SweepOK, Known
<1>1. RowsStep /\ Known' = Known /\ (\A r \in Row \ {s} : row'[r] = row[r])
  <2>1. CASE row' = row
    BY <1>0, <2>1, SameRows DEF Known
  <2>2. CASE row' = [row EXCEPT ![s].status = "removed"]
    <3>1. "removed" \in SourceStatus \ {"none"} /\ row \in [Row -> RowRec]
      BY <1>0 DEF SourceStatus, ImportInv, ImportTypeOK
    <3> QED BY <1>0, <2>2, <3>1, Labelled
  <2> QED BY <2>1, <2>2 DEF SettleCleanup
<1>2. ImportInv' /\ PredsOK'
  <2>1. EngineOK'
    BY <1>0, Reconciling
  <2>2. ArtKept /\ PubKept /\ Referenced' /\ TempRecorded'
    BY <1>0, <1>1 DEF ImportInv, ArtKept, PubKept, Referenced, TempRecorded, tables
  <2>3. ImportTypeOK'
    BY <1>0, <1>1 DEF ImportInv, ImportTypeOK, tables, RowsStep
  <2>4. ImportInv'
    BY <1>0, <1>1, <2>1, <2>2, <2>3, Assemble DEF tables
  <2> QED BY <1>0, <1>1, <2>4 DEF PredsOK
<1>3. sweep' \in Sweep /\ sweep'.pc = "pick" /\ sweep'.todo = sweep.todo
  BY <1>0 DEF Sweep
<1>4. SweepOK'
  BY <1>0, <1>1, <1>3, Picking DEF SweepOK
<1>5. manifest' \in [Row -> (SUBSET Artifact) \cup {None}] /\ me' = me
  <2> DEFINE M == (SUBSET Artifact) \cup {None}
  <2>1. None \in M /\ manifest \in [Row -> M]
    BY <1>0
  <2> HIDE DEF M
  <2>2. manifest' \in [Row -> M]
    BY <1>0, <2>1
  <2> QED BY <1>0, <2>2 DEF M
<1>6. CleanupInv'
  BY <1>0, <1>2, <1>3, <1>4, <1>5 DEF CleanupInv, CleanupTypeOK, ImportInv
<1>7. sweep.conflict => row' = row
  BY DEF SettleCleanup
<1>8. ~sweep.conflict => \A a \in manifest[s] : art[a].status = "removed"
  BY <1>0 DEF SweepOK
<1> QED BY <1>0, <1>1, <1>6, <1>7, <1>8

\* What goes on beside a sweep leaves it what it is.
LEMMA SweepApart ==
  ASSUME CleanupInv, UNCHANGED <<manifest, sweep>>, Known \subseteq Known',
         sweep.pc = "off" \/ UNCHANGED art
  PROVE  SweepOK'
BY DEF CleanupInv, SweepOK

\* The cleanup starts with nothing to sweep.
LEMMA CleanupStarts == CleanupInit => CleanupInv
<1> SUFFICES ASSUME CleanupInit PROVE CleanupInv
  OBVIOUS
<1>1. ImportInv /\ PredsOK /\ me.pc = "idle"
  BY ImportStarts DEF CleanupInit, ImportInit, Stopped
<1>2. sweep = NoSweep /\ manifest = [r \in Row |-> None]
  BY DEF CleanupInit
<1>3. SweepOK /\ sweep \in Sweep /\ sweep.pc = "off"
  BY <1>2 DEF NoSweep, Sweep, SweepOK
<1>4. manifest \in [Row -> (SUBSET Artifact) \cup {None}]
  BY <1>2
<1> QED BY <1>1, <1>3, <1>4 DEF CleanupInv, CleanupTypeOK, ImportInv

\* Every step of the importer with its cleanup keeps the invariant.
LEMMA CleanupInductive == CleanupInv /\ [CleanupNext]_cleanupVars => CleanupInv'
<1> SUFFICES ASSUME CleanupInv, [CleanupNext]_cleanupVars PROVE CleanupInv'
  OBVIOUS
<1>0. /\ ImportInv /\ PredsOK /\ SweepOK /\ sweep \in Sweep
      /\ manifest \in [Row -> (SUBSET Artifact) \cup {None}]
      /\ (sweep.pc # "off") = (me.pc = "reconcile")
  BY DEF CleanupInv, CleanupTypeOK
<1>1. CASE CleanupStep /\ UNCHANGED crashes
  BY <1>1, StepReconcile, StepExecuteCleanup, StepRefuseEntry, StepMarkDeleting,
     StepUnlinkEntry, StepMarkRemoved, StepSettleCleanup DEF CleanupStep
<1>2. CASE EngineStep /\ UNCHANGED <<crashes, manifest, sweep>>
  <2>1. ImportInv' /\ PredsOK' /\ Known \subseteq Known'
    BY <1>0, <1>2, StepEngine, PredsStep, KnownGrows
  <2>2. me.pc # "reconcile" /\ me'.pc # "reconcile"
    BY <1>0, <1>2, EngineApart
  <2>3. SweepOK'
    BY <1>0, <1>2, <2>1, <2>2, SweepApart
  <2> QED BY <1>0, <1>2, <2>1, <2>2, <2>3 DEF CleanupInv, CleanupTypeOK, ImportInv
<1>3. CASE (OperatorStep \/ UserStep) /\ UNCHANGED <<crashes, manifest, sweep>>
  <2>1. ImportInv' /\ UNCHANGED me /\ Known' = Known
    BY <1>0, <1>3, StepUser, StepReview DEF OperatorStep
  <2>2. UNCHANGED art
    BY <1>3 DEF OperatorStep, UserStep, Review, ChangeConfig, TouchSource, TouchLibrary, tables
  <2>3. SweepOK' /\ PredsOK'
    BY <1>0, <1>3, <2>1, <2>2, SweepApart DEF PredsOK
  <2> QED BY <1>0, <1>3, <2>1, <2>3 DEF CleanupInv, CleanupTypeOK, ImportInv
<1>4. CASE Grace /\ UNCHANGED <<crashes, manifest, sweep>>
  <2>1. ImportInv' /\ UNCHANGED me /\ Known' = Known
    BY <1>0, <1>4, StepGrace
  <2>2. UNCHANGED art
    BY <1>4 DEF Grace, tables
  <2>3. SweepOK' /\ PredsOK'
    BY <1>0, <1>4, <2>1, <2>2, SweepApart DEF PredsOK
  <2> QED BY <1>0, <1>4, <2>1, <2>3 DEF CleanupInv, CleanupTypeOK, ImportInv
<1>5. CASE Crash /\ sweep' = NoSweep /\ UNCHANGED manifest
  <2>1. ImportInv' /\ me'.preds = {}
    BY <1>0, <1>5, StepCrash
  <2>2. me'.pc = "idle"
    BY <1>5 DEF Crash, Stopped
  <2>3. SweepOK' /\ PredsOK' /\ sweep' \in Sweep /\ sweep'.pc = "off"
    BY <1>5, <2>1, SweptNothing DEF PredsOK
  <2> QED BY <1>0, <1>5, <2>1, <2>2, <2>3 DEF CleanupInv, CleanupTypeOK, ImportInv
<1>6. CASE UNCHANGED cleanupVars
  <2>1. UNCHANGED importVars /\ UNCHANGED <<manifest, sweep>>
    BY <1>6 DEF cleanupVars
  <2>2. ImportInv'
    BY <1>0, <2>1, LocalStep DEF importVars, ImportInv, ImportTypeOK, EngineOK,
       SourcePc, ArtifactPc, ImportPc, RecoverPc, ToActivate, Unsettled, Publishing, Agreed,
       Known, tables, inventoryVars
  <2>3. SweepOK' /\ PredsOK'
    BY <1>0, <2>1, SweepApart DEF PredsOK, Known, importVars, inventoryVars, tables
  <2>4. me' = me
    BY <2>1 DEF importVars
  <2> QED BY <1>0, <2>1, <2>2, <2>3, <2>4 DEF CleanupInv, CleanupTypeOK, ImportInv
<1> QED BY <1>1, <1>2, <1>3, <1>4, <1>5, <1>6 DEF CleanupNext

\* The invariant of the importer with its cleanup.
THEOREM CleanupInvariant == CleanupSpec => []CleanupInv
<1>1. CleanupInit => CleanupInv
  BY CleanupStarts
<1>2. CleanupInv /\ [CleanupNext]_cleanupVars => CleanupInv'
  BY CleanupInductive
<1> QED BY <1>1, <1>2, PTL DEF CleanupSpec

\* The persisted manifests and the sweep's locals have their types, and a sweep is in
\* progress exactly while the engine reconciles.
THEOREM CleanupTypeCorrect == CleanupSpec => []CleanupTypeOK
<1>1. CleanupInv => CleanupTypeOK
  BY DEF CleanupInv
<1> QED BY <1>1, CleanupInvariant, PTL

\* Temporary links stay recorded when the cleanup takes its turns, too.
THEOREM TempRecordedInCleanup == CleanupSpec => []TempRecorded
<1>1. CleanupInv => TempRecorded
  BY DEF CleanupInv, ImportInv
<1> QED BY <1>1, CleanupInvariant, PTL

\* A source is tombstoned only when every output on its manifest was removed, whatever
\* ran between the manifest's first commit and its last.
THEOREM TombstoneCompleteHolds == CleanupSpec => TombstoneComplete
<1>1. CleanupInv /\ [CleanupNext]_cleanupVars =>
        [\A s \in Live :
           me.pc = "reconcile" /\ row'[s].status = "removed" =>
             \A a \in manifest[s] : art[a].status = "removed"]_cleanupVars
  <2> SUFFICES ASSUME CleanupInv, CleanupNext, me.pc = "reconcile",
                      NEW s \in Live, row'[s].status = "removed"
               PROVE  \A a \in manifest[s] : art[a].status = "removed"
    OBVIOUS
  <2>0. ImportInv /\ PredsOK /\ row[s].status # "removed" /\ s \in Row
    BY DEF CleanupInv, Live, Known
  <2>1. CASE SettleCleanup /\ UNCHANGED crashes
    <3>1. /\ sweep.src \in Row /\ \A r \in Row \ {sweep.src} : row'[r] = row[r]
          /\ sweep.conflict => row' = row
          /\ ~sweep.conflict => \A a \in manifest[sweep.src] : art[a].status = "removed"
      BY <2>1, StepSettleCleanup
    <3>2. s = sweep.src /\ ~sweep.conflict
      BY <2>0, <3>1
    <3> QED BY <3>1, <3>2
  <2>2. CASE UNCHANGED row
    BY <2>0, <2>2
  <2>3. CASE CleanupStep /\ ~SettleCleanup
    <3>1. UNCHANGED row
      BY <2>3 DEF CleanupStep, StartReconcile, PassOver, PickDue, ReconcileDone,
                  ExecuteCleanup, RefuseEntry, MarkDeleting, UnlinkEntry, MarkRemoved,
                  inventoryVars
    <3> QED BY <2>2, <3>1
  <2>4. CASE EngineStep
    BY <2>0, <2>4, EngineApart
  <2>5. CASE OperatorStep \/ UserStep \/ Crash
    <3>1. UNCHANGED row
      BY <2>5 DEF OperatorStep, Review, ChangeConfig, UserStep, TouchSource, TouchLibrary,
                  Crash, inventoryVars
    <3> QED BY <2>2, <3>1
  <2>6. CASE Grace
    BY <2>6 DEF Grace
  <2> QED BY <2>1, <2>3, <2>4, <2>5, <2>6 DEF CleanupNext
<1> QED BY <1>1, CleanupInvariant, PTL DEF CleanupSpec, TombstoneComplete

\* The cleanup activates nothing: the latest review wins with it, too.
THEOREM ReviewWinsInCleanup == CleanupSpec => ReviewWins
<1>1. CleanupInv /\ [CleanupNext]_cleanupVars =>
        [\A a \in Artifact :
           art[a].status = "publishing" /\ art'[a].status = "active" =>
             LET s == pub[a].src
             IN  dec[s].rev > 0 => art[a].target = dec[s].target]_importVars
  <2> SUFFICES ASSUME CleanupInv, [CleanupNext]_cleanupVars PROVE Respects \/ UNCHANGED importVars
    BY DEF Respects
  <2>0. ImportInv
    BY DEF CleanupInv
  <2>1. CASE UNCHANGED cleanupVars
    BY <2>1 DEF cleanupVars
  <2>2. CASE EngineStep
    BY <2>0, <2>2, EngineRespects
  <2>3. CASE UNCHANGED art
    BY <2>3 DEF Respects
  <2>4. CASE OperatorStep \/ UserStep \/ Crash \/ Grace
    BY <2>3, <2>4 DEF OperatorStep, Review, ChangeConfig, UserStep, TouchSource, TouchLibrary,
                      Crash, Grace, tables
  <2>5. CASE \E a \in Artifact : MarkDeleting(a)
    <3>1. PICK a \in Artifact : MarkDeleting(a)
      BY <2>5
    <3>2. art' = [art EXCEPT ![a].status = "deleting"] \/ UNCHANGED art
      BY <3>1 DEF MarkDeleting
    <3> QED BY <2>0, <2>3, <3>2, RestatedRespects DEF ArtStatus
  <2>6. CASE MarkRemoved
    <3>1. sweep.entry \in Artifact /\ art' = [art EXCEPT ![sweep.entry].status = "removed"]
      BY <2>6 DEF MarkRemoved, CleanupInv, SweepOK
    <3> QED BY <2>0, <3>1, RestatedRespects DEF ArtStatus
  <2>7. CASE CleanupStep
    <3>1. CASE \/ StartReconcile \/ ReconcileDone \/ \E s \in Row : PassOver(s) \/ PickDue(s)
               \/ \E a \in Artifact : RefuseEntry(a)
      BY <2>3, <3>1 DEF StartReconcile, ReconcileDone, PassOver, PickDue, RefuseEntry, tables
    <3>2. CASE ExecuteCleanup \/ UnlinkEntry \/ SettleCleanup
      BY <2>3, <3>2 DEF ExecuteCleanup, UnlinkEntry, SettleCleanup, tables
    <3> QED BY <2>5, <2>6, <2>7, <3>1, <3>2 DEF CleanupStep
  <2> QED BY <2>1, <2>2, <2>4, <2>7 DEF CleanupNext
<1> QED BY <1>1, CleanupInvariant, PTL DEF CleanupSpec, ReviewWins

\* The engine forgets no output.
LEMMA EngineKeepsArt == ASSUME ImportInv, EngineStep PROVE ArtKept
<1>0. art \in [Artifact -> ArtRec]
  BY DEF ImportInv, ImportTypeOK
<1>1. CASE UNCHANGED art
  BY <1>1 DEF ArtKept
<1>2. ASSUME NEW a \in Artifact, NEW status \in ArtStatus \ {"none"},
             art' = [art EXCEPT ![a].status = status]
      PROVE  ArtKept
  BY <1>0, <1>2, Restated
<1>3. CASE Fail \/ Clash
  BY <1>1, <1>3 DEF Fail, Clash, tables
<1>4. CASE PlaceExisting
  <2> DEFINE t == job[me.src].target
             new == [status |-> "active", target |-> t, owned |-> FALSE, receipt |-> lib[t]]
  <2>1. UNCHANGED art \/ \E a \in Artifact : art[a].status = "none" /\ art' = [art EXCEPT ![a] = new]
    BY <1>4, Zenon DEF PlaceExisting
  <2> HIDE DEF new
  <2> QED BY <1>0, <1>1, <2>1 DEF ArtKept
<1>5. CASE PlaceMissing \/ PlaceIntent
  <2> DEFINE new == [status |-> "publishing", target |-> job[me.src].target, owned |-> TRUE,
                     receipt |-> disk[row[me.src].path]]
  <2>1. CASE PlaceMissing
    <3>1. job[me.src].target \in Target
      BY <2>1, Placing DEF PlaceMissing
    <3>2. \A b \in Artifact : /\ art'[b].target = art[b].target
                              /\ art'[b] = art[b] \/ art'[b].status = "target_missing"
      BY <1>0, <2>1, <3>1, GivenAway DEF PlaceMissing
    <3> QED BY <3>2 DEF ArtKept
  <2>2. CASE PlaceIntent
    <3>1. PICK a \in Artifact : art[a].status = "none" /\ art' = [art EXCEPT ![a] = new]
      BY <2>2, Zenon DEF PlaceIntent
    <3> HIDE DEF new
    <3> QED BY <1>0, <3>1 DEF ArtKept
  <2> QED BY <1>5, <2>1, <2>2
<1>6. CASE Finish
  <2>1. me.art \in Artifact /\ art' = [art EXCEPT ![me.art].status = "active"]
    BY <1>6 DEF Finish, ImportInv, EngineOK, ArtifactPc
  <2> QED BY <1>2, <2>1 DEF ArtStatus
<1>7. CASE UndoArtifact \/ RetireArtifact
  <2>1. me.art \in Artifact
    BY <1>7 DEF UndoArtifact, RetireArtifact, ImportInv, EngineOK, ArtifactPc
  <2>2. \E status \in {"removed", "retired"} : art' = [art EXCEPT ![me.art].status = status]
    BY <1>7 DEF UndoArtifact, RetireArtifact
  <2> QED BY <1>2, <2>1, <2>2 DEF ArtStatus
<1>8. CASE ScanPublish \/ RecoverDone \/ PublicationDone \/ Succeed \/ RetireDone
  BY <1>1, <1>8 DEF ScanPublish, RecoverDone, PublicationDone, Succeed, RetireDone, tables
<1>9. CASE UndoTarget \/ LinkStart \/ LinkTemp \/ LinkTarget \/ UnlinkTemp \/ RetireStart
           \/ RetireUnlink
  <2>1. Fail \/ UNCHANGED art
    BY <1>9, Zenon
       DEF UndoTarget, LinkStart, LinkTemp, LinkTarget, UnlinkTemp, RetireStart, RetireUnlink,
           tables
  <2> QED BY <1>1, <1>3, <2>1
<1>10. CASE PlaceFails \/ FinishFails
  BY <1>3, <1>10 DEF PlaceFails, FinishFails
<1>11. ASSUME NEW a \in Artifact,
              RecoverRefused(a) \/ RecoverPick(a) \/ RetirePick(a) \/ RetireRelease(a)
       PROVE  ArtKept
  <2>1. CASE RetirePick(a)
    BY <1>2, <2>1 DEF RetirePick, ArtStatus
  <2>2. CASE RecoverRefused(a) \/ RecoverPick(a) \/ RetireRelease(a)
    BY <1>1, <2>2 DEF RecoverRefused, RecoverPick, RetireRelease, tables
  <2> QED BY <1>11, <2>1, <2>2
<1>12. ASSUME NEW s \in Row, Plan(s) \/ PlanImported(s)
       PROVE  ArtKept
  BY <1>1, <1>12 DEF Plan, PlanImported
<1> QED BY <1>4, <1>5, <1>6, <1>7, <1>8, <1>9, <1>10, <1>11, <1>12 DEF EngineStep

\* Every entry of a manifest has been an output.
EntriesOK ==
  /\ \A r \in Row : manifest[r] # None => \A a \in manifest[r] : art[a].status # "none"
  /\ \A a \in sweep.entries : art[a].status # "none"

\* Only sources that are missing count on what the cleanup is taking.
GivingOK ==
  /\ sweep.pc \in {"execute", "entry", "unlink", "mark_removed"} => row[sweep.src].missing # 0
  /\ sweep.pc \in {"unlink", "mark_removed"} => art[sweep.entry].status = "deleting"
  /\ sweep.pc = "unlink" => \A q \in Referring(sweep.entry) \cap Live : row[q].missing # 0

SweptInv == CleanupInv /\ StaysInv /\ EntriesOK /\ GivingOK

\* Whoever is due is missing.
LEMMA DueMissing == ASSUME NEW s, Due(s) PROVE row[s].missing # 0
BY InventoryAssumption DEF Due

\* Steps of the cleanup that change no table of the importer.
LEMMA SweptQuiet ==
  ASSUME SweptInv, UNCHANGED <<row, art, ref, job>>, me'.pc \in {"idle", "reconcile"},
         me'.pc = "reconcile" => me'.art = None
  PROVE  StaysInv'
<1>1. Counted' /\ FirstScanned' /\ OnePath' /\ Unshared'
  BY QuietBooks DEF SweptInv, CleanupInv
<1> QED BY <1>1, TakesNothing DEF FreeHands, StaysInv

\* Without a sweep nothing is given.
LEMMA NoSweepGives ==
  ASSUME SweptInv, sweep' = NoSweep, UNCHANGED manifest, ArtKept
  PROVE  EntriesOK' /\ GivingOK'
<1>1. sweep'.entries = {} /\ sweep'.pc = "off"
  BY DEF NoSweep
<1>2. \A r \in Row, a \in Artifact : manifest[r] # None /\ a \in manifest[r] => art'[a].status # "none"
  BY DEF SweptInv, EntriesOK, ArtKept
<1>3. \A r \in Row : manifest[r] # None => manifest[r] \subseteq Artifact
  <2> SUFFICES ASSUME NEW r \in Row, manifest[r] # None PROVE manifest[r] \subseteq Artifact
    OBVIOUS
  <2>1. manifest[r] \in (SUBSET Artifact) \cup {None}
    BY DEF SweptInv, CleanupInv, CleanupTypeOK
  <2> QED BY <2>1
<1> QED BY <1>1, <1>2, <1>3 DEF EntriesOK, GivingOK

\* A cleanup starts with nothing given.
LEMMA SweptStarts == CleanupInit => SweptInv
<1> SUFFICES ASSUME CleanupInit PROVE SweptInv
  OBVIOUS
<1>1. CleanupInv /\ StaysInv
  BY CleanupStarts, StaysStarts DEF CleanupInit
<1>2. EntriesOK /\ GivingOK
  BY DEF CleanupInit, NoSweep, EntriesOK, GivingOK
<1> QED BY <1>1, <1>2 DEF SweptInv

\* The cleanup looks for what it may take.
LEMMA SweptLooks ==
  ASSUME SweptInv, \/ StartReconcile \/ ReconcileDone \/ ExecuteCleanup \/ UnlinkEntry
                   \/ \E s \in Row : PassOver(s) \/ PickDue(s)
                   \/ \E a \in Artifact : RefuseEntry(a)
  PROVE  StaysInv' /\ EntriesOK' /\ GivingOK'
<1>0. /\ me \in Engine /\ sweep \in Sweep /\ (sweep.pc # "off") = (me.pc = "reconcile")
      /\ manifest \in [Row -> (SUBSET Artifact) \cup {None}]
      /\ StaysInv /\ EntriesOK /\ GivingOK
  BY DEF SweptInv, CleanupInv, CleanupTypeOK, ImportInv, ImportTypeOK
<1>1. UNCHANGED art => ArtKept
  BY DEF ArtKept
<1>2. CASE StartReconcile
  <2>1. /\ me.pc = "work" /\ me' = [me EXCEPT !.pc = "reconcile"]
        /\ UNCHANGED <<row, art, ref, job, manifest>>
        /\ sweep' = [NoSweep EXCEPT !.pc = "pick", !.todo = Missing, !.mass = Mass]
    BY <1>2 DEF StartReconcile, inventoryVars, tables
  <2>2. me'.pc = "reconcile" /\ me'.art = None
    BY <1>0, <2>1 DEF Engine, StaysInv, FreeHands
  <2>3. sweep'.pc = "pick" /\ sweep'.entries = {}
    <3> DEFINE missing == Missing
               mass == Mass
    <3>1. sweep' = [NoSweep EXCEPT !.pc = "pick", !.todo = missing, !.mass = mass]
      BY <2>1
    <3> HIDE DEF missing, mass
    <3> QED BY <3>1 DEF NoSweep
  <2>4. EntriesOK' /\ GivingOK'
    BY <1>0, <2>1, <2>3 DEF EntriesOK, GivingOK
  <2> QED BY <2>1, <2>2, <2>4, SweptQuiet
<1>3. CASE ReconcileDone
  <2>1. sweep' = NoSweep /\ me' = Stopped /\ UNCHANGED <<row, art, ref, job, manifest>>
    BY <1>3 DEF ReconcileDone, inventoryVars, tables
  <2>2. me'.pc = "idle"
    BY <2>1 DEF Stopped
  <2> QED BY <1>1, <2>1, <2>2, SweptQuiet, NoSweepGives
<1>4. ASSUME NEW s \in Row, PassOver(s) PROVE StaysInv' /\ EntriesOK' /\ GivingOK'
  <2> DEFINE rest == sweep.todo \ {s}
  <2>1. /\ sweep.pc = "pick" /\ sweep' = [sweep EXCEPT !.todo = rest]
        /\ UNCHANGED <<row, art, ref, job, manifest, me>>
    BY <1>4 DEF PassOver, inventoryVars, tables
  <2> HIDE DEF rest
  <2>2. sweep'.pc = "pick" /\ sweep'.entries = sweep.entries
    BY <1>0, <2>1 DEF Sweep
  <2>3. me'.pc = "reconcile" /\ me'.art = None
    BY <1>0, <2>1 DEF StaysInv, FreeHands
  <2>4. EntriesOK' /\ GivingOK'
    BY <1>0, <2>1, <2>2 DEF EntriesOK, GivingOK
  <2> QED BY <2>1, <2>3, <2>4, SweptQuiet
<1>5. ASSUME NEW s \in Row, PickDue(s) PROVE StaysInv' /\ EntriesOK' /\ GivingOK'
  <2> DEFINE rest == sweep.todo \ {s}
             found == ManifestOf(s)
  <2>1. /\ sweep.pc = "pick" /\ Due(s)
        /\ sweep' = [sweep EXCEPT !.pc = "execute", !.todo = rest, !.src = s,
                                  !.entries = found, !.conflict = FALSE]
        /\ UNCHANGED <<row, art, ref, job, manifest, me>>
    BY <1>5 DEF PickDue, inventoryVars, tables
  <2>2. \A a \in found : art[a].status # "none"
    <3>1. \A a \in FreshManifest(s) : art[a].status # "none"
      BY DEF FreshManifest
    <3> QED BY <1>0, <3>1 DEF ManifestOf, EntriesOK
  <2> HIDE DEF rest, found
  <2>3. sweep'.pc = "execute" /\ sweep'.entries = found /\ sweep'.src = s
    BY <1>0, <2>1 DEF Sweep
  <2>4. me'.pc = "reconcile" /\ me'.art = None
    BY <1>0, <2>1 DEF StaysInv, FreeHands
  <2>5. EntriesOK'
    BY <1>0, <2>1, <2>2, <2>3 DEF EntriesOK
  <2>6. GivingOK'
    BY <2>1, <2>3, DueMissing DEF GivingOK
  <2> QED BY <2>1, <2>4, <2>5, <2>6, SweptQuiet
<1>6. CASE ExecuteCleanup
  <2>1. sweep.pc = "execute" /\ UNCHANGED <<row, art, ref, job>>
    BY <1>6 DEF ExecuteCleanup, inventoryVars, tables
  <2>2. me.pc = "reconcile" /\ me.art = None
    BY <1>0, <2>1 DEF StaysInv, FreeHands
  <2>3. CASE me' = Stopped /\ sweep' = NoSweep /\ UNCHANGED manifest
    <3>1. me'.pc = "idle"
      BY <2>3 DEF Stopped
    <3> QED BY <1>1, <2>1, <2>3, <3>1, SweptQuiet, NoSweepGives
  <2>4. CASE /\ sweep' = [sweep EXCEPT !.pc = "entry"]
             /\ manifest' = [manifest EXCEPT ![sweep.src] = sweep.entries]
             /\ UNCHANGED me
    <3>1. sweep'.pc = "entry" /\ sweep'.entries = sweep.entries /\ sweep'.src = sweep.src
      BY <1>0, <2>4 DEF Sweep
    <3>2. \A r \in Row : manifest'[r] = manifest[r] \/ manifest'[r] = sweep.entries
      BY <1>0, <2>4
    <3>3. EntriesOK'
      BY <1>0, <2>1, <3>1, <3>2 DEF EntriesOK
    <3>4. GivingOK'
      BY <1>0, <2>1, <3>1 DEF GivingOK
    <3> QED BY <2>1, <2>2, <2>4, <3>3, <3>4, SweptQuiet
  <2>5. CASE sweep' = [sweep EXCEPT !.pc = "pick"] /\ UNCHANGED <<me, manifest>>
    <3>1. sweep'.pc = "pick" /\ sweep'.entries = sweep.entries
      BY <1>0, <2>5 DEF Sweep
    <3>2. EntriesOK' /\ GivingOK'
      BY <1>0, <2>1, <2>5, <3>1 DEF EntriesOK, GivingOK
    <3> QED BY <2>1, <2>2, <2>5, <3>2, SweptQuiet
  <2> QED BY <1>6, <2>3, <2>4, <2>5, Zenon DEF ExecuteCleanup
<1>7. ASSUME NEW a \in Artifact, RefuseEntry(a) PROVE StaysInv' /\ EntriesOK' /\ GivingOK'
  <2> DEFINE rest == sweep.entries \ {a}
  <2>1. /\ sweep.pc = "entry" /\ sweep' = [sweep EXCEPT !.entries = rest, !.conflict = TRUE]
        /\ UNCHANGED <<row, art, ref, job, manifest, me>>
    BY <1>7 DEF RefuseEntry, inventoryVars, tables
  <2>2. rest \subseteq sweep.entries
    OBVIOUS
  <2> HIDE DEF rest
  <2>3. sweep'.pc = "entry" /\ sweep'.entries = rest /\ sweep'.src = sweep.src
    BY <1>0, <2>1 DEF Sweep
  <2>4. me'.pc = "reconcile" /\ me'.art = None
    BY <1>0, <2>1 DEF StaysInv, FreeHands
  <2>5. EntriesOK' /\ GivingOK'
    BY <1>0, <2>1, <2>2, <2>3 DEF EntriesOK, GivingOK
  <2> QED BY <2>1, <2>4, <2>5, SweptQuiet
<1>8. CASE UnlinkEntry
  <2>1. /\ sweep.pc = "unlink" /\ UNCHANGED <<row, art, ref, job, manifest, me>>
        /\ \/ sweep' = [sweep EXCEPT !.pc = "mark_removed"]
           \/ sweep' = [sweep EXCEPT !.pc = "entry", !.conflict = TRUE]
    BY <1>8, Zenon DEF UnlinkEntry, inventoryVars, tables
  <2>2. /\ sweep'.pc \in {"mark_removed", "entry"} /\ sweep'.entries = sweep.entries
        /\ sweep'.src = sweep.src /\ sweep'.entry = sweep.entry
    BY <1>0, <2>1 DEF Sweep
  <2>3. me'.pc = "reconcile" /\ me'.art = None
    BY <1>0, <2>1 DEF StaysInv, FreeHands
  <2>4. EntriesOK' /\ GivingOK'
    BY <1>0, <2>1, <2>2 DEF EntriesOK, GivingOK
  <2> QED BY <2>1, <2>3, <2>4, SweptQuiet
<1> QED BY <1>2, <1>3, <1>4, <1>5, <1>6, <1>7, <1>8

\* The intent to delete: nobody who is there counts on the output.
LEMMA SweptMarks ==
  ASSUME SweptInv, NEW a \in Artifact, MarkDeleting(a)
  PROVE  StaysInv' /\ EntriesOK' /\ GivingOK'
<1> DEFINE rest == sweep.entries \ {a}
<1>0. /\ sweep \in Sweep /\ (sweep.pc # "off") = (me.pc = "reconcile")
      /\ ImportInv /\ art \in [Artifact -> ArtRec] /\ ref \subseteq Artifact \X Row
      /\ manifest \in [Row -> (SUBSET Artifact) \cup {None}]
      /\ StaysInv /\ EntriesOK /\ GivingOK
      /\ sweep.pc = "entry" /\ a \in sweep.entries /\ ~Protected(a, sweep.src)
      /\ UNCHANGED <<row, ref, job, manifest>>
  BY DEF SweptInv, CleanupInv, CleanupTypeOK, ImportInv, ImportTypeOK, MarkDeleting, inventoryVars
<1>1. CASE me' = [Stopped EXCEPT !.calm = FALSE] /\ sweep' = NoSweep /\ UNCHANGED art
  <2>1. me'.pc = "idle" /\ ArtKept
    BY <1>1 DEF Stopped, ArtKept
  <2> QED BY <1>0, <1>1, <2>1, SweptQuiet, NoSweepGives
<1>2. CASE /\ art' = [art EXCEPT ![a].status = "deleting"]
           /\ sweep' = [sweep EXCEPT !.pc = "unlink", !.entries = rest, !.entry = a]
           /\ CanActivate(a) /\ UNCHANGED me
  <2>1. /\ art'[a].status = "deleting" /\ art'[a].target = art[a].target
        /\ \A b \in Artifact \ {a} : art'[b] = art[b]
    BY <1>0, <1>2, Restated DEF ArtStatus
  <2>2. OnePath'
    <3>1. \A b \in Artifact \ {a} : art[b].target = art[a].target => art[b].status \notin HoldsPath
      BY <1>2 DEF CanActivate, At
    <3> QED BY <1>0, <2>1, <3>1 DEF StaysInv, OnePath
  <2>3. Unshared'
    BY <1>0, <2>1 DEF StaysInv, Unshared, EntriesOK, Referring
  <2>4. JobsKept /\ Live' = Live /\ Known' = Known
    BY <1>0 DEF JobsKept, Live, Known
  <2>5. Counted'
    <3>1. ASSUME NEW b \in Artifact, NEW s \in Live, Stands(b, s)
          PROVE  /\ art'[b].target = art[b].target /\ <<b, s>> \in ref'
                 /\ art'[b].status \in Standing
      BY <1>0, <2>1, <3>1 DEF Standing, Stands
    <3> QED BY <1>0, <2>4, <3>1, CountedKept
  <2>6. FirstScanned'
    BY <1>0, <2>4 DEF StaysInv, FirstScanned
  <2>7. TakesOK' /\ FreeHands'
    <3>1. me'.pc = "reconcile" /\ me'.art = None
      BY <1>0, <1>2 DEF StaysInv, FreeHands
    <3> QED BY <3>1, TakesNothing DEF FreeHands
  <2>8. /\ sweep'.pc = "unlink" /\ sweep'.entries = rest /\ sweep'.entry = a
        /\ sweep'.src = sweep.src
    <3> HIDE DEF rest
    <3> QED BY <1>0, <1>2 DEF Sweep
  <2>9. EntriesOK'
    <3>1. \A b \in Artifact : art[b].status # "none" => art'[b].status # "none"
      BY <2>1
    <3>2. \A b \in rest : b \in Artifact /\ art[b].status # "none"
      BY <1>0 DEF Sweep, EntriesOK
    <3>3. ASSUME NEW r \in Row, manifest[r] # None, NEW b \in manifest[r]
          PROVE  art'[b].status # "none"
      <4>1. manifest[r] \in (SUBSET Artifact) \cup {None}
        BY <1>0
      <4> QED BY <1>0, <3>1, <3>3, <4>1 DEF EntriesOK
    <3> QED BY <1>0, <2>8, <3>1, <3>2, <3>3 DEF EntriesOK
  <2>10. \A q \in Referring(a) \cap Live : row[q].missing # 0
    <3> SUFFICES ASSUME NEW q \in Referring(a) \cap Live, q # sweep.src PROVE row[q].missing # 0
      BY <1>0 DEF GivingOK
    <3>1. q \in Supports(a, sweep.src)
      BY DEF Supports, Live
    <3>2. Due(q)
      BY <1>0, <3>1 DEF Protected, Protecting
    <3> QED BY <3>2, DueMissing
  <2>11. GivingOK'
    BY <1>0, <2>1, <2>4, <2>8, <2>10 DEF GivingOK, Referring
  <2> QED BY <2>2, <2>3, <2>5, <2>6, <2>7, <2>9, <2>11 DEF StaysInv
<1> QED BY <1>1, <1>2 DEF MarkDeleting

\* What was taken is removed.
LEMMA SweptRemoves ==
  ASSUME SweptInv, MarkRemoved
  PROVE  StaysInv' /\ EntriesOK' /\ GivingOK'
<1> DEFINE a == sweep.entry
<1>0. /\ sweep \in Sweep /\ (sweep.pc # "off") = (me.pc = "reconcile")
      /\ ImportInv /\ art \in [Artifact -> ArtRec]
      /\ manifest \in [Row -> (SUBSET Artifact) \cup {None}]
      /\ StaysInv /\ EntriesOK /\ GivingOK
      /\ sweep.pc = "mark_removed" /\ a \in Artifact /\ art[a].status = "deleting"
      /\ art' = [art EXCEPT ![a].status = "removed"]
      /\ sweep' = [sweep EXCEPT !.pc = "entry", !.entry = None]
      /\ UNCHANGED <<row, ref, job, manifest, me>>
  BY DEF SweptInv, CleanupInv, CleanupTypeOK, ImportInv, ImportTypeOK, MarkRemoved, inventoryVars,
         SweepOK, GivingOK
<1>1. Counted' /\ FirstScanned' /\ OnePath' /\ Unshared'
  <2>1. \A b \in Artifact, s \in Live : Stands(b, s) /\ job[s].status = "imported" =>
          <<b, s>> \in ref' /\ (b = a => "removed" = "removed")
    BY <1>0 DEF Stands
  <2> HIDE DEF a
  <2> QED BY <1>0, <2>1, BooksRestated
<1>2. TakesOK' /\ FreeHands'
  <2>1. me'.pc = "reconcile" /\ me'.art = None
    BY <1>0 DEF StaysInv, FreeHands
  <2> QED BY <2>1, TakesNothing DEF FreeHands
<1>3. sweep'.pc = "entry" /\ sweep'.entries = sweep.entries /\ sweep'.src = sweep.src
  BY <1>0 DEF Sweep
<1>4. \A b \in Artifact : art[b].status # "none" => art'[b].status # "none"
  BY <1>0, Restated DEF ArtStatus
<1>5. EntriesOK'
  <2>1. \A b \in sweep.entries : b \in Artifact
    BY <1>0 DEF Sweep
  <2>2. ASSUME NEW r \in Row, manifest[r] # None, NEW b \in manifest[r]
        PROVE  art'[b].status # "none"
    <3>1. manifest[r] \in (SUBSET Artifact) \cup {None}
      BY <1>0
    <3> QED BY <1>0, <1>4, <2>2, <3>1 DEF EntriesOK
  <2> QED BY <1>0, <1>3, <1>4, <2>1, <2>2 DEF EntriesOK
<1>6. GivingOK'
  BY <1>0, <1>3 DEF GivingOK
<1> QED BY <1>1, <1>2, <1>5, <1>6 DEF StaysInv

\* A tombstone takes a source away, and nothing else.
LEMMA SweptSettles ==
  ASSUME SweptInv, SettleCleanup
  PROVE  StaysInv' /\ EntriesOK' /\ GivingOK'
<1> DEFINE s == sweep.src
<1>0. /\ sweep \in Sweep /\ (sweep.pc # "off") = (me.pc = "reconcile")
      /\ row \in [Row -> RowRec]
      /\ manifest \in [Row -> (SUBSET Artifact) \cup {None}]
      /\ StaysInv /\ EntriesOK /\ GivingOK
      /\ sweep.pc = "entry" /\ sweep.src \in Known
      /\ manifest' = [manifest EXCEPT ![s] = None]
      /\ sweep' = [sweep EXCEPT !.pc = "pick", !.entry = None, !.conflict = FALSE]
      /\ row' = row \/ row' = [row EXCEPT ![s].status = "removed"]
      /\ UNCHANGED <<art, ref, job, me>>
  BY DEF SweptInv, CleanupInv, CleanupTypeOK, ImportInv, ImportTypeOK, SettleCleanup, tables,
         SweepOK
<1>1. ASSUME NEW q \in Row
      PROVE  row'[q].fp = row[q].fp /\ row'[q].status \in {row[q].status, "removed"}
             /\ (q \notin Known => row'[q] = row[q])
  BY <1>0 DEF RowRec
<1>2. Live' \subseteq Live /\ Known' = Known
  BY <1>1 DEF Live, Known
<1>3. Counted'
  BY <1>0, <1>2, CountedKept DEF JobsKept, Stands
<1>4. FirstScanned' /\ OnePath' /\ Unshared'
  BY <1>0, <1>1, <1>2 DEF StaysInv, FirstScanned, OnePath, Unshared, Referring, Known
<1>5. TakesOK' /\ FreeHands'
  <2>1. me'.pc = "reconcile" /\ me'.art = None
    BY <1>0 DEF StaysInv, FreeHands
  <2> QED BY <2>1, TakesNothing DEF FreeHands
<1>6. sweep'.pc = "pick" /\ sweep'.entries = sweep.entries
  BY <1>0 DEF Sweep
<1>7. \A r \in Row : manifest'[r] \in {manifest[r], None}
  BY <1>0
<1>8. EntriesOK' /\ GivingOK'
  BY <1>0, <1>6, <1>7 DEF EntriesOK, GivingOK
<1> QED BY <1>3, <1>4, <1>5, <1>8 DEF StaysInv

\* More time passes for a source that is missing.
LEMMA SweptWaits ==
  ASSUME SweptInv, Grace
  PROVE  StaysInv'
<1>1. PICK r \in Row : GracePasses(r) /\ me.pc = "idle" /\ UNCHANGED <<lib, temp, tables, cfg, me>>
  BY DEF Grace
<1>2. /\ row \in [Row -> RowRec] /\ row' = [row EXCEPT ![r].aged = TRUE]
      /\ UNCHANGED <<art, ref, job, me>> /\ StaysInv
  BY <1>1 DEF GracePasses, SweptInv, CleanupInv, ImportInv, ImportTypeOK, tables
<1>3. \A q \in Row : row'[q].fp = row[q].fp /\ row'[q].status = row[q].status
  BY <1>2 DEF RowRec
<1>4. Live' = Live /\ Known' = Known
  BY <1>3 DEF Live, Known
<1>5. Counted'
  BY <1>2, <1>4, CountedKept DEF JobsKept, Stands
<1>6. FirstScanned' /\ OnePath' /\ Unshared'
  BY <1>2, <1>3, <1>4 DEF StaysInv, FirstScanned, OnePath, Unshared, Referring, Known
<1>7. TakesOK' /\ FreeHands'
  <2>1. me'.pc = "idle"
    BY <1>1
  <2> QED BY <2>1, TakesNothing DEF FreeHands
<1> QED BY <1>5, <1>6, <1>7 DEF StaysInv

\* Every step of the importer with its cleanup keeps the books.
LEMMA SweptStep == SweptInv /\ [CleanupNext]_cleanupVars => SweptInv'
<1> SUFFICES ASSUME SweptInv, [CleanupNext]_cleanupVars PROVE SweptInv'
  OBVIOUS
<1>0. /\ CleanupInv' /\ ImportInv /\ PredsOK /\ StaysInv /\ EntriesOK /\ GivingOK
      /\ sweep \in Sweep /\ (sweep.pc # "off") = (me.pc = "reconcile")
      /\ manifest \in [Row -> (SUBSET Artifact) \cup {None}]
  BY CleanupInductive DEF SweptInv, CleanupInv, CleanupTypeOK
<1>1. CASE CleanupStep
  BY <1>0, <1>1, SweptLooks, SweptMarks, SweptRemoves, SweptSettles DEF CleanupStep, SweptInv
<1>2. ASSUME ArtKept, UNCHANGED <<manifest, sweep>>
      PROVE  EntriesOK'
  <2>1. ASSUME NEW r \in Row, manifest[r] # None, NEW a \in manifest[r]
        PROVE  art'[a].status # "none"
    <3>1. manifest[r] \in (SUBSET Artifact) \cup {None}
      BY <1>0
    <3> QED BY <1>0, <1>2, <2>1, <3>1 DEF EntriesOK, ArtKept
  <2>2. \A a \in sweep.entries : art'[a].status # "none"
    BY <1>0, <1>2 DEF EntriesOK, ArtKept, Sweep
  <2> QED BY <1>2, <2>1, <2>2 DEF EntriesOK
<1>3. CASE EngineStep /\ UNCHANGED <<crashes, manifest, sweep>>
  <2>1. StaysInv'
    BY <1>0, <1>3, StaysStep DEF ImportNext
  <2>2. EntriesOK'
    BY <1>0, <1>2, <1>3, EngineKeepsArt
  <2>3. sweep'.pc = "off"
    BY <1>0, <1>3, EngineApart DEF Sweep
  <2> QED BY <1>0, <2>1, <2>2, <2>3 DEF SweptInv, GivingOK
<1>4. CASE (OperatorStep \/ UserStep) /\ UNCHANGED <<crashes, manifest, sweep>>
  <2>1. StaysInv'
    BY <1>0, <1>4, StaysStep DEF ImportNext
  <2>2. UNCHANGED <<row, art, ref>>
    BY <1>4 DEF OperatorStep, UserStep, Review, ChangeConfig, TouchSource, TouchLibrary,
                inventoryVars, tables
  <2>3. EntriesOK'
    BY <1>2, <1>4, <2>2 DEF ArtKept
  <2>4. GivingOK'
    BY <1>0, <1>4, <2>2 DEF GivingOK, Referring, Live, Known
  <2> QED BY <1>0, <2>1, <2>3, <2>4 DEF SweptInv
<1>5. CASE Grace /\ UNCHANGED <<crashes, manifest, sweep>>
  <2>1. StaysInv' /\ UNCHANGED art /\ me.pc = "idle"
    BY <1>5, SweptWaits DEF Grace, tables
  <2>2. EntriesOK'
    BY <1>2, <1>5, <2>1 DEF ArtKept
  <2>3. sweep'.pc = "off"
    BY <1>0, <1>5, <2>1
  <2> QED BY <1>0, <2>1, <2>2, <2>3 DEF SweptInv, GivingOK
<1>6. CASE Crash /\ sweep' = NoSweep /\ UNCHANGED manifest
  <2>1. StaysInv'
    BY <1>0, <1>6, StaysStep DEF ImportNext
  <2>2. ArtKept
    BY <1>6 DEF Crash, ArtKept, tables
  <2> QED BY <1>0, <1>6, <2>1, <2>2, NoSweepGives DEF SweptInv
<1>7. CASE UNCHANGED cleanupVars
  <2>1. UNCHANGED importVars /\ UNCHANGED <<row, art, ref, manifest, sweep>>
    BY <1>7 DEF cleanupVars, importVars, inventoryVars, tables
  <2>2. StaysInv'
    BY <1>0, <2>1, StaysStep
  <2>3. EntriesOK' /\ GivingOK'
    BY <1>0, <2>1 DEF EntriesOK, GivingOK, Referring, Live, Known
  <2> QED BY <1>0, <2>2, <2>3 DEF SweptInv
<1> QED BY <1>1, <1>3, <1>4, <1>5, <1>6, <1>7 DEF CleanupNext

\* The cleanup takes no file of a source that is there, unless its output was given up.
LEMMA SweptSafe ==
  ASSUME SweptInv, CleanupStep, NEW s \in Live, ~GivenUp(s), LosesFile(s)
  PROVE  FALSE
<1> DEFINE a == sweep.entry
<1>0. /\ ImportInv /\ StaysInv /\ GivingOK /\ SweepOK
      /\ ref \subseteq Artifact \X Row /\ lib \in [Target -> Ident \cup {None}]
      /\ (sweep.pc # "off") = (me.pc = "reconcile")
  BY DEF SweptInv, CleanupInv, CleanupTypeOK, ImportInv, ImportTypeOK
<1>1. /\ s \in Known /\ s \in Row /\ row[s].fp # None /\ job[s].status = "imported"
      /\ row[s].missing = 0
      /\ lib[job[s].target] = row[s].fp /\ lib'[job[s].target] = None
  BY <1>0 DEF Live, Known, StaysInv, FirstScanned, LosesFile
<1>2. lib' # lib
  BY <1>1
<1>3. sweep.pc = "unlink" /\ lib' = [lib EXCEPT ![art[a].target] = None]
  <2>1. UnlinkEntry \/ UNCHANGED lib
    BY DEF CleanupStep, StartReconcile, PassOver, PickDue, ReconcileDone, ExecuteCleanup,
           RefuseEntry, MarkDeleting, MarkRemoved, SettleCleanup
  <2> QED BY <1>2, <2>1 DEF UnlinkEntry
<1>4. PICK b \in Artifact : Stands(b, s)
  BY <1>0, <1>1 DEF StaysInv, Counted
<1>5. job[s].target \in Target /\ art[b].target = job[s].target /\ s \in Referring(b)
  BY <1>0, <1>1, <1>4 DEF Stands, Standing, StaysInv, Unshared, Referring
<1>6. art[a].target = job[s].target
  BY <1>0, <1>1, <1>3, <1>5
<1>7. a \in Artifact /\ art[a].status = "deleting" /\ s \notin Referring(a)
  BY <1>0, <1>1, <1>3 DEF SweepOK, GivingOK
<1>8. art[b].status \in {"target_missing", "removed"}
  <2>1. b # a
    BY <1>5, <1>7
  <2>2. art[b].status \notin HoldsPath
    BY <1>0, <1>5, <1>6, <1>7, <2>1 DEF StaysInv, OnePath, HoldsPath
  <2> QED BY <1>4, <2>2 DEF Stands, Standing, HoldsPath
<1>9. s \notin Referring(me.art)
  <2>1. me.art = None /\ None \notin Artifact
    BY <1>0, <1>3, ImportAssumption DEF StaysInv, FreeHands
  <2> QED BY <1>0, <2>1 DEF Referring
<1> QED BY <1>5, <1>8, <1>9 DEF GivenUp, At

\* What the cleanup takes belongs to no source that is there, either, for any number of
\* sources that share files and paths, any grace, and wherever the process dies between
\* manifest, intent, unlink and tombstone (Engine.execute_cleanup).
THEOREM OutputStaysInCleanup == CleanupSpec => OutputStays
<1>1. SweptInv /\ [CleanupNext]_cleanupVars => SweptInv'
  BY SweptStep
<1>2. SweptInv /\ [CleanupNext]_cleanupVars =>
        [UserStep \/ StaleIntent \/ \A s \in Live : ~GivenUp(s) => ~LosesFile(s)]_importVars
  <2> SUFFICES ASSUME SweptInv, [CleanupNext]_cleanupVars, ~UserStep, ~StaleIntent,
                      NEW s \in Live, ~GivenUp(s), LosesFile(s)
               PROVE  UNCHANGED importVars
    OBVIOUS
  <2>1. CASE UNCHANGED cleanupVars
    BY <2>1 DEF cleanupVars
  <2>2. CASE CleanupStep
    BY <2>2, SweptSafe
  <2>3. CASE ((EngineStep \/ OperatorStep) /\ UNCHANGED crashes) \/ Crash
    BY <2>3, StaysSafe DEF ImportNext, SweptInv, CleanupInv
  <2>4. CASE Grace
    <3>1. UNCHANGED lib
      BY <2>4 DEF Grace
    <3>2. row[s].fp # None
      BY DEF SweptInv, StaysInv, FirstScanned, Live
    <3> QED BY <3>1, <3>2 DEF LosesFile
  <2> QED BY <2>1, <2>2, <2>3, <2>4 DEF CleanupNext
<1> QED BY SweptStarts, <1>1, <1>2, PTL DEF CleanupSpec, OutputStays

-----------------------------------------------------------------------------
(* The review of a series. *)

\* What is shown was decided before: a source that was reviewed on its own since then has
\* a decision of a higher revision than the one that is shown.
ShownOK ==
  /\ preview.of \subseteq Row /\ newer \subseteq preview.of
  /\ \A s \in preview.of :
       LET base == preview.entry[s].base
       IN  /\ preview.entry[s].new \in Target
           /\ base.dec.rev \in Nat /\ base.dec.rev <= dec[s].rev
           /\ s \in newer => base.dec.rev < dec[s].rev

\* The inductive invariant of the importer with the review of a series.
SeriesInv == SupportInv /\ ShownOK

\* Steps of the engine decide nothing.
LEMMA EngineDecidesNothing ==
  ASSUME EngineStep \/ ProcessOnly \/ ScanDone
  PROVE  dec' = dec
<1> USE DEF tables, Fail, Clash
<1>1. CASE \E a \in Artifact : RecoverRefused(a) \/ RecoverPick(a)
  BY <1>1 DEF RecoverRefused, RecoverPick
<1>2. CASE \E s \in Row : Plan(s) \/ PlanImported(s)
  BY <1>2 DEF Plan, PlanImported
<1>3. CASE \E a \in Artifact : RetirePick(a) \/ RetireRelease(a)
  BY <1>3 DEF RetirePick, RetireRelease
<1>4. CASE ScanPublish \/ RecoverDone \/ UndoTarget \/ UndoArtifact \/ ProcessOnly \/ ScanDone
  BY <1>4 DEF ScanPublish, RecoverDone, UndoTarget, UndoArtifact, ProcessOnly, ScanDone
<1>5. CASE LinkStart \/ PlaceExisting \/ PlaceMissing \/ PlaceIntent \/ PlaceFails
  BY <1>5 DEF LinkStart, PlaceExisting, PlaceMissing, PlaceIntent, PlaceFails
<1>6. CASE LinkTemp \/ LinkTarget \/ Finish \/ FinishFails
  BY <1>6 DEF LinkTemp, LinkTarget, Finish, FinishFails
<1>7. CASE UnlinkTemp \/ PublicationDone \/ Succeed
  BY <1>7 DEF UnlinkTemp, PublicationDone, Succeed
<1>8. CASE RetireStart \/ RetireUnlink \/ RetireArtifact \/ RetireDone
  BY <1>8 DEF RetireStart, RetireUnlink, RetireArtifact, RetireDone
<1> QED BY <1>1, <1>2, <1>3, <1>4, <1>5, <1>6, <1>7, <1>8, Zenon DEF EngineStep

\* A decision is only replaced by one of a higher revision.
LEMMA DecisionsGrow ==
  ASSUME ImportInv, [ImportNext]_importVars, NEW s \in Row
  PROVE  dec'[s] = dec[s] \/ dec'[s].rev > dec[s].rev
<1>0. /\ job \in [Row -> JobRec] /\ dec \in [Row -> DecRec]
      /\ \A q \in Row : job[q].rev \in Nat /\ dec[q].rev \in Nat
  BY DEF ImportInv, ImportTypeOK, JobRec, DecRec, Revision
<1>1. CASE EngineStep \/ ProcessOnly \/ ScanDone
  BY <1>1, EngineDecidesNothing
<1>2. CASE UserStep \/ ChangeConfig \/ Crash \/ UNCHANGED importVars
  BY <1>2 DEF UserStep, TouchLibrary, ChangeConfig, Crash, importVars, tables
<1>3. CASE \E q \in Row, t \in Target : Review(q, t)
  <2>1. PICK q \in Row, t \in Target : Review(q, t)
    BY <1>3
  <2> DEFINE rev == (IF job[q].rev > dec[q].rev THEN job[q].rev ELSE dec[q].rev) + 1
  <2>2. dec' = [dec EXCEPT ![q] = [target |-> t, rev |-> rev]]
    BY <2>1 DEF Review
  <2>3. rev > dec[q].rev
    BY <1>0
  <2> HIDE DEF rev
  <2> QED BY <1>0, <2>2, <2>3
<1> QED BY <1>1, <1>2, <1>3 DEF ImportNext, OperatorStep

\* One preview is shown: nothing was reviewed since.
LEMMA StepPreview ==
  ASSUME SeriesInv, SeriesPreview
  PROVE  SeriesInv'
<1>1. UNCHANGED importVars /\ newer' = {}
  BY DEF SeriesPreview
<1>2. SupportInv'
  BY <1>1, SupportStep DEF SeriesInv
<1>3. PICK name \in [Target -> Target] :
        preview' = [of |-> Series, cfg |-> cfg,
                    entry |-> [s \in Series |-> [new |-> name[job[s].target], base |-> Base(s)]]]
  BY DEF SeriesPreview
<1>4. preview'.of = Series /\ dec' = dec /\ Series \subseteq Row
  BY <1>1, <1>3 DEF importVars, tables, Series, Live, Known
<1>5. ASSUME NEW s \in Series
      PROVE  /\ preview'.entry[s].new \in Target
             /\ preview'.entry[s].base.dec = dec[s] /\ dec[s].rev \in Nat
  <2>1. preview'.entry[s] = [new |-> name[job[s].target], base |-> Base(s)]
    BY <1>3
  <2>2. job[s].target \in Target
    BY <1>4 DEF Series, SeriesInv, SupportInv, ImportInv, ImportTypeOK, JobRec, Place
  <2>3. dec[s].rev \in Nat
    BY <1>4 DEF SeriesInv, SupportInv, ImportInv, ImportTypeOK, DecRec, Revision
  <2> QED BY <2>1, <2>2, <2>3 DEF Base
<1>6. ShownOK'
  BY <1>1, <1>4, <1>5 DEF ShownOK
<1> QED BY <1>2, <1>6 DEF SeriesInv

\* All its decisions at once outdate the fences of the series' publications.
LEMMA StepApply ==
  ASSUME SeriesInv, SeriesApply, UNCHANGED crashes
  PROVE  SeriesInv' /\ newer = {}
<1> DEFINE new(s) == [target |-> preview.entry[s].new, rev |-> Reviewed(s)]
<1>0. ImportInv /\ PredsOK /\ HeirsOK /\ OutputsSupported
  BY DEF SeriesInv, SupportInv
<1>1. /\ me.pc = "idle" /\ me \in Engine /\ preview.of = Series /\ Series \subseteq Row
      /\ dec' = [s \in Row |-> IF s \in Series THEN new(s) ELSE dec[s]]
      /\ job' = [s \in Row |-> IF s \in Series THEN [job[s] EXCEPT !.status = "open"] ELSE job[s]]
      /\ preview' = NoPreview /\ newer' = {}
      /\ UNCHANGED <<inventoryVars, lib, temp, art, pub, ref, cfg, me, crashes>>
      /\ job \in [Row -> JobRec] /\ dec \in [Row -> DecRec]
  BY <1>0 DEF SeriesApply, StillAsShown, Series, Live, Known, ImportInv, ImportTypeOK
<1>2. ASSUME NEW s \in Series
      PROVE  Reviewed(s) \in Revision /\ Reviewed(s) > dec[s].rev
  <2>1. s \in Row /\ Reviewed(s) <= MaxRevision
    BY <1>1 DEF SeriesApply
  <2>2. job[s].rev \in Nat /\ dec[s].rev \in Nat
    BY <1>1, <2>1 DEF JobRec, DecRec, Revision
  <2> QED BY <2>1, <2>2, ImportAssumption DEF Reviewed, Revision
<1>3. ASSUME NEW s \in Series
      PROVE  new(s) \in DecRec /\ new(s).target \in Target /\ new(s).rev = Reviewed(s)
  BY <1>1, <1>2 DEF SeriesInv, ShownOK, DecRec, Place
<1>4. \A s \in Row : dec'[s] = IF s \in Series THEN new(s) ELSE dec[s]
  BY <1>1
<1> HIDE DEF new
<1>5. dec' \in [Row -> DecRec] /\ job' \in [Row -> JobRec]
  <2>1. \A s \in Row : [job[s] EXCEPT !.status = "open"] \in JobRec
    BY <1>1 DEF JobRec, JobStatus
  <2> QED BY <1>1, <1>3, <2>1
<1>6. RowsStep /\ Known' = Known
  BY <1>0, <1>1, SameRows DEF Known, inventoryVars
<1>7. ReviewsOK'
  BY <1>0, <1>3, <1>4 DEF ImportInv, ReviewsOK
<1>8. FencesOK'
  <2> SUFFICES ASSUME NEW a \in Artifact, pub'[a].status # "none" PROVE FenceOK(a)'
    BY Zenon DEF FencesOK
  <2>1. FenceOK(a) /\ pub' = pub /\ art' = art /\ pub[a].src \in Row
    BY <1>0, <1>1 DEF ImportInv, FencesOK, FenceOK, Known
  <2>2. CASE pub[a].src \in Series
    <3>1. /\ pub[a].fence.review <= dec[pub[a].src].rev /\ pub[a].fence.review \in Nat
          /\ dec[pub[a].src].rev \in Nat
      BY <1>0, <2>1 DEF FenceOK, ImportInv, ImportTypeOK, PubRec, Fence, DecRec, Revision
    <3>2. /\ dec'[pub[a].src].rev \in Nat /\ dec'[pub[a].src].rev > dec[pub[a].src].rev
      BY <1>2, <1>3, <1>4, <2>1, <2>2 DEF Revision
    <3>3. /\ pub[a].fence.review <= dec'[pub[a].src].rev
          /\ pub[a].fence.review # dec'[pub[a].src].rev
      BY <3>1, <3>2
    <3> QED BY <1>6, <2>1, <3>3 DEF FenceOK
  <2>3. CASE pub[a].src \notin Series
    <3>1. dec'[pub[a].src] = dec[pub[a].src]
      BY <1>4, <2>1, <2>3
    <3> QED BY <1>6, <2>1, <3>1 DEF FenceOK
  <2> QED BY <2>2, <2>3
<1>9. EngineOK'
  <2>1. me.recovering = FALSE
    BY <1>0, <1>1 DEF ImportInv, EngineOK, ImportPc, Engine
  <2> QED BY <1>1, <2>1, NothingInHand
<1>10. Referenced' /\ TempRecorded'
  BY <1>0, <1>1, <1>6 DEF ImportInv, Referenced, TempRecorded
<1>11. ImportTypeOK'
  BY <1>0, <1>1, <1>5 DEF ImportInv, ImportTypeOK, inventoryVars
<1>12. ImportInv'
  BY <1>0, <1>1, <1>6, <1>7, <1>8, <1>9, <1>10, <1>11, AssembleParts DEF inventoryVars
<1>13. OutputsSupported'
  BY <1>0, <1>1, SupportUnchanged DEF inventoryVars
<1>14. PredsOK' /\ HeirsOK'
  BY <1>0, <1>1, <1>6 DEF PredsOK, HeirsOK, inventoryVars
<1>15. ShownOK'
  BY <1>1 DEF ShownOK, NoPreview
<1>16. newer = {}
  <2> SUFFICES ASSUME NEW s \in newer PROVE FALSE
    OBVIOUS
  <2>1. s \in Series /\ s \in Row /\ preview.entry[s].base = Base(s)
    BY <1>1 DEF SeriesInv, ShownOK, SeriesApply, StillAsShown
  <2>2. preview.entry[s].base.dec = dec[s]
    BY <2>1 DEF Base
  <2>3. dec[s].rev \in Nat /\ preview.entry[s].base.dec.rev < dec[s].rev
    BY <1>1, <2>1 DEF SeriesInv, ShownOK, DecRec, Revision
  <2> QED BY <2>2, <2>3
<1> QED BY <1>12, <1>13, <1>14, <1>15, <1>16 DEF SeriesInv, SupportInv

\* What the importer does in the meantime.
LEMMA StepMeanwhile ==
  ASSUME SeriesInv, [ImportNext]_importVars, UNCHANGED preview,
         newer' = newer \cup {s \in preview.of : dec'[s] # dec[s]}
  PROVE  SeriesInv'
<1>1. SupportInv'
  BY SupportStep DEF SeriesInv
<1>2. ImportInv
  BY DEF SeriesInv, SupportInv
<1>3. /\ dec \in [Row -> DecRec] /\ dec' \in [Row -> DecRec]
  BY <1>1, <1>2 DEF SupportInv, ImportInv, ImportTypeOK
<1>4. \A s \in Row : dec[s].rev \in Nat /\ dec'[s].rev \in Nat
  BY <1>3 DEF DecRec, Revision
<1>5. \A s \in Row : dec'[s] = dec[s] \/ dec'[s].rev > dec[s].rev
  BY <1>2, DecisionsGrow
<1>6. ShownOK'
  BY <1>4, <1>5 DEF SeriesInv, ShownOK
<1> QED BY <1>1, <1>6 DEF SeriesInv

LEMMA SeriesStep == SeriesInv /\ [SeriesNext]_seriesVars => SeriesInv'
<1> SUFFICES ASSUME SeriesInv, [SeriesNext]_seriesVars PROVE SeriesInv'
  OBVIOUS
<1>1. CASE SeriesPreview
  BY <1>1, StepPreview
<1>2. CASE SeriesApply
  BY <1>2, StepApply DEF SeriesApply
<1>3. CASE ImportNext /\ newer' = newer \cup {s \in preview.of : dec'[s] # dec[s]}
           /\ UNCHANGED preview
  BY <1>3, StepMeanwhile
<1>4. CASE UNCHANGED seriesVars
  <2>1. UNCHANGED <<importVars, preview, newer>> /\ dec' = dec
    BY <1>4 DEF seriesVars, importVars, tables
  <2> QED BY <2>1, StepMeanwhile
<1> QED BY <1>1, <1>2, <1>3, <1>4 DEF SeriesNext

LEMMA SeriesStarts == SeriesInit => SeriesInv
BY SupportStarts DEF SeriesInit, SeriesInv, ShownOK, NoPreview

\* The importer with reviews of whole series, shown and applied at any time
\* (Engine.series_preview, Engine.series_apply).
THEOREM SeriesInvariant == SeriesSpec => []SeriesInv
<1>1. SeriesInv /\ [SeriesNext]_seriesVars => SeriesInv'
  BY SeriesStep
<1> QED BY SeriesStarts, <1>1, PTL DEF SeriesSpec

\* Applying a preview overwrites no decision that was made on one source since it was
\* shown: the baseline of such a source is outdated, and the operator is told to preview
\* again.
THEOREM NewerReviewKeptHolds == SeriesSpec => NewerReviewKept
<1> DEFINE Keeps == SeriesApply => \A s \in newer : dec'[s] = dec[s]
<1>1. SeriesInv /\ [SeriesNext]_seriesVars => [Keeps]_seriesVars
  BY StepApply DEF SeriesApply
<1> QED BY SeriesInvariant, <1>1, PTL DEF SeriesSpec, NewerReviewKept

\* A review of a series orphans no output either.
THEOREM OutputsSupportedInSeries == SeriesSpec => []OutputsSupported
<1>1. SeriesInv => OutputsSupported
  BY DEF SeriesInv, SupportInv
<1> QED BY SeriesInvariant, <1>1, PTL

\* A review of a series opens jobs, and is saved while the engine has nothing in hand.
LEMMA StaysApply ==
  ASSUME ImportInv, StaysInv, SeriesApply
  PROVE  StaysInv'
<1>1. /\ me.pc = "idle" /\ UNCHANGED <<row, art, ref, me>> /\ job \in [Row -> JobRec]
      /\ job' = [s \in Row |-> IF s \in Series THEN [job[s] EXCEPT !.status = "open"] ELSE job[s]]
  BY DEF SeriesApply, inventoryVars, ImportInv, ImportTypeOK
<1>2. Series \subseteq Known /\ Live' = Live /\ Known' = Known
  BY <1>1 DEF Series, Live, Known
<1>3. ASSUME NEW s \in Row
      PROVE  /\ s \in Series => job'[s].status = "open"
             /\ s \notin Series => job'[s] = job[s]
  BY <1>1 DEF JobRec
<1>4. JobsKept
  BY <1>3 DEF JobsKept
<1>5. Counted'
  BY <1>1, <1>2, <1>4, CountedKept DEF Stands
<1>6. FirstScanned' /\ OnePath' /\ Unshared'
  BY <1>1, <1>2, <1>3 DEF StaysInv, FirstScanned, OnePath, Unshared, Referring
<1>7. TakesOK' /\ FreeHands'
  BY <1>1, TakesNothing DEF FreeHands
<1> QED BY <1>5, <1>6, <1>7 DEF StaysInv

\* Reviews of whole series take no library file, and lead to no repair that does.
THEOREM OutputStaysInSeries == SeriesSpec => OutputStays
<1>1. SeriesInv /\ StaysInv /\ [SeriesNext]_seriesVars => StaysInv'
  <2> SUFFICES ASSUME SeriesInv, StaysInv, [SeriesNext]_seriesVars PROVE StaysInv'
    OBVIOUS
  <2>1. ImportInv /\ PredsOK
    BY DEF SeriesInv, SupportInv
  <2>2. CASE SeriesApply
    BY <2>1, <2>2, StaysApply
  <2>3. CASE [ImportNext]_importVars
    BY <2>1, <2>3, StaysStep
  <2>4. CASE SeriesPreview \/ UNCHANGED seriesVars
    BY <2>3, <2>4 DEF SeriesPreview, seriesVars
  <2> QED BY <2>2, <2>3, <2>4 DEF SeriesNext
<1>2. SeriesInv /\ StaysInv /\ [SeriesNext]_seriesVars =>
        [UserStep \/ StaleIntent \/ \A s \in Live : ~GivenUp(s) => ~LosesFile(s)]_importVars
  <2> SUFFICES ASSUME SeriesInv, StaysInv, [SeriesNext]_seriesVars, ~UserStep, ~StaleIntent,
                      NEW s \in Live, ~GivenUp(s), LosesFile(s)
               PROVE  UNCHANGED importVars
    OBVIOUS
  <2>1. ImportInv
    BY DEF SeriesInv, SupportInv
  <2>2. CASE ImportNext
    BY <2>1, <2>2, StaysSafe
  <2>3. CASE SeriesApply
    <3>1. UNCHANGED lib
      BY <2>3 DEF SeriesApply
    <3>2. row[s].fp # None
      BY DEF StaysInv, FirstScanned, Live
    <3> QED BY <3>1, <3>2 DEF LosesFile
  <2>4. CASE SeriesPreview \/ UNCHANGED seriesVars
    BY <2>4 DEF SeriesPreview, seriesVars
  <2> QED BY <2>2, <2>3, <2>4 DEF SeriesNext
<1>3. SeriesInit => StaysInv
  BY StaysStarts DEF SeriesInit
<1> QED BY <1>1, <1>2, <1>3, SeriesInvariant, PTL DEF SeriesSpec, OutputStays
==============================================================================
