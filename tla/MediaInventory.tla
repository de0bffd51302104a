--------------------------- MODULE MediaInventory ---------------------------
(***************************************************************************)
(* The source observations of the media importer: Engine.inventory walks a *)
(* source root, Engine.publish writes what it saw into media_source_files  *)
(* in one transaction.  A row is one generation of one path; a unique      *)
(* unchanged fingerprint may carry a row from one path to another (rename) *)
(* and UNIQUE(profile, path, generation) is the table's key.               *)
(*                                                                         *)
(* The user changes the files at any time, between two reads of one walk   *)
(* included.  A fingerprint (device, inode, size, mtime) is an element of  *)
(* Ident; the row identifiers (uuid4) are the elements of Row.             *)
(***************************************************************************)
EXTENDS Integers, FiniteSets, Functions

CONSTANTS
  Path,          \* paths below the source root
  Ident,         \* file fingerprints
  Row,           \* identifiers a source row may get
  None,          \* no file, no fingerprint
  MissingScans   \* profile.missing_scans: absences before a cleanup is due

ASSUME InventoryAssumption ==
  /\ None \notin Ident
  /\ None \notin Path
  /\ MissingScans \in Nat \ {0}

VARIABLES
  disk,      \* [Path -> Ident \cup {None}]  the files below the source root
  row,       \* [Row -> RowRec]              media_source_files
  walk,      \* the traversal in progress: what it read, what it has not read
  outcome    \* what became of the latest media_scan_runs row

inventoryVars == <<disk, row, walk, outcome>>

-----------------------------------------------------------------------------
(* Table rows. *)

\* The status labels some query tells apart: 'review_required' is "ready" here.
SourceStatus == {"none", "stabilizing", "changed", "ready", "imported",
                 "missing_pending", "removed"}

\* stable_count is compared with 2 and missing_count with missing_scans, so both
\* saturate there; "aged" says that grace_seconds have passed since missing_since.
StableEnough == 2

RowRec == [status  : SourceStatus,
           path    : Path \cup {None},
           gen     : Nat,
           fp      : Ident \cup {None},
           stable  : 0..StableEnough,
           missing : 0..MissingScans,
           aged    : BOOLEAN]

NoRow == [status |-> "none", path |-> None, gen |-> 0, fp |-> None,
          stable |-> 0, missing |-> 0, aged |-> FALSE]

Inventory == [Path -> Ident \cup {None}]

Known == {r \in Row : row[r].status # "none"}
Live  == {r \in Known : row[r].status # "removed"}

CappedNever(n, cap) == n

Capped(n, cap) == IF n < cap THEN n ELSE cap

-----------------------------------------------------------------------------
(* What one complete inventory means for the rows. *)

LatestLive(p) ==
  LET here == {r \in Live : row[r].path = p}
  IN  {r \in here : \A q \in here : row[q].gen <= row[r].gen}

\* "latest": the row of the path with its highest generation
Latest(p) ==
  LET here == {r \in Known : row[r].path = p}
  IN  {r \in here : \A q \in here : row[q].gen <= row[r].gen}

KeptEvenRemoved(inv, p) == {r \in Latest(p) : row[r].fp = inv[p] /\ inv[p] # None}

\* The path still shows the fingerprint of its latest row.
Kept(inv, p) == {r \in Latest(p) \cap Live : row[r].fp = inv[p] /\ inv[p] # None}

\* Rows whose fingerprint now shows at p and whose own path shows nothing.
Aliases(inv, p) == {r \in Live : row[r].fp = inv[p] /\ inv[row[r].path] = None}

OnlyCopy(inv, p) == \A q \in Path : inv[q] = inv[p] => q = p

Relocated(inv, p) ==
  IF /\ inv[p] # None
     /\ Kept(inv, p) = {}
     /\ \E r \in Row : Aliases(inv, p) = {r}
     /\ OnlyCopy(inv, p)
  THEN Aliases(inv, p) ELSE {}

NewPaths(inv) ==
  {p \in Path : inv[p] # None /\ Kept(inv, p) = {} /\ Relocated(inv, p) = {}}

\* The rename's UPDATE of path keeps the generation: a row the target path has
\* or ever had with that generation makes SQLite refuse the transaction.
KeyClash(inv) ==
  \E p \in Path : \E r \in Relocated(inv, p) : \E q \in Known \ {r} :
    row[q].path = p /\ row[q].gen = row[r].gen

Observed(rec) ==
  [rec EXCEPT !.missing = 0, !.aged = FALSE,
              !.stable = Capped(@ + 1, StableEnough)]

\* A path whose latest row is live and shows another fingerprint was replaced.
Replaced(inv) == {r \in Live : \E p \in NewPaths(inv) : r \in Latest(p)}

UnseenOrReplaced(inv, r) ==
  IF r \in Replaced(inv) \/ row[r].status = "changed"
    THEN [row[r] EXCEPT !.status = "changed"]
    ELSE [row[r] EXCEPT !.status = "missing_pending",
                        !.missing = Capped(@ + 1, MissingScans)]

Unseen(inv, r) ==
  LET status == IF r \in Replaced(inv) \/ row[r].status = "changed"
                  THEN "changed" ELSE "missing_pending"
  IN  [row[r] EXCEPT !.status = status,
                     !.missing = Capped(@ + 1, MissingScans)]

FirstSeen(inv, p) ==
  [status  |-> IF Latest(p) \cap Live # {} THEN "changed" ELSE "stabilizing",
   path    |-> p,
   gen     |-> IF Latest(p) = {} THEN 1
               ELSE row[CHOOSE r \in Latest(p) : TRUE].gen + 1,
   fp      |-> inv[p],
   stable  |-> 1,
   missing |-> 0,
   aged    |-> FALSE]

\* The rows after the transaction, when "fresh" maps each new path to its new row.
Published(inv, fresh) ==
  [r \in Row |->
    CASE \E p \in NewPaths(inv) : fresh[p] = r ->
           FirstSeen(inv, CHOOSE p \in NewPaths(inv) : fresh[p] = r)
      [] \E p \in Path : r \in Kept(inv, p) -> Observed(row[r])
      [] \E p \in Path : r \in Relocated(inv, p) ->
           [Observed(row[r]) EXCEPT !.path =
              CHOOSE p \in Path : r \in Relocated(inv, p)]
      [] r \in Live /\ \A p \in Path : r \notin Kept(inv, p) \cup Relocated(inv, p) ->
           Unseen(inv, r)
      [] OTHER -> row[r]]

\* One unused row identifier per new path; the bound on Row must leave enough.
Fresh(inv) ==
  {f \in [NewPaths(inv) -> Row \ Known] : IsInjective(f)}

-----------------------------------------------------------------------------
(* The scan. *)

NoWalk == [unread |-> {}, inv |-> [p \in Path |-> None]]

Init ==
  /\ disk \in [Path -> Ident \cup {None}]
  /\ row = [r \in Row |-> NoRow]
  /\ walk = NoWalk
  /\ outcome = "none"

BeginScan ==
  /\ outcome # "running"
  /\ outcome' = "running"
  /\ walk' = [NoWalk EXCEPT !.unread = Path]
  /\ UNCHANGED <<disk, row>>

\* os.walk reaches one more name; files already read may change behind it.
ReadPath(p) ==
  /\ outcome = "running"
  /\ p \in walk.unread
  /\ walk' = [walk EXCEPT !.unread = @ \ {p}, !.inv[p] = disk[p]]
  /\ UNCHANGED <<disk, row, outcome>>

\* An unreadable directory, a symlink, an exhausted budget, a changed root.
FailScan ==
  /\ outcome = "running"
  /\ outcome' = "failed"
  /\ walk' = NoWalk
  /\ UNCHANGED <<disk, row>>

Publish ==
  /\ outcome = "running"
  /\ walk.unread = {}
  /\ ~KeyClash(walk.inv)
  /\ \E fresh \in Fresh(walk.inv) : row' = Published(walk.inv, fresh)
  /\ outcome' = "complete"
  /\ UNCHANGED <<disk, walk>>

\* sqlite3.IntegrityError is neither OSError nor ValueError: the transaction rolls
\* back, the exception leaves scan and the run's row is never settled.
PublishRejected ==
  /\ outcome = "running"
  /\ walk.unread = {}
  /\ KeyClash(walk.inv)
  /\ outcome' = "rejected"
  /\ UNCHANGED <<disk, row, walk>>

(* The other parts of the importer, as far as they write this table. *)

\* finish_link
Imported(r) ==
  /\ outcome = "complete"
  /\ r \in Live
  /\ row[r].missing = 0
  /\ row[r].stable = StableEnough
  /\ row' = [row EXCEPT ![r].status = "imported"]
  /\ UNCHANGED <<disk, walk, outcome>>

\* execute_cleanup, after its own look at the path and the fingerprint
Tombstone(r) ==
  /\ outcome = "complete"
  /\ r \in Live
  /\ row[r].status # "changed"
  /\ row[r].missing = MissingScans
  /\ row[r].aged
  /\ disk[row[r].path] = None
  /\ \A p \in Path : disk[p] # row[r].fp
  /\ row' = [row EXCEPT ![r].status = "removed"]
  /\ UNCHANGED <<disk, walk, outcome>>

(* The environment. *)

\* The user creates, removes or replaces a file; "mv" is two of these steps.
TouchSource(p, v) ==
  /\ disk[p] # v
  /\ disk' = [disk EXCEPT ![p] = v]
  /\ UNCHANGED <<row, walk, outcome>>

GracePasses(r) ==
  /\ r \in Live
  /\ row[r].missing > 0
  /\ ~row[r].aged
  /\ row' = [row EXCEPT ![r].aged = TRUE]
  /\ UNCHANGED <<disk, walk, outcome>>

Next ==
  \/ BeginScan
  \/ \E p \in Path : ReadPath(p)
  \/ FailScan
  \/ Publish
  \/ PublishRejected
  \/ \E r \in Row : Imported(r) \/ Tombstone(r) \/ GracePasses(r)
  \/ \E p \in Path, v \in Ident \cup {None} : TouchSource(p, v)

Spec == Init /\ [][Next]_inventoryVars

-----------------------------------------------------------------------------
(* Properties. *)

\* The tables and the traversal hold values of their types.
TypeOK ==
  /\ disk \in Inventory
  /\ row \in [Row -> RowRec]
  /\ walk \in [unread : SUBSET Path, inv : Inventory]
  /\ outcome \in {"none", "running", "failed", "complete", "rejected"}

\* After a complete scan the rows are the inventory: every file it found has
\* exactly one live row that is not counted missing, with the file's own
\* fingerprint, and no path without a file has one.  Copies of one file, files
\* that moved, were replaced or came back are where publish could lose this.
SnapshotAgreement ==
  outcome = "complete" =>
    \A p \in Path :
      LET present == {r \in Live : row[r].path = p /\ row[r].missing = 0}
      IN  IF walk.inv[p] = None
            THEN present = {}
            ELSE /\ Cardinality(present) = 1
                 /\ \A r \in present : row[r].fp = walk.inv[p]

\* UNIQUE(profile, path, generation) holds over the whole history, tombstones
\* included: a first observation always takes a generation its path never had.
KeyUnique ==
  \A r, q \in Known :
    row[r].path = row[q].path /\ row[r].gen = row[q].gen => r = q

\* A tombstone survives everything that happens to its path afterwards: a file
\* that returns is a new generation and never reopens the removed one.
TombstonesStay ==
  [][\A r \in Row : row[r].status = "removed" => row'[r] = row[r]]_inventoryVars

\* What the code promises of a complete traversal: it is published, whatever
\* files were renamed onto paths that already have a history.
CompleteScanIsPublished == outcome # "rejected"

=============================================================================
