---------------------------- MODULE MediaCleanup ----------------------------
(***************************************************************************)
(* Engine.reconcile and execute_cleanup, run by scan after process_pending *)
(* under the same flock: the outputs of a source that has been missing for *)
(* long enough are unlinked one by one from a persisted manifest, and the  *)
(* source is tombstoned when all of them are gone.                         *)
(*                                                                         *)
(* reconcile_policy is "execute" and every scan is due: the runs between   *)
(* two scans that only process are MediaImport's.                          *)
(***************************************************************************)
EXTENDS MediaImport

CONSTANT
  MaxCleanupBatch   \* profile.max_cleanup_batch

ASSUME CleanupAssumption == MaxCleanupBatch \in Nat

VARIABLES
  manifest,  \* [Row -> SUBSET Artifact or None]  the 'executing' reconcile action
  sweep      \* reconcile's locals; a crash loses them

cleanupVars == <<importVars, manifest, sweep>>

Sweep == [pc : {"off", "pick", "execute", "entry", "unlink", "mark_removed"},
          todo : SUBSET Row,                     \* sources still to look at
          mass : BOOLEAN,                        \* too many sources disappeared
          src : Row \cup {None},
          entries : SUBSET Artifact,             \* manifest entries still to do
          entry : Artifact \cup {None},
          conflict : BOOLEAN]                    \* an entry could not be removed

NoSweep == [pc |-> "off", todo |-> {}, mass |-> FALSE, src |-> None,
            entries |-> {}, entry |-> None, conflict |-> FALSE]

CleanupInit ==
  /\ ImportInit
  /\ manifest = [r \in Row |-> None]
  /\ sweep = NoSweep

-----------------------------------------------------------------------------
(* What gives a source up. *)

Shown(id) == \E p \in Path : disk[p] = id

Due(s) == /\ row[s].missing = MissingScans
          /\ row[s].aged
          /\ row[s].status # "changed"

\* supporting_sources: a source protects its outputs until its own grace passed
\* and a fresh walk finds neither its path nor its fingerprint.
Protecting(s) == ~Due(s) \/ disk[row[s].path] # None \/ Shown(row[s].fp)

Protected(a, s) == \E q \in Supports(a, s) : Protecting(q)

Missing == {s \in Live : row[s].missing > 0}

\* Mass disappearance is for review: the batch is too big, or more than half of at
\* least three sources are gone (max_missing_fraction is 0.5).
Mass == \/ Cardinality(Missing) > MaxCleanupBatch
        \/ Cardinality(Live) > 2 /\ 2 * Cardinality(Missing) > Cardinality(Live)


FreshManifest(s) ==
  {a \in Artifact : /\ s \in Referring(a)
                    /\ art[a].status \in {"active", "deleting"}
                    /\ art[a].owned
                    /\ ~Protected(a, s)}

\* An unfinished manifest is taken up again as it was written.
ManifestOf(s) == IF manifest[s] # None THEN manifest[s] ELSE FreshManifest(s)

-----------------------------------------------------------------------------
(* reconcile. *)

StartReconcile ==
  /\ me.pc = "work"
  /\ me' = [me EXCEPT !.pc = "reconcile"]
  /\ sweep' = [NoSweep EXCEPT !.pc = "pick", !.todo = Missing, !.mass = Mass]
  /\ UNCHANGED <<inventoryVars, lib, temp, tables, cfg, manifest>>

\* A source that is back, replaced or not due, and every source of a mass
\* disappearance, is passed over.
PassOver(s) ==
  /\ sweep.pc = "pick"
  /\ s \in sweep.todo
  /\ sweep.mass \/ ~Due(s) \/ disk[row[s].path] # None
  /\ sweep' = [sweep EXCEPT !.todo = @ \ {s}]
  /\ UNCHANGED <<inventoryVars, lib, temp, tables, cfg, me, manifest>>

PickDue(s) ==
  /\ sweep.pc = "pick"
  /\ s \in sweep.todo
  /\ ~sweep.mass /\ Due(s) /\ disk[row[s].path] = None
  /\ sweep' = [sweep EXCEPT !.pc = "execute", !.todo = @ \ {s}, !.src = s,
                            !.entries = ManifestOf(s), !.conflict = FALSE]
  /\ UNCHANGED <<inventoryVars, lib, temp, tables, cfg, me, manifest>>

ReconcileDone ==
  /\ sweep.pc = "pick"
  /\ sweep.todo = {}
  /\ sweep' = NoSweep
  /\ me' = Stopped
  /\ UNCHANGED <<inventoryVars, lib, temp, tables, cfg, manifest>>

-----------------------------------------------------------------------------
(* execute_cleanup. *)

Gone(s) == disk[row[s].path] = None

\* write_gate, the walk that looks for the fingerprint anywhere, the first commit.
\* A closed gate raises, and the scan ends there.
ExecuteCleanup ==
  LET s == sweep.src
  IN  /\ sweep.pc = "execute"
      /\ IF ~GateOpen
           THEN me' = Stopped /\ sweep' = NoSweep /\ UNCHANGED manifest
         ELSE IF Gone(s) /\ ~Shown(row[s].fp)
           THEN /\ sweep' = [sweep EXCEPT !.pc = "entry"]
                /\ manifest' = [manifest EXCEPT ![s] = sweep.entries]
                /\ UNCHANGED me
         ELSE /\ sweep' = [sweep EXCEPT !.pc = "pick"]
              /\ UNCHANGED <<me, manifest>>
      /\ UNCHANGED <<inventoryVars, lib, temp, tables, cfg>>

\* An entry whose source is back or that others need becomes a conflict.
RefuseEntry(a) ==
  /\ sweep.pc = "entry"
  /\ a \in sweep.entries
  /\ ~Gone(sweep.src) \/ Protected(a, sweep.src)
  /\ sweep' = [sweep EXCEPT !.entries = @ \ {a}, !.conflict = TRUE]
  /\ UNCHANGED <<inventoryVars, lib, temp, tables, cfg, me, manifest>>

\* The intent to delete is committed before the unlink, whatever became of the
\* artifact since the manifest was written.
MarkDeleting(a) ==
  /\ sweep.pc = "entry"
  /\ a \in sweep.entries
  /\ Gone(sweep.src) /\ ~Protected(a, sweep.src)
  /\ IF CanActivate(a)
       THEN /\ art' = [art EXCEPT ![a].status = "deleting"]
            /\ sweep' = [sweep EXCEPT !.pc = "unlink", !.entries = @ \ {a}, !.entry = a]
            /\ UNCHANGED me
       ELSE /\ me' = [Stopped EXCEPT !.calm = FALSE]
            /\ sweep' = NoSweep
            /\ UNCHANGED art
  /\ UNCHANGED <<inventoryVars, lib, temp, pub, ref, job, dec, cfg, manifest>>

\* Only the recorded file is unlinked; another one is a conflict.
UnlinkEntry ==
  LET a == sweep.entry
      t == art[a].target
  IN  /\ sweep.pc = "unlink"
      /\ IF lib[t] = None \/ (GateOpen /\ lib[t] = art[a].receipt)
           THEN /\ lib' = [lib EXCEPT ![t] = None]
                /\ sweep' = [sweep EXCEPT !.pc = "mark_removed"]
           ELSE /\ sweep' = [sweep EXCEPT !.pc = "entry", !.conflict = TRUE]
                /\ UNCHANGED lib
      /\ UNCHANGED <<inventoryVars, temp, tables, cfg, me, manifest>>

MarkRemoved ==
  /\ sweep.pc = "mark_removed"
  /\ art' = [art EXCEPT ![sweep.entry].status = "removed"]
  /\ sweep' = [sweep EXCEPT !.pc = "entry", !.entry = None]
  /\ UNCHANGED <<inventoryVars, lib, temp, pub, ref, job, dec, cfg, me, manifest>>

SettleCleanupRegardless ==
  LET s == sweep.src
  IN  /\ sweep.pc = "entry"
      /\ sweep.entries = {}
      /\ manifest' = [manifest EXCEPT ![s] = None]
      /\ row' = [row EXCEPT ![s].status = "removed"]
      /\ sweep' = [sweep EXCEPT !.pc = "pick", !.entry = None, !.conflict = FALSE]
      /\ UNCHANGED <<disk, walk, outcome, lib, temp, tables, cfg, me>>

\* The last commit: the action's outcome, and the tombstone if nothing is left.
SettleCleanup ==
  LET s == sweep.src
  IN  /\ sweep.pc = "entry"
      /\ sweep.entries = {}
      /\ manifest' = [manifest EXCEPT ![s] = None]
      /\ row' = IF sweep.conflict THEN row ELSE [row EXCEPT ![s].status = "removed"]
      /\ sweep' = [sweep EXCEPT !.pc = "pick", !.entry = None, !.conflict = FALSE]
      /\ UNCHANGED <<disk, walk, outcome, lib, temp, tables, cfg, me>>

-----------------------------------------------------------------------------

CleanupStep ==
  \/ StartReconcile
  \/ \E s \in Row : PassOver(s) \/ PickDue(s)
  \/ ReconcileDone
  \/ ExecuteCleanup
  \/ \E a \in Artifact : RefuseEntry(a) \/ MarkDeleting(a)
  \/ UnlinkEntry \/ MarkRemoved \/ SettleCleanup

Grace == \E r \in Row : GracePasses(r) /\ me.pc = "idle"
                        /\ UNCHANGED <<lib, temp, tables, cfg, me>>

CleanupNext ==
  \/ CleanupStep /\ UNCHANGED crashes
  \/ (EngineStep \/ OperatorStep \/ UserStep \/ Grace)
       /\ UNCHANGED <<crashes, manifest, sweep>>
  \/ Crash /\ sweep' = NoSweep /\ UNCHANGED manifest

CleanupSpec == CleanupInit /\ [][CleanupNext]_cleanupVars

-----------------------------------------------------------------------------
(* Properties. *)

\* The persisted manifests and the sweep's locals hold values of their types.
CleanupTypeOK ==
  /\ ImportTypeOK
  /\ manifest \in [Row -> (SUBSET Artifact) \cup {None}]
  /\ sweep \in Sweep
  /\ (sweep.pc # "off") = (me.pc = "reconcile")

\* A source is tombstoned only when every output on its manifest was removed by
\* the cleanup: a changed file, a returned source, another supporter or a crash
\* in the middle leave the source for the next scan.
TombstoneComplete ==
  [][\A s \in Live :
       me.pc = "reconcile" /\ row'[s].status = "removed" =>
         \A a \in manifest[s] : art[a].status = "removed"]_cleanupVars

=============================================================================
