----------------------------- MODULE MediaImport -----------------------------
(***************************************************************************)
(* The publication protocol of the media importer: Engine.scan's recover   *)
(* and process_pending, and below them plan_import, execute_link,          *)
(* finish_link, recover_publication and retire_old.  Each step is one      *)
(* SQLite transaction or one link/unlink, with the checks the code makes   *)
(* right before it, so that a crash, a user of the source or library tree  *)
(* and a configuration change fit between any two of them.                 *)
(*                                                                         *)
(* One video library below one profile, readiness "completed_folder",      *)
(* policy "execute".  The engine holds the media flock from begin to end,  *)
(* so there is one engine; a review takes the same lock.                   *)
(***************************************************************************)
EXTENDS MediaInventory

CONSTANTS
  Target,       \* library paths a mapping may render to
  Artifact,     \* identifiers an artifact may get
  Config,       \* effective configuration revisions
  Edited,       \* library paths the user adds files to or removes files from
  MaxRevision,  \* bound on the revisions of one source's reviews
  MaxCrashes    \* bound on the deaths of the process

ASSUME ImportAssumption ==
  /\ None \notin Target \cup Artifact \cup Row
  /\ Edited \subseteq Target
  /\ MaxRevision \in Nat \ {0}
  /\ MaxCrashes \in Nat

VARIABLES
  lib,    \* [Target -> Ident \cup {None}]  the library files
  temp,   \* [Artifact -> Ident \cup {None}]  the .media-link-<artifact> files
  art,    \* [Artifact -> ArtRec]  media_artifacts
  pub,    \* [Artifact -> PubRec]  media_publications with their fences
  ref,    \* SUBSET (Artifact \X Row)  media_artifact_sources
  job,    \* [Row -> JobRec]       media_import_jobs
  dec,    \* [Row -> DecRec]       media_review_decisions, revision 0 for none
  cfg,    \* the revision of the configuration file
  me,     \* the engine's program counter and locals; a crash loses them
  crashes \* how often the process died

tables == <<art, pub, ref, job, dec>>
importVars == <<inventoryVars, tables, lib, temp, cfg, me, crashes>>

-----------------------------------------------------------------------------
(* Tables and locals. *)

\* 'planned', 'reviewed', 'review_required', 'conflict' and 'retrying' are all
\* planned again alike: "open".
JobStatus == {"none", "open", "imported", "target_missing"}
ArtStatus == {"none", "publishing", "active", "target_missing", "retiring",
              "retired", "deleting", "removed"}
PubStatus == {"none", "pending", "conflict", "done"}

Revision == 0..MaxRevision
Place    == Target \cup {None}

ArtRec == [status : ArtStatus, target : Place, owned : BOOLEAN,
           receipt : Ident \cup {None}]
Fence  == [rev : Revision, target : Place, review : Revision,
           cfg : Config \cup {None}]
PubRec == [status : PubStatus, src : Row \cup {None}, fence : Fence]
JobRec == [status : JobStatus, target : Place, rev : Revision]
DecRec == [target : Place, rev : Revision]

NoArt == [status |-> "none", target |-> None, owned |-> FALSE, receipt |-> None]
NoPub == [status |-> "none", src |-> None,
          fence |-> [rev |-> 0, target |-> None, review |-> 0, cfg |-> None]]
NoJob == [status |-> "none", target |-> None, rev |-> 0]
NoDec == [target |-> None, rev |-> 0]

Pc == {"idle", "recover", "work", "link", "place", "intend", "link_temp", "link_target",
       "finish", "unlink_temp", "pub_done", "undo_target", "undo_temp",
       "undo_art", "succeed", "retire", "retire_next", "retire_unlink",
       "retire_done", "reconcile"}

\* "calm" is FALSE once an exception nothing catches ended the last call.
Engine == [pc : Pc, recovering : BOOLEAN, cfg : Config \cup {None},
           src : Row \cup {None}, art : Artifact \cup {None},
           preds : SUBSET Row, todo : SUBSET Artifact, was : ArtStatus,
           calm : BOOLEAN]

Stopped == [pc |-> "idle", recovering |-> FALSE, cfg |-> None, src |-> None,
            art |-> None, preds |-> {}, todo |-> {}, was |-> "none", calm |-> TRUE]

\* Back in one of the two loops, with nothing in hand.
Looping(pc, rest) == [Stopped EXCEPT !.pc = pc, !.recovering = pc = "recover",
                                     !.cfg = me.cfg, !.todo = rest]

-----------------------------------------------------------------------------
(* What the code asks of files and tables. *)

\* write_gate: the configuration file still has the revision of this engine.
GateOpen == me.cfg = cfg

ShowsSource(s) == disk[row[s].path] = row[s].fp

At(t) == {a \in Artifact : art[a].target = t}

\* The partial unique index media_active_path.
HoldsPath == {"active", "publishing", "deleting"}

PathTaken(t) == \E a \in At(t) : art[a].status \in HoldsPath

ActiveAt(t) == {a \in At(t) : art[a].status = "active"}

Referring(a) == {s \in Row : <<a, s>> \in ref}

\* Sources other than s that still need the artifact.
Supports(a, s) == {q \in Referring(a) \ {s} : row[q].status # "removed"}

\* Live earlier generations of the path with an active output.
Predecessors(s) ==
  {q \in Known \ {s} : /\ row[q].path = row[s].path
                       /\ \E a \in Artifact : <<a, q>> \in ref /\ art[a].status = "active"}

FenceNowLoose(s) == [rev |-> 0, target |-> None, review |-> 0, cfg |-> me.cfg]

\* publication_fence: the plan, review and configuration a publication is bound to.
FenceNow(s) == [rev |-> job[s].rev, target |-> job[s].target,
                review |-> dec[s].rev, cfg |-> me.cfg]

StillValid(s) == row[s].missing = 0 /\ ShowsSource(s)

Settle(status) == [pub EXCEPT ![me.art].status = status]

\* The next program counter; locals keep their values.
Goto(pc) == me' = [me EXCEPT !.pc = pc]

AtLeastOne(rev) == IF rev = 0 THEN 1 ELSE rev

\* OSError, ValueError: recover marks the publication, process_source the job.
Fail ==
  /\ IF me.recovering
       THEN /\ pub' = Settle("conflict")
            /\ me' = Looping("recover", me.todo)
            /\ UNCHANGED job
       ELSE /\ job' = [job EXCEPT ![me.src].status = "open"]
            /\ me' = Looping("work", {})
            /\ UNCHANGED pub
  /\ UNCHANGED <<inventoryVars, lib, temp, art, ref, dec, cfg>>

\* sqlite3.IntegrityError leaves process_source, scan and the worker's run.
Clash ==
  /\ me' = [Stopped EXCEPT !.calm = FALSE]
  /\ UNCHANGED <<inventoryVars, lib, temp, tables, cfg>>

-----------------------------------------------------------------------------
(* scan and process_pending. *)

ImportInit ==
  /\ Init
  /\ lib = [t \in Target |-> None]
  /\ temp = [a \in Artifact |-> None]
  /\ art = [a \in Artifact |-> NoArt]
  /\ pub = [a \in Artifact |-> NoPub]
  /\ ref = {}
  /\ job = [r \in Row |-> NoJob]
  /\ dec = [r \in Row |-> NoDec]
  /\ cfg \in Config
  /\ me = Stopped
  /\ crashes = 0

\* scan up to recover's query; MediaInventory has the walk this takes as one step.
ScanPublish ==
  /\ me.pc = "idle"
  /\ ~KeyClash(disk)
  /\ \E fresh \in Fresh(disk) : row' = Published(disk, fresh)
  /\ me' = [Looping("recover", {a \in Artifact : pub[a].status = "pending"})
              EXCEPT !.cfg = cfg]
  /\ UNCHANGED <<disk, walk, outcome, lib, temp, tables, cfg>>

\* run_engine when the scan is not due yet.
ProcessOnly ==
  /\ me.pc = "idle"
  /\ me' = [Looping("work", {}) EXCEPT !.cfg = cfg]
  /\ UNCHANGED <<inventoryVars, lib, temp, tables, cfg>>

ScanDone ==
  /\ me.pc = "work"
  /\ me' = Stopped
  /\ UNCHANGED <<inventoryVars, lib, temp, tables, cfg>>

-----------------------------------------------------------------------------
(* recover. *)

RecoverDone ==
  /\ me.pc = "recover"
  /\ me.todo = {}
  /\ me' = Looping("work", {})
  /\ UNCHANGED <<inventoryVars, lib, temp, tables, cfg>>

RecoverRefused(a) ==
  /\ me.pc = "recover"
  /\ a \in me.todo
  /\ pub[a].fence # FenceNow(pub[a].src) \/ ~GateOpen
  /\ pub' = [pub EXCEPT ![a].status = "conflict"]
  /\ me' = Looping("recover", me.todo \ {a})
  /\ UNCHANGED <<inventoryVars, lib, temp, art, ref, job, dec, cfg>>

RecoveryTrustsActive(a) ==
  CASE art[a].status = "active"   -> "pub_done"
    [] ~(art[a].status = "active") -> IF StillValid(pub[a].src) THEN "link_temp"
                                      ELSE "undo_target"

\* The artifact is active already, or can be completed, or its source is gone.
Recovery(a) ==
  LET temporary == temp[a] # None
      active == art[a].status = "active"
      valid == StillValid(pub[a].src)
  IN  CASE active /\ temporary            -> "unlink_temp"
        [] active /\ ~temporary           -> "pub_done"
        [] ~active /\ valid               -> "link_temp"
        [] ~active /\ ~valid /\ temporary  -> "undo_target"
        [] ~active /\ ~valid /\ ~temporary -> "undo_art"

RecoverPick(a) ==
  /\ me.pc = "recover"
  /\ a \in me.todo
  /\ pub[a].fence = FenceNow(pub[a].src)
  /\ GateOpen
  /\ me' = [me EXCEPT !.pc = Recovery(a), !.art = a, !.src = pub[a].src,
                      !.todo = @ \ {a}, !.was = art[a].status]
  /\ UNCHANGED <<inventoryVars, lib, temp, tables, cfg>>

UndoTarget ==
  LET t == art[me.art].target
      ours == lib[t] = art[me.art].receipt
  IN  /\ me.pc = "undo_target"
      /\ IF ours /\ ~GateOpen THEN Fail
         ELSE /\ lib' = IF ours THEN [lib EXCEPT ![t] = None] ELSE lib
              /\ Goto("undo_temp")
              /\ UNCHANGED <<inventoryVars, temp, tables, cfg>>

UndoArtifact ==
  /\ me.pc = "undo_art"
  /\ art' = [art EXCEPT ![me.art].status = "removed"]
  /\ Goto("pub_done")
  /\ UNCHANGED <<inventoryVars, lib, temp, pub, ref, job, dec, cfg>>

-----------------------------------------------------------------------------
(* plan_import. *)

\* What maps this source to a library path: its review, its earlier mapping, or
\* whatever the metadata services say; a replaced source waits for a review.
Mappings(s) ==
  IF dec[s].rev > 0 THEN {dec[s].target}
  ELSE IF Predecessors(s) # {} THEN {None}
  ELSE IF job[s].target # None THEN {job[s].target}
  ELSE Target \cup {None}

Planned(s, t) ==
  [status |-> "open", target |-> t,
   rev |-> IF dec[s].rev > 0 THEN dec[s].rev ELSE AtLeastOne(job[s].rev)]

Unplanned(s) == [job[s] EXCEPT !.status = "open", !.rev = AtLeastOne(@)]

Plan(s) ==
  /\ me.pc = "work"
  /\ s \in Live /\ row[s].missing = 0 /\ row[s].stable = StableEnough
  /\ job[s].status \in {"none", "open"}
  /\ \/ \E t \in Mappings(s) \ {None} :
          /\ ShowsSource(s)
          /\ row' = [row EXCEPT ![s].status = "ready"]
          /\ job' = [job EXCEPT ![s] = Planned(s, t)]
          /\ me' = [me EXCEPT !.pc = "link", !.src = s, !.preds = Predecessors(s)]
     \/ /\ None \in Mappings(s) \/ ~ShowsSource(s)
        /\ row' = IF ShowsSource(s) THEN [row EXCEPT ![s].status = "ready"] ELSE row
        /\ job' = [job EXCEPT ![s] = Unplanned(s)]
        /\ UNCHANGED me
  /\ UNCHANGED <<disk, walk, outcome, lib, temp, art, pub, ref, dec, cfg>>

\* An imported source: finish an unfinished repair, or notice the missing output.
PlanImported(s) ==
  /\ me.pc = "work"
  /\ s \in Live
  /\ row[s].missing = 0
  /\ job[s].status = "imported"
  /\ IF lib[job[s].target] # None
       THEN /\ me' = [me EXCEPT !.pc = "retire", !.src = s]
            /\ UNCHANGED job
       ELSE /\ job' = [job EXCEPT ![s].status = "target_missing"]
            /\ UNCHANGED me
  /\ UNCHANGED <<inventoryVars, lib, temp, art, pub, ref, dec, cfg>>

-----------------------------------------------------------------------------
(* execute_link, finish_link and recover_publication's completion. *)

LinkStart ==
  /\ me.pc = "link"
  /\ IF GateOpen /\ ShowsSource(me.src)
       THEN Goto("place") /\ UNCHANGED <<inventoryVars, lib, temp, tables, cfg>>
       ELSE Fail

\* The target is there already: adopt it without ownership, unless an active
\* artifact stands for it.  Only the user can have put a file where no row is.
PlaceExisting ==
  LET s == me.src
      t == job[s].target
  IN  /\ me.pc = "place"
      /\ lib[t] # None
      /\ lib[t] = disk[row[s].path]
      /\ \/ /\ \E a \in ActiveAt(t) :
                me' = [me EXCEPT !.pc = "finish", !.art = a, !.was = "active"]
            /\ UNCHANGED art
         \/ /\ ~PathTaken(t)
            /\ \E a \in Artifact :
                 /\ art[a].status = "none"
                 /\ art' = [art EXCEPT ![a] =
                      [status |-> "active", target |-> t, owned |-> FALSE,
                       receipt |-> lib[t]]]
                 /\ me' = [me EXCEPT !.pc = "finish", !.art = a, !.was = "active"]
      /\ UNCHANGED <<inventoryVars, lib, temp, pub, ref, job, dec, cfg>>

\* Nothing is at the target: the artifact that stood for it has lost its file.
PlaceMissing ==
  LET t == job[me.src].target
  IN  /\ me.pc = "place"
      /\ lib[t] = None
      /\ art' = [b \in Artifact |-> IF b \in ActiveAt(t)
                                      THEN [art[b] EXCEPT !.status = "target_missing"]
                                      ELSE art[b]]
      /\ Goto("intend")
      /\ UNCHANGED <<inventoryVars, lib, temp, pub, ref, job, dec, cfg>>

\* The intent, its exact temporary name and its fence precede the first link.
PlaceIntent ==
  LET s == me.src
      t == job[s].target
  IN  /\ me.pc = "intend"
      /\ disk[row[s].path] # None
      /\ ~PathTaken(t)
      /\ \E a \in Artifact :
           /\ art[a].status = "none"
           /\ art' = [art EXCEPT ![a] = [status |-> "publishing", target |-> t,
                                         owned |-> TRUE, receipt |-> disk[row[s].path]]]
           /\ pub' = [pub EXCEPT ![a] = [status |-> "pending", src |-> s,
                                         fence |-> FenceNow(s)]]
           /\ me' = [me EXCEPT !.pc = "link_temp", !.art = a, !.was = "publishing"]
      /\ UNCHANGED <<inventoryVars, lib, temp, ref, job, dec, cfg>>

\* "destination occupied by different content", or the source is gone again; an
\* unfinished publication or deletion still holds the path's unique index.
PlaceFails ==
  LET found == disk[row[me.src].path]
      t == job[me.src].target
      there == lib[t] # None
      fits == found # None /\ lib[t] = found
  IN  \/ me.pc = "place" /\ there /\ ~fits /\ Fail
      \/ me.pc = "place" /\ there /\ fits /\ ActiveAt(t) = {} /\ PathTaken(t) /\ Clash
      \/ me.pc = "intend" /\ found = None /\ Fail
      \/ me.pc = "intend" /\ found # None /\ PathTaken(t) /\ Clash

\* What is below the source path now, whatever was checked before; recover keeps
\* the temporary link a crash left.
LinkTemp ==
  LET found == disk[row[me.src].path]
      kept == temp[me.art] # None
      blocked == \/ ~GateOpen \/ found = None
                 \/ me.recovering /\ lib[art[me.art].target] # None
  IN  /\ me.pc = "link_temp"
      /\ IF ~kept /\ blocked THEN Fail
         ELSE /\ temp' = IF kept THEN temp ELSE [temp EXCEPT ![me.art] = found]
              /\ Goto("link_target")
              /\ UNCHANGED <<inventoryVars, lib, tables, cfg>>

\* The temporary link is the recorded file; importing also looks at the source.
TempVerified ==
  /\ temp[me.art] = art[me.art].receipt
  /\ ~me.recovering => ShowsSource(me.src)

\* recover completes a target link that is there, whoever made it.
LinkTarget ==
  LET t == art[me.art].target
      kept == me.recovering /\ lib[t] # None
  IN  /\ me.pc = "link_target"
      /\ IF TempVerified /\ (kept \/ (GateOpen /\ lib[t] = None))
           THEN /\ lib' = IF kept THEN lib ELSE [lib EXCEPT ![t] = temp[me.art]]
                /\ Goto("finish")
                /\ UNCHANGED <<inventoryVars, temp, tables, cfg>>
           ELSE Fail

\* Whether finish_link comes from a publication, not from an existing output.
Publishing == me.recovering \/ me.was = "publishing"

TargetVerified ==
  LET a == me.art
  IN  Publishing =>
        /\ lib[art[a].target] = art[a].receipt
        /\ ~me.recovering => ShowsSource(me.src)

\* An artifact that had given up its path cannot take it back from another.
CanActivate(a) ==
  \A b \in At(art[a].target) \ {a} : art[b].status \notin HoldsPath

\* finish_link: one transaction.
Finish ==
  LET s == me.src
      a == me.art
  IN  /\ me.pc = "finish"
      /\ TargetVerified
      /\ CanActivate(a)
      /\ art' = [art EXCEPT ![a].status = "active"]
      /\ ref' = ref \cup {<<a, s>>}
      /\ job' = [job EXCEPT ![s].status = "imported", ![s].target = art[a].target]
      /\ row' = [row EXCEPT ![s].status = "imported"]
      /\ Goto(IF Publishing THEN "unlink_temp" ELSE "succeed")
      /\ UNCHANGED <<disk, walk, outcome, lib, temp, pub, dec, cfg>>

FinishFails ==
  /\ me.pc = "finish"
  /\ \/ ~TargetVerified /\ Fail
     \/ TargetVerified /\ ~CanActivate(me.art) /\ Clash

\* The temporary link of a finished or undone publication goes last.
UnlinkTemp ==
  /\ me.pc \in {"unlink_temp", "undo_temp"}
  /\ IF GateOpen /\ temp[me.art] = art[me.art].receipt
       THEN /\ temp' = [temp EXCEPT ![me.art] = None]
            /\ Goto(IF me.pc = "undo_temp" THEN "undo_art" ELSE "pub_done")
            /\ UNCHANGED <<inventoryVars, lib, tables, cfg>>
       ELSE Fail

PublicationDone ==
  /\ me.pc = "pub_done"
  /\ pub' = Settle("done")
  /\ me' = IF me.recovering THEN Looping("recover", me.todo)
                            ELSE [me EXCEPT !.pc = "succeed"]
  /\ UNCHANGED <<inventoryVars, lib, temp, art, ref, job, dec, cfg>>

-----------------------------------------------------------------------------
(* plan_import's last part, and retire_old. *)

InheritedNothing(s) == {}

\* A reviewed replacement inherits its predecessors' outputs.
Inherited(s) ==
  {<<a, s>> : a \in {b \in Artifact : Referring(b) \cap me.preds # {}}}

Succeed ==
  LET s == me.src
      heir == dec[s].rev > 0
  IN  /\ me.pc = "succeed"
      /\ IF heir
           THEN /\ ref' = ref \cup Inherited(s)
                /\ row' = [r \in Row |-> IF r \in me.preds
                              THEN [row[r] EXCEPT !.status = "removed"] ELSE row[r]]
           ELSE UNCHANGED <<ref, row>>
      /\ Goto("retire")
      /\ UNCHANGED <<disk, walk, outcome, lib, temp, art, pub, job, dec, cfg>>

\* The new output is the one that was reviewed and imported, and it is there.
RepairVerified(s) ==
  LET t == job[s].target
      new == {a \in ActiveAt(t) : s \in Referring(a)}
  IN  /\ GateOpen
      /\ ShowsSource(s)
      /\ row[s].missing = 0
      /\ dec[s].rev \in {0, job[s].rev}
      /\ \E a \in new : new = {a} /\ lib[t] = art[a].receipt

OutdatedAll(s) ==
  {a \in Artifact : s \in Referring(a) /\ art[a].status \in {"active", "retiring"}}

Outdated(s) ==
  {a \in Artifact : /\ s \in Referring(a)
                    /\ art[a].target # job[s].target
                    /\ art[a].status \in {"active", "retiring"}}

RetireStart ==
  /\ me.pc = "retire"
  /\ IF RepairVerified(me.src)
       THEN /\ me' = [me EXCEPT !.pc = "retire_next", !.art = None,
                                !.todo = Outdated(me.src)]
            /\ UNCHANGED <<inventoryVars, lib, temp, tables, cfg>>
       ELSE Fail

\* The intent to retire is recorded before the unlink.
RetirePick(a) ==
  /\ me.pc = "retire_next"
  /\ a \in me.todo
  /\ art[a].owned
  /\ Supports(a, me.src) = {}
  /\ art' = [art EXCEPT ![a].status = "retiring"]
  /\ me' = [me EXCEPT !.pc = "retire_unlink", !.art = a, !.was = art[a].status,
                      !.todo = @ \ {a}]
  /\ UNCHANGED <<inventoryVars, lib, temp, pub, ref, job, dec, cfg>>

\* An output that is not the engine's, or that others need, is only let go.
RetireRelease(a) ==
  /\ me.pc = "retire_next"
  /\ a \in me.todo
  /\ ~art[a].owned \/ Supports(a, me.src) # {}
  /\ ref' = ref \ {<<a, me.src>>}
  /\ me' = [me EXCEPT !.todo = @ \ {a}]
  /\ UNCHANGED <<inventoryVars, lib, temp, art, pub, job, dec, cfg>>

RetireUnlink ==
  LET a == me.art
      t == art[a].target
  IN  /\ me.pc = "retire_unlink"
      /\ IF IF lib[t] = None THEN me.was = "retiring"
                             ELSE GateOpen /\ lib[t] = art[a].receipt
           THEN /\ lib' = [lib EXCEPT ![t] = None]
                /\ Goto("retire_done")
                /\ UNCHANGED <<inventoryVars, temp, tables, cfg>>
           ELSE Fail

\* Two commits in the code; nothing reads the reference of a retired artifact.
RetireArtifact ==
  /\ me.pc = "retire_done"
  /\ art' = [art EXCEPT ![me.art].status = "retired"]
  /\ ref' = ref \ {<<me.art, me.src>>}
  /\ Goto("retire_next")
  /\ UNCHANGED <<inventoryVars, lib, temp, pub, job, dec, cfg>>

RetireDone ==
  /\ me.pc = "retire_next"
  /\ me.todo = {}
  /\ me' = Looping("work", {})
  /\ UNCHANGED <<inventoryVars, lib, temp, tables, cfg>>

-----------------------------------------------------------------------------
(* The operator, the user and the machine. *)

\* Engine.review: refused while an engine holds the flock.
Review(s, t) ==
  LET rev == (IF job[s].rev > dec[s].rev THEN job[s].rev ELSE dec[s].rev) + 1
  IN  /\ me.pc = "idle"
      /\ s \in Known
      /\ row[s].missing = 0
      /\ ShowsSource(s)
      /\ rev <= MaxRevision
      /\ dec' = [dec EXCEPT ![s] = [target |-> t, rev |-> rev]]
      /\ job' = IF job[s].status = "none" THEN job
                ELSE [job EXCEPT ![s].status = "open"]
      /\ UNCHANGED <<inventoryVars, lib, temp, art, pub, ref, cfg, me>>

\* The process dies; the kernel drops the flock with it.
Crash ==
  /\ me.pc # "idle"
  /\ crashes < MaxCrashes
  /\ crashes' = crashes + 1
  /\ me' = Stopped
  /\ UNCHANGED <<inventoryVars, lib, temp, tables, cfg>>

ChangeConfig ==
  /\ cfg' \in Config \ {cfg}
  /\ UNCHANGED <<inventoryVars, lib, temp, tables, me>>

TouchLibrary(t, v) ==
  /\ lib[t] # v
  /\ lib' = [lib EXCEPT ![t] = v]
  /\ UNCHANGED <<inventoryVars, temp, tables, cfg, me>>

UserStep ==
  \/ \E p \in Path, v \in Ident \cup {None} :
       TouchSource(p, v) /\ UNCHANGED <<lib, temp, tables, cfg, me>>
  \/ \E t \in Edited, v \in Ident \cup {None} : TouchLibrary(t, v)

OperatorStep ==
  \/ \E s \in Row, t \in Target : Review(s, t)
  \/ ChangeConfig

EngineStep ==
  \/ ScanPublish
  \/ RecoverDone \/ UndoTarget \/ UndoArtifact
  \/ \E a \in Artifact : RecoverRefused(a) \/ RecoverPick(a)
  \/ \E s \in Row : Plan(s) \/ PlanImported(s)
  \/ LinkStart \/ PlaceExisting \/ PlaceMissing \/ PlaceIntent \/ PlaceFails
  \/ LinkTemp \/ LinkTarget \/ Finish \/ FinishFails
  \/ UnlinkTemp \/ PublicationDone
  \/ Succeed \/ RetireStart \/ RetireUnlink \/ RetireArtifact \/ RetireDone
  \/ \E a \in Artifact : RetirePick(a) \/ RetireRelease(a)

ImportNext ==
  \/ (EngineStep \/ ProcessOnly \/ ScanDone) /\ UNCHANGED crashes
  \/ (OperatorStep \/ UserStep) /\ UNCHANGED crashes
  \/ Crash

ImportSpec == ImportInit /\ [][ImportNext]_importVars

-----------------------------------------------------------------------------
(* Properties. *)

\* The tables, the trees and the engine's locals hold values of their types.
ImportTypeOK ==
  /\ disk \in Inventory
  /\ row \in [Row -> RowRec]
  /\ lib \in [Target -> Ident \cup {None}]
  /\ temp \in [Artifact -> Ident \cup {None}]
  /\ art \in [Artifact -> ArtRec]
  /\ pub \in [Artifact -> PubRec]
  /\ ref \subseteq Artifact \X Row
  /\ job \in [Row -> JobRec]
  /\ dec \in [Row -> DecRec]
  /\ cfg \in Config
  /\ me \in Engine
  /\ crashes \in 0..MaxCrashes

\* No temporary link is ever forgotten: the publication that names it is still
\* to be recovered, or was handed to the operator as a conflict, however the
\* importer was interrupted.
TempRecorded ==
  \A a \in Artifact : temp[a] # None => pub[a].status \in {"pending", "conflict"}

\* No output is orphaned: what the engine owns and calls active is referred to by
\* a source that is not removed, so that the cleanup of that source finds it.
\* Replacements pass their outputs on before their predecessors go.
OutputsSupported ==
  \A a \in Artifact :
    art[a].status = "active" /\ art[a].owned =>
      \E s \in Referring(a) : row[s].status \notin {"none", "removed"}

\* A publication becomes active only under the latest review of its source: a
\* review saved after a crash is not overtaken by the recovery of the old plan.
ReviewWins ==
  [][\A a \in Artifact :
       art[a].status = "publishing" /\ art'[a].status = "active" =>
         LET s == pub[a].src
         IN  dec[s].rev > 0 => art[a].target = dec[s].target]_importVars

\* Another import has found the output of this source missing, or a recovery has undone
\* it; what is at its path by now is an output that does not count it.
GivenUp(s) ==
  /\ s \notin Referring(me.art)
  /\ \E a \in At(job[s].target) :
       s \in Referring(a) /\ art[a].status \in {"target_missing", "removed"}

\* The library file a source is imported to disappears while the source is there.
LosesFile(s) ==
  /\ job[s].status = "imported" /\ row[s].missing = 0
  /\ lib[job[s].target] = row[s].fp /\ lib'[job[s].target] = None

\* An intent that outlived its occasion: the undo of a publication that was given
\* up for a later one, the retirement of a path another import has adopted since.
StaleIntent ==
  \/ me.pc = "undo_target" /\ me.was # "publishing"
  \/ me.pc = "retire_unlink" /\ me.was = "retiring"

\* Neither a repair nor the undo of an interrupted publication takes the library
\* file of an imported source that is not missing, whatever else shares the file
\* or the path: stale intents apart, and outputs that the tables gave up before.
OutputStays ==
  [][UserStep \/ StaleIntent \/ \A s \in Live : ~GivenUp(s) => ~LosesFile(s)]_importVars

\* What the docs promise without exception: a library file goes only when every
\* source it supports has been missing from complete scans for a grace period.
NothingGoesWithoutGrace == [][UserStep \/ \A s \in Live : ~LosesFile(s)]_importVars

\* What the docs promise of an interrupted publication: other work goes on.
NoUncaughtError == me.calm

=============================================================================
