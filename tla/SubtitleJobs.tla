----------------------------- MODULE SubtitleJobs -----------------------------
(***************************************************************************)
(* The subtitle jobs of one imported source (subtitles/jobs.py): the run   *)
(* of the media worker that recovers publications, claims due jobs and     *)
(* processes them one after the other, with a provider that costs links.   *)
(*                                                                         *)
(* The allowance is the abstract one that DownloadBudget implements.  The  *)
(* worker may die between any two steps; the database may be restored      *)
(* whenever the worker does not hold the media lease.                      *)
(*                                                                         *)
(* The source stays imported under one plan, with one target directory;    *)
(* its roots may be unavailable.  All languages of the source share        *)
(* max_subtitles.  Statuses that only differ in how they are shown are one *)
(* ("waiting").                                                            *)
(***************************************************************************)
EXTENDS Allowance, FiniteSets, Functions

CONSTANTS
  Job,            \* language requirements of the source
  Candidate,      \* provider files and local sidecars
  Local,          \* the sidecars among them: their bytes cost nothing
  Fits,           \* [Job -> SUBSET Candidate]  what a search for it can return
  Digest,         \* [Candidate -> digest of the bytes]
  None,           \* no artifact, no backup, no job
  MaxSubtitles,   \* max_subtitles of the profile
  Batch,          \* how many jobs a run claims
  Lease,          \* how long a claim is good
  Soon, Later,    \* delay of a retry, and of the next refresh
  Resets,         \* how far ahead a provider's reset is
  Artifact,       \* identifiers of artifacts, in the order of their use
  MaxTime, MaxFaults   \* bounds on the clock, and on deaths and restores together

ASSUME SubtitleAssumption ==
  /\ Local \subseteq Candidate
  /\ Fits \in [Job -> SUBSET (Candidate \ Local)]
  /\ DOMAIN Digest = Candidate
  /\ Day \in Nat \ {0} /\ Full \in Nat
  /\ MaxSubtitles \in Nat \ {0} /\ Batch \in Nat \ {0}
  /\ Lease \in Nat \ {0} /\ Soon \in Nat \ {0} /\ Later \in Nat \ {0}
  /\ Resets \subseteq Nat \ {0}
  /\ MaxTime \in Nat /\ MaxFaults \in Nat
  /\ Artifact \subseteq Nat
  /\ None \notin Artifact \cup Job \cup Candidate

VARIABLES
  job,       \* [Job -> JobRec]  media_subtitle_jobs
  art,       \* [Artifact -> ArtRec]  media_artifacts and media_publications
  disk,      \* files under the target directory
  sidecars,  \* the local candidates that lie beside the source
  worker,    \* program counter and locals; its death loses them
  crashes, restores   \* how often the worker died and the database was restored

tables == <<job, art>>
vars == <<allowanceVars, tables, disk, sidecars, worker, crashes, restores>>

-----------------------------------------------------------------------------

Forever == MaxTime + Day + 1

\* "claimed": the live worker has the claim_token.  "barred" is until when a candidate is
\* not fetched again: "seen" for ever, "candidate_failures" for a day.
JobRec == [status : {"waiting", "running", "satisfied", "failed"}, next : Nat,
           claimed : BOOLEAN, barred : [Candidate -> 0..Forever]]

\* "receipt": it names the inode.  "event": subtitle_published was recorded.  "fence":
\* the baseline of the publication is the current one.
ArtRec == [cand : Candidate \cup {None}, status : {"none", "publishing", "active", "removed"},
           pub : {"none", "pending", "done", "conflict"}, receipt : BOOLEAN,
           event : BOOLEAN, fence : BOOLEAN]

NoArt == [cand |-> None, status |-> "none", pub |-> "none", receipt |-> FALSE,
          event |-> FALSE, fence |-> FALSE]

\* The path of a subtitle names its provider, candidate and language.
Disk == [temp : [Artifact -> {"none", "partial", "full"}],
         target : [Candidate -> Artifact \cup {None}]]

Worker == [pc : {"idle", "recover", "claim", "next", "local", "search", "reserve",
                 "link", "payload", "gate", "intent", "temp", "fill", "receipt", "rename",
                 "activate", "unlink", "done", "finish"},
           stale     : BOOLEAN,               \* its engine is of an older epoch
           attempted : BOOLEAN,               \* payload_attempted_sources
           due       : SUBSET Job,            \* claimed and not yet processed
           job       : Job \cup {None},
           barred    : [Candidate -> 0..Forever],
           cand      : Candidate \cup {None},
           art       : Artifact \cup {None},
           result    : {"waiting", "satisfied", "failed"},
           delay     : {Soon, Later}]

Unbarred == [c \in Candidate |-> 0]

Idle == [pc |-> "idle", stale |-> FALSE, attempted |-> FALSE, due |-> {}, job |-> None,
         barred |-> Unbarred, cand |-> None, art |-> None, result |-> "waiting",
         delay |-> Soon]

\* A job is inserted "missing", due at once.
NewJobs == [j \in Job |-> [status |-> "waiting", next |-> 0, claimed |-> FALSE,
                          barred |-> Unbarred]]

NoArts == [a \in Artifact |-> NoArt]

SubtitleInit ==
  /\ AllowanceInit
  /\ job = NewJobs
  /\ art = NoArts
  /\ disk = [temp |-> [a \in Artifact |-> "none"], target |-> [c \in Candidate |-> None]]
  /\ sidecars \in SUBSET Local
  /\ worker = Idle
  /\ crashes = 0
  /\ restores = 0

ActiveArts == {a \in Artifact : art[a].status = "active"}

\* all_digests
Digests == {Digest[art[a].cand] : a \in ActiveArts}

Pending == {a \in Artifact : art[a].pub = "pending"}

Goto(pc) == worker' = [worker EXCEPT !.pc = pc]

\* The job is done with, for this result.
Settle(result, delay) ==
  worker' = [worker EXCEPT !.pc = "finish", !.result = result, !.delay = delay]

Quiet == UNCHANGED <<allowanceVars, sidecars, crashes, restores>>

-----------------------------------------------------------------------------
(* A cycle: a scan that is due recovers publications first. *)

Begin ==
  /\ worker.pc = "idle"
  /\ \E pc \in {"recover", "claim"} : worker' = [Idle EXCEPT !.pc = pc]
  /\ UNCHANGED <<tables, disk>> /\ Quiet

Conflict(a) ==
  /\ art' = [art EXCEPT ![a].pub = "conflict"]
  /\ UNCHANGED disk

\* The next step of recover_publication, which the tables and the files decide.
Recover(a) ==
  LET temp == disk.temp[a]
      target == disk.target[art[a].cand]
  IN  IF ~art[a].fence THEN Conflict(a)
      ELSE IF art[a].status = "active"
        THEN IF temp # "none"
               THEN disk' = [disk EXCEPT !.temp[a] = "none"] /\ UNCHANGED art
               ELSE art' = [art EXCEPT ![a].pub = "done"] /\ UNCHANGED disk
      ELSE IF ~art[a].receipt
        THEN CASE temp = "none" ->
                    /\ art' = [art EXCEPT ![a].status = "removed", ![a].pub = "done"]
                    /\ UNCHANGED disk
               [] temp = "partial" -> Conflict(a)
               [] temp = "full" ->
                    art' = [art EXCEPT ![a].receipt = TRUE] /\ UNCHANGED disk
      ELSE IF temp = "none" \/ target \notin {None, a} THEN Conflict(a)
      ELSE IF target = None
        THEN disk' = [disk EXCEPT !.target[art[a].cand] = a] /\ UNCHANGED art
      ELSE art' = [art EXCEPT ![a].status = "active"] /\ UNCHANGED disk

RecoverPublication ==
  /\ worker.pc = "recover"
  /\ \E a \in Pending : Recover(a)
  /\ UNCHANGED <<job, worker>> /\ Quiet

Recovered ==
  /\ worker.pc = "recover"
  /\ Pending = {}
  /\ Goto("claim")
  /\ UNCHANGED <<tables, disk>> /\ Quiet

NeverTakenUp ==
  {j \in Job : job[j].next <= now /\ job[j].status \notin {"failed", "running"}}

Due == {j \in Job : job[j].next <= now /\ job[j].status # "failed"}

\* run with refresh=True; the time of a live claim is not over.
Refresh ==
  /\ worker.pc = "claim"
  /\ ~worker.stale
  /\ job' = [j \in Job |-> IF job[j].status = "running" /\ job[j].next > now THEN job[j]
                           ELSE [job[j] EXCEPT !.next = now, !.status = "waiting"]]
  /\ UNCHANGED <<art, disk, worker>> /\ Quiet

\* Several jobs get one lease each and are then processed one after the other.
ClaimJobs ==
  /\ worker.pc = "claim"
  /\ ~worker.stale
  /\ \E due \in SUBSET Due :
       /\ due # {}
       /\ Cardinality(due) = Batch \/ (due = Due /\ Cardinality(due) < Batch)
       /\ job' = [j \in Job |-> IF j \in due
                    THEN [job[j] EXCEPT !.status = "running", !.next = now + Lease,
                                        !.claimed = TRUE]
                    ELSE job[j]]
       /\ worker' = [worker EXCEPT !.pc = "next", !.due = due]
  /\ UNCHANGED <<art, disk>> /\ Quiet

\* Nothing is due, or the lease is refused.
ClaimNone ==
  /\ worker.pc = "claim"
  /\ Due = {} \/ worker.stale
  /\ worker' = Idle
  /\ UNCHANGED <<tables, disk>> /\ Quiet

-----------------------------------------------------------------------------
(* process, up to the download. *)

Live(j) == job[j].claimed /\ job[j].next > now

Remembered(j) == job[j].barred

\* The candidates whose publication is on record are seen, whatever the job remembers.
Rebuilt(j) ==
  [c \in Candidate |->
     IF c \in Fits[j] /\ \E a \in ActiveArts : art[a].cand = c /\ art[a].event
       THEN Forever ELSE job[j].barred[c]]

\* The next job of the run; "superseded" when its lease ran out before its turn came, and
\* then nothing is written.
NextJob ==
  /\ worker.pc = "next"
  /\ \E j \in worker.due :
       worker' = IF Live(j)
         THEN [worker EXCEPT !.pc = "local", !.due = @ \ {j}, !.job = j, !.barred = Rebuilt(j)]
         ELSE [worker EXCEPT !.due = @ \ {j}]
  /\ UNCHANGED <<tables, disk>> /\ Quiet

EndRun ==
  /\ worker.pc = "next"
  /\ worker.due = {}
  /\ worker' = Idle
  /\ UNCHANGED <<tables, disk>> /\ Quiet

\* A root is unavailable or the fingerprint changed.
Blocked ==
  /\ worker.pc = "local"
  /\ Settle("waiting", Soon)
  /\ UNCHANGED <<tables, disk>> /\ Quiet

Broken ==
  /\ worker.pc = "local"
  /\ Settle("failed", Later)
  /\ UNCHANGED <<tables, disk>> /\ Quiet

LimitReached(digests) == Cardinality(digests) >= MaxSubtitles

\* reuse_local
NewSidecars ==
  {c \in sidecars : Digest[c] \notin Digests /\ worker.barred[c] <= now}

ReuseLocal ==
  /\ worker.pc = "local"
  /\ IF LimitReached(Digests) \/ NewSidecars = {} THEN Goto("search")
     ELSE \E c \in NewSidecars : worker' = [worker EXCEPT !.pc = "gate", !.cand = c]
  /\ UNCHANGED <<tables, disk>> /\ Quiet

\* The choice limit, and one payload for the source in a run.
Defer ==
  /\ worker.pc = "search"
  /\ LimitReached(Digests) \/ worker.attempted
  /\ Settle("waiting", IF LimitReached(Digests) THEN Later ELSE Soon)
  /\ UNCHANGED <<tables, disk>> /\ Quiet

MaySearch == worker.pc = "search" /\ ~LimitReached(Digests) /\ ~worker.attempted

\* What the providers return is any part of what fits; the ranking puts any of it first.
Answers == SUBSET Fits[worker.job]
Ranked(found) == {c \in found : worker.barred[c] <= now}

Search ==
  /\ MaySearch
  /\ \E found \in Answers :
        IF Ranked(found) = {} THEN Settle("waiting", Later)
        ELSE \E c \in Ranked(found) : worker' = [worker EXCEPT !.pc = "reserve", !.cand = c]
  /\ UNCHANGED <<tables, disk>> /\ Quiet

\* pace: too soon after the provider's last request; a failure of the search ends alike.
Paced ==
  /\ MaySearch
  /\ Settle("waiting", Soon)
  /\ UNCHANGED <<tables, disk>> /\ Quiet

-----------------------------------------------------------------------------
(* download *)

\* A link is reserved.  It is the attempt that counts, even when nothing comes of it.
ReserveLink ==
  /\ worker.pc = "reserve"
  /\ ~worker.stale
  /\ Spend \/ Probe
  /\ worker' = [worker EXCEPT !.pc = "link", !.attempted = TRUE]
  /\ UNCHANGED <<tables, disk, sidecars, crashes, restores>>

\* "daily_quota" or "superseded" before any attempt.
Refused ==
  /\ worker.pc = "reserve"
  /\ worker.stale \/ (~Over /\ allowed = 0)
  /\ Settle("waiting", Soon)
  /\ UNCHANGED <<tables, disk>> /\ Quiet

\* The answer may carry evidence, which an older epoch does not record; the payload may
\* come or fail.
AskLink ==
  /\ worker.pc = "link"
  /\ \/ ~worker.stale /\ News /\ until' \in {now + reset : reset \in Resets}
     \/ UNCHANGED allowanceVars
  /\ Goto("payload") \/ Settle("waiting", Soon)
  /\ UNCHANGED <<tables, disk, sidecars, crashes, restores>>

Bar(stamp) == worker' =
  [worker EXCEPT !.pc = "finish", !.barred[worker.cand] = stamp, !.result = "waiting",
                 !.delay = Soon]

ValidatePayload ==
  /\ worker.pc = "payload"
  /\ \/ Bar(now + Day)                                    \* invalid_payload
     \/ IF Digest[worker.cand] \in Digests THEN Bar(Forever) ELSE Goto("gate")
  /\ UNCHANGED <<tables, disk>> /\ Quiet

-----------------------------------------------------------------------------
(* publish, under the lease from the gate on. *)

\* The file of a live publication with these bytes is what is wanted already.
OwnedTarget(c) ==
  \E a \in ActiveArts : disk.target[c] = a /\ art[a].cand = c

Published ==
  IF worker.cand \in Local
    THEN [worker EXCEPT !.pc = "local", !.barred[worker.cand] = Forever, !.cand = None,
                        !.art = None]
    ELSE [worker EXCEPT !.pc = "finish", !.barred[worker.cand] = Forever,
                        !.result = "satisfied", !.cand = None, !.art = None]

Gate ==
  LET c == worker.cand
  IN  /\ worker.pc = "gate"
      /\ \/ /\ worker.stale \/ ~job[worker.job].claimed
            /\ Settle("failed", Later)
         \/ /\ ~worker.stale /\ job[worker.job].claimed
            /\ CASE disk.target[c] = None -> Goto("intent")
                 [] OwnedTarget(c) -> worker' = Published
                 [] OTHER -> Settle("failed", Later)
      /\ UNCHANGED <<tables, disk>> /\ Quiet

\* A new identifier.
Unused(a) == art[a].status = "none" /\ disk.temp[a] = "none" /\ a \notin Range(disk.target)

Intent ==
  /\ worker.pc = "intent"
  /\ \E a \in Artifact :
       /\ Unused(a) /\ \A b \in Artifact : Unused(b) => a <= b
       /\ art' = [art EXCEPT ![a] = [NoArt EXCEPT !.cand = worker.cand, !.fence = TRUE,
                                     !.status = "publishing", !.pub = "pending"]]
       /\ worker' = [worker EXCEPT !.pc = "temp", !.art = a]
  /\ UNCHANGED <<job, disk>> /\ Quiet

WriteTemp ==
  /\ worker.pc \in {"temp", "fill"}
  /\ disk' = [disk EXCEPT !.temp[worker.art] =
                IF worker.pc = "temp" THEN "partial" ELSE "full"]
  /\ Goto(IF worker.pc = "temp" THEN "fill" ELSE "receipt")
  /\ UNCHANGED tables /\ Quiet

RecordReceipt ==
  /\ worker.pc = "receipt"
  /\ art' = [art EXCEPT ![worker.art].receipt = TRUE]
  /\ Goto("rename")
  /\ UNCHANGED <<job, disk>> /\ Quiet

LinkUnnoticed == worker.pc = "rename" /\ Goto("activate") /\ UNCHANGED <<tables, disk>> /\ Quiet

LinkTarget ==
  /\ worker.pc = "rename"
  /\ disk' = [disk EXCEPT !.target[worker.cand] = worker.art]
  /\ Goto("activate")
  /\ UNCHANGED tables /\ Quiet

\* Active, with its source and the event, in one transaction.
Activate ==
  /\ worker.pc = "activate"
  /\ art' = [art EXCEPT ![worker.art].status = "active", ![worker.art].event = TRUE]
  /\ Goto("unlink")
  /\ UNCHANGED <<job, disk>> /\ Quiet

UnlinkTemp ==
  /\ worker.pc = "unlink"
  /\ disk' = [disk EXCEPT !.temp[worker.art] = "none"]
  /\ Goto("done")
  /\ UNCHANGED tables /\ Quiet

Done ==
  /\ worker.pc = "done"
  /\ art' = [art EXCEPT ![worker.art].pub = "done"]
  /\ worker' = Published
  /\ UNCHANGED <<job, disk>> /\ Quiet

\* A failure that is over is forgotten.
StillBarred(stamp) == IF stamp > now THEN stamp ELSE 0

FinishUnfenced(j) == TRUE

\* finish: claim_token=? in the same epoch.
FinishMatches(j) == ~worker.stale /\ job[j].claimed

Finish ==
  LET j == worker.job
  IN  /\ worker.pc = "finish"
      /\ job' = IF FinishMatches(j)
                  THEN [job EXCEPT ![j].status = worker.result,
                                   ![j].barred = [c \in Candidate |-> StillBarred(worker.barred[c])],
                                   ![j].next = now + worker.delay]
                  ELSE job
      /\ worker' = [Idle EXCEPT !.pc = "next", !.stale = worker.stale, !.due = worker.due,
                                !.attempted = worker.attempted]
      /\ UNCHANGED <<art, disk>> /\ Quiet

-----------------------------------------------------------------------------
(* The operator, the machine and the clock. *)

\* select: an operator confirms a candidate of a job.
Select(j) ==
  /\ worker.pc = "idle"
  /\ job' = [job EXCEPT ![j].status = "waiting", ![j].next = now, ![j].claimed = FALSE]
  /\ UNCHANGED <<art, disk, worker>> /\ Quiet

Crash ==
  /\ worker.pc # "idle"
  /\ crashes + restores < MaxFaults
  /\ crashes' = crashes + 1
  /\ worker' = Idle
  /\ job' = [j \in Job |-> [job[j] EXCEPT !.claimed = FALSE]]
  /\ UNCHANGED <<allowanceVars, art, disk, sidecars, restores>>

Leased == worker.pc \in {"recover", "intent", "temp", "fill", "receipt", "rename", "activate",
                         "unlink", "done"}

\* A new epoch with the tables of a backup that is as old as the database or was taken
\* just now: no claim is left, and no publication has the baseline it was made for.
Restore ==
  /\ ~Leased
  /\ crashes + restores < MaxFaults
  /\ restores' = restores + 1
  /\ \E old \in {[job |-> NewJobs, art |-> NoArts], [job |-> job, art |-> art]} :
       /\ job' = [j \in Job |->
            IF old.job[j].status = "running"
              THEN [old.job[j] EXCEPT !.claimed = FALSE, !.status = "waiting", !.next = 0]
              ELSE [old.job[j] EXCEPT !.claimed = FALSE]]
       /\ art' = [a \in Artifact |-> [old.art[a] EXCEPT !.fence = FALSE]]
  /\ worker' = [worker EXCEPT !.stale = worker.pc # "idle"]
  /\ Hold
  /\ UNCHANGED <<disk, sidecars, crashes>>

\* Time passes between runs and jobs, and while a provider is waited for; the steps in
\* between are short.
PassTime ==
  /\ now < MaxTime
  /\ worker.pc \in {"idle", "next", "reserve", "link"}
  /\ Tick
  /\ UNCHANGED <<tables, disk, sidecars, worker, crashes, restores>>

WorkerStep ==
  \/ Begin \/ RecoverPublication \/ Recovered \/ Refresh \/ ClaimJobs \/ ClaimNone
  \/ NextJob \/ EndRun \/ Blocked \/ Broken \/ ReuseLocal \/ Defer \/ Paced \/ Search
  \/ ReserveLink \/ Refused \/ AskLink \/ ValidatePayload
  \/ Gate \/ Intent \/ WriteTemp \/ RecordReceipt \/ LinkTarget \/ Activate \/ UnlinkTemp
  \/ Done \/ Finish

SubtitleNext ==
  \/ WorkerStep
  \/ \E j \in Job : Select(j)
  \/ Crash \/ Restore \/ PassTime

\* The worker is started again when it died and its cycles never end; no wait is for ever.
SubtitleSpec ==
  SubtitleInit /\ [][SubtitleNext]_vars /\ WF_vars(WorkerStep) /\ SF_vars(PassTime)

-----------------------------------------------------------------------------
(* Properties. *)

SubtitleTypeOK ==
  /\ now \in 0..MaxTime /\ allowed \in 0..Full /\ until \in Nat /\ probing \in BOOLEAN
  /\ job \in [Job -> JobRec]
  /\ art \in [Artifact -> ArtRec]
  /\ disk \in Disk
  /\ sidecars \subseteq Local
  /\ worker \in Worker
  /\ crashes + restores <= MaxFaults

\* A subtitle that counts as published lies where its row says, through every death of the
\* worker between the file and the row, and every restore.
ActiveOnDisk ==
  \A a \in Artifact : art[a].status = "active" => disk.target[art[a].cand] = a

\* When a publication is over, by the worker or by recovery, nothing is left beside it.
DoneIsClean ==
  \A a \in Artifact : art[a].pub = "done" => disk.temp[a] = "none"

\* What the tables say of the disk is so, through every death of the worker between a file
\* and its row, and every restore.
TablesMatchDisk == SubtitleTypeOK /\ ActiveOnDisk /\ DoneIsClean

\* A run never publishes past max_subtitles, counted by content, although what it counted
\* was read before the provider was asked.
CapAtPublication ==
  [][Activate => Cardinality(Digests') <= MaxSubtitles]_vars

\* A worker whose engine is older than a restore changes no job, no publication and no
\* allowance of the restored database.
FencedAfterRestore ==
  [][worker.stale /\ WorkerStep => UNCHANGED <<tables, allowed, probing>>]_vars

\* A link is never paid for a candidate of the job that is published already: what the job
\* forgot, because it was superseded, died or was restored, is rebuilt from the events.
PaidOnce ==
  [][ReserveLink =>
       \A a \in ActiveArts : ~(art[a].event /\ art[a].cand = worker.cand)]_vars

\* Before it pays and before it publishes, a run takes what is published by now for what it is.
PaidOnceWithinCap == PaidOnce /\ CapAtPublication

\* A job that is claimed is finished, or its claim is taken over when the lease is over;
\* a lease beyond MaxTime is out of bounds.
RunningEnds ==
  \A j \in Job : job[j].status = "running" ~>
                   (job[j].status # "running" \/ job[j].next > MaxTime)

\* max_subtitles is the sole limit of what is published for a source
\* (docs/ai/modules/media-import.md:272-276).
CapHolds == Cardinality(Digests) <= MaxSubtitles

=============================================================================
