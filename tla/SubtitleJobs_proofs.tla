-------------------------- MODULE SubtitleJobs_proofs --------------------------
(***************************************************************************)
(* Theorems about the subtitle jobs of a source, for any languages,        *)
(* candidates, sidecars and artifacts, any leases, delays and resets, any  *)
(* size of a batch and any choice limit, and any number of deaths and      *)
(* restores.                                                               *)
(***************************************************************************)
EXTENDS SubtitleJobs, FiniteSetTheorems, TLAPS

\* The places of a publication, from its intent to the end of its row, and those before
\* them where a candidate is in hand.
Writing == {"temp", "fill", "receipt", "rename", "activate"}
Publishing == Writing \cup {"unlink", "done"}
Holding == Publishing \cup {"reserve", "link", "payload", "gate", "intent"}
OnJob == Holding \cup {"local", "search", "finish"}

\* What the worker has in hand fits the place it stands at.
HandOK ==
  /\ worker.pc \in OnJob => worker.job \in Job
  /\ worker.pc \in Holding => worker.cand \in Candidate
  /\ worker.pc \in {"reserve", "link", "payload"} => worker.cand \notin Local
  /\ worker.pc \in Publishing => worker.art \in Artifact

\* Where a publication stands, in the row and on the disk, while the worker writes it.
PublicationOK ==
  /\ worker.pc \in Publishing =>
       /\ art[worker.art].cand = worker.cand /\ art[worker.art].pub = "pending"
       /\ art[worker.art].status = IF worker.pc \in Writing THEN "publishing" ELSE "active"
  /\ worker.pc \in {"intent", "temp", "fill", "receipt", "rename"} =>
       disk.target[worker.cand] = None
  /\ worker.pc = "activate" => disk.target[worker.cand] = worker.art
  /\ worker.pc = "done" => disk.temp[worker.art] = "none"

\* Whoever publishes holds the media lease, and no restore came in between.
StaleOK == worker.stale => ~Leased

\* A row that is used names its candidate, and finitely many bytes are published.
RowsOK ==
  /\ \A a \in Artifact : art[a].status # "none" \/ art[a].pub # "none" => art[a].cand \in Candidate
  /\ IsFiniteSet(Digests)

\* Between the count and the row there is room for one more.
RoomOK ==
  worker.pc \in {"reserve", "link", "payload", "gate", "intent"} \cup Writing =>
    ~LimitReached(Digests)

\* While a job looks for a candidate, it is barred from what is on record for it; what it
\* is about to pay for is not on record.
Looking == \/ worker.pc \in {"local", "search"}
           \/ worker.pc \in {"gate", "intent"} \cup Publishing /\ worker.cand \in Local
MemoryOK ==
  /\ Looking => \A a \in ActiveArts : art[a].event /\ art[a].cand \in Fits[worker.job]
                                        => worker.barred[art[a].cand] = Forever
  /\ worker.pc = "reserve" => \A a \in ActiveArts : art[a].event => art[a].cand # worker.cand

CountsOK == crashes \in Nat /\ restores \in Nat

\* The inductive invariant.
SubtitleInv ==
  /\ SubtitleTypeOK /\ CountsOK /\ HandOK /\ PublicationOK /\ StaleOK /\ RowsOK
  /\ RoomOK /\ MemoryOK /\ ActiveOnDisk /\ DoneIsClean

Places == {"idle", "recover", "claim", "next", "local", "search", "reserve",
           "link", "payload", "gate", "intent", "temp", "fill", "receipt", "rename",
           "activate", "unlink", "done", "finish"}

\* What the provers need of the constants.
LEMMA Constants ==
  /\ Day \in Nat /\ Full \in Nat /\ MaxTime \in Nat /\ MaxFaults \in Nat /\ MaxSubtitles \in Nat
  /\ Lease \in Nat /\ Soon \in Nat /\ Later \in Nat /\ Resets \subseteq Nat
  /\ Local \subseteq Candidate
  /\ None \notin Artifact /\ None \notin Job /\ None \notin Candidate
  /\ Forever \in Nat /\ MaxTime < Forever /\ 0 \in 0..Forever /\ Forever \in 0..Forever
  /\ \A j \in Job : Fits[j] \subseteq Candidate /\ Fits[j] \cap Local = {}
<1>1. /\ Day \in Nat /\ Full \in Nat /\ MaxTime \in Nat /\ MaxFaults \in Nat /\ MaxSubtitles \in Nat
      /\ Lease \in Nat /\ Soon \in Nat /\ Later \in Nat /\ Resets \subseteq Nat
      /\ Local \subseteq Candidate
      /\ None \notin Artifact /\ None \notin Job /\ None \notin Candidate
  BY SubtitleAssumption
<1>2. Forever \in Nat /\ MaxTime < Forever
  BY <1>1 DEF Forever
<1>3. \A j \in Job : Fits[j] \subseteq Candidate /\ Fits[j] \cap Local = {}
  BY SubtitleAssumption
<1> QED BY <1>1, <1>2, <1>3

-----------------------------------------------------------------------------
(* What a step does to the worker.                                         *)

\* The rest of what the worker has in hand.
SameJob    == worker'.job = worker.job /\ worker'.barred = worker.barred
SameHand   == SameJob /\ worker'.cand = worker.cand /\ worker'.art = worker.art
SameStale  == worker'.stale = worker.stale

\* The worker goes on to another place with what it has.
LEMMA GotoEffect ==
  ASSUME worker \in Worker, NEW pc \in Places, Goto(pc)
  PROVE  worker' \in Worker /\ worker'.pc = pc /\ SameHand /\ SameStale
BY DEF Goto, Worker, Places, SameHand, SameJob, SameStale

\* The job is settled.
LEMMA SettleEffect ==
  ASSUME worker \in Worker, NEW result \in {"waiting", "satisfied", "failed"},
         NEW delay \in {Soon, Later}, Settle(result, delay)
  PROVE  worker' \in Worker /\ worker'.pc = "finish" /\ SameHand /\ SameStale
BY DEF Settle, Worker, SameHand, SameJob, SameStale

\* The worker between two runs.
LEMMA IdleIsWorker ==
  Idle \in Worker /\ Idle.pc = "idle" /\ ~Idle.stale /\ Unbarred \in [Candidate -> 0..Forever]
<1>1. Unbarred \in [Candidate -> 0..Forever]
  BY Constants DEF Unbarred
<1> QED BY <1>1 DEF Idle, Worker

\* A candidate is taken in hand.
LEMMA HandEffect ==
  ASSUME worker \in Worker, NEW pc \in Places, NEW c \in Candidate,
         worker' = [worker EXCEPT !.pc = pc, !.cand = c]
  PROVE  /\ worker' \in Worker /\ worker'.pc = pc /\ worker'.cand = c
         /\ worker'.art = worker.art /\ SameJob /\ SameStale
BY DEF Worker, Places, SameJob, SameStale

\* A job of the batch is taken up with what is remembered of it, or passed over.
LEMMA NextJobEffect ==
  ASSUME SubtitleTypeOK, NextJob
  PROVE  /\ worker' \in Worker /\ SameStale
         /\ \/ worker'.pc = "next"
            \/ /\ worker'.pc = "local" /\ worker'.job \in Job
               /\ worker'.barred = Rebuilt(worker'.job)
<1>0. worker \in Worker /\ worker.pc = "next"
  BY DEF SubtitleTypeOK, NextJob
<1>1. PICK j \in worker.due :
        worker' = IF Live(j)
          THEN [worker EXCEPT !.pc = "local", !.due = @ \ {j}, !.job = j, !.barred = Rebuilt(j)]
          ELSE [worker EXCEPT !.due = @ \ {j}]
  BY DEF NextJob
<1>2. j \in Job
  BY <1>0 DEF Worker
<1>3. Rebuilt(j) \in [Candidate -> 0..Forever]
  <2>1. job[j].barred \in [Candidate -> 0..Forever]
    BY <1>2 DEF SubtitleTypeOK, JobRec
  <2> QED BY <2>1, Constants DEF Rebuilt
<1> DEFINE v == [worker EXCEPT !.pc = "local", !.due = @ \ {j}, !.job = j, !.barred = Rebuilt(j)]
           w == [worker EXCEPT !.due = @ \ {j}]
<1>4. /\ v \in Worker /\ v.pc = "local" /\ v.job = j /\ v.barred = Rebuilt(j)
      /\ v.stale = worker.stale
  BY <1>0, <1>2, <1>3 DEF Worker
<1>5. w \in Worker /\ w.pc = "next" /\ w.stale = worker.stale
  BY <1>0, <1>2 DEF Worker
<1>6. worker' = v \/ worker' = w
  BY <1>1
<1> HIDE DEF v, w
<1> QED BY <1>2, <1>4, <1>5, <1>6 DEF SameStale

\* A candidate is barred and the job is over with it.
LEMMA BarEffect ==
  ASSUME worker \in Worker, worker.cand \in Candidate, NEW stamp \in 0..Forever, Bar(stamp)
  PROVE  worker' \in Worker /\ worker'.pc = "finish" /\ worker'.job = worker.job /\ SameStale
<1> DEFINE b == [worker.barred EXCEPT ![worker.cand] = stamp]
           v == [worker EXCEPT !.pc = "finish", !.barred = b, !.result = "waiting", !.delay = Soon]
<1>1. b \in [Candidate -> 0..Forever]
  BY DEF Worker
<1>2. worker' = v
  BY DEF Bar
<1> HIDE DEF b
<1>3. v \in Worker /\ v.pc = "finish" /\ v.job = worker.job /\ v.stale = worker.stale
  BY <1>1 DEF Worker
<1> HIDE DEF v
<1> QED BY <1>2, <1>3 DEF SameStale

\* A published candidate is barred for ever; after a sidecar the job goes on.
LEMMA PublishedEffect ==
  ASSUME worker \in Worker, worker.cand \in Candidate, worker' = Published
  PROVE  /\ worker' \in Worker /\ worker'.job = worker.job /\ SameStale
         /\ worker'.barred = [worker.barred EXCEPT ![worker.cand] = Forever]
         /\ worker'.pc = IF worker.cand \in Local THEN "local" ELSE "finish"
<1> DEFINE b == [worker.barred EXCEPT ![worker.cand] = Forever]
           v == [worker EXCEPT !.pc = "local", !.barred = b, !.cand = None, !.art = None]
           w == [worker EXCEPT !.pc = "finish", !.barred = b, !.result = "satisfied",
                               !.cand = None, !.art = None]
<1>1. b \in [Candidate -> 0..Forever]
  BY Constants DEF Worker
<1>2. worker' = IF worker.cand \in Local THEN v ELSE w
  BY DEF Published
<1> HIDE DEF b
<1>3. /\ v \in Worker /\ v.pc = "local" /\ v.job = worker.job /\ v.stale = worker.stale
      /\ v.barred = b
  BY <1>1 DEF Worker
<1>4. /\ w \in Worker /\ w.pc = "finish" /\ w.job = worker.job /\ w.stale = worker.stale
      /\ w.barred = b
  BY <1>1 DEF Worker
<1> HIDE DEF v, w
<1> QED BY <1>2, <1>3, <1>4 DEF SameStale, b

-----------------------------------------------------------------------------
(* What a step does to the tables and the disk.                            *)

ArtOK == art \in [Artifact -> ArtRec]

\* The other artifacts keep their rows.
OtherRows(a) == \A b \in Artifact \ {a} : art'[b] = art[b]

\* A row is written.
LEMMA NewRow ==
  ASSUME ArtOK, NEW a \in Artifact, NEW r \in ArtRec, art' = [art EXCEPT ![a] = r]
  PROVE  ArtOK' /\ art'[a] = r /\ OtherRows(a)
BY DEF ArtOK, OtherRows

\* The state of a publication is written, and nothing else of its row.
LEMMA PubEffect ==
  ASSUME ArtOK, NEW a \in Artifact, NEW p \in {"none", "pending", "done", "conflict"},
         art' = [art EXCEPT ![a].pub = p]
  PROVE  /\ ArtOK' /\ OtherRows(a) /\ art'[a].pub = p
         /\ art'[a].cand = art[a].cand /\ art'[a].status = art[a].status
         /\ art'[a].event = art[a].event
<1> DEFINE r == [art[a] EXCEPT !.pub = p]
<1>1. art[a] \in ArtRec
  BY DEF ArtOK
<1>2. /\ r \in ArtRec /\ r.pub = p /\ r.cand = art[a].cand /\ r.status = art[a].status
      /\ r.event = art[a].event
  BY <1>1 DEF ArtRec
<1>3. art' = [art EXCEPT ![a] = r]
  BY DEF ArtOK
<1> HIDE DEF r
<1> QED BY <1>2, <1>3, NewRow

\* A receipt is written, and nothing else of its row.
LEMMA ReceiptEffect ==
  ASSUME ArtOK, NEW a \in Artifact, art' = [art EXCEPT ![a].receipt = TRUE]
  PROVE  /\ ArtOK' /\ OtherRows(a) /\ art'[a].pub = art[a].pub
         /\ art'[a].cand = art[a].cand /\ art'[a].status = art[a].status
         /\ art'[a].event = art[a].event
<1> DEFINE r == [art[a] EXCEPT !.receipt = TRUE]
<1>1. art[a] \in ArtRec
  BY DEF ArtOK
<1>2. /\ r \in ArtRec /\ r.pub = art[a].pub /\ r.cand = art[a].cand /\ r.status = art[a].status
      /\ r.event = art[a].event
  BY <1>1 DEF ArtRec
<1>3. art' = [art EXCEPT ![a] = r]
  BY DEF ArtOK
<1> HIDE DEF r
<1> QED BY <1>2, <1>3, NewRow

\* A row becomes active; the worker records the event with it, recovery does not.
LEMMA ActiveEffect ==
  ASSUME ArtOK, NEW a \in Artifact,
         \/ art' = [art EXCEPT ![a].status = "active"]
         \/ art' = [art EXCEPT ![a].status = "active", ![a].event = TRUE]
  PROVE  /\ ArtOK' /\ OtherRows(a) /\ art'[a].pub = art[a].pub
         /\ art'[a].cand = art[a].cand /\ art'[a].status = "active"
<1> DEFINE r == [art[a] EXCEPT !.status = "active"]
           s == [art[a] EXCEPT !.status = "active", !.event = TRUE]
<1>1. art[a] \in ArtRec
  BY DEF ArtOK
<1>2. r \in ArtRec /\ r.pub = art[a].pub /\ r.cand = art[a].cand /\ r.status = "active"
  BY <1>1 DEF ArtRec
<1>3. s \in ArtRec /\ s.pub = art[a].pub /\ s.cand = art[a].cand /\ s.status = "active"
  BY <1>1 DEF ArtRec
<1>4. art' = [art EXCEPT ![a] = r] \/ art' = [art EXCEPT ![a] = s]
  BY DEF ArtOK
<1> HIDE DEF r, s
<1> QED BY <1>2, <1>3, <1>4, NewRow

\* Recovery gives up what never reached the disk.
LEMMA RemovedEffect ==
  ASSUME ArtOK, NEW a \in Artifact,
         art' = [art EXCEPT ![a].status = "removed", ![a].pub = "done"]
  PROVE  /\ ArtOK' /\ OtherRows(a) /\ art'[a].pub = "done"
         /\ art'[a].cand = art[a].cand /\ art'[a].status = "removed"
<1> DEFINE r == [art[a] EXCEPT !.status = "removed", !.pub = "done"]
<1>1. art[a] \in ArtRec
  BY DEF ArtOK
<1>2. r \in ArtRec /\ r.pub = "done" /\ r.cand = art[a].cand /\ r.status = "removed"
  BY <1>1 DEF ArtRec
<1>3. art' = [art EXCEPT ![a] = r]
  BY DEF ArtOK
<1> HIDE DEF r
<1> QED BY <1>2, <1>3, NewRow

\* One temporary file changes.
LEMMA TempEffect ==
  ASSUME disk \in Disk, NEW a \in Artifact, NEW x \in {"none", "partial", "full"},
         disk' = [disk EXCEPT !.temp[a] = x]
  PROVE  /\ disk' \in Disk /\ disk'.target = disk.target /\ disk'.temp[a] = x
         /\ \A b \in Artifact \ {a} : disk'.temp[b] = disk.temp[b]
<1> DEFINE t == [disk.temp EXCEPT ![a] = x]
<1>1. /\ t \in [Artifact -> {"none", "partial", "full"}] /\ t[a] = x
      /\ \A b \in Artifact \ {a} : t[b] = disk.temp[b]
  BY DEF Disk
<1>2. disk' = [disk EXCEPT !.temp = t]
  OBVIOUS
<1> HIDE DEF t
<1>3. disk' \in Disk /\ disk'.target = disk.target /\ disk'.temp = t
  BY <1>1, <1>2 DEF Disk
<1> QED BY <1>1, <1>3

\* One target is linked.
LEMMA TargetEffect ==
  ASSUME disk \in Disk, NEW c \in Candidate, NEW a \in Artifact,
         disk' = [disk EXCEPT !.target[c] = a]
  PROVE  /\ disk' \in Disk /\ disk'.temp = disk.temp /\ disk'.target[c] = a
         /\ \A d \in Candidate \ {c} : disk'.target[d] = disk.target[d]
<1> DEFINE t == [disk.target EXCEPT ![c] = a]
<1>1. /\ t \in [Candidate -> Artifact \cup {None}] /\ t[c] = a
      /\ \A d \in Candidate \ {c} : t[d] = disk.target[d]
  BY DEF Disk
<1>2. disk' = [disk EXCEPT !.target = t]
  OBVIOUS
<1> HIDE DEF t
<1>3. disk' \in Disk /\ disk'.temp = disk.temp /\ disk'.target = t
  BY <1>1, <1>2 DEF Disk
<1> QED BY <1>1, <1>3

\* What recovery does to a pending publication is one of these.
LEMMA RecoverCases ==
  ASSUME SubtitleTypeOK, NEW a \in Artifact, Recover(a)
  PROVE  \/ art' = [art EXCEPT ![a].pub = "conflict"] /\ disk' = disk
         \/ art[a].status = "active" /\ disk' = [disk EXCEPT !.temp[a] = "none"] /\ art' = art
         \/ /\ disk.temp[a] = "none" /\ art' = [art EXCEPT ![a].pub = "done"] /\ disk' = disk
         \/ /\ disk.temp[a] = "none" /\ disk' = disk
            /\ art' = [art EXCEPT ![a].status = "removed", ![a].pub = "done"]
         \/ art' = [art EXCEPT ![a].receipt = TRUE] /\ disk' = disk
         \/ /\ disk.target[art[a].cand] = None /\ art[a].status # "active" /\ art' = art
            /\ disk' = [disk EXCEPT !.target[art[a].cand] = a]
         \/ /\ disk.target[art[a].cand] = a /\ disk' = disk
            /\ art' = [art EXCEPT ![a].status = "active"]
<1>1. disk.temp[a] \in {"none", "partial", "full"}
  BY DEF SubtitleTypeOK, Disk
<1>2. CASE ~art[a].fence
  BY <1>2 DEF Recover, Conflict
<1>3. CASE art[a].fence /\ art[a].status = "active"
  BY <1>3 DEF Recover, Conflict
<1>4. CASE art[a].fence /\ art[a].status # "active" /\ ~art[a].receipt
  BY <1>1, <1>4 DEF Recover, Conflict
<1>5. CASE art[a].fence /\ art[a].status # "active" /\ art[a].receipt
  BY <1>5, Zenon DEF Recover, Conflict
<1> QED BY <1>2, <1>3, <1>4, <1>5

\* What is published grows by the bytes of one row at most.
LEMMA DigestsGrow ==
  ASSUME NEW a \in Artifact, OtherRows(a)
  PROVE  /\ Digests' \subseteq Digests \cup {Digest[art'[a].cand]}
         /\ art'[a].status # "active" => Digests' \subseteq Digests
         /\ art[a].status = "active" /\ art'[a].cand = art[a].cand => Digests' \subseteq Digests
BY DEF Digests, ActiveArts, OtherRows

\* A part of what is published is no more than it.
LEMMA RoomKept ==
  ASSUME IsFiniteSet(Digests), NEW D, D \subseteq Digests
  PROVE  IsFiniteSet(D) /\ (~LimitReached(Digests) => ~LimitReached(D))
<1>1. /\ IsFiniteSet(D) /\ Cardinality(D) <= Cardinality(Digests)
      /\ Cardinality(D) \in Nat /\ Cardinality(Digests) \in Nat
  BY FS_Subset, FS_CardinalityType
<1> QED BY <1>1, Constants DEF LimitReached

-----------------------------------------------------------------------------
(* The steps that look, ask and decide: only the worker changes.           *)

\* The worker has no candidate in hand, or settled its job.
Free == \/ worker'.pc \in {"idle", "claim", "next"}
        \/ worker'.pc = "recover" /\ ~worker'.stale
        \/ worker'.pc = "finish" /\ worker'.job \in Job

\* It takes up a job, knowing what is on record for it.
TakesUp == worker'.pc = "local" /\ worker'.job \in Job /\ worker'.barred = Rebuilt(worker'.job)

\* It has looked for sidecars, found one, or found a candidate that is not barred.
LooksOn == worker.pc = "local" /\ worker'.pc = "search" /\ SameHand
Finds   == /\ worker.pc = "local" /\ worker'.pc = "gate" /\ SameJob
           /\ worker'.cand \in Local /\ ~LimitReached(Digests)
Chooses == /\ worker.pc = "search" /\ worker'.pc = "reserve" /\ SameJob
           /\ worker'.cand \in Fits[worker.job] /\ worker.barred[worker'.cand] <= now
           /\ ~LimitReached(Digests)

\* It goes on with its candidate.
GoesOn == /\ SameHand
          /\ \/ worker.pc = "reserve" /\ worker'.pc = "link"
             \/ worker.pc = "link" /\ worker'.pc = "payload"
             \/ worker.pc = "payload" /\ worker'.pc = "gate" /\ worker.cand \notin Local
             \/ /\ worker.pc = "gate" /\ worker'.pc = "intent" /\ ~worker.stale
                /\ disk.target[worker.cand] = None

\* Its candidate is published, and it goes on with the sidecars, or settles the job.
Publishes ==
  /\ worker'.job = worker.job
  /\ worker'.barred = [worker.barred EXCEPT ![worker.cand] = Forever]
  /\ worker'.pc = IF worker.cand \in Local THEN "local" ELSE "finish"

\* The steps between runs and jobs.
LEMMA RunEffect ==
  ASSUME SubtitleTypeOK, HandOK,
         Begin \/ Recovered \/ ClaimNone \/ NextJob \/ EndRun \/ Blocked \/ Broken \/ Defer \/ Paced
           \/ Refused
  PROVE  worker' \in Worker /\ (Free \/ TakesUp) /\ (worker'.stale => worker.stale)
<1>t. worker \in Worker
  BY DEF SubtitleTypeOK
<1>1. CASE Begin
  <2>1. PICK pc \in {"recover", "claim"} : worker' = [Idle EXCEPT !.pc = pc]
    BY <1>1 DEF Begin
  <2>2. worker' \in Worker /\ worker'.pc = pc /\ ~worker'.stale
    BY <2>1, IdleIsWorker DEF Worker
  <2> QED BY <2>2 DEF Free
<1>2. CASE Recovered
  <2>1. Goto("claim")
    BY <1>2 DEF Recovered
  <2> QED BY <1>t, <2>1, GotoEffect DEF Free, Places, SameStale
<1>3. CASE ClaimNone \/ EndRun
  BY <1>3, IdleIsWorker DEF ClaimNone, EndRun, Free
<1>4. CASE NextJob
  BY <1>4, NextJobEffect DEF Free, TakesUp, SameStale
<1>5. CASE Blocked \/ Broken \/ Defer \/ Paced \/ Refused
  <2>1. worker.job \in Job
    BY <1>5 DEF HandOK, OnJob, Holding, Publishing, Writing, Blocked, Broken, Defer, Paced,
                MaySearch, Refused
  <2>2. PICK result \in {"waiting", "satisfied", "failed"}, delay \in {Soon, Later} :
          Settle(result, delay)
    BY <1>5 DEF Blocked, Broken, Defer, Paced, Refused
  <2> QED BY <1>t, <2>1, <2>2, SettleEffect DEF Free, SameHand, SameJob, SameStale
<1> QED BY <1>1, <1>2, <1>3, <1>4, <1>5

\* The steps of a job, up to the gate of a publication.
LEMMA JobEffect ==
  ASSUME SubtitleTypeOK, HandOK, RoomOK,
         ReuseLocal \/ Search \/ ReserveLink \/ AskLink
  PROVE  /\ worker' \in Worker /\ SameStale
         /\ Free \/ LooksOn \/ Finds \/ Chooses \/ GoesOn
<1>t. worker \in Worker /\ sidecars \subseteq Local
  BY DEF SubtitleTypeOK
<1>1. CASE ReuseLocal
  <2>1. CASE Goto("search")
    BY <1>t, <1>1, <2>1, GotoEffect DEF ReuseLocal, LooksOn, Places
  <2>2. CASE ~LimitReached(Digests) /\
             \E c \in NewSidecars : worker' = [worker EXCEPT !.pc = "gate", !.cand = c]
    <3>1. PICK c \in NewSidecars : worker' = [worker EXCEPT !.pc = "gate", !.cand = c]
      BY <2>2
    <3>2. c \in Local /\ c \in Candidate
      BY <1>t, Constants DEF NewSidecars
    <3> QED BY <1>t, <1>1, <2>2, <3>1, <3>2, HandEffect DEF ReuseLocal, Finds, Places
  <2> QED BY <1>1, <2>1, <2>2 DEF ReuseLocal
<1>2. CASE Search
  <2>1. worker.pc = "search" /\ ~LimitReached(Digests) /\ worker.job \in Job
    BY <1>2 DEF Search, MaySearch, HandOK, OnJob
  <2>2. PICK found \in Answers :
          IF Ranked(found) = {} THEN Settle("waiting", Later)
          ELSE \E c \in Ranked(found) : worker' = [worker EXCEPT !.pc = "reserve", !.cand = c]
    BY <1>2 DEF Search
  <2>3. CASE Ranked(found) = {}
    BY <1>t, <2>1, <2>2, <2>3, SettleEffect DEF Free, SameHand, SameJob
  <2>4. CASE Ranked(found) # {}
    <3>1. PICK c \in Ranked(found) : worker' = [worker EXCEPT !.pc = "reserve", !.cand = c]
      BY <2>2, <2>4
    <3>2. c \in Fits[worker.job] /\ worker.barred[c] <= now /\ c \in Candidate
      BY <2>1, Constants DEF Ranked, Answers
    <3> QED BY <1>t, <2>1, <3>1, <3>2, HandEffect DEF Chooses, Places
  <2> QED BY <2>3, <2>4
<1>3. CASE ReserveLink
  <2> DEFINE v == [worker EXCEPT !.pc = "link", !.attempted = TRUE]
  <2>1. worker.pc = "reserve" /\ worker' = v
    BY <1>3 DEF ReserveLink
  <2>2. /\ v \in Worker /\ v.pc = "link" /\ v.job = worker.job /\ v.cand = worker.cand
        /\ v.art = worker.art /\ v.barred = worker.barred /\ v.stale = worker.stale
    BY <1>t DEF Worker
  <2> HIDE DEF v
  <2> QED BY <2>1, <2>2 DEF GoesOn, SameHand, SameJob, SameStale
<1>4. CASE AskLink
  <2>1. worker.pc = "link" /\ (Goto("payload") \/ Settle("waiting", Soon)) /\ worker.job \in Job
    BY <1>4 DEF AskLink, HandOK, OnJob, Holding
  <2>2. CASE Goto("payload")
    BY <1>t, <2>1, <2>2, GotoEffect DEF GoesOn, Places
  <2>3. CASE Settle("waiting", Soon)
    BY <1>t, <2>1, <2>3, SettleEffect DEF Free, SameHand, SameJob
  <2> QED BY <2>1, <2>2, <2>3
<1> QED BY <1>1, <1>2, <1>3, <1>4

\* The payload and the gate.
LEMMA GateEffect ==
  ASSUME SubtitleTypeOK, HandOK, ValidatePayload \/ Gate
  PROVE  /\ worker' \in Worker /\ SameStale
         /\ Free \/ GoesOn \/ (worker.pc = "gate" /\ Publishes)
<1>t. worker \in Worker /\ now \in 0..MaxTime
  BY DEF SubtitleTypeOK
<1>h. worker.job \in Job /\ worker.cand \in Candidate
  BY DEF ValidatePayload, Gate, HandOK, OnJob, Holding
<1>1. CASE ValidatePayload
  <2>1. now + Day \in 0..Forever /\ Forever \in 0..Forever
    BY <1>t, Constants DEF Forever
  <2>2. worker.pc = "payload" /\ (Bar(now + Day) \/ Bar(Forever) \/ Goto("gate"))
    BY <1>1 DEF ValidatePayload
  <2>3. CASE Bar(now + Day) \/ Bar(Forever)
    BY <1>t, <1>h, <2>1, <2>3, BarEffect DEF Free
  <2>4. CASE Goto("gate")
    BY <1>t, <2>2, <2>4, GotoEffect DEF GoesOn, Places, HandOK
  <2> QED BY <2>2, <2>3, <2>4
<1>2. CASE Gate
  <2>1. /\ worker.pc = "gate"
        /\ \/ Settle("failed", Later)
           \/ /\ ~worker.stale
              /\ (disk.target[worker.cand] = None /\ Goto("intent")) \/ worker' = Published
    BY <1>2, Zenon DEF Gate
  <2>2. CASE Settle("failed", Later)
    BY <1>t, <1>h, <2>2, SettleEffect DEF Free, SameHand, SameJob
  <2>3. CASE ~worker.stale /\ disk.target[worker.cand] = None /\ Goto("intent")
    BY <1>t, <2>1, <2>3, GotoEffect DEF GoesOn, Places
  <2>4. CASE worker' = Published
    BY <1>t, <1>h, <2>1, <2>4, PublishedEffect DEF Publishes
  <2> QED BY <2>1, <2>2, <2>3, <2>4
<1> QED BY <1>1, <1>2

\* What the invariant says of the rows and the disk alone.
StillOK == RowsOK /\ ActiveOnDisk /\ DoneIsClean

\* What it says of the worker.
WorkOK == HandOK /\ PublicationOK /\ StaleOK /\ RoomOK /\ MemoryOK

\* Free of a candidate, nothing is asked of the worker.
LEMMA FreeIsOK ==
  ASSUME Free, worker'.stale => worker'.pc # "recover"
  PROVE  WorkOK'
BY DEF Free, WorkOK, HandOK, PublicationOK, StaleOK, Leased, RoomOK, MemoryOK, Looking, OnJob, Holding,
       Publishing, Writing

\* While only the worker moves, in one of these ways, what it relies on stays so.
LEMMA LookStep ==
  ASSUME SubtitleTypeOK, WorkOK, StillOK, UNCHANGED <<art, disk>>, worker'.stale => worker.stale,
         \/ Free \/ TakesUp \/ LooksOn \/ Finds \/ Chooses \/ GoesOn
         \/ worker.pc = "gate" /\ Publishes
  PROVE  WorkOK' /\ StillOK'
<1>d. UNCHANGED <<Digests, ActiveArts>>
  BY DEF Digests, ActiveArts
<1>s. StillOK'
  BY <1>d DEF StillOK, RowsOK, ActiveOnDisk, DoneIsClean
<1>w. HandOK /\ PublicationOK /\ StaleOK /\ RoomOK /\ MemoryOK
  BY DEF WorkOK
<1>c. /\ Local \subseteq Candidate /\ MaxTime \in Nat /\ MaxTime < Forever /\ Forever \in Nat
      /\ now \in 0..MaxTime
      /\ \A j \in Job : Fits[j] \subseteq Candidate /\ Fits[j] \cap Local = {}
  BY Constants DEF SubtitleTypeOK
<1>p. UNCHANGED <<art, disk>> /\ (~worker.stale => ~worker'.stale)
  OBVIOUS
<1>1. CASE Free
  BY <1>s, <1>1, FreeIsOK DEF Free
<1>2. CASE TakesUp
  <2>1. worker'.pc = "local" /\ worker'.job \in Job /\ worker'.barred = Rebuilt(worker'.job)
    BY <1>2 DEF TakesUp
  <2>2. ASSUME NEW a \in ActiveArts, art[a].event, art[a].cand \in Fits[worker'.job]
        PROVE  worker'.barred[art[a].cand] = Forever
    BY <1>c, <2>1, <2>2 DEF Rebuilt
  <2>3. MemoryOK'
    BY <1>d, <1>p, <2>1, <2>2 DEF MemoryOK, Looking
  <2>4. HandOK' /\ PublicationOK' /\ StaleOK' /\ RoomOK'
    BY <2>1 DEF HandOK, PublicationOK, StaleOK, Leased, RoomOK, OnJob, Holding, Publishing, Writing
  <2> QED BY <1>s, <2>3, <2>4 DEF WorkOK
<1>3. CASE LooksOn
  <2>1. worker.pc = "local" /\ worker'.pc = "search" /\ SameHand
    BY <1>3 DEF LooksOn
  <2>2. MemoryOK'
    BY <1>w, <1>d, <1>p, <2>1 DEF MemoryOK, Looking, SameHand, SameJob
  <2>3. HandOK' /\ PublicationOK' /\ StaleOK' /\ RoomOK'
    BY <1>w, <2>1 DEF HandOK, PublicationOK, StaleOK, Leased, RoomOK, OnJob, Holding, Publishing,
                      Writing, SameHand, SameJob
  <2> QED BY <1>s, <2>2, <2>3 DEF WorkOK
<1>4. CASE Finds
  <2>1. /\ worker.pc = "local" /\ worker'.pc = "gate" /\ SameJob
        /\ worker'.cand \in Local /\ ~LimitReached(Digests)
    BY <1>4 DEF Finds
  <2>2. MemoryOK'
    BY <1>w, <1>d, <1>p, <2>1 DEF MemoryOK, Looking, SameJob
  <2>3. HandOK' /\ PublicationOK' /\ StaleOK' /\ RoomOK'
    BY <1>w, <1>d, <1>c, <2>1 DEF HandOK, PublicationOK, StaleOK, Leased, RoomOK, OnJob, Holding,
                            Publishing, Writing, SameJob, LimitReached
  <2> QED BY <1>s, <2>2, <2>3 DEF WorkOK
<1>5. CASE Chooses
  <2>1. /\ worker.pc = "search" /\ worker'.pc = "reserve" /\ SameJob /\ worker.job \in Job
        /\ worker'.cand \in Fits[worker.job] /\ worker.barred[worker'.cand] <= now
        /\ ~LimitReached(Digests)
    BY <1>5, <1>w DEF Chooses, HandOK, OnJob
  <2>2. worker'.cand \in Candidate /\ worker'.cand \notin Local
    BY <1>c, <2>1
  <2>3. worker.barred[worker'.cand] # Forever
    BY <1>c, <2>1
  <2>4. \A a \in ActiveArts : art[a].event => art[a].cand # worker'.cand
    BY <1>w, <2>1, <2>3 DEF MemoryOK, Looking
  <2>5. MemoryOK'
    BY <1>d, <1>p, <2>1, <2>4 DEF MemoryOK, Looking, Publishing, Writing
  <2>6. HandOK' /\ PublicationOK' /\ StaleOK' /\ RoomOK'
    BY <1>d, <2>1, <2>2 DEF HandOK, PublicationOK, StaleOK, Leased, RoomOK, OnJob, Holding,
                            Publishing, Writing, SameJob, LimitReached
  <2> QED BY <1>s, <2>5, <2>6 DEF WorkOK
<1>6. CASE GoesOn
  <2>1. /\ SameHand
        /\ \/ worker.pc = "reserve" /\ worker'.pc = "link"
           \/ worker.pc = "link" /\ worker'.pc = "payload"
           \/ worker.pc = "payload" /\ worker'.pc = "gate" /\ worker.cand \notin Local
           \/ /\ worker.pc = "gate" /\ worker'.pc = "intent" /\ ~worker.stale
              /\ disk.target[worker.cand] = None
    BY <1>6 DEF GoesOn
  <2>2. MemoryOK'
    BY <1>w, <1>d, <1>p, <2>1 DEF MemoryOK, Looking, SameHand, SameJob, Publishing, Writing
  <2>3. RoomOK'
    BY <1>w, <1>d, <2>1 DEF RoomOK, LimitReached, Writing
  <2>4. HandOK' /\ PublicationOK' /\ StaleOK'
    BY <1>w, <1>p, <2>1 DEF HandOK, PublicationOK, StaleOK, Leased, OnJob, Holding,
                            Publishing, Writing, SameHand, SameJob
  <2> QED BY <1>s, <2>2, <2>3, <2>4 DEF WorkOK
<1>7. CASE worker.pc = "gate" /\ Publishes
  <2>1. /\ worker.pc = "gate" /\ worker'.job = worker.job /\ worker.job \in Job
        /\ worker'.barred = [worker.barred EXCEPT ![worker.cand] = Forever]
        /\ worker'.pc = IF worker.cand \in Local THEN "local" ELSE "finish"
    BY <1>7, <1>w DEF Publishes, HandOK, OnJob, Holding
  <2>2. CASE worker.cand \notin Local
    BY <1>s, <2>1, <2>2, FreeIsOK DEF Free
  <2>3. CASE worker.cand \in Local
    <3>1. worker.barred \in [Candidate -> 0..Forever]
      BY DEF SubtitleTypeOK, Worker
    <3>2. ASSUME NEW a \in ActiveArts, art[a].event, art[a].cand \in Fits[worker.job]
          PROVE  worker'.barred[art[a].cand] = Forever
      <4>1. worker.barred[art[a].cand] = Forever /\ art[a].cand \in Candidate
        BY <1>w, <1>c, <2>1, <2>3, <3>2 DEF MemoryOK, Looking
      <4> QED BY <2>1, <3>1, <4>1
    <3>3. MemoryOK'
      BY <1>d, <1>p, <2>1, <2>3, <3>2 DEF MemoryOK, Looking
    <3>4. HandOK' /\ PublicationOK' /\ StaleOK' /\ RoomOK'
      BY <2>1, <2>3 DEF HandOK, PublicationOK, StaleOK, Leased, RoomOK, OnJob, Holding, Publishing,
                        Writing
    <3> QED BY <1>s, <3>3, <3>4 DEF WorkOK
  <2> QED BY <2>2, <2>3
<1> QED BY <1>1, <1>2, <1>3, <1>4, <1>5, <1>6, <1>7

-----------------------------------------------------------------------------
(* The steps of a publication.                                             *)

Shape == worker \in Worker /\ ArtOK /\ disk \in Disk

\* What holds while the worker publishes.
LEMMA InPublication ==
  ASSUME SubtitleTypeOK, WorkOK, StillOK
  PROVE  /\ worker \in Worker /\ ArtOK /\ disk \in Disk
         /\ HandOK /\ PublicationOK /\ StaleOK /\ RoomOK /\ MemoryOK
         /\ RowsOK /\ ActiveOnDisk /\ DoneIsClean
BY DEF SubtitleTypeOK, ArtOK, WorkOK, StillOK

\* The row that announces a publication.
LEMMA IntentStep ==
  ASSUME SubtitleTypeOK, WorkOK, StillOK, Intent
  PROVE  Shape' /\ WorkOK' /\ StillOK'
<1>i. /\ worker \in Worker /\ ArtOK /\ disk \in Disk
      /\ HandOK /\ PublicationOK /\ StaleOK /\ RoomOK /\ MemoryOK
      /\ RowsOK /\ ActiveOnDisk /\ DoneIsClean
  BY InPublication
<1>1. PICK a \in Artifact :
        /\ Unused(a)
        /\ art' = [art EXCEPT ![a] = [NoArt EXCEPT !.cand = worker.cand, !.fence = TRUE,
                                      !.status = "publishing", !.pub = "pending"]]
        /\ worker' = [worker EXCEPT !.pc = "temp", !.art = a]
  BY DEF Intent
<1>2. worker.pc = "intent" /\ disk' = disk /\ art[a].status = "none" /\ disk.temp[a] = "none"
  BY <1>1 DEF Intent, Unused
<1>3. /\ worker.job \in Job /\ worker.cand \in Candidate /\ ~worker.stale
      /\ disk.target[worker.cand] = None /\ ~LimitReached(Digests)
  BY <1>i, <1>2 DEF HandOK, OnJob, Holding, PublicationOK, StaleOK, Leased, RoomOK
<1>4. /\ worker' \in Worker /\ worker'.pc = "temp" /\ worker'.art = a
      /\ worker'.cand = worker.cand /\ SameJob /\ SameStale
  <2> DEFINE v == [worker EXCEPT !.pc = "temp", !.art = a]
  <2>1. /\ v \in Worker /\ v.pc = "temp" /\ v.art = a /\ v.cand = worker.cand
        /\ v.job = worker.job /\ v.barred = worker.barred /\ v.stale = worker.stale
    BY <1>i DEF Worker
  <2>2. worker' = v
    BY <1>1
  <2> HIDE DEF v
  <2> QED BY <2>1, <2>2 DEF SameJob, SameStale
<1>5. /\ ArtOK' /\ OtherRows(a) /\ art'[a].cand = worker.cand /\ art'[a].status = "publishing"
      /\ art'[a].pub = "pending"
  <2> DEFINE r == [NoArt EXCEPT !.cand = worker.cand, !.fence = TRUE,
                                !.status = "publishing", !.pub = "pending"]
  <2>1. r \in ArtRec /\ r.cand = worker.cand /\ r.status = "publishing" /\ r.pub = "pending"
    BY <1>3 DEF NoArt, ArtRec
  <2>2. art' = [art EXCEPT ![a] = r]
    BY <1>1
  <2> HIDE DEF r
  <2> QED BY <1>i, <2>1, <2>2, NewRow
<1>6. Digests' \subseteq Digests
  BY <1>5, DigestsGrow
<1>7. IsFiniteSet(Digests') /\ ~LimitReached(Digests')
  BY <1>i, <1>3, <1>6, RoomKept DEF RowsOK
<1>8. StillOK'
  <2>1. RowsOK'
    BY <1>i, <1>3, <1>5, <1>7 DEF RowsOK, OtherRows
  <2>2. ActiveOnDisk' /\ DoneIsClean'
    BY <1>i, <1>2, <1>5 DEF ActiveOnDisk, DoneIsClean, OtherRows
  <2> QED BY <2>1, <2>2 DEF StillOK
<1>9. MemoryOK'
  <2>1. \A b \in ActiveArts' : b \in ActiveArts /\ art'[b] = art[b]
    BY <1>5 DEF ActiveArts, OtherRows
  <2>2. Looking' => Looking
    BY <1>2, <1>4 DEF Looking
  <2> QED BY <1>i, <1>4, <2>1, <2>2 DEF MemoryOK, SameJob
<1>10. HandOK' /\ PublicationOK' /\ StaleOK'
  BY <1>2, <1>3, <1>4, <1>5 DEF HandOK, PublicationOK, StaleOK, OnJob, Holding, Publishing, Writing,
                                SameJob, SameStale
<1>11. RoomOK'
  BY <1>7 DEF RoomOK, LimitReached
<1> QED BY <1>2, <1>i, <1>4, <1>5, <1>8, <1>9, <1>10, <1>11 DEF WorkOK, Shape

\* The temporary file, its receipt and the target: the row stays one that publishes.
LEMMA WritingStep ==
  ASSUME SubtitleTypeOK, WorkOK, StillOK, WriteTemp \/ RecordReceipt \/ LinkTarget
  PROVE  Shape' /\ WorkOK' /\ StillOK'
<1>i. /\ worker \in Worker /\ ArtOK /\ disk \in Disk
      /\ HandOK /\ PublicationOK /\ StaleOK /\ RoomOK /\ MemoryOK
      /\ RowsOK /\ ActiveOnDisk /\ DoneIsClean
  BY InPublication
<1> DEFINE a == worker.art
           c == worker.cand
<1>1. worker.pc \in {"temp", "fill", "receipt", "rename"}
  BY DEF WriteTemp, RecordReceipt, LinkTarget
<1>2. /\ worker.job \in Job /\ c \in Candidate /\ ~worker.stale /\ a \in Artifact
      /\ disk.target[c] = None /\ ~LimitReached(Digests)
      /\ art[a].cand = c /\ art[a].pub = "pending" /\ art[a].status = "publishing"
  BY <1>i, <1>1 DEF HandOK, OnJob, Holding, Publishing, Writing, PublicationOK, StaleOK, Leased, RoomOK
<1>3. /\ worker' \in Worker /\ SameHand /\ SameStale
      /\ worker'.pc \in {"fill", "receipt", "rename", "activate"}
      /\ worker'.pc = "activate" <=> LinkTarget
  <2>1. CASE WriteTemp
    <3>1. worker.pc \in {"temp", "fill"} /\ Goto(IF worker.pc = "temp" THEN "fill" ELSE "receipt")
      BY <2>1 DEF WriteTemp
    <3>2. ~LinkTarget
      BY <3>1 DEF LinkTarget
    <3> QED BY <1>i, <3>1, <3>2, GotoEffect DEF Places
  <2>2. CASE RecordReceipt
    BY <1>i, <2>2, GotoEffect DEF Places, RecordReceipt, LinkTarget
  <2>3. CASE LinkTarget
    BY <1>i, <2>3, GotoEffect DEF Places, LinkTarget
  <2> QED BY <2>1, <2>2, <2>3
<1>4. /\ ArtOK' /\ OtherRows(a) /\ art'[a].pub = art[a].pub
      /\ art'[a].cand = art[a].cand /\ art'[a].status = art[a].status
  <2>1. art' = art \/ art' = [art EXCEPT ![a].receipt = TRUE]
    BY DEF WriteTemp, RecordReceipt, LinkTarget, tables
  <2> HIDE DEF a
  <2> QED BY <1>i, <1>2, <2>1, ReceiptEffect DEF OtherRows, ArtOK
<1>5. /\ disk' \in Disk
      /\ \A b \in Artifact \ {a} : disk'.temp[b] = disk.temp[b]
      /\ \A d \in Candidate \ {c} : disk'.target[d] = disk.target[d]
      /\ IF LinkTarget THEN disk'.target[c] = a ELSE disk'.target[c] = None
  <2>1. CASE WriteTemp
    <3>1. PICK x \in {"none", "partial", "full"} : disk' = [disk EXCEPT !.temp[a] = x]
      BY <2>1 DEF WriteTemp
    <3>2. ~LinkTarget
      BY <2>1 DEF WriteTemp, LinkTarget
    <3> HIDE DEF a, c
    <3> QED BY <1>i, <1>2, <3>1, <3>2, TempEffect
  <2>2. CASE RecordReceipt
    BY <1>i, <1>2, <2>2 DEF RecordReceipt, LinkTarget
  <2>3. CASE LinkTarget
    <3>1. disk' = [disk EXCEPT !.target[c] = a]
      BY <2>3 DEF LinkTarget
    <3> HIDE DEF a, c
    <3> QED BY <1>i, <1>2, <2>3, <3>1, TargetEffect
  <2> QED BY <2>1, <2>2, <2>3
<1>6. Digests' \subseteq Digests
  BY <1>2, <1>4, DigestsGrow
<1>7. IsFiniteSet(Digests') /\ ~LimitReached(Digests')
  BY <1>i, <1>2, <1>6, RoomKept DEF RowsOK
<1> HIDE DEF a, c
<1>8. StillOK'
  <2>1. RowsOK'
    BY <1>i, <1>2, <1>4, <1>7 DEF RowsOK, OtherRows
  <2>2. ActiveOnDisk'
    <3> SUFFICES ASSUME NEW b \in Artifact, art'[b].status = "active"
                 PROVE  disk'.target[art'[b].cand] = b
      BY DEF ActiveOnDisk
    <3>1. b # a /\ art'[b] = art[b]
      BY <1>2, <1>4 DEF OtherRows
    <3>2. disk.target[art[b].cand] = b /\ art[b].cand \in Candidate
      BY <1>i, <3>1 DEF ActiveOnDisk, RowsOK
    <3>3. art[b].cand # c
      BY <1>2, <3>2, Constants
    <3> QED BY <1>5, <3>1, <3>2, <3>3
  <2>3. DoneIsClean'
    BY <1>i, <1>2, <1>4, <1>5 DEF DoneIsClean, OtherRows
  <2> QED BY <2>1, <2>2, <2>3 DEF StillOK
<1>9. MemoryOK'
  <2>1. \A b \in ActiveArts' : b \in ActiveArts /\ art'[b] = art[b]
    BY <1>2, <1>4 DEF ActiveArts, OtherRows
  <2>2. Looking' => Looking
    BY <1>1, <1>3 DEF Looking, Publishing, Writing, SameHand
  <2> QED BY <1>i, <1>3, <2>1, <2>2 DEF MemoryOK, SameHand, SameJob
<1>10. HandOK'
  BY <1>2, <1>3 DEF HandOK, OnJob, Holding, Publishing, Writing, SameHand, SameJob, a, c
<1>11. PublicationOK'
  <2>1. worker'.art = a /\ worker'.cand = c
    BY <1>3 DEF SameHand, a, c
  <2>2. \/ worker'.pc \in {"fill", "receipt", "rename"} /\ disk'.target[c] = None
        \/ worker'.pc = "activate" /\ disk'.target[c] = a
    BY <1>3, <1>5
  <2> QED BY <1>2, <1>4, <2>1, <2>2 DEF PublicationOK, Publishing, Writing
<1>12. StaleOK' /\ RoomOK'
  BY <1>2, <1>3, <1>7 DEF StaleOK, RoomOK, LimitReached, SameStale
<1> QED BY <1>3, <1>4, <1>5, <1>8, <1>9, <1>10, <1>11, <1>12 DEF WorkOK, Shape

\* The row becomes active, with room for its bytes.
LEMMA ActivateStep ==
  ASSUME SubtitleTypeOK, WorkOK, StillOK, Activate
  PROVE  Shape' /\ WorkOK' /\ StillOK' /\ Cardinality(Digests') <= MaxSubtitles
<1>i. /\ worker \in Worker /\ ArtOK /\ disk \in Disk
      /\ HandOK /\ PublicationOK /\ StaleOK /\ RoomOK /\ MemoryOK
      /\ RowsOK /\ ActiveOnDisk /\ DoneIsClean
  BY InPublication
<1> DEFINE a == worker.art
           c == worker.cand
<1>1. worker.pc = "activate" /\ disk' = disk
  BY DEF Activate
<1>2. /\ worker.job \in Job /\ c \in Candidate /\ ~worker.stale /\ a \in Artifact
      /\ disk.target[c] = a /\ ~LimitReached(Digests)
      /\ art[a].cand = c /\ art[a].pub = "pending" /\ art[a].status = "publishing"
  BY <1>i, <1>1 DEF HandOK, OnJob, Holding, Publishing, Writing, PublicationOK, StaleOK, Leased, RoomOK
<1>3. worker' \in Worker /\ SameHand /\ SameStale /\ worker'.pc = "unlink"
  BY <1>i, GotoEffect DEF Activate, Places
<1>4. /\ ArtOK' /\ OtherRows(a) /\ art'[a].pub = "pending"
      /\ art'[a].cand = c /\ art'[a].status = "active"
  <2>1. art' = [art EXCEPT ![a].status = "active", ![a].event = TRUE]
    BY DEF Activate
  <2> HIDE DEF a
  <2> QED BY <1>i, <1>2, <2>1, ActiveEffect
<1>5. Digests' \subseteq Digests \cup {Digest[c]}
  <2> HIDE DEF a, c
  <2> QED BY <1>2, <1>4, DigestsGrow
<1>6. IsFiniteSet(Digests') /\ Cardinality(Digests') <= MaxSubtitles
  <2>1. /\ IsFiniteSet(Digests) /\ Cardinality(Digests) \in Nat
        /\ ~(Cardinality(Digests) >= MaxSubtitles)
    BY <1>i, <1>2, FS_CardinalityType DEF RowsOK, LimitReached
  <2>2. /\ IsFiniteSet(Digests \cup {Digest[c]})
        /\ Cardinality(Digests \cup {Digest[c]}) <= Cardinality(Digests) + 1
        /\ Cardinality(Digests \cup {Digest[c]}) \in Nat
    BY <2>1, FS_AddElement
  <2>3. /\ IsFiniteSet(Digests')
        /\ Cardinality(Digests') <= Cardinality(Digests \cup {Digest[c]})
        /\ Cardinality(Digests') \in Nat
    BY <1>5, <2>2, FS_Subset, FS_CardinalityType
  <2> QED BY <2>1, <2>2, <2>3, Constants
<1> HIDE DEF a, c
<1>7. StillOK'
  <2>1. RowsOK'
    BY <1>i, <1>2, <1>4, <1>6 DEF RowsOK, OtherRows
  <2>2. ActiveOnDisk' /\ DoneIsClean'
    BY <1>i, <1>1, <1>2, <1>4 DEF ActiveOnDisk, DoneIsClean, OtherRows
  <2> QED BY <2>1, <2>2 DEF StillOK
<1>8. MemoryOK'
  <2>1. \A b \in ActiveArts' : b = a \/ (b \in ActiveArts /\ art'[b] = art[b])
    BY <1>4 DEF ActiveArts, OtherRows
  <2>2. Looking' => Looking /\ c \in Local
    BY <1>1, <1>3 DEF Looking, Publishing, Writing, SameHand, c
  <2>3. c \in Local => c \notin Fits[worker.job]
    BY <1>2, Constants
  <2> QED BY <1>i, <1>3, <1>4, <2>1, <2>2, <2>3 DEF MemoryOK, SameHand, SameJob
<1>9. HandOK'
  BY <1>2, <1>3 DEF HandOK, OnJob, Holding, Publishing, Writing, SameHand, SameJob, a, c
<1>10. PublicationOK'
  <2>1. worker'.art = a /\ worker'.cand = c
    BY <1>3 DEF SameHand, a, c
  <2> QED BY <1>3, <1>4, <2>1 DEF PublicationOK, Publishing, Writing
<1>11. StaleOK' /\ RoomOK'
  BY <1>2, <1>3 DEF StaleOK, RoomOK, Writing, SameStale
<1> QED BY <1>1, <1>i, <1>3, <1>4, <1>6, <1>7, <1>8, <1>9, <1>10, <1>11 DEF WorkOK, Shape

\* The temporary file goes, and the publication is over.
LEMMA TidyStep ==
  ASSUME SubtitleTypeOK, WorkOK, StillOK, UnlinkTemp \/ Done
  PROVE  Shape' /\ WorkOK' /\ StillOK'
<1>i. /\ worker \in Worker /\ ArtOK /\ disk \in Disk
      /\ HandOK /\ PublicationOK /\ StaleOK /\ RoomOK /\ MemoryOK
      /\ RowsOK /\ ActiveOnDisk /\ DoneIsClean
  BY InPublication
<1> DEFINE a == worker.art
           c == worker.cand
<1>1. worker.pc \in {"unlink", "done"}
  BY DEF UnlinkTemp, Done
<1>2. /\ worker.job \in Job /\ c \in Candidate /\ ~worker.stale /\ a \in Artifact
      /\ art[a].cand = c /\ art[a].pub = "pending" /\ art[a].status = "active"
      /\ worker.pc = "done" => disk.temp[a] = "none"
  BY <1>i, <1>1 DEF HandOK, OnJob, Holding, Publishing, Writing, PublicationOK, StaleOK, Leased
<1>3. CASE UnlinkTemp
  <2>1. worker' \in Worker /\ SameHand /\ SameStale /\ worker'.pc = "done" /\ worker.pc = "unlink"
    BY <1>i, <1>3, GotoEffect DEF UnlinkTemp, Places
  <2>2. UNCHANGED art /\ disk' = [disk EXCEPT !.temp[a] = "none"]
    BY <1>3 DEF UnlinkTemp, tables
  <2>3. /\ disk' \in Disk /\ disk'.target = disk.target /\ disk'.temp[a] = "none"
        /\ \A b \in Artifact \ {a} : disk'.temp[b] = disk.temp[b]
    <3> HIDE DEF a
    <3> QED BY <1>i, <1>2, <2>2, TempEffect
  <2> HIDE DEF a, c
  <2>4. StillOK'
    BY <1>i, <2>2, <2>3 DEF StillOK, RowsOK, Digests, ActiveArts, ActiveOnDisk, DoneIsClean
  <2>5. MemoryOK'
    <3>1. Looking' => Looking
      BY <2>1 DEF Looking, Publishing, SameHand
    <3> QED BY <1>i, <2>1, <2>2, <3>1 DEF MemoryOK, ActiveArts, SameHand, SameJob
  <2>6. HandOK'
    BY <1>2, <2>1 DEF HandOK, OnJob, Holding, Publishing, Writing, SameHand, SameJob, a, c
  <2>7. PublicationOK'
    <3>1. worker'.art = a /\ worker'.cand = c
      BY <2>1 DEF SameHand, a, c
    <3> QED BY <1>2, <2>1, <2>2, <2>3, <3>1 DEF PublicationOK, Publishing, Writing
  <2>8. StaleOK' /\ RoomOK'
    BY <1>2, <2>1 DEF StaleOK, RoomOK, Writing, SameStale
  <2> QED BY <2>1, <2>2, <1>i, <2>3, <2>4, <2>5, <2>6, <2>7, <2>8 DEF WorkOK, Shape, ArtOK
<1>4. CASE Done
  <2>1. /\ worker.pc = "done" /\ disk' = disk /\ worker' = Published
        /\ art' = [art EXCEPT ![a].pub = "done"]
    BY <1>4 DEF Done
  <2>2. /\ worker' \in Worker /\ worker'.job = worker.job /\ SameStale
        /\ worker'.barred = [worker.barred EXCEPT ![c] = Forever]
        /\ worker'.pc = IF c \in Local THEN "local" ELSE "finish"
    BY <1>i, <1>2, <2>1, PublishedEffect
  <2>3. /\ ArtOK' /\ OtherRows(a) /\ art'[a].pub = "done" /\ art'[a].cand = c
        /\ art'[a].status = "active" /\ art'[a].event = art[a].event
    <3> HIDE DEF a, c
    <3> QED BY <1>i, <1>2, <2>1, PubEffect
  <2>b. worker.barred \in [Candidate -> 0..Forever]
    BY <1>i DEF Worker
  <2>l. c \in Local => Looking
    BY <2>1 DEF Looking, Publishing
  <2> HIDE DEF a, c
  <2>4. Digests' \subseteq Digests
    BY <1>2, <2>3, DigestsGrow
  <2>5. StillOK'
    <3>1. RowsOK'
      BY <1>i, <1>2, <2>3, <2>4, RoomKept DEF RowsOK, OtherRows
    <3>2. ActiveOnDisk' /\ DoneIsClean'
      BY <1>i, <1>2, <2>1, <2>3 DEF ActiveOnDisk, DoneIsClean, OtherRows
    <3> QED BY <3>1, <3>2 DEF StillOK
  <2>6. CASE c \notin Local
    BY <1>i, <1>2, <2>1, <2>2, <2>3, <2>5, <2>6, FreeIsOK DEF Free, Shape
  <2>7. CASE c \in Local
    <3>1. \A b \in ActiveArts' : b \in ActiveArts /\ art'[b].cand = art[b].cand
                                 /\ art'[b].event = art[b].event
      BY <1>2, <2>3 DEF ActiveArts, OtherRows
    <3>2. ASSUME NEW b \in ActiveArts, art[b].event, art[b].cand \in Fits[worker.job]
          PROVE  worker'.barred[art[b].cand] = Forever
      <4>1. worker.barred[art[b].cand] = Forever /\ art[b].cand \in Candidate
        BY <1>i, <1>2, <2>l, <2>7, <3>2, Constants DEF MemoryOK
      <4> QED BY <2>2, <2>b, <4>1
    <3>3. MemoryOK'
      BY <2>2, <2>7, <3>1, <3>2 DEF MemoryOK
    <3>4. HandOK' /\ PublicationOK' /\ StaleOK' /\ RoomOK'
      BY <1>2, <2>2, <2>7 DEF HandOK, PublicationOK, StaleOK, Leased, RoomOK, OnJob, Holding,
                              Publishing, Writing
    <3> QED BY <2>1, <1>i, <2>2, <2>3, <2>5, <3>3, <3>4 DEF WorkOK, Shape
  <2> QED BY <2>6, <2>7
<1> QED BY <1>3, <1>4

-----------------------------------------------------------------------------
(* Recovery, deaths and restores.                                          *)

\* Each step of recovery leaves tables and disk in agreement.
LEMMA RecoverStep ==
  ASSUME SubtitleTypeOK, WorkOK, StillOK, RecoverPublication
  PROVE  Shape' /\ WorkOK' /\ StillOK'
<1>i. /\ worker \in Worker /\ ArtOK /\ disk \in Disk
      /\ HandOK /\ PublicationOK /\ StaleOK /\ RoomOK /\ MemoryOK
      /\ RowsOK /\ ActiveOnDisk /\ DoneIsClean
  BY InPublication
<1>1. worker.pc = "recover" /\ worker' = worker /\ ~worker.stale
  BY <1>i DEF RecoverPublication, StaleOK, Leased
<1>2. WorkOK'
  BY <1>1, FreeIsOK DEF WorkOK, HandOK, PublicationOK, StaleOK, Leased, RoomOK, MemoryOK, Looking,
                        OnJob, Holding, Publishing, Writing
<1>3. PICK a \in Pending : Recover(a)
  BY DEF RecoverPublication
<1>4. a \in Artifact /\ art[a].pub = "pending" /\ art[a].cand \in Candidate
  BY <1>i, <1>3 DEF Pending, RowsOK
\* A step that writes one row and no file.
<1>r. ASSUME ArtOK', disk' = disk, OtherRows(a), art'[a].cand = art[a].cand,
             art'[a].status = "active" => art[a].status = "active"
                                          \/ disk.target[art[a].cand] = a,
             art'[a].pub = "done" => disk.temp[a] = "none"
      PROVE  Shape' /\ StillOK'
  <2>1. IsFiniteSet(Digests')
    <3>1. IsFiniteSet(Digests \cup {Digest[art'[a].cand]})
      BY <1>i, FS_AddElement DEF RowsOK
    <3> QED BY <1>r, <1>4, <3>1, DigestsGrow, FS_Subset
  <2>2. RowsOK'
    BY <1>i, <1>r, <1>4, <2>1 DEF RowsOK, OtherRows
  <2>3. ActiveOnDisk' /\ DoneIsClean'
    BY <1>i, <1>r, <1>4 DEF ActiveOnDisk, DoneIsClean, OtherRows
  <2> QED BY <1>i, <1>1, <1>r, <2>2, <2>3 DEF StillOK, Shape
\* A step that changes a file and no row.
<1>d. ASSUME art' = art, disk' \in Disk,
             ActiveOnDisk' /\ DoneIsClean'
      PROVE  Shape' /\ StillOK'
  BY <1>i, <1>1, <1>d DEF StillOK, Shape, RowsOK, Digests, ActiveArts, ArtOK
<1>5. CASE art' = [art EXCEPT ![a].pub = "conflict"] /\ disk' = disk
  BY <1>i, <1>4, <1>5, <1>r, <1>2, PubEffect
<1>6. CASE art[a].status = "active" /\ disk' = [disk EXCEPT !.temp[a] = "none"] /\ art' = art
  <2>1. /\ disk' \in Disk /\ disk'.target = disk.target /\ disk'.temp[a] = "none"
        /\ \A b \in Artifact \ {a} : disk'.temp[b] = disk.temp[b]
    BY <1>i, <1>4, <1>6, TempEffect
  <2>2. ActiveOnDisk' /\ DoneIsClean'
    BY <1>i, <1>6, <2>1 DEF ActiveOnDisk, DoneIsClean
  <2> QED BY <1>2, <1>6, <1>d, <2>1, <2>2
<1>7. CASE disk.temp[a] = "none" /\ art' = [art EXCEPT ![a].pub = "done"] /\ disk' = disk
  BY <1>i, <1>4, <1>7, <1>r, <1>2, PubEffect
<1>8. CASE /\ disk.temp[a] = "none" /\ disk' = disk
           /\ art' = [art EXCEPT ![a].status = "removed", ![a].pub = "done"]
  BY <1>i, <1>4, <1>8, <1>r, <1>2, RemovedEffect
<1>9. CASE art' = [art EXCEPT ![a].receipt = TRUE] /\ disk' = disk
  BY <1>i, <1>4, <1>9, <1>r, <1>2, ReceiptEffect
<1>10. CASE /\ disk.target[art[a].cand] = None /\ art[a].status # "active" /\ art' = art
            /\ disk' = [disk EXCEPT !.target[art[a].cand] = a]
  <2>1. /\ disk' \in Disk /\ disk'.temp = disk.temp
        /\ \A d \in Candidate \ {art[a].cand} : disk'.target[d] = disk.target[d]
    BY <1>i, <1>4, <1>10, TargetEffect
  <2>2. ActiveOnDisk'
    <3> SUFFICES ASSUME NEW b \in Artifact, art[b].status = "active"
                 PROVE  disk'.target[art[b].cand] = b
      BY <1>10 DEF ActiveOnDisk
    <3>1. disk.target[art[b].cand] = b /\ art[b].cand \in Candidate
      BY <1>i DEF ActiveOnDisk, RowsOK
    <3>2. art[b].cand # art[a].cand
      BY <1>10, <3>1, Constants
    <3> QED BY <2>1, <3>1, <3>2
  <2>3. DoneIsClean'
    BY <1>i, <1>10, <2>1 DEF DoneIsClean
  <2> QED BY <1>2, <1>10, <1>d, <2>1, <2>2, <2>3
<1>11. CASE /\ disk.target[art[a].cand] = a /\ disk' = disk
            /\ art' = [art EXCEPT ![a].status = "active"]
  <2>1. /\ ArtOK' /\ OtherRows(a) /\ art'[a].pub = art[a].pub
        /\ art'[a].cand = art[a].cand /\ art'[a].status = "active"
    BY <1>i, <1>4, <1>11, ActiveEffect
  <2> QED BY <1>2, <1>4, <1>11, <1>r, <2>1
<1> QED BY <1>2, <1>3, <1>4, <1>5, <1>6, <1>7, <1>8, <1>9, <1>10, <1>11, RecoverCases

\* A death leaves the tables and the disk as they are.
LEMMA CrashStep ==
  ASSUME SubtitleTypeOK, WorkOK, StillOK, Crash
  PROVE  Shape' /\ WorkOK' /\ StillOK'
<1>1. worker' = Idle /\ UNCHANGED <<art, disk>>
  BY DEF Crash
<1>2. WorkOK'
  BY <1>1, IdleIsWorker, FreeIsOK DEF Free
<1> QED BY <1>1, <1>2, IdleIsWorker, InPublication
        DEF Shape, StillOK, RowsOK, Digests, ActiveArts, ActiveOnDisk, DoneIsClean, ArtOK

\* A restore brings back a part of what is on record, and the worker is of an older epoch.
LEMMA RestoreStep ==
  ASSUME SubtitleTypeOK, WorkOK, StillOK, Restore
  PROVE  Shape' /\ WorkOK' /\ StillOK'
<1>i. /\ worker \in Worker /\ ArtOK /\ disk \in Disk
      /\ HandOK /\ PublicationOK /\ StaleOK /\ RoomOK /\ MemoryOK
      /\ RowsOK /\ ActiveOnDisk /\ DoneIsClean
  BY InPublication
<1>1. disk' = disk /\ ~Leased /\ worker' = [worker EXCEPT !.stale = worker.pc # "idle"]
  BY DEF Restore
<1>2. worker' \in Worker /\ worker'.pc = worker.pc /\ SameHand
  <2> DEFINE v == [worker EXCEPT !.stale = worker.pc # "idle"]
  <2>1. /\ v \in Worker /\ v.pc = worker.pc /\ v.job = worker.job /\ v.barred = worker.barred
        /\ v.cand = worker.cand /\ v.art = worker.art
    BY <1>i DEF Worker
  <2>2. worker' = v
    BY <1>1
  <2> HIDE DEF v
  <2> QED BY <2>1, <2>2 DEF SameHand, SameJob
<1>3. \E rows \in {NoArts, art} : art' = [a \in Artifact |-> [rows[a] EXCEPT !.fence = FALSE]]
  <2>1. PICK old \in {[job |-> NewJobs, art |-> NoArts], [job |-> job, art |-> art]} :
          art' = [a \in Artifact |-> [old.art[a] EXCEPT !.fence = FALSE]]
    BY Zenon DEF Restore
  <2>2. old.art \in {NoArts, art}
    BY <2>1
  <2> QED BY <2>1, <2>2
<1>4. ASSUME NEW a \in Artifact
      PROVE  /\ art'[a] \in ArtRec
             /\ \/ art'[a].status = "none" /\ art'[a].pub = "none"
                \/ /\ art'[a].status = art[a].status /\ art'[a].pub = art[a].pub
                   /\ art'[a].cand = art[a].cand /\ art'[a].event = art[a].event
  <2>1. PICK rows \in {NoArts, art} : art' = [b \in Artifact |-> [rows[b] EXCEPT !.fence = FALSE]]
    BY <1>3
  <2>2. CASE rows = art
    <3>1. art'[a] = [art[a] EXCEPT !.fence = FALSE] /\ art[a] \in ArtRec
      BY <1>i, <2>1, <2>2 DEF ArtOK
    <3> QED BY <3>1 DEF ArtRec
  <2>3. CASE rows = NoArts
    <3>1. art'[a] = [NoArt EXCEPT !.fence = FALSE]
      BY <2>1, <2>3 DEF NoArts
    <3> QED BY <3>1 DEF ArtRec, NoArt
  <2> QED BY <2>1, <2>2, <2>3
<1>5. ArtOK'
  <2>1. DOMAIN art' = Artifact /\ art' = [a \in Artifact |-> art'[a]]
    BY <1>3
  <2> QED BY <1>4, <2>1 DEF ArtOK
<1>6. \A a \in ActiveArts' : /\ a \in ActiveArts /\ art'[a].cand = art[a].cand
                             /\ art'[a].event = art[a].event
  BY <1>4 DEF ActiveArts
<1>7. Digests' \subseteq Digests
  BY <1>6 DEF Digests
<1>8. IsFiniteSet(Digests') /\ (~LimitReached(Digests) => ~LimitReached(Digests'))
  BY <1>i, <1>7, RoomKept DEF RowsOK
<1>9. StillOK'
  <2>1. RowsOK'
    BY <1>i, <1>4, <1>8 DEF RowsOK
  <2>2. ActiveOnDisk' /\ DoneIsClean'
    BY <1>i, <1>1, <1>4 DEF ActiveOnDisk, DoneIsClean
  <2> QED BY <2>1, <2>2 DEF StillOK
<1>10. /\ worker.pc \notin Publishing \cup {"intent"} /\ StaleOK'
  BY <1>1, <1>2 DEF Leased, Publishing, Writing, StaleOK
<1>11. HandOK'
  BY <1>i, <1>2 DEF HandOK, SameHand, SameJob
<1>12. PublicationOK'
  BY <1>2, <1>10 DEF PublicationOK, Publishing, Writing
<1>13. RoomOK'
  BY <1>i, <1>2, <1>8 DEF RoomOK, LimitReached
<1>14. MemoryOK'
  <2>1. Looking' => Looking
    BY <1>2 DEF Looking, SameHand
  <2> QED BY <1>i, <1>2, <1>6, <2>1 DEF MemoryOK, SameHand, SameJob
<1> QED BY <1>i, <1>1, <1>2, <1>5, <1>9, <1>10, <1>11, <1>12, <1>13, <1>14 DEF WorkOK, Shape

\* Claims, their ends and the clock touch neither a publication nor what the worker relies on.
LEMMA AsideStep ==
  ASSUME SubtitleTypeOK, WorkOK, StillOK, UNCHANGED <<art, disk>>,
         UNCHANGED worker \/ (worker'.pc \in {"next"} /\ worker' \in Worker)
  PROVE  Shape' /\ WorkOK' /\ StillOK'
<1>1. StillOK'
  BY DEF StillOK, RowsOK, Digests, ActiveArts, ActiveOnDisk, DoneIsClean
<1>2. Shape'
  BY InPublication DEF Shape, ArtOK
<1>3. CASE UNCHANGED worker
  BY <1>1, <1>2, <1>3
  DEF WorkOK, HandOK, PublicationOK, StaleOK, Leased, RoomOK, LimitReached, MemoryOK, Looking,
      Digests, ActiveArts
<1>4. CASE worker'.pc = "next"
  BY <1>1, <1>2, <1>4, FreeIsOK DEF Free
<1> QED BY <1>3, <1>4

\* Every step keeps what the worker relies on, and tables and disk in agreement.
LEMMA WorkStep ==
  ASSUME SubtitleTypeOK, WorkOK, StillOK, [SubtitleNext]_vars
  PROVE  Shape' /\ WorkOK' /\ StillOK'
<1>i. /\ worker \in Worker /\ ArtOK /\ disk \in Disk
      /\ HandOK /\ RoomOK
  BY InPublication
<1>l. ASSUME worker' \in Worker, UNCHANGED <<art, disk>>, worker'.stale => worker.stale,
             \/ Free \/ TakesUp \/ LooksOn \/ Finds \/ Chooses \/ GoesOn
             \/ worker.pc = "gate" /\ Publishes
      PROVE  Shape' /\ WorkOK' /\ StillOK'
  BY <1>l, <1>i, LookStep DEF Shape, ArtOK
<1>1. CASE Begin \/ Recovered \/ ClaimNone \/ NextJob \/ EndRun \/ Blocked \/ Broken \/ Defer
             \/ Paced \/ Refused
  <2>1. UNCHANGED <<art, disk>>
    BY <1>1 DEF Begin, Recovered, ClaimNone, NextJob, EndRun, Blocked, Broken, Defer, Paced,
                Refused, tables
  <2> QED BY <1>1, <1>i, <1>l, <2>1, RunEffect
<1>2. CASE ReuseLocal \/ Search \/ ReserveLink \/ AskLink
  <2>1. UNCHANGED <<art, disk>>
    BY <1>2 DEF ReuseLocal, Search, ReserveLink, AskLink, tables
  <2> QED BY <1>2, <1>i, <1>l, <2>1, JobEffect DEF SameStale
<1>3. CASE ValidatePayload \/ Gate
  <2>1. UNCHANGED <<art, disk>>
    BY <1>3 DEF ValidatePayload, Gate, tables
  <2> QED BY <1>3, <1>i, <1>l, <2>1, GateEffect DEF SameStale
<1>4. CASE Refresh \/ PassTime \/ UNCHANGED vars \/ \E j \in Job : Select(j)
  BY <1>4, AsideStep DEF Refresh, PassTime, Select, vars, tables
<1>5. CASE ClaimJobs
  <2>1. UNCHANGED <<art, disk>>
    BY <1>5 DEF ClaimJobs
  <2>2. PICK due \in SUBSET Due : worker' = [worker EXCEPT !.pc = "next", !.due = due]
    BY <1>5 DEF ClaimJobs
  <2>3. worker' \in Worker /\ worker'.pc = "next"
    BY <1>i, <2>2 DEF Worker, Due
  <2> QED BY <2>1, <2>3, AsideStep
<1>6. CASE Finish
  <2>1. UNCHANGED <<art, disk>>
    BY <1>6 DEF Finish
  <2> DEFINE v == [Idle EXCEPT !.pc = "next", !.stale = worker.stale, !.due = worker.due,
                               !.attempted = worker.attempted]
  <2>2. worker' = v
    BY <1>6 DEF Finish
  <2>3. v \in Worker /\ v.pc = "next"
    <3>1. /\ worker.stale \in BOOLEAN /\ worker.due \in SUBSET Job
          /\ worker.attempted \in BOOLEAN
      BY <1>i DEF Worker
    <3> QED BY <3>1, IdleIsWorker DEF Worker
  <2> HIDE DEF v
  <2> QED BY <2>1, <2>2, <2>3, AsideStep
<1>7. CASE Intent
  BY <1>7, IntentStep
<1>8. CASE WriteTemp \/ RecordReceipt \/ LinkTarget
  BY <1>8, WritingStep
<1>9. CASE Activate
  BY <1>9, ActivateStep
<1>10. CASE UnlinkTemp \/ Done
  BY <1>10, TidyStep
<1>11. CASE RecoverPublication
  BY <1>11, RecoverStep
<1>12. CASE Crash
  BY <1>12, CrashStep
<1>13. CASE Restore
  BY <1>13, RestoreStep
<1> QED
  BY <1>1, <1>2, <1>3, <1>4, <1>5, <1>6, <1>7, <1>8, <1>9, <1>10, <1>11, <1>12, <1>13
  DEF SubtitleNext, WorkerStep

-----------------------------------------------------------------------------
(* Types.                                                                  *)

JobsOK  == job \in [Job -> JobRec]
ClockOK == now \in 0..MaxTime /\ allowed \in 0..Full /\ until \in Nat /\ probing \in BOOLEAN

\* A job that is due, finished, selected, forgotten or restored is a job.
LEMMA JobsTyped ==
  ASSUME SubtitleTypeOK, HandOK,
         Refresh \/ ClaimJobs \/ Finish \/ (\E j \in Job : Select(j)) \/ Crash \/ Restore
  PROVE  JobsOK'
<1>t. job \in [Job -> JobRec] /\ now \in Nat /\ worker \in Worker /\ now \in 0..MaxTime
  BY Constants DEF SubtitleTypeOK
<1>1. CASE Refresh
  <2>1. \A j \in Job : [job[j] EXCEPT !.next = now, !.status = "waiting"] \in JobRec
    BY <1>t DEF JobRec
  <2> QED BY <1>1, <1>t, <2>1 DEF Refresh, JobsOK
<1>2. CASE ClaimJobs
  <2>0. now + Lease \in Nat
    BY <1>t, Constants
  <2>1. \A j \in Job : [job[j] EXCEPT !.status = "running", !.next = now + Lease,
                                      !.claimed = TRUE] \in JobRec
    BY <1>t, <2>0 DEF JobRec
  <2>2. PICK due \in SUBSET Due :
          job' = [j \in Job |-> IF j \in due
                    THEN [job[j] EXCEPT !.status = "running", !.next = now + Lease,
                                        !.claimed = TRUE]
                    ELSE job[j]]
    BY <1>2 DEF ClaimJobs
  <2> QED BY <1>t, <2>1, <2>2 DEF JobsOK
<1>3. CASE Finish
  <2> DEFINE j == worker.job
             b == [c \in Candidate |-> StillBarred(worker.barred[c])]
             r == [job[j] EXCEPT !.status = worker.result, !.barred = b,
                                 !.next = now + worker.delay]
  <2>1. j \in Job /\ worker.barred \in [Candidate -> 0..Forever] /\ now + worker.delay \in Nat
        /\ worker.result \in {"waiting", "satisfied", "failed"}
    BY <1>3, <1>t, Constants DEF Finish, HandOK, OnJob, Worker
  <2>2. b \in [Candidate -> 0..Forever]
    BY <2>1, Constants DEF StillBarred
  <2> HIDE DEF b
  <2>3. r \in JobRec
    BY <1>t, <2>1, <2>2 DEF JobRec
  <2>4. job' = [job EXCEPT ![j] = r] \/ job' = job
    BY <1>3, <1>t, <2>1 DEF Finish, b
  <2> HIDE DEF r, j
  <2> QED BY <1>t, <2>3, <2>4 DEF JobsOK
<1>4. CASE \E j \in Job : Select(j)
  <2>1. PICK j \in Job :
          job' = [job EXCEPT ![j].status = "waiting", ![j].next = now, ![j].claimed = FALSE]
    BY <1>4 DEF Select
  <2> DEFINE r == [job[j] EXCEPT !.status = "waiting", !.next = now, !.claimed = FALSE]
  <2>2. r \in JobRec
    BY <1>t DEF JobRec
  <2>3. job' = [job EXCEPT ![j] = r]
    BY <1>t, <2>1
  <2> HIDE DEF r
  <2> QED BY <1>t, <2>2, <2>3 DEF JobsOK
<1>5. CASE Crash
  <2>1. \A j \in Job : [job[j] EXCEPT !.claimed = FALSE] \in JobRec
    BY <1>t DEF JobRec
  <2> QED BY <1>5, <2>1 DEF Crash, JobsOK
<1>6. CASE Restore
  <2>1. PICK old \in {[job |-> NewJobs, art |-> NoArts], [job |-> job, art |-> art]} :
          job' = [j \in Job |->
            IF old.job[j].status = "running"
              THEN [old.job[j] EXCEPT !.claimed = FALSE, !.status = "waiting", !.next = 0]
              ELSE [old.job[j] EXCEPT !.claimed = FALSE]]
    BY <1>6, Zenon DEF Restore
  <2> DEFINE jobs == old.job
  <2>2. jobs \in [Job -> JobRec]
    <3>1. NewJobs \in [Job -> JobRec]
      BY IdleIsWorker DEF NewJobs, JobRec
    <3>2. old = [job |-> NewJobs, art |-> NoArts] \/ old = [job |-> job, art |-> art]
      OBVIOUS
    <3>3. old.job = NewJobs \/ old.job = job
      BY <3>2
    <3> QED BY <1>t, <3>1, <3>3
  <2>3. job' = [j \in Job |->
            IF jobs[j].status = "running"
              THEN [jobs[j] EXCEPT !.claimed = FALSE, !.status = "waiting", !.next = 0]
              ELSE [jobs[j] EXCEPT !.claimed = FALSE]]
    BY <2>1
  <2> HIDE DEF jobs
  <2>4. ASSUME NEW j \in Job
        PROVE  /\ [jobs[j] EXCEPT !.claimed = FALSE, !.status = "waiting", !.next = 0] \in JobRec
               /\ [jobs[j] EXCEPT !.claimed = FALSE] \in JobRec
    BY <2>2 DEF JobRec
  <2> QED BY <2>3, <2>4 DEF JobsOK
<1> QED BY <1>1, <1>2, <1>3, <1>4, <1>5, <1>6

\* The clock and the allowance keep their types.
LEMMA ClockTyped ==
  ASSUME SubtitleTypeOK, [SubtitleNext]_vars
  PROVE  ClockOK'
<1>t. ClockOK
  BY DEF SubtitleTypeOK, ClockOK
<1>0. CASE UNCHANGED allowanceVars
  BY <1>0, <1>t DEF allowanceVars, ClockOK
<1>1. CASE ReserveLink
  <2>1. Spend \/ Probe
    BY <1>1 DEF ReserveLink
  <2>2. CASE Spend
    BY <1>t, <2>2, Constants DEF Spend, ClockOK
  <2>3. CASE Probe
    BY <1>t, <2>3, Constants DEF Probe, ClockOK
  <2> QED BY <2>1, <2>2, <2>3
<1>2. CASE AskLink
  <2>1. CASE News /\ until' \in {now + reset : reset \in Resets}
    <3>1. until' \in Nat
      <4>1. PICK reset \in Resets : until' = now + reset
        BY <2>1
      <4> QED BY <1>t, <4>1, Constants DEF ClockOK
    <3>2. allowed' \in 0..Full /\ probing' = FALSE /\ now' = now
      BY <2>1 DEF News
    <3> QED BY <1>t, <3>1, <3>2 DEF ClockOK
  <2> QED BY <1>2, <1>0, <2>1 DEF AskLink
<1>3. CASE Restore
  <2>1. Hold
    BY <1>3, Zenon DEF Restore
  <2>2. allowed' = 0 /\ until' = now + Day /\ probing' = FALSE /\ now' = now
    BY <2>1 DEF Hold
  <2>3. now \in 0..MaxTime /\ 0 \in 0..Full /\ now + Day \in Nat
    BY <1>t, Constants DEF ClockOK
  <2> QED BY <2>2, <2>3 DEF ClockOK
<1>4. CASE PassTime
  BY <1>4, <1>t, Constants DEF PassTime, Tick, ClockOK
<1>5. CASE UNCHANGED vars
  BY <1>5, <1>0 DEF vars
<1>6. CASE \/ Begin \/ RecoverPublication \/ Recovered \/ Refresh \/ ClaimJobs \/ ClaimNone
           \/ NextJob \/ EndRun \/ Blocked \/ Broken \/ ReuseLocal \/ Defer \/ Paced \/ Search
           \/ Refused \/ ValidatePayload \/ Gate \/ Intent \/ WriteTemp \/ RecordReceipt
           \/ LinkTarget \/ Activate \/ UnlinkTemp \/ Done \/ Finish \/ Crash
           \/ \E j \in Job : Select(j)
  BY <1>6, <1>0 DEF Begin, RecoverPublication, Recovered, Refresh, ClaimJobs, ClaimNone, NextJob,
     EndRun, Blocked, Broken, ReuseLocal, Defer, Paced, Search, Refused, ValidatePayload, Gate,
     Intent, WriteTemp, RecordReceipt, LinkTarget, Activate, UnlinkTemp, Done, Finish, Crash,
     Select, Quiet
<1> QED BY <1>1, <1>2, <1>3, <1>4, <1>5, <1>6 DEF SubtitleNext, WorkerStep

\* Every step keeps the types.
LEMMA TypeStep ==
  ASSUME SubtitleTypeOK, CountsOK, WorkOK, StillOK, [SubtitleNext]_vars
  PROVE  SubtitleTypeOK' /\ CountsOK'
<1>1. Shape' /\ ClockOK'
  BY WorkStep, ClockTyped
<1>2. JobsOK'
  <2>1. CASE Refresh \/ ClaimJobs \/ Finish \/ (\E j \in Job : Select(j)) \/ Crash \/ Restore
    BY <2>1, JobsTyped DEF WorkOK
  <2>2. CASE UNCHANGED job
    BY <2>2 DEF SubtitleTypeOK, JobsOK
  <2> QED BY <2>1, <2>2
    DEF SubtitleNext, WorkerStep, Begin, RecoverPublication, Recovered, ClaimNone, NextJob,
     EndRun, Blocked, Broken, ReuseLocal, Defer, Paced, Search, ReserveLink, Refused, AskLink,
     ValidatePayload, Gate, Intent, WriteTemp, RecordReceipt, LinkTarget, Activate, UnlinkTemp,
     Done, PassTime, vars, tables
<1>3. /\ crashes' \in Nat /\ restores' \in Nat /\ crashes' + restores' <= MaxFaults
      /\ sidecars' \subseteq Local
  <2>0. /\ crashes \in Nat /\ restores \in Nat /\ crashes + restores <= MaxFaults
        /\ sidecars \subseteq Local /\ MaxFaults \in Nat
    BY Constants DEF CountsOK, SubtitleTypeOK
  <2>1. CASE Crash
    BY <2>0, <2>1 DEF Crash
  <2>2. CASE Restore
    <3>1. /\ crashes + restores < MaxFaults /\ restores' = restores + 1
          /\ sidecars' = sidecars /\ crashes' = crashes
      BY <2>2, Zenon DEF Restore
    <3> QED BY <2>0, <3>1
  <2>3. CASE UNCHANGED <<sidecars, crashes, restores>>
    BY <2>0, <2>3
  <2> QED BY <2>1, <2>2, <2>3
    DEF SubtitleNext, WorkerStep, Begin, RecoverPublication, Recovered, Refresh, ClaimJobs,
     ClaimNone, NextJob, EndRun, Blocked, Broken, ReuseLocal, Defer, Paced, Search, ReserveLink,
     Refused, AskLink, ValidatePayload, Gate, Intent, WriteTemp, RecordReceipt, LinkTarget,
     Activate, UnlinkTemp, Done, Finish, Select, PassTime, vars, Quiet
<1> QED BY <1>1, <1>2, <1>3 DEF SubtitleTypeOK, CountsOK, Shape, ClockOK, JobsOK, ArtOK

-----------------------------------------------------------------------------
(* The theorems.                                                           *)

\* There is nothing yet but the jobs.
LEMMA InitInv ==
  SubtitleInit => SubtitleInv
<1> SUFFICES ASSUME SubtitleInit PROVE SubtitleInv
  OBVIOUS
<1>1. /\ now = 0 /\ allowed = 0 /\ until = 0 /\ probing = FALSE
      /\ job = NewJobs /\ art = NoArts /\ worker = Idle /\ crashes = 0 /\ restores = 0
      /\ sidecars \subseteq Local
      /\ disk = [temp |-> [a \in Artifact |-> "none"], target |-> [c \in Candidate |-> None]]
  BY DEF SubtitleInit, AllowanceInit
<1>2. NewJobs \in [Job -> JobRec] /\ NoArts \in [Artifact -> ArtRec] /\ disk \in Disk
  <2>1. NewJobs \in [Job -> JobRec]
    BY IdleIsWorker DEF NewJobs, JobRec
  <2>2. NoArts \in [Artifact -> ArtRec]
    BY DEF NoArts, NoArt, ArtRec
  <2>3. disk \in Disk
    BY <1>1 DEF Disk
  <2> QED BY <2>1, <2>2, <2>3
<1>3. SubtitleTypeOK /\ CountsOK
  <2>1. now \in 0..MaxTime /\ allowed \in 0..Full /\ until \in Nat
    BY <1>1, Constants
  <2>4. probing \in BOOLEAN
    BY <1>1
  <2>2. crashes \in Nat /\ restores \in Nat /\ crashes + restores <= MaxFaults
    BY <1>1, Constants
  <2>3. job \in [Job -> JobRec] /\ art \in [Artifact -> ArtRec] /\ worker \in Worker
    BY <1>1, <1>2, IdleIsWorker
  <2> QED BY <1>1, <1>2, <2>1, <2>2, <2>3, <2>4 DEF SubtitleTypeOK, CountsOK
<1>4. HandOK /\ PublicationOK /\ StaleOK /\ RoomOK /\ MemoryOK
  BY <1>1, IdleIsWorker DEF HandOK, PublicationOK, StaleOK, RoomOK, MemoryOK, Looking, OnJob,
                            Holding, Publishing, Writing
<1>5. \A a \in Artifact : art[a].status = "none" /\ art[a].pub = "none"
  BY <1>1 DEF NoArts, NoArt
<1>6. Digests = {}
  BY <1>5 DEF Digests, ActiveArts
<1>7. RowsOK /\ ActiveOnDisk /\ DoneIsClean
  BY <1>5, <1>6, FS_EmptySet DEF RowsOK, ActiveOnDisk, DoneIsClean
<1> QED BY <1>3, <1>4, <1>7 DEF SubtitleInv

\* The invariant holds of every behaviour.
THEOREM SubtitleInvariant == SubtitleSpec => []SubtitleInv
<1>1. SubtitleInv /\ [SubtitleNext]_vars => SubtitleInv'
  BY WorkStep, TypeStep DEF SubtitleInv, WorkOK, StillOK
<1> QED BY <1>1, InitInv, PTL DEF SubtitleSpec

\* Tables and disk agree through every death between a file and its row, and every restore:
\* publish, recover_publication and the restore of an older database.
THEOREM TablesMatchDiskHolds == SubtitleSpec => []TablesMatchDisk
<1>1. SubtitleInv => TablesMatchDisk
  BY DEF SubtitleInv, TablesMatchDisk
<1> QED BY <1>1, SubtitleInvariant, PTL

\* A worker of an older epoch changes no job, no row and no allowance.
THEOREM FencedAfterRestoreHolds == SubtitleSpec => FencedAfterRestore
<1>1. SubtitleInv /\ [SubtitleNext]_vars =>
        (worker.stale /\ WorkerStep => UNCHANGED <<tables, allowed, probing>>)
  <2> SUFFICES ASSUME SubtitleInv, worker.stale, WorkerStep
               PROVE  UNCHANGED <<tables, allowed, probing>>
    OBVIOUS
  <2>1. worker.pc \notin {"recover", "intent", "receipt", "activate", "done"}
        /\ worker.pc \notin {"temp", "fill", "rename", "unlink"}
    BY DEF SubtitleInv, StaleOK, Leased
  <2>2. CASE \/ Begin \/ Recovered \/ ClaimNone \/ NextJob \/ EndRun \/ Blocked \/ Broken
             \/ ReuseLocal \/ Defer \/ Paced \/ Search \/ Refused \/ ValidatePayload \/ Gate
    BY <2>2 DEF Begin, Recovered, ClaimNone, NextJob, EndRun, Blocked, Broken, ReuseLocal, Defer,
       Paced, Search, Refused, ValidatePayload, Gate, Quiet, allowanceVars
  <2>3. CASE AskLink \/ Finish
    BY <2>3 DEF AskLink, Finish, FinishMatches, Quiet, allowanceVars, tables
  <2>4. CASE \/ RecoverPublication \/ Refresh \/ ClaimJobs \/ ReserveLink \/ Intent \/ WriteTemp
             \/ RecordReceipt \/ LinkTarget \/ Activate \/ UnlinkTemp \/ Done
    BY <2>1, <2>4 DEF RecoverPublication, Refresh, ClaimJobs, ReserveLink, Intent, WriteTemp,
       RecordReceipt, LinkTarget, Activate, UnlinkTemp, Done
  <2> QED BY <2>2, <2>3, <2>4 DEF WorkerStep
<1> QED BY <1>1, SubtitleInvariant, PTL DEF SubtitleSpec, FencedAfterRestore

\* No link is paid for what is on record, and nothing is published past the choice limit.
THEOREM PaidOnceWithinCapHolds == SubtitleSpec => PaidOnceWithinCap
<1>1. SubtitleInv /\ [SubtitleNext]_vars =>
        (ReserveLink => \A a \in ActiveArts : ~(art[a].event /\ art[a].cand = worker.cand))
  BY DEF SubtitleInv, MemoryOK, ReserveLink
<1>2. SubtitleInv /\ [SubtitleNext]_vars => (Activate => Cardinality(Digests') <= MaxSubtitles)
  BY ActivateStep DEF SubtitleInv, WorkOK, StillOK
<1> QED BY <1>1, <1>2, SubtitleInvariant, PTL
        DEF SubtitleSpec, PaidOnceWithinCap, PaidOnce, CapAtPublication
=============================================================================
