# Verification of seed-agent

seed-agent is two programs that share one YAML file and nothing else. The **seed
agent** watches trackers and "want" lists, ranks releases, hands them to a
downloader and prunes what it manages. The **media importer** watches the finished
downloads, hard-links them into a library under planned names, fetches subtitles and
posters, and cleans up when sources disappear. Each has an SQLite database of its own,
and each is interrupted, restarted and restored while files, downloaders and users go on.

This directory holds TLA+ modules translated from the source, TLC configurations that
check them on small instances, and TLAPS proofs of what holds for every instance. The
code is the reference: definitions carry the code's names where TLA+ allows it, and
`PROJECT.json` maps every definition to the lines it stands for. Paths below are
relative to the repository (`media_import/` is `src/seed_agent/media_import/`).

1. Inventory of the system
2. The modules and how they correspond to the code
3. Runs: what is checked, on which instances, and what they show
4. Disagreements between code and documentation
5. Proofs
6. Not modelled, and the plan


## 1. Inventory

### Media importer

| component | state | operations | what must be true |
|---|---|---|---|
| source scan (`engine.py` `inventory`, `scan`, `publish`) | `media_source_files` (one row per generation of a path), `media_scan_runs`, a staging table | walk a source root under count and time budgets; publish the walk in one transaction: rename, new generation, replacement, missing counters | rows agree with the walk; one row per path and generation for ever; tombstones are final; an incomplete walk counts nothing as missing |
| publication and repair (`recover`, `process_pending`, `plan_import`, `execute_link`, `finish_link`, `recover_publication`, `retire_old`, `review`, `series_preview`, `series_apply`) | `media_import_jobs`, `media_review_decisions`, `media_artifacts`, `media_artifact_sources`, `media_publications` with fences; temporary and final hard links | plan, record the intent, link, commit, unlink the temporary; recover an interrupted publication; replace an output after a review | temporaries are never forgotten; a newer review wins over a recovered intent and over an older preview; no output is orphaned; no live source loses its file |
| reconcile and cleanup (`reconcile`, `supporting_sources`, `execute_cleanup`) | `media_reconcile_actions` (persisted manifests), the links | find due sources, write the manifest, delete entry by entry, tombstone the source | shared outputs stay until their last supporter is gone; a tombstone means that the whole manifest went; mass disappearances stop at review |
| commands and worker (`commands.py`, `worker.py`, `role_health.py`) | `media_commands`, `media_runtime_status`, a worker lock | submit and coalesce, claim, execute, acknowledge; recover after a restart; phases and heartbeat fenced by instance and epoch | nothing uncertain is replayed; a command acts only under the epoch, configuration and baseline it was submitted under; the queue moves on |
| store, backup, restore (`store.py`, `maintenance.py`, `sqlite_io.py`) | `media_control.epoch`, `.access.lock`, `.media.lock` | connect under a shared lock; restore under both exclusive locks, with a new epoch | nothing of the old timeline writes into the restored one; spent allowances are not refunded |
| subtitle jobs (`subtitles/jobs.py`) | `media_subtitle_jobs` with claim token and lease, artifacts and publications, events | claim a due job, reuse a local file, search, download, validate, publish with the artifact protocol, retry with a backoff | tables and disk agree; an expired or restored claim changes nothing; nothing is paid for twice; the cap holds when it is counted |
| download budget (`subtitles/quota.py`) | one row of `media_provider_state` per provider | reserve before the request, settle with evidence, wait for a reset | the allowance is neither leaked nor refunded across crashes, workers and restores |
| posters (`artwork.py`) | jobs and shared poster artifacts | as videos, with posters shared by a series | as publication |
| metadata, routing, probing (`metadata.py`, `routing.py`, `roots.py`, `probe.py`, ...) | none | pure planning, external services | (inputs of the above) |

The worker is the only process that runs an engine; the engine's `lease` (a `flock` on
`.media.lock`) serialises it with restores. Web and CLI only insert commands. Users
change both trees at any time, and the operator edits the configuration, which every
publication checks again (`write_gate`).

### Seed agent

| component | state | operations | what must be true |
|---|---|---|---|
| scheduler (`cli.schedule_run`, `state.py`) | a lease row, control and trigger rows, `tracker_backoffs`, the backoff file, `tracker_api_events` | acquire, renew in a thread, run phases, take manual triggers, wait, guard the capacity, note and keep a tracker's pause | one scheduler runs phases; a trigger is served once and never lost; a pause is as long as the streak asks for, and kept |
| want queue and enqueue claims (`actions/intent.py`, `intent/workflow.py`, `state.py`) | wants, aliases, ranked releases, enqueue claims with an expiry | ingest, merge, claim, renew, resolve, call the downloader, complete or release | a want is handed to the downloader once; viewed, rejected and merged wants are not |
| want sources and searches (`cli._intent_run_once_payload`, `state.list_due_intents`, `search/`) | `source_cursors`, `want_search_runs` | fetch the sources, ingest, choose a batch of due wants, search, enqueue what is ready | no message is lost; no want is starved |
| tracker evidence (`cli._backfill_tracker_sources`, `sites/mteam.py`, `state.apply_torrent_runtime`) | candidate rows with what the tracker said of a torrent | one snapshot of the account, a fallback per torrent under a request budget | a torrent that starts to cost is stopped; none stays without evidence |
| candidate pipeline (`cli._run_once_payload`, `actions/pt.py`, `policies/`, `sites/`) | candidate rows | discover, score, check each before its link, gate by limits, add a batch | the limits count what is really there, whatever fails on the way |
| capacity guard and pruning (`actions/qb.py`, `policies/cleanup.py`) | the downloader's torrents, candidate rows | classify, delete up to a limit, look again before a delete, reconcile the rows | only what is in the way goes; a full pool comes back under its maximum |
| settings (`web/settings.py`, `config.py`, `config_views.py`) | the YAML file and its revisions | compare-and-swap saves, one view per role | no save is lost; no role runs under another role's section |
| web pages, metrics, audit, downloader adapters, seed maintenance | reporting, HTTP | | |

A scheduled cycle runs its phases one after the other under one lease: tracker backfill,
prune, discovery, wants. Beside it run the web server's requests and whatever the
operator starts on the command line; all share the state database, and the downloader
and the trackers are asked outside of any transaction.

### Which behaviours are hard

`PROJECT.json` lists the hazards line by line. In short: a directory walk is not a
snapshot; links and commits are separate, and a process may die between any two of
them; an intent left behind may be taken up by a later run, in a world where a review,
a new configuration or another import has made it stale; the database may be replaced
by an older one under a running worker; claims, leases and budgets race with the outside
calls they are to protect; and decisions are made on a listing of a downloader or a
tracker that is out of date when they take effect.


## 2. Modules

```
MediaInventory ─> MediaImport ─┬─> MediaCleanup ─┬─> MCMediaLibrary      (─> is EXTENDS)
                               └─> SeriesReview ─┘
Allowance ─┬─> SubtitleJobs
           └── implemented by DownloadBudget (INSTANCE)
TrackerEvidence ─> Admission
MediaCommands     Scheduler     SeedPool     WantQueue     WantSearch

proofs: MediaLibrary_proofs (MediaInventory, MediaImport, MediaCleanup, SeriesReview)
        Leases_proofs (MediaCommands, Scheduler)      Wants_proofs (WantQueue, WantSearch)
        DownloadBudget_proofs      SubtitleJobs_proofs
        FiniteSums ─┬─> Admission_proofs (TrackerEvidence, Admission)
                    └─> SeedPool_proofs
```

Each `MC` module gives one of these its small instance.

### Media importer

**MediaInventory** is the source table. `disk` is the tree, `row` is
`media_source_files`, `walk` what the traversal has read, `outcome` the last row of
`media_scan_runs`. `BeginScan`, `ReadPath` and `FailScan` are `inventory`, one name at a
time, while `TouchSource` changes the tree behind and ahead of it; `Publish` is the whole
transaction of `publish`, with a helper for each of its queries (`Kept`, `Aliases`,
`Relocated`, `NewPaths`, `Unseen`, ...), and `PublishRejected` is the transaction SQLite
refuses. A fingerprint is an element of `Ident`. The counters `stable_count` and
`missing_count` saturate where the code stops telling them apart, and `aged` stands for
"`grace_seconds` have passed". What import and cleanup write into this table is here
as `Imported` and `Tombstone`.

**MediaImport** extends it with the library. `lib` and `temp` are the final and the
temporary links, `art`, `pub`, `ref`, `job` and `dec` the five tables, `me` the engine's
program counter and locals, which `Crash` throws away. Each value of `me.pc` is a place
between two commits or system calls of the code, and each action is one transaction or
one `link`/`unlink` together with the checks right before it:

| pc | code |
|---|---|
| `recover`, `undo_*` | `recover` and the branches of `recover_publication` |
| `work`, `link`, `place` | `process_pending`, `plan_import`, the start of `execute_link` up to the commit that marks a missing output |
| `intend` | the commit of the new artifact with its publication and fence |
| `link_temp`, `link_target`, `finish`, `unlink_temp`, `pub_done` | the publication proper, shared by import and recovery |
| `succeed`, `retire*` | the end of `plan_import`, `retire_old` |

`Fail` is what `OSError` and `ValueError` lead to (they are caught per publication or per
source), `Clash` what `sqlite3.IntegrityError` leads to (it is not caught; `me.calm`
remembers that). The walk is one step here: MediaInventory has its interleavings. The
planner may return any mapping for an unreviewed source (`Mappings`); one is kept once it
is made. `Review` needs the engine's flock, so it happens when `me.pc` is `idle`.

**SeriesReview** extends MediaImport with `series_preview` and `series_apply`: a baseline
of every source of a series is shown to the operator and applied later, if it is still
the one that was shown.

**MediaCleanup** extends MediaImport with `reconcile`. `manifest` is the persisted
`media_reconcile_actions` row in state `executing`, `sweep` the locals. Between the
manifest and each unlink the tree, the library and the configuration may change, and the
process may die; `RefuseEntry`, `MarkDeleting`, `UnlinkEntry` and `MarkRemoved` are the
steps of one entry.

**MediaCommands** is the queue above these engines. `db` is the whole database, because a
restore replaces it as a whole: `db.cmd` is `media_commands`, `db.epoch` is
`media_control.epoch`, `db.plan` is the evidence that `baseline` digests, `db.applied`
records which commands' effects these tables contain. `form` holds `submit`'s locals
between its reads and its insert, `worker` those of `serve`, `process_one` and
`execute_command`, and `backup` is a copy a restore may put back. `request` and `effects`
are history: what was submitted under an identifier, and how often it took effect in the
world, which no restore rolls back.

**Allowance** is the abstract specification of a daily allowance: a number of links that
only falls until its period ends, with the probe of an unknown account as the one
exception. **DownloadBudget** is `quota.py` itself: one row with what is left, what is
reserved, a token and the next reset; `check`, `reserve`, `observe` and `sync` are its
transactions, and the provider's counter, which the code never sees directly, is
`provider`. Its users hold a link's answer or an account's answer in hand for any time,
lose it, die, and live through a restore. `Budget == INSTANCE Allowance WITH ...` reads
the row as the abstract number: a reservation counts as spent.

**SubtitleJobs** extends Allowance, so that the jobs run against the budget's promise and
not against its rows. `job` is `media_subtitle_jobs` (claim, lease, memory of what was
seen), `art` the artifact with its publication, its receipt and its event, `disk` the
temporary and final files. The worker's steps follow `SubtitleJobs.run` (recover, claim a
batch), `process` (local files, search, reserve, link, payload) and `publish` (gate,
intent, temporary file, receipt, link, row, unlink, event); `Restore` brings back an
earlier `job` and `art` while disk and allowance stay.

### Seed agent

**WantQueue** is the life of a want between those who may act on it. `caller[c].pc` is
where one thread or process stands between two transactions: ingesting an event, or
enqueuing (`Choose`, `Acquire`, `PassGates`, `Resolve`, `SaveResolved`, `Add`,
`Complete`) with `renew` and `release` on the way. An ingest is as many transactions as in
`add_intent`: the lookups (`StartIngest`, one step for reads that the code makes one after
the other), a merge for each duplicate (`IngestMerge`), the read of what is kept
(`IngestRead`), its refresh (`IngestRefresh`), and a step for each alias (`IngestAlias`);
the evidence rows are left out. `SaveSearch`, `MarkViewed` and
`MarkRejected` are single transactions of others. `client` counts what the downloader was
told to add; `doubt` and `merged` are history.

**Scheduler** is `schedule_run` as the processes that may run it. `lease`, `control` and
`trigger` are rows of the state database, `proc` the program counter of each process with
its renewing thread, `row`, `file` and `log` the tracker's backoffs and the events they
are counted from; `told` and `since` are history, the limits in a row and the events since the
first of them. `Tick` is time. A renewal may land late, be refused, or come after the
release (`LateRenewal`, `BeatFails`); `Stop` is SIGTERM and `Kill` is a death.

**SeedPool** is the pool of torrents that count against one budget. `live` is the
downloader, with torrents it does not list yet; `rows` the candidates; `job` what each of
two processes, the scheduler and an operator's command, has listed, planned and decided.
`Find` to `Save` is a run that adds; `PruneList` to `Final` one that prunes, with the look
before each deletion (`Recheck`), deletions that fail or work half (`DeleteOne`), and the
reconciliation of rows. `foreign` and `gone` are history: bytes that others added and took
since a process last looked.

**TrackerEvidence** begins a scheduled cycle: the batch snapshot, the fallback for what
it did not list, under a budget of requests and ordered by the age of the evidence, the
candidate rows it writes, and the part of the prune that deletes incomplete torrents
before they are charged. What is left to download and the name only order torrents
without evidence among each other; the model allows any such order. `cycle.rest` is
history: what the tracker asked for in this cycle, whether the code noticed it or not. A
torrent has the row of its tracker, the row of a second site, and which of the two is
the older; `older` orders the torrents by the age of their evidence, as far as the
fallback looks at it. **Admission** extends it with the end of the cycle: discovery, the
check of each candidate before its link, the gate for the bytes left to download, and
the batch of adds that may fail or die before it is recorded. Together they are a whole
cycle against a tracker that changes its mind between any two answers.

**WantSearch** is when wants are searched: the intent phase of a cycle (sources and their
cursor, the batch of due wants, the batch's search, the enqueue of what is ready), and the
web requests that poll the same bot and search the same wants. The history of a want is
kept as far as `next_search_at` looks at it: the status of its latest row, and in `older`
the order in which the latest rows of the wants were written.

Scheduler, SeedPool, Admission and WantSearch each take the others' guarantee: that one
scheduler is at work is shown in Scheduler and assumed in the others, claims and merges
are in WantQueue and absent from WantSearch, and the retention rules of the prune are a
kind chosen freely in SeedPool and, for incomplete torrents, computed in TrackerEvidence.


## 3. Runs

All runs are TLC's exhaustive breadth-first search; states are distinct states.

| run | states | asks |
|---|---|---|
| `inventory` | 1.3 M | Do the published rows agree with a walk that raced with the user (`SnapshotAgreement`), is the key unique over the history (`KeyUnique`), are tombstones final (`TombstonesStay`)? |
| `cleanup` | 1.9 M | One source that goes and returns, a death anywhere, and either a user in the library or a configuration that changes: is a temporary link always recorded (`TempRecorded`), does a review beat the recovery of an older intent (`ReviewWins`), does a tombstone mean that the whole manifest was removed (`TombstoneComplete`)? |
| `library` | 2.7 M | Two sources, in three histories: copies that share their outputs go one after the other, a file is replaced by another under review, a series is reviewed as a whole. Is every output still referred to (`OutputsSupported`), does no live source lose its file (`OutputStays`), does an old preview overwrite no newer review (`NewerReviewKept`)? |
| `commands` | 2.3 M | Submissions, a death, a backup and its restore, configuration changes at every step: is an effect ever repeated (`AtMostOnce`), made in another epoch or on other evidence (`PinnedAtEffect`), acknowledged without being there (`CompleteIsApplied`), queued twice (`PendingCoalesce`), or waited for without end (`EveryCommandSettles`)? |
| `budget` | 0.2 M | Two users of one account, with answers that are late, lost or of another period, a death and a restore: does the row never allow more than the provider grants (`WithinAllowance`), and does it implement Allowance (`ImplementsAllowance`)? |
| `subtitles` | 1.9 M | Two languages, two links to pay for and a local file, with a death or a restore: do the tables tell what is on disk (`TablesMatchDisk`), does a worker from before a restore change nothing after it (`FencedAfterRestore`), is nothing paid for again or published past the cap (`PaidOnceWithinCap`), and does every claim end (`RunningEnds`)? |
| `wants` | 5.1 M | Two callers that ingest, merge, search, enqueue, view and reject two wants of one work, with a claim that expires and an answer that is lost: is it added once (`AddedOnce`), does a claim that is good commit (`LiveClaimCommits`), does what was settled stay so (`SettledStays`), and is what counts as enqueued there (`WantsAreRecorded`)? |
| `scheduler` | 0.7 M | Two processes, of which one is stopped, killed or late, a trigger, and a tracker that limits, fails and is cleared: is one at work (`OneAtWork`), is a trigger in exactly one place and taken (`TriggersAreKept`, `SchedulerWorksOn`), is a pause kept by everybody (`QuietWhilePaused`), and as long as the row of limits asks for (`PauseFollowsStreak`)? |
| `pruning` | 1.2 M | The scheduler and an operator's command on one pool, with people, a death, failing deletions and torrents that are not listed yet: is what was decided on an earlier listing still right when it takes effect (`DecisionsStillRight`), does a prune bring a full pool below its maximum (`CapReached`, `CapRestored`), do the rows call deleted only what is (`RowsAreTrue`)? |
| `search` | 0.3 M | A want from Telegram and one from a list, one search per cycle, failures, pauses, gates and web requests: is no message lost (`WantsAreKept`), and is every want searched (`EveryWantSearched`)? |
| `tracker` | 0.6 M | Whole cycles over two torrents, one of which a second site lists too: is what the snapshot says acted on (`SnapshotIsActedOn`), does no call of any later phase follow a rest that the cycle has noticed (`RestIsKept`), does the limit of bytes left count everything that was added (`AdmissionWithinLimit`), does no torrent stay without evidence (`UnknownEnds`)? |
| `inventory_rename` | | the disagreement of section 4 |

A conjunction such as `TablesMatchDisk` is one property because its parts tell of one
thing; each part has its own comment in the module. The type invariants of the importer's
modules and DownloadBudget are proved for every instance (section 5) and not run.

### Bounds

*Importer: identifiers.* Two library paths are enough for an output to move, and for a
review to disagree with an intent; two sources for sharing and for replacement; two
fingerprints for a file that is replaced. `inventory` has two source paths: a rename, a
replacement and a copy each need two. The ambiguous move, where a file has left its path
and shows at two others (`OnlyCopy`), needs three and is beyond this run. Rows and
artifacts are never reused, so their number bounds how often a path is observed anew and
an output published; two or three of each reach an output, its replacement and one
publication after that. Where they run out the engine stops.

*Importer: histories.* `cleanup` and `library` are composed of histories, each a
restriction of what the user does, named in MCMediaCleanup and MCMediaLibrary. They are
apart because their product is too large (for the same reason nobody edits the library in
`library`; the theorems know no such limit), and each property is checked in all histories
of its run: people who edit the library beside a configuration that changes are not
checked together, nor is a series with a death.

*Importer: counters.* `MaxRevision = 2` is a review and one that overtakes it (3 for a
series). `MaxCrashes = 1`: each defect we met needs one death; what a second death could
add is one in the recovery of the first, and the recovery's actions are the
publication's. `MissingScans = 1` saturates at once; the grace period is a step of its
own. `MaxPending = 2` equals the commands of that run, so the queue's cap, a condition
inside the insert's own transaction, is not exercised. `MaxRestores = 1`.

*Budget and subtitles.* `budget` runs to two and a half periods of two units, so that an
answer of one period can come in the next and a reservation outlive its reset. In
`subtitles` the lease is one unit and the clock stops after one: a lease ends while its
holder waits, and one death or one restore follows or precedes. Three artifacts are one
more than the cap.

*Wants.* Two texts with one alias (a merge), two callers, one release: a second release
would only matter through `AddedOnce`, whose statement covers it and which the mutants
break with one. `Ttl = MaxTime = 1`: a claim is good, then is not. `MaxAdds = 2` lets a
second add be seen.

*Scheduler.* Instants are kept as what is left of them, so time is not bounded. Two owner
ids are a container and its successor; `Ttl = 2`, `Every = 1` is the least that leaves a
renewal one tick of slack. The streak has three places of the pause and a window of three
events. `Apart` (MCScheduler) gives it two histories: five refusals, outages and clears
with nothing else going on, or two of them beside a trigger or a fault. So a clear or an
outage falls between two limits, a row of limits reaches the last place exactly at the
edge of the window, and a longer one, with an outage in it, outgrows the window; and two
limits have a restart between them. `MCSchedulerBackoff.cfg`, which is not a run, has the
five with a fault anywhere (3.8 M states).

*Pruning.* Candidates of one and two units in a pool of two, and one torrent of somebody
else: the larger fits beside nothing, the smaller two fill the pool. The limit is one
deletion. `MaxOdd = 2` bounds
the odd events together: what people do, failures and deaths count one, an operator's
command two, so that a command runs beside an undisturbed scheduler.

*Search, tracker.* One search per batch with two wants is what starvation needs. Two
torrents and two requests: the fallback of one spends the budget of the other.
`Doubles = {1}`: one torrent is listed by a second site, one is not. `Refused = {}` in
`search`: with a want whose search always raises, `EveryWantSearched` does not hold
(section 4).

*Deadlock.* `CHECK_DEADLOCK FALSE` is set where the bounds stop the system: the clock or
the artifacts run out (`library`, `subtitles`, `wants`, `budget`). Elsewhere TLC checks
that something can always happen.

*Symmetry.* Identifiers of files, rows, artifacts, users and callers are interchangeable
and no property names one of them, so the safety runs use symmetry; runs with liveness
properties do not.

### Fairness

| specification | fairness | because |
|---|---|---|
| MediaCommands | `WF(WorkerStep)` | `serve` polls every 2 seconds and waits for no other process (locks are bounded, `flock` does not block); compose restarts the worker (`on-failure:5`), more often than it dies here |
| SubtitleJobs | `WF(WorkerStep)`, `SF(PassTime)` | the same worker; no wait is for ever, while a cycle may be in progress whenever one looks |
| Scheduler | `WF(Step(p))` per process, `WF(Tick)` | a main thread goes on, a container that is gone is followed by the next, and time passes; of the renewing thread nothing is assumed |
| SeedPool | `WF(Schedule \/ Step("scheduler"))`, `WF(Showing)` | the scheduler goes on (see Scheduler), and a downloader lists in the end what it accepted; nothing of the operator's command |
| Admission | `WF(Step)`, for each torrent `SF` of a prune that deletes it | the scheduler goes on; a deletion that is tried again and again does not fail for ever; nothing of the tracker, nor of the hours of its backoffs |
| WantSearch | `WF(Scheduled)`, `WF(DailyHour)`, `WF(PauseEnds)`, `WF(WaitEnds(w))`, `SF(CycleBegins /\ ~paused')`, `SF(SearchSucceeds /\ w \in cycle.batch)` per want | time passes; the tracker is not limited in every cycle; a search that includes the want and is tried again and again succeeds once |

MediaInventory, MediaImport, MediaCleanup, SeriesReview, DownloadBudget and WantQueue are
safety only.


## 4. Disagreements

`inventory_rename` expects a violation. A rename keeps the row's generation. If the
target path has, or ever had, a row of that generation, `UNIQUE(profile,path,generation)`
refuses the transaction, and `sqlite3.IntegrityError` is not among the errors `scan`
catches: this scan, and every later one that sees the same move, ends the worker's run.

The configurations below are not among the runs: each checks one sentence of the
documentation, and TLC finds it violated by what the code does. They are kept to
reproduce the counterexamples (`tlc -config <file> <module>`).

| configuration, property | a document says | the code does |
|---|---|---|
| `MCMediaImportGrace.cfg` (MCMediaImport), `NothingGoesWithoutGrace` | outputs go only after missing observations and grace, and stay for active sources (`docs/ai/modules/media-import.md:174-177`) | a death after `retiring` is committed and before the unlink leaves an intent that does not hold the path's index; if another source is imported onto that file, the resumed retirement unlinks it. `OutputStays` sets the two stale intents (this one, and the undo of a publication that was given up) apart, and the outputs the tables gave up before (the next line) |
| `MCMediaImportEdited.cfg` (MCMediaImport), `NothingGoesWithoutGrace` | the same, with no death and no stale intent | of two hard-linked copies one is imported, the user deletes its library file, and the other copy is imported to the same path before the first is looked at: `execute_link` (`engine.py:708-713`) marks the artifact `target_missing` and records a new one, which supports this copy only, while the first still counts as imported there. When the second copy is reviewed to another path, the output it leaves supports nobody else, and is unlinked. With three sources and four artifacts the same happens with nobody in the library, after a stale intent took the file; the proof of `OutputStays` showed this, and why it speaks of `GivenUp` |
| `MCMediaImportClash.cfg` (MCMediaImport), `NoUncaughtError` | interrupted publication resumes from receipts (`docs/operations/media-import.md:198-199`) | the interrupted publication holds the path's partial unique index; a run that only processes plans the source again, and its insert raises an error that nothing catches |
| `MCMediaCleanupOrphan.cfg` (MCMediaCleanup), `OutputsSupported` | removing a source eventually removes its owned library files (`docs/operations/media-import.md:192-193`) | an `executing` manifest left by a crash is taken up again the next time its source is due, even when the source came back and was imported anew; the new output is on no manifest, and the tombstone leaves it without a source |
| `MCSubtitleJobsCap.cfg` (MCSubtitleJobs), `CapHolds` | `max_subtitles` is the sole choice limit, shared by all payloads of a source (`docs/ai/modules/media-import.md:272-276`) | the cap is counted before a publication (`subtitles/jobs.py:516`); an interrupted publication that counts for nothing is finished later by recovery (`engine.py:229-262`), which does not count |
| `MCWantQueueMerged.cfg` (MCWantQueue), `MergedStays` | wants of several lists do not duplicate searches or downloads (`docs/ai/modules/intent-loop.md:65-67`) | a caller reads a want, another merges it away, and the first saves its refresh: the duplicate is back, without its alias (`actions/intent.py:61-126`). With a third caller, the stale refresh may also lower a want that was brought back and is being enqueued, so `LiveClaimCommits` sets wants that were merged away apart |
| `MCSchedulerTaken.cfg` (MCScheduler), `TakenByOwner` | triggers are consumed atomically when the lease owner starts a cycle (`docs/ai/modules/state-audit.md:106-108`) | the transaction that takes the trigger does not look at the lease (`state.py:315-342`), and the look is before it (`cli.py:2149-2155`): a process whose lease is over takes the trigger and may end with it |
| `MCSeedPoolLimit.cfg` (MCSeedPool), `EvictionLimitKept` | a deletion count per run bounds capacity evictions below the hard cap (`docs/ai/modules/cleanup.md:53-56`, `docs/roadmap.md:338-339`) | the limit is compared before the look, the class is computed anew after it (`actions/qb.py:356-374`): a deletion that was mandatory at first and is an eviction after the look passes, and counts |
| `MCWantSearchRefused.cfg` (MCWantSearch), `BacklogDrains` | batches continue until the backlog is drained (`docs/operations/docker-scheduling.md:75-77`) | one want whose search always raises aborts the batch for all (`actions/intent.py:664-705`, `search/mteam.py:200`), and is in every batch again |
| `MCAdmissionOverlooked.cfg` (MCAdmission), `FailuresStopCalls` | HTTP 429 and service or network failures stop later tracker calls in the cycle and feed scheduler protection (`docs/ai/modules/mteam.md:26-28`) | the backfill asks for one snapshot per account (`cli.py:4378-4406`); when a later account's fails, what the accounts before it listed is kept, and each target is looked up there before the error is looked at (`cli.py:4486-4503`). If all targets were listed, the failure is on no result, and the scheduler, which looks at results only (`cli.py:4615-4640`), notes no backoff: discovery and the checks of candidates call the tracker in the same cycle. In the model this failure is `cycle.rest = "overlooked"`; every other one is `"due"`, and for those `RestIsKept` holds in all phases |
| `MCAdmissionDoubles.cfg` (MCAdmission), `BatchMatchIsActedOn` | a batch match refreshes promotion state immediately (`docs/ai/modules/mteam.md:68-69`) | the prune reads the oldest candidate row of a torrent (`state.py:1382-1407`, ordered at `1603`), and a row of a second site, linked by title (`cli.py:3568-3604`), may be older than the one the snapshot refreshed. `SnapshotIsActedOn` sets apart only what the second row contradicts |

Noted while modelling, without a configuration:

* *Importer.* After a rename back, a path's latest *content* may not be its highest
  generation. A death between `finish_link` and the retirement of predecessors is never
  resumed, since the source counts as imported, and the predecessor's output stays.
  Recovery adopts an equal hard link the user made at the target as its own. A source that
  returns keeps the label `missing_pending`. `review` saves its decision under a
  configuration that changed after `execute_command` looked at it; the publication that
  follows is fenced.
* *Commands.* A command inserted by a `submit` that read the epoch before a restore is
  refused when claimed, and its acknowledgement matches no row, so it shows `running` until
  the worker restarts (`EveryCommandSettles` sets these apart, and shows that they hold up
  nobody else).
* *Pool.* An `enqueued` row without a hash whose torrent vanished is never reconciled, as
  the discovery refreshes `updated_at` right before. The `enqueue` command does not filter
  candidates that are `deleted`. Two prunes side by side evict more than one would. A
  torrent moved to a category no policy names counts as missing. A listing that fails at
  the look before a deletion is not a `MutationBatchError`, so the deletions before it are
  not recorded.
* *Scheduler.* A batch snapshot that succeeds does not end the streak of
  `torrent/search`. After SIGTERM the renewing thread is joined for 5 seconds only; a
  renewal may land after the release and keep the next scheduler out for a lease.
* *Searches.* A `skipped_backoff` row becomes the want's latest: it drops the 30 minutes
  of a failure before it, keeps its own deadline after the operator cleared the pause, and
  hides the want from `retry_ready`. A web search of many wants has no batch limit.
* *Tracker.* An API error that is neither a limit nor 5xx makes the snapshot an "error",
  and then every incomplete torrent that matched nothing is a risk and deleted. Complete
  torrents that are never found are tried again in each cycle. With
  `tracker_backfill_max_api_requests` below 7 a torrent that is not found never gets an
  end. Linking a candidate by title makes its evidence recent although no tracker was asked.
  `run-once` resolves download links of candidates that are active already, and before
  the runtime gates. `max_active_downloads` does not count what is queued, and two
  enqueues side by side may pass a shared limit together.


## 5. Proofs

`tlapm` checks every leaf of the eight proof modules; nothing is assumed but the named
assumptions on constants, which TLC evaluates in every run. They say that bounds and
durations are natural numbers, positive where the code's validation asks for it, that
`None` is not a value it stands against, and what the tables of the instance range over;
anything beyond that is named below. The bounds that TLC needs (`MaxTime`, `MaxCrashes`,
`MaxAdds`, ...) may be any number, and so may the sets of sources, artifacts, callers and
processes.

**MediaLibrary_proofs** begins with the source table, MediaInventory, for any sets of
paths, fingerprints and row identifiers (`InventoryAssumption`: `None` is neither a path
nor a fingerprint, and the grace period is at least one scan).

* `TypeCorrect`: `Spec => []TypeOK`.
* `KeyUniqueHolds`: `Spec => []KeyUnique`.
* `SnapshotAgreementHolds`: `Spec => []SnapshotAgreement`.
* `TombstonesStayHolds`: `Spec => TombstonesStay`.

`KeyUnique` is not inductive alone. A first observation takes the generation after the
latest row of its path (`FirstSeenIsNew`), so one has to know that a path with rows
has a latest one, although `Row` may be infinite. That holds because the generations in
use are naturals below some bound: `GenBounded`, with `GreatestNatural` and
`LatestExists`. So the inductive invariant is `IInv == TypeOK /\ KeyUnique /\ GenBounded`.
The one step that could break the key is a rename onto a path that has the row's
generation already; it is the `KeyClash` that `Publish` excludes and `PublishRejected` is
left with (`PublishedInvariant`).

`SnapshotAgreement` counts the live rows of a path that are not missing; `Agrees` says the
same without counting. The rows that stand for a file of the walk are kept, relocated or
first seen, and a path has one of them: the latest generation is unique because the key
is (`OneStandsFor`), a row is relocated for the only copy there is, and a first
observation takes place only where there is neither. Every other live row is counted
missing (`PublishedPresent`, `PublishedAgrees`).

It goes on with MediaImport, MediaCleanup and SeriesReview, for any library, any number
of sources, artifacts and configurations, and any number of deaths (`ImportAssumption`,
`CleanupAssumption`, and the inventory's). `IInv` is a part of every invariant here,
because publishing a scan and repairing the library share the source table.

* `ImportTypeCorrect`, `TempRecordedHolds`, `OutputsSupportedHolds`, `ReviewWinsHolds`, for
  the importer alone (`ImportSpec`), from `SupportInvariant`.
* `CleanupTypeCorrect`, `TempRecordedInCleanup`, `TombstoneCompleteHolds`,
  `ReviewWinsInCleanup`, with the cleanup (`CleanupSpec`), from `CleanupInvariant`.
* `NewerReviewKeptHolds`, `OutputsSupportedInSeries`, with the review of a series
  (`SeriesSpec`), from `SeriesInvariant`.
* `OutputStaysHolds`, `OutputStaysInCleanup`, `OutputStaysInSeries`, for the three of them.

`ImportInv` is what both have in common. `EngineOK` says what each program counter knows
of the publication in hand: that its row is pending until it is settled, that the recovery
has it off its list, that the output it will activate is the one the decision asks for,
and that its temporary link is gone where the row is about to be closed. `TempRecorded`
needs the last of these, and `ReviewWins` the one before. `FencesOK` keeps what a fence
tells beyond its engine's life: a recovery compares the fence with the decision of now,
and equal revisions mean an equal path, because a decision is only overwritten with a
higher revision. So the comparison of numbers in `FenceNow` is enough. `OutputsSupported`
needs `HeirsOK`: between the transaction of `finish_link` and the one that retires the
predecessors, the source in hand is imported and not itself a predecessor; there the
outputs change hands (`Inherited`). With the cleanup it is false, as
`MCMediaCleanupOrphan.cfg` shows (section 4), and so it is no part of `CleanupInv`. There
`SweepOK` says that each entry of the manifest in hand is still to do, in hand, or
removed, unless one was refused; while the sweep goes on nothing activates a removed
artifact, and a tombstone is written only when none is left to do and none was refused.
`EngineApart` keeps the engine's steps out of a sweep, and lets its lemmas serve for both
specifications. A preview shows each source with the decision it is based on. `ShownOK`: a
source that was reviewed since then has a decision of a higher revision, because no step
replaces a decision but by a higher one (`DecisionsGrow`). So the comparison of what is
shown with what is there, in `series_apply`, tells every newer review.

`OutputStays` is about the moment of an `unlink`, and what makes it right was decided
several transactions earlier. `StaysInv` follows it through the tables. `Counted`: each
imported source that is there refers to an output at its path that stands, or stood until
something else took it over. `OnePath` is the partial unique index, so at most one output
holds a path; `Unshared`: nobody refers to an output before it is active. `TakesOK` says
what the engine is about to take: an output at another path than the one its source is
imported to now, which nobody else counts on and nothing else stands for, unless the
intent is a stale one; no step in between lets anybody come to need it. `FirstScanned`
and `FreeHands` close the cases of rows that were never planned and of an engine between
two sources. If a source lost its file all the same, the output it counts on would be
one that no longer holds the path, and that is `GivenUp`. Nothing is assumed of what
people do to the library (`Edited` may be every path). The cleanup needs more,
`SweptInv`: every entry of a manifest has been an output (`EntriesOK`), and only sources
that are missing count on what is being deleted (`GivingOK`), because `MarkDeleting`
looks at the supporters again in the transaction that records the intent. A series only
opens jobs (`StaysApply`).

**Leases_proofs** has the two protocols of claims and leases. For MediaCommands, any
finite set of identifiers and any number of submitters, deaths, restores and
configurations (`CommandsAssumption`, `NoneIsNoRequest`).

* `CommandsTypeCorrect`: `CommandsSpec => []CommandsTypeOK`.
* `AtMostOnceHolds`, `CompleteIsAppliedHolds`, `PendingCoalesceHolds`: the three safety
  invariants of the run.
* `PinnedAtEffectHolds`: `CommandsSpec => PinnedAtEffect`.

The inductive invariant adds what each protocol step relies on. `EpochsPast`: no form,
request or engine refers to an epoch that has not begun, and what is pending or in hand
was requested; so after a restore every request is of an older epoch. `NotYet`: what is
queued, or in hand before its effect, has had none; a claim, a restart and a restore keep
it because each of them takes a command out of `queued` for good. `Pins`: between its
checks and the lease, `execute_command`'s findings stay true unless the epoch changes,
because only a restore and the worker itself change the evidence. `Outcome`: an outcome
to be acknowledged is true in its epoch, and so is the backup's. Each part is preserved
on its own (`StepType`, `StepEpochs`, `StepNotYet`, `StepPins`, `StepOutcome`,
`StepCoalesce`), one case per action, over lemmas that say what an action does to the
rows (`InsertEffect` ... `IdleEffect`).

For Scheduler, any number of processes, any lease and renewal times, any
configuration, and any log window (`SchedulerAssumption`).

* `TriggersAreKeptHolds`, `OneAtWorkHolds`, `QuietWhilePausedHolds`, from
  `SchedulerInvariant`.
* `PauseFollowsStreakHolds`: `Spec => PauseFollowsStreak`.

`LeaseOK` is the argument for the lease: a live process that never missed a renewal owns
it, and what is left of it and the time since its last renewal together make at least
`Ttl`. As `Every < Ttl`, the lease is not over when the next renewal is due, so nobody takes
it over, and two such processes would own it both. `HeldOnce` and `RunOnce` follow a
trigger from the queue to a process's hand to the row of a run; `RunOnce` ties the
program counter to whether it ran. `QuietOK`: a cycle that knows of no pause runs while
there is none; each phase reads the rows before it starts, and with one at work nobody
else notes a limit in between.

The length of a streak is a number of elements of a log: `StreakAfter` says what one more
event makes of it, and `StreakOK` ties it to what the tracker has said (`told`). Once the
window is full, the oldest events are lost, and a streak that reaches beyond it looks
shorter. `since` counts the events from the first limit of the row on, so it says when
that is: while it is at most `Window`, all limits of the row are among the last `since`
events (`StreakOK`), and the pause is the one of the true place; after that it is the one
of an earlier place, and never of a later one. Nothing is assumed of how often the tracker
refuses. The code counts over the last 100 events (`cli.py:2548`) and has four places
(`cli.py:134`), so its pause is too short only where a row of limits has outgrown 100
events and fewer than four of them are among these.

**DownloadBudget_proofs**, for any set of users, any period, and any number of deaths and
restores (`BudgetAssumption`, `NoneIsNoRow`).

* `BudgetTyped`: `BudgetSpec => []BudgetTypeOK`.
* `NeverOverdrawn`: `BudgetSpec => []WithinAllowance`.
* `BudgetRefines`: `BudgetSpec => ImplementsAllowance`, the refinement: the initial states
  map to `AllowanceInit` (`RefinesInit`), and each step to a step of Allowance or a stutter
  (`RefinesStep`), over typed values of the mapping (`MappedTypes`).

`WithinAllowance` speaks of what the row still allows, and a reservation makes that
unknown; it is settled later with the answer. So the inductive invariant `BudgetInv` adds
what a reservation keeps in the meantime. `RowOK`: a row with a token allows nothing, and
reserves less than the full allowance. `UserOK`: a user whose reservation is in the row
has, before it asks, a link more at the provider than it reserved, after that as many, and
the number in an answer or an account read is granted unless its period is over. Links
that are asked for after their reservation ran out are what `late` counts.

**SubtitleJobs_proofs**, for any languages, candidates, sidecars and artifacts, any leases,
delays and caps, and any number of deaths and restores (`SubtitleAssumption`).

* `TablesMatchDiskHolds`, `FencedAfterRestoreHolds`, `PaidOnceWithinCapHolds`, from
  `SubtitleInvariant`.

`SubtitleInv` follows a publication on both sides. `PublicationOK`: while the worker writes
one, its row is pending, nobody else's file is at the target before the link, and its own
is there after it. `RoomOK`: between the count of contents and the row there is room for
one more, since only the leaseholder publishes, and a recovery runs before its jobs do.
`MemoryOK`: while a job looks for a candidate, it is barred from every published one
whose event is on record; this is what the rebuilding from events (`Rebuilt`) has to
establish after a death or a restore, and what `PaidOnce` follows from. `StaleOK`: no
worker from before a restore holds the media lease. That the cap may be passed by a
recovery that counts nothing (`MCSubtitleJobsCap.cfg`) does not contradict it: the theorem
is about the publication that a run counts for.

**Wants_proofs**. For WantQueue, any number of callers, wants, releases and sources
(`WantAssumption`, `NoneIsNoRecord`).

* `WantsAreRecordedHolds`, `AddedOnceHolds`, `SettledStaysHolds`, `LiveClaimCommitsHolds`,
  from `WantInvariant`.

`AddedOnce` speaks of the downloader alone; what keeps it is spread over three places. `ClaimsOK`: a
caller that enqueues owns the claim, or lost it to somebody who has put the want in
doubt. `AddsOK`: what was added is recorded, or the claim still tells of it, and nothing
was added yet for a want somebody else is about to add. `LiveOK`: a want under a good claim is there
and not settled, because every transaction that could settle it looks at the claim.
`ReadsOK` and `RecordsOK` do the same for the copies that callers have read and will save:
a want that was settled when it was read still is, unless a merge took it away. The
proof is what showed that `LiveClaimCommits` needs the exception for merged wants: its
counterexample takes three callers, one more than the run has.

For WantSearch, any finite set of wants, any messages and lists, any batch and any number
of web requests (`SearchAssumption`):

* `WantsAreKeptHolds`: `Spec => []WantsAreKept`, from `SearchInvariant`.

A message that Telegram has dropped was confirmed by an offset, which is a cursor some
phase stored, or one a web request polled with. `CursorOK` follows it back: every update
up to the cursor is on the Want List, and one up to the offset of a cycle that may still
store it is there or among the events in hand. So a failure of any later step costs no
message, but the cycle that failed must not be clean. `HistoryOK` says that the latest
rows are in a line by age (`InARow`), which the batch of the longest waiting needs in order
to be a set of wants at all; sorting a batch and writing its rows keeps the line.

**Admission_proofs** is about a whole cycle, TrackerEvidence and Admission, for any finite
set of torrents with any sizes, any limit of bytes, and any limit of requests that lets
the fallback finish one torrent (`TrackerAssumption`, `AdmissionAssumption`).

* `RequestsWithinLimit` and `RestIsKeptHolds`, from `CycleInvariant`.
* `LimitKeptHolds`: `AdmissionSpec => []LimitKept`, the limit in `AdmissionWithinLimit`,
  and `AdmissionWithinLimitHolds`, all of it.
* `SnapshotIsActedOnHolds`: `AdmissionSpec => []SnapshotIsActedOn`, with any torrents
  listed by a second site.

`RestIsKept` forbids every call of the tracker after a failure that asks for a rest: the
snapshot, a request of the fallback, the list of the discovery, the check of a
candidate. Nothing in the code stops them at one place. `RestOK` says, phase by phase,
how the rest is carried on: in the backfill every target that is left gets the failure's
status or finds no requests, so that one of them is noted (`met`); a prune with it does
not go on to the discovery; and a discovery that failed leaves no candidates to check.
`LimitKept` is not inductive, because the gate decides once for a whole batch while each
download is added by a step of its own. So `RoomOK`: until the batch is added, what this
program downloads and what is still in the batch stay within the limit together. A
torrent that is added moves from the one to the other (`Takes`), one that completes or
goes makes room (`Leaves`), and an add that failed after the downloader took the torrent
is covered by the same room. The batch itself is what fits beside everything that is
left in the downloader.

`TypesInv` adds to it what is in the tables and in the cycle: `TableOK`, the evidence is
in a line by age (`OrderOK`), whatever is learned of some torrents at once; `Cycles` and
`PlanOK`, the counters stay in their bounds and the lists to do name each torrent once.
`SnapInv` adds how a word of the snapshot gets to the prune: `FollowsOK`, a torrent it
listed waits to be looked at or its row says what the snapshot said, and the fallback is
not asked for it. Of a torrent with the row of a second site, too, the prune may read that one,
if it is the older; it then says the same as the snapshot, or it is the case that
`SnapshotIsActedOn` excepts and `MCAdmissionDoubles.cfg` shows (section 4).

**SeedPool_proofs**, for any finite set of torrents of any sizes, any limits, and any
number of people, commands and faults (`PoolAssumption`: the torrents are finitely many,
a command is a run, an enqueue or a prune).

* `RowsAreTrueHolds`, `DecisionsStillRightHolds`, `CapReachedHolds`, from `PoolInvariant`.

The first part of `PoolInv`, `RowsInv`, is about names. `RowsOK`: a candidate that was
never taken away is where it was put and is listed once its row is old, so a listing that
lacks it proves nothing while the row is young. `Accounted`: what a process has seen is
there or was taken, and nobody's row grows old while a listing is still to be reconciled.
`OutOK`: a discovery keeps apart what was evicted before it began. `Swept`: a prune works
through one listing, policy by policy, and what it deleted is off its list.
The second part, `BytesOK`, is about sums, and relates two processes by what others have
done since one of them looked (`foreign`, `gone`). `SumsOK`: a prune counts only what it
deleted. `RoomOK`: what a plan adds fits beside what is there, but for `foreign`.
`StillOver`: while a prune needs bytes, nothing has left the pool but what it counts, and
`gone`. `HandOK`: the need it computed at the look is the need at the deletion.
`NobodyAdds`: as long as nobody adds, what is in the pool was listed and is still ahead of
the prune, so a full pool cannot run out of torrents before it is below the maximum.

**FiniteSums** has what both need of sums: a sum of naturals is one (`SumNat`), any element
may be taken out (`SumRemove`), a subset has no larger sum (`SumSubset`), and a sum splits
over disjoint sets (`SumSplit`). The sums are the library's fold over a set, which takes
the elements in an order of its own; the lemmas are proved from its definition, by the
smallest set for which they would fail, because the induction theorems themselves cannot be
used here.

What stays with TLC is liveness under fairness, which is outside what the prover
handles: `RunningEnds`, `EveryCommandSettles`, `SchedulerWorksOn`, `CapRestored`,
`EveryWantSearched` and `UnknownEnds`. Every other property of the passing runs is
stated by a theorem, under no condition but the assumptions on the constants. What a
recursive definition over data computes for every input needs induction, which the
installed provers cannot instantiate; the smallest counterexample replaces it for the
sums, and would have to be found anew for each definition. `RECURSIVE` operators are out
of reach, too, and the modules avoid them. The provers have no definition of
`SelectSeq`, and little use for `SetToSortSeq`: where the proofs need what these return,
the model says it directly.


## 6. Not modelled, and the plan

Left out of the modules above: posters, several destinations of one source, empty owned
directories (`prune_dirs`); embedded subtitles, and jobs that a changed mapping resets; the
preview policies, which only record rows; the media worker's heartbeat thread and health
report; the disappearance of many sources at once, which needs a mount that comes and
goes over several scans; the liveness of the import loop, where the unfinished retirement
of predecessors (`engine.py:637`) would show. Of the seed agent: the settings file's
compare-and-swap and `MediaConfigGuard`; the maintenance of its database; the retention
rules of complete torrents, scores, and the matching of titles, whose outcomes are free
choices.

Left out for good: HTTP adapters, parsing (RSS, Torznab, tracker pages, media names),
metadata, routing and probing, web pages, metrics, audit and migration code, which keep no
protocol state.

Next, in this order:

1. **Settings**: compare-and-swap of the one file, and the guards of the two roles.
2. Liveness of the import loop, and mass disappearance over several scans.
3. An abstract specification of WantQueue (each want is handed over at most once, but for
   the adds whose outcome is lost) and of the scheduler's lease, with their refinements.
