------------------------------ MODULE Scheduler ------------------------------
(***************************************************************************)
(* The seed scheduler (cli.schedule_run) as the processes that may run it: *)
(* the lease in the state database, the thread that renews it, the cycle   *)
(* with its phases, the wait with its triggers and capacity guard, and the *)
(* tracker's backoff that a cycle reads and writes.                        *)
(*                                                                         *)
(* A process is one owner id, numbered in the order in which they first    *)
(* get the lease: a container that is restarted is a later number.         *)
(* Instants are kept as what is left of them, so that time never runs out: *)
(* a lease or a pause ends at 0.                                           *)
(***************************************************************************)
EXTENDS Integers, Sequences, FiniteSets, SequencesExt

CONSTANTS Procs,         \* processes that run schedule-run, each with its owner id
          Enabled,       \* the phases the configuration turns on
          Ttl, Every,    \* ticks a lease lives and ticks between two renewals
          Hours,         \* MTEAM_RATE_LIMIT_BACKOFF_HOURS, in ticks
          NetPause,      \* MTEAM_NETWORK_BACKOFF_MINUTES, in ticks
          Window,        \* tracker events the streak is counted over
          MaxTriggers, MaxFaults, MaxBad   \* bounds of the instance

ASSUME SchedulerAssumption ==
  /\ {Procs, Ttl, Every, NetPause, Window} \subseteq Nat \ {0}
  /\ Every < Ttl
  /\ Hours \in Seq(Nat \ {0}) /\ Hours # <<>>
  /\ {MaxTriggers, MaxFaults, MaxBad} \subseteq Nat
  /\ MaxFaults < Procs
  /\ Enabled \subseteq {"tracker_source_backfill", "prune", "pt_discovery", "intent"}

VARIABLES lease,     \* the row of scheduler_leases
          control,   \* scheduler_controls.phase
          trigger,   \* the row of scheduler_triggers, 0 when there is none
          proc,      \* the processes: their place, their thread and what they hold
          row, file, \* what is left of the pauses: tracker_backoffs and the file
          log,       \* tracker_api_events, the newest first
          asked, runs,             \* triggers queued so far, and their run rows
          late, stopped,           \* heartbeats missed, processes ended
          told, since,             \* limits in a row, and events noted since the first of them
          bad                      \* refusals of the tracker and clears so far

state   == <<lease, control, trigger, proc>>
tracker == <<row, file, log, told, since, bad>>
counts  == <<asked, runs, late, stopped>>
vars    == <<state, tracker, counts>>

Endpoint == {"member/getUserTorrentList", "torrent/search"}
Proc     == 1..Procs
Nobody   == [owner |-> 0, left |-> 0]
Intents  == {"intent_search", "intent_source_sync"}
Tracker  == {"tracker_source_backfill", "pt_discovery", "intent_search"}
Phases   == Tracker \cup Intents \cup {"prune", "guard"}
Places   == Phases \cup {"new", "begin", "renew", "open", "mark", "wait", "waited", "gone"}

Live(p)     == proc[p].pc \notin {"new", "gone"}
InCycle(p)  == proc[p].pc \in Phases
Faults      == Cardinality(late) + Cardinality(stopped)

Init ==
  /\ lease = Nobody /\ control = "none" /\ trigger = 0
  /\ proc = [p \in Proc |-> [pc |-> "new", trig |-> 0, lost |-> FALSE, beat |-> "off",
                             age |-> 0, paused |-> FALSE, err |-> FALSE]]
  /\ row = [e \in Endpoint |-> 0] /\ file = 0 /\ log = <<>>
  /\ asked = 0 /\ runs = [t \in 1..MaxTriggers |-> 0]
  /\ late = {} /\ stopped = {} /\ told = [e \in Endpoint |-> 0] /\ since = told /\ bad = 0

-----------------------------------------------------------------------------
(* The lease.                                                              *)

\* acquire_scheduler_lease lets p in: nobody's row, its own, or one that expired.
MayTakeEarly(p) == lease.owner = p \/ lease.left <= 1     \* mutant: before the end
MayTake(p)     == lease.owner = p \/ lease.left = 0
Grab(p)        == [owner |-> p, left |-> Ttl]
\* release_scheduler_lease: the DELETE names the owner.
Released(p)    == IF lease.owner = p THEN Nobody ELSE lease

\* p leaves: release_scheduler_lease stops the thread and deletes p's row; a trigger
\* it held is gone with it.
Gone(p, b) == [pc |-> "gone", trig |-> proc[p].trig, lost |-> FALSE, beat |-> b,
               age |-> 0, paused |-> FALSE, err |-> FALSE]
Exit(p) == lease' = Released(p) /\ proc' = [proc EXCEPT ![p] = Gone(p, "off")]

\* ensure_owned at the edge of a phase: only what the thread has noticed counts.
Enter(p, place, record) ==
  IF record.lost THEN Exit(p)
  ELSE lease' = lease /\ proc' = [proc EXCEPT ![p] = [record EXCEPT !.pc = place]]

Acquire(p) ==
  /\ proc[p].pc = "new" /\ MayTake(p)
  /\ \A q \in 1..(p - 1) : proc[q].pc # "new"
  /\ lease' = Grab(p)
  /\ proc' = [proc EXCEPT ![p].pc = "begin", ![p].beat = "on"]
  /\ UNCHANGED <<control, trigger, tracker, counts>>

\* _SchedulerLeaseHeartbeat._run: the thread renews, and ends when it is refused.
Beat(p) ==
  /\ Live(p) /\ proc[p].beat = "on" /\ proc[p].age > 0
  /\ \/ /\ MayTake(p)
        /\ lease' = Grab(p)
        /\ proc' = [proc EXCEPT ![p].age = 0]
     \/ /\ ~MayTake(p)
        /\ proc' = [proc EXCEPT ![p].beat = "off", ![p].lost = TRUE]
        /\ UNCHANGED lease
  /\ UNCHANGED <<control, trigger, tracker, counts>>

\* The database refuses the renewal: the thread notes the loss and ends.
BeatFails(p) ==
  /\ Live(p) /\ proc[p].beat = "on" /\ proc[p].age > 0 /\ Faults < MaxFaults
  /\ proc' = [proc EXCEPT ![p].beat = "off", ![p].lost = TRUE]
  /\ late' = late \cup {p}
  /\ UNCHANGED <<lease, control, trigger, tracker, asked, runs, stopped>>

-----------------------------------------------------------------------------
(* The backoff.                                                            *)

\* _schedule_backoff_status: a row of the table, or the file.
RowHolds == \E e \in Endpoint : row[e] > 0
Paused   == file > 0 \/ RowHolds

\* _mteam_rate_limit_streak over a log, the newest event first.
Ends(x, e)     == x.what = "backoff_cleared" \/ (x.what = "success" /\ x.at = e)
Streak(l, e) ==
  LET ends == {i \in DOMAIN l : Ends(l[i], e)}
  IN  Cardinality({i \in DOMAIN l : l[i] = [what |-> "rate_limited", at |-> e]
                                    /\ \A j \in ends : i < j})

NotedShort(what, e) ==   \* mutant: the window is one event short
  LET l == <<[what |-> what, at |-> e]>> \o log
  IN  SubSeq(l, 1, IF Len(l) < Window THEN Len(l) ELSE Window - 1)
Noted(what, e) == LET l == <<[what |-> what, at |-> e]>> \o log
                  IN  SubSeq(l, 1, IF Len(l) < Window THEN Len(l) ELSE Window)
Pause(e)       == LET n == Streak(Noted("rate_limited", e), e)
                  IN  Hours[IF n < Len(Hours) THEN n ELSE Len(Hours)]

\* One event more since the limit that began a row (what is over Window is not counted).
Longer(e) == IF since[e] \in 1..Window THEN since[e] + 1 ELSE since[e]

\* set_tracker_backoff: the row of the endpoint is written over, shorter or longer.
Written(e, left) == [row EXCEPT ![e] = left]

\* _record_schedule_rate_limit_backoff: the event, the file, the row.
RecordLimit(e) ==
  /\ bad < MaxBad /\ bad' = bad + 1
  /\ log' = Noted("rate_limited", e)
  /\ file' = Pause(e) /\ row' = Written(e, Pause(e))
  /\ told' = [told EXCEPT ![e] = @ + 1]
  /\ since' = [d \in Endpoint |-> IF d = e /\ since[d] = 0 THEN 1 ELSE Longer(d)]

\* _record_schedule_network_backoff and the event of the caller: the row alone.
RecordOutage(e) ==
  /\ bad < MaxBad /\ bad' = bad + 1
  /\ log' = Noted("unavailable", e)
  /\ row' = Written(e, NetPause)
  /\ since' = [d \in Endpoint |-> Longer(d)]
  /\ UNCHANGED <<file, told>>

\* _record_mteam_api_success: an event only when it ends a streak.
RecordSuccess(e) ==
  /\ IF Streak(log, e) > 0
     THEN log' = Noted("success", e) /\ since' = [d \in Endpoint |-> IF d = e THEN 0 ELSE Longer(d)]
     ELSE UNCHANGED log /\ since' = [since EXCEPT ![e] = 0]
  /\ told' = [told EXCEPT ![e] = 0]
  /\ UNCHANGED <<row, file, bad>>

\* _clear_schedule_backoff, from the command line or the web page.
Clear ==
  /\ bad < MaxBad /\ bad' = bad + 1
  /\ file' = 0 /\ row' = [e \in Endpoint |-> 0]
  /\ log' = Noted("backoff_cleared", "*")
  /\ told' = [e \in Endpoint |-> 0] /\ since' = [e \in Endpoint |-> 0]
  /\ UNCHANGED <<state, counts>>

-----------------------------------------------------------------------------
(* The cycle.                                                              *)

\* The head of the loop: unless the wait brought a trigger, the one that is queued
\* is taken now; a cycle is running from here on.
OnlyFromWait(p) == FALSE     \* mutant: the head of the loop looks at no trigger
TakesAtBegin(p) == proc[p].trig = 0
Begin(p) ==
  /\ proc[p].pc = "begin"
  /\ proc' = [proc EXCEPT ![p].pc = "renew",
                          ![p].trig = IF TakesAtBegin(p) THEN trigger ELSE @]
  /\ IF TakesAtBegin(p) THEN trigger' = 0 /\ control' = "running"
                        ELSE UNCHANGED <<trigger, control>>
  /\ UNCHANGED <<lease, tracker, counts>>

\* lease_heartbeat.renew and ensure_owned; a refusal ends the process.
Renew(p) ==
  /\ proc[p].pc = "renew"
  /\ IF MayTake(p) /\ ~proc[p].lost
     THEN lease' = Grab(p) /\ proc' = [proc EXCEPT ![p].pc = "open"]
     ELSE Exit(p)
  /\ UNCHANGED <<control, trigger, tracker, counts>>

\* The phase that follows in the plan of a cycle: a phase that is off is passed
\* over, discovery is left out under an error or a pause noted in this cycle.
Plan(place, r, pt) ==
  LET on(ph) == ph \in Enabled
  IN  IF place = "open" /\ ~r.paused /\ on("tracker_source_backfill")
        THEN "tracker_source_backfill"
      ELSE IF place \in {"open", "tracker_source_backfill"} /\ on("prune") THEN "prune"
      ELSE IF place # "pt_discovery" /\ pt THEN "pt_discovery" ELSE "tail"
After(place, r) == Plan(place, r, "pt_discovery" \in Enabled /\ ~r.err /\ ~r.paused)

\* The intent phase: a search that is due or a retry of what is ready (both call the
\* tracker: "intent_search" here), a refresh of the lists, or nothing that is due.
IntentPhasesAnyway(r) ==   \* mutant: the pause of this cycle is forgotten
  IF "intent" \notin Enabled \/ r.err THEN {"mark"} ELSE Intents \cup {"mark"}
IntentPhases(r) ==
  IF "intent" \notin Enabled \/ r.err THEN {"mark"}
  ELSE IF r.paused THEN {"intent_source_sync", "mark"}
  ELSE Intents \cup {"mark"}

\* Leave place with record r, and enter what follows.
Onward(p, place, r) ==
  IF After(place, r) # "tail" THEN Enter(p, After(place, r), r)
  ELSE \E ph \in IntentPhases(r) : Enter(p, ph, r)

\* start_scheduler_run: a row of a cycle, with the trigger it serves.
RunRow(t) == IF t = 0 THEN runs ELSE [runs EXCEPT ![t] = @ + 1]

\* The run is opened with what the backoff says now.
Open(p) ==
  /\ proc[p].pc = "open"
  /\ runs' = RunRow(proc[p].trig)
  /\ Onward(p, "open", [proc[p] EXCEPT !.paused = Paused])
  /\ UNCHANGED <<control, trigger, tracker, asked, late, stopped>>

\* A phase that calls the tracker ends well, is told to slow down, or finds nobody.
EndTracker(p) ==
  LET place == proc[p].pc
      e == IF place = "tracker_source_backfill" THEN "member/getUserTorrentList"
           ELSE "torrent/search"
      next(r) == IF place \in Intents THEN Enter(p, "mark", r) ELSE Onward(p, place, r)
  IN  /\ place \in Tracker
      /\ \/ place = "tracker_source_backfill" /\ RecordSuccess(e) /\ next(proc[p])
         \/ /\ place # "tracker_source_backfill" /\ UNCHANGED tracker
            /\ \E err \in {FALSE, place = "pt_discovery"} : next([proc[p] EXCEPT !.err = err])
         \/ RecordLimit(e)  /\ next([proc[p] EXCEPT !.paused = TRUE])
         \/ RecordOutage(e) /\ next([proc[p] EXCEPT !.paused = TRUE])
      /\ UNCHANGED <<control, trigger, counts>>

\* The prune ends, perhaps with an error that ends the cycle's work.
EndPrune(p) ==
  /\ proc[p].pc = "prune"
  /\ \E err \in BOOLEAN : Onward(p, "prune", [proc[p] EXCEPT !.err = err])
  /\ UNCHANGED <<control, trigger, tracker, counts>>

\* A refresh of the want lists alone, which calls no tracker, ends.
EndSync(p) ==
  /\ proc[p].pc = "intent_source_sync"
  /\ Enter(p, "mark", proc[p])
  /\ UNCHANGED <<control, trigger, tracker, counts>>

\* The run is finished behind an ensure_owned of its own (Enter of "mark"), but
\* mark_scheduler_waiting asks nobody who owns the lease.
MarkWaiting(p) ==
  /\ proc[p].pc = "mark"
  /\ control' = "waiting"
  /\ proc' = [proc EXCEPT ![p].pc = "wait", ![p].trig = 0, ![p].paused = FALSE, ![p].err = FALSE]
  /\ UNCHANGED <<lease, trigger, tracker, counts>>

-----------------------------------------------------------------------------
(* The wait: consume_scheduler_trigger, the end of the interval, the guard. *)

KeptTrigger == trigger   \* mutant: read and not deleted
LeftOver == 0   \* the trigger is deleted with its reading

WaitTake(p) ==
  /\ proc[p].pc \in {"wait", "waited"} /\ trigger # 0
  /\ proc' = [proc EXCEPT ![p].pc = "begin", ![p].trig = trigger]
  /\ trigger' = LeftOver /\ control' = "running"
  /\ UNCHANGED <<lease, tracker, counts>>

WaitOver(p) ==
  /\ proc[p].pc \in {"wait", "waited"}
  /\ proc' = [proc EXCEPT ![p].pc = "begin"]
  /\ UNCHANGED <<lease, control, trigger, tracker, counts>>

\* The guard runs in the middle of a wait (once here: its interval is shorter than
\* the wait, and the wait comes to its end).
Guard(p) ==
  /\ \/ proc[p].pc = "wait"  /\ Enter(p, "guard", proc[p])
     \/ proc[p].pc = "guard" /\ lease' = lease /\ proc' = [proc EXCEPT ![p].pc = "waited"]
  /\ UNCHANGED <<control, trigger, tracker, counts>>

-----------------------------------------------------------------------------
(* Those who ask for a cycle, those who stop a process, and time.          *)

\* request_scheduler_trigger queues only while the scheduler waits.  That a lease
\* lives is looked at in a transaction of its own before it, and may have ceased to be
\* so: the look keeps nobody away once a scheduler has waited.  A request that finds
\* one queued overlays its source and time, and that is all.
Accepts == control = "waiting"
Ask ==
  /\ Accepts /\ trigger = 0 /\ asked < MaxTriggers
  /\ asked' = asked + 1 /\ trigger' = asked + 1
  /\ UNCHANGED <<lease, control, proc, tracker, runs, late, stopped>>

\* SIGTERM, or an exception nothing catches: the lease is released on the way out,
\* and a renewal that was under way when the thread was given up may still land.
Stop(p) ==
  /\ Live(p) /\ Faults < MaxFaults
  /\ stopped' = stopped \cup {p}
  /\ lease' = Released(p)
  /\ \E b \in {"off"} \cup (IF proc[p].beat = "on" /\ proc[p].age > 0 THEN {"landing"} ELSE {}) :
        proc' = [proc EXCEPT ![p] = Gone(p, b)]
  /\ UNCHANGED <<control, trigger, tracker, asked, runs, late>>

\* The renewal of a process that is leaving lands after its lease was released.
LateRenewal(p) ==
  /\ proc[p].beat = "landing"
  /\ proc' = [proc EXCEPT ![p].beat = "off"]
  /\ lease' = IF MayTake(p) THEN Grab(p) ELSE lease
  /\ UNCHANGED <<control, trigger, tracker, counts>>

\* The process is killed: the lease stays until it expires.
Kill(p) ==
  /\ Live(p) /\ Faults < MaxFaults
  /\ stopped' = stopped \cup {p}
  /\ proc' = [proc EXCEPT ![p] = Gone(p, "off")]
  /\ UNCHANGED <<lease, control, trigger, tracker, asked, runs, late>>

\* A tick.  A thread that should have renewed by now and has not is late.
Less(n)  == IF n > 0 THEN n - 1 ELSE 0
Due      == {p \in Proc : Live(p) /\ proc[p].beat = "on" /\ proc[p].age = Every}
Tick ==
  /\ Cardinality(late \cup Due) + Cardinality(stopped) <= MaxFaults
  /\ late' = late \cup Due
  /\ lease' = [lease EXCEPT !.left = Less(@)]
  /\ proc' = [p \in Proc |-> IF Live(p) /\ proc[p].beat = "on" /\ proc[p].age < Every
                             THEN [proc[p] EXCEPT !.age = @ + 1] ELSE proc[p]]
  /\ file' = Less(file) /\ row' = [e \in Endpoint |-> Less(row[e])]
  /\ UNCHANGED <<control, trigger, log, told, since, bad, asked, runs, stopped>>

-----------------------------------------------------------------------------
Step(p) == \/ Acquire(p) \/ Begin(p) \/ Renew(p) \/ Open(p) \/ EndTracker(p) \/ EndPrune(p)
           \/ EndSync(p) \/ MarkWaiting(p) \/ WaitTake(p) \/ WaitOver(p) \/ Guard(p)
Thread(p) == Beat(p) \/ LateRenewal(p)
Next == \/ \E p \in Proc : Step(p) \/ Thread(p) \/ BeatFails(p) \/ Stop(p) \/ Kill(p)
        \/ Clear \/ Ask \/ Tick

\* The main thread of a process goes on and time passes.  Nothing is asked of the
\* renewing thread: a process whose thread starves is late, and works on.
Fairness == (\A p \in Proc : WF_vars(Step(p))) /\ WF_vars(Tick)
Spec == Init /\ [][Next]_vars /\ Fairness
-----------------------------------------------------------------------------
(* Properties.                                                             *)

\* The variables have their types.
SchedulerTypeOK ==
  /\ lease \in [owner : 0..Procs, left : 0..Ttl]
  /\ control \in {"none", "waiting", "running"}
  /\ trigger \in 0..asked /\ asked \in 0..MaxTriggers
  /\ proc \in [Proc -> [pc : Places, trig : 0..MaxTriggers, lost : BOOLEAN,
                        beat : {"off", "on", "landing"}, age : 0..Every,
                        paused : BOOLEAN, err : BOOLEAN]]
  /\ runs \in [1..MaxTriggers -> Nat]
  /\ late \subseteq Proc /\ stopped \subseteq Proc
  /\ file \in Nat /\ row \in [Endpoint -> Nat] /\ told \in [Endpoint -> Nat]
  /\ since \in [Endpoint -> 0..(Window + 1)]
  /\ Len(log) <= Window

\* Two schedulers are in a phase at the same time only when one of them missed a
\* renewal (its thread was not run in time, or the database refused it): expiry,
\* takeover, release and the exit of a process that lost never make it happen.
OneAtWork ==
  \A p, q \in Proc : p # q /\ InCycle(p) /\ InCycle(q) => {p, q} \cap late # {}

\* A trigger that was queued is pending, in the hands of a process, or on the run row
\* of exactly one cycle; it vanishes only with a process that was stopped or had missed
\* a renewal, and no trigger starts two cycles.
TriggerAccounted ==
  \A t \in 1..asked :
    /\ runs[t] <= 1
    /\ \/ t = trigger \/ runs[t] = 1
       \/ \E p \in Proc : proc[p].trig = t /\ (Live(p) \/ p \in late \cup stopped)

\* The types, and the account of the triggers.
TriggersAreKept == SchedulerTypeOK /\ TriggerAccounted

\* While the tracker's pause lasts no scheduler enters a phase that calls it, in the
\* cycle that noted the pause, in the cycles after it and after a restart, as long as
\* no process ever missed a renewal.
Calls(p) == proc[p].pc \in Tracker
QuietWhilePaused ==
  [][late = {} /\ Paused => \A p \in Proc : Calls(p)' => proc[p].pc = proc'[p].pc]_vars

\* The pause a rate limit brings is the one of its place in the row of limits of that
\* endpoint, counted from its last success or the last clear, whatever else the tracker
\* answered in between and however often the scheduler was restarted.  Only a row that has
\* outgrown the window of events is counted short, and never as more than it is.
PauseOf(n) == Hours[IF n < Len(Hours) THEN n ELSE Len(Hours)]
PauseFollows ==
  \A e \in Endpoint : told'[e] > told[e] =>
    \E n \in 1..told'[e] : file' = PauseOf(n) /\ (n = told'[e] \/ since'[e] > Window)
PauseFollowsStreak == [][PauseFollows]_vars

\* Cycles go on: whoever was stopped or lost its lease, some process opens a run
\* again and again (a lease nobody renews is taken over).
CyclesGoOn == []<>(\E p \in Proc : proc[p].pc = "open")

\* A queued trigger is taken, also when the wait it was queued in had just ended.
TriggerTaken == trigger # 0 ~> trigger = 0

\* Whatever happens to the lease, the scheduler works on, and takes what is queued.
SchedulerWorksOn == CyclesGoOn /\ TriggerTaken

\* "consume them atomically when the lease owner starts a cycle": who takes a
\* trigger owns the lease.
TakenByOwner ==
  [][\A p \in Proc : trigger # 0 /\ proc'[p].trig = trigger /\ proc[p].trig # trigger
        => lease.owner = p]_vars
=============================================================================
