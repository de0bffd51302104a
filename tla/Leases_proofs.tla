---------------------------- MODULE Leases_proofs ----------------------------
(***************************************************************************)
(* Theorems about the two processes that work under a lease: the           *)
(* scheduler (Scheduler), for any number of processes, any lease and       *)
(* renewal times and any configuration, and the media worker with its      *)
(* command queue (MediaCommands), for any number of commands, clients,     *)
(* deaths and restores.                                                    *)
(***************************************************************************)
EXTENDS Scheduler, MediaCommands, FiniteSetTheorems, SequenceTheorems, TLAPS

\* A process that never missed a renewal owns a lease that outlives its next renewal.
LeaseOK ==
  \A p \in Proc :
    /\ Live(p) /\ p \notin late =>
         /\ proc[p].beat = "on" /\ ~proc[p].lost
         /\ lease.owner = p /\ lease.left + proc[p].age >= Ttl
    /\ proc[p].pc = "new" => proc[p].age = 0 /\ ~proc[p].lost

ApiEvent == [what : {"rate_limited", "unavailable", "success", "backoff_cleared"},
             at : Endpoint \cup {"*"}]

LogOK == log \in Seq(ApiEvent)

Ahead == {"begin", "renew", "open"}
Cycle == Tracker \cup Intents \cup {"prune"}

\* A trigger is in one hand, and what is queued or was never asked for did not run.
HeldOnce ==
  /\ \A p \in Proc : proc[p].trig # 0 =>
       /\ proc[p].trig \in 1..asked /\ proc[p].trig # trigger
       /\ \A q \in Proc \ {p} : proc[q].trig # proc[p].trig
  /\ \A t \in 1..MaxTriggers : t > asked \/ t = trigger => runs[t] = 0

\* What a process holds did not run before its cycle opens, and ran from then on.
RunsOf(p) ==
  /\ proc[p].pc \in {"new", "wait", "waited", "guard"} => proc[p].trig = 0
  /\ proc[p].pc \in Ahead /\ proc[p].trig # 0 => runs[proc[p].trig] = 0
  /\ proc[p].pc \in Cycle \cup {"mark"} /\ proc[p].trig # 0 => runs[proc[p].trig] = 1
RunOnce == \A p \in Proc : RunsOf(p)

\* While nobody was late, a cycle that knows of no pause runs while there is none.
QuietOK ==
  late = {} => \A p \in Proc : proc[p].pc \in Cycle /\ ~proc[p].paused => ~Paused

\* The inductive invariant.
SchedulerInv ==
  /\ SchedulerTypeOK /\ LogOK /\ LeaseOK
  /\ HeldOnce /\ RunOnce /\ TriggerAccounted /\ QuietOK

ProcRec == [pc : Places, trig : 0..MaxTriggers, lost : BOOLEAN,
            beat : {"off", "on", "landing"}, age : 0..Every, paused : BOOLEAN, err : BOOLEAN]

\* Everybody else stays as he is.
Others(p) == \A q \in Proc \ {p} : proc'[q] = proc[q]

-----------------------------------------------------------------------------
(* The log and the pauses.                                                 *)

\* What the provers need of the constants.
LEMMA Constants ==
  /\ Procs \in Nat /\ Ttl \in Nat /\ Every \in Nat /\ Every < Ttl /\ Every >= 1
  /\ NetPause \in Nat /\ Window \in Nat /\ Window >= 1
  /\ MaxTriggers \in Nat /\ MaxFaults \in Nat /\ MaxBad \in Nat
BY SchedulerAssumption

\* What is noted is the newest event, and the window holds.
LEMMA NotedIsLog ==
  ASSUME LogOK, NEW what \in {"rate_limited", "unavailable", "success", "backoff_cleared"},
         NEW e \in Endpoint \cup {"*"}
  PROVE  /\ Noted(what, e) \in Seq(ApiEvent) /\ Len(Noted(what, e)) \in 1..Window
         /\ Noted(what, e)[1] = [what |-> what, at |-> e]
<1> DEFINE x == [what |-> what, at |-> e]
           l == <<x>> \o log
           n == IF Len(l) < Window THEN Len(l) ELSE Window
<1>1. x \in ApiEvent
  BY DEF ApiEvent
<1>2. l \in Seq(ApiEvent) /\ Len(l) = 1 + Len(log) /\ l[1] = x /\ Len(log) \in Nat
  <2> HIDE DEF x
  <2>1. <<x>> \in Seq(ApiEvent) /\ Len(<<x>>) = 1 /\ <<x>>[1] = x
    BY <1>1
  <2>2. log \in Seq(ApiEvent) /\ Len(log) \in Nat
    BY DEF LogOK
  <2> QED BY <2>1, <2>2, ConcatProperties
<1>3. n \in 1..Len(l) /\ n <= Window
  BY <1>2, Constants
<1>4. Noted(what, e) = SubSeq(l, 1, n)
  BY DEF Noted
<1> HIDE DEF l, n
<1>5. /\ SubSeq(l, 1, n) \in Seq(ApiEvent) /\ Len(SubSeq(l, 1, n)) = n
      /\ SubSeq(l, 1, n)[1] = l[1]
  BY <1>2, <1>3, SubSeqProperties
<1> QED BY <1>2, <1>3, <1>4, <1>5, Constants

\* A limit is at least the first in a row, and its pause is one of the hours.
LEMMA PauseIsHours ==
  ASSUME LogOK, NEW e \in Endpoint
  PROVE  Pause(e) \in Nat \ {0}
<1> DEFINE l == Noted("rate_limited", e)
           ends == {i \in DOMAIN l : Ends(l[i], e)}
           streak == {i \in DOMAIN l : l[i] = [what |-> "rate_limited", at |-> e]
                                        /\ \A j \in ends : i < j}
<1>1. l \in Seq(ApiEvent) /\ Len(l) \in Nat /\ Len(l) >= 1
      /\ l[1] = [what |-> "rate_limited", at |-> e]
  BY NotedIsLog, Constants
<1>2. 1 \in streak
  <2>1. DOMAIN l = 1..Len(l)
    BY <1>1
  <2>2. ~Ends(l[1], e)
    BY <1>1 DEF Ends
  <2> HIDE DEF l
  <2> QED BY <1>1, <2>1, <2>2
<1>3. IsFiniteSet(streak)
  <2>1. IsFiniteSet(1..Len(l)) /\ DOMAIN l = 1..Len(l)
    BY <1>1, FS_Interval
  <2>2. streak \subseteq DOMAIN l
    OBVIOUS
  <2> QED BY <2>1, <2>2, FS_Subset
<1>4. Cardinality(streak) \in Nat /\ Cardinality(streak) # 0
  BY <1>2, <1>3, FS_CardinalityType, FS_EmptySet
<1>5. Streak(l, e) = Cardinality(streak)
  BY DEF Streak
<1>6. Pause(e) = Hours[IF Cardinality(streak) < Len(Hours) THEN Cardinality(streak)
                       ELSE Len(Hours)]
  BY <1>5, Zenon DEF Pause
<1>7. Hours \in Seq(Nat \ {0}) /\ Len(Hours) \in Nat /\ Len(Hours) # 0
  BY SchedulerAssumption, EmptySeq
<1> HIDE DEF streak
<1> QED BY <1>4, <1>6, <1>7

\* The pauses, the log and the counts of limits keep their types.
TrackerTyped == /\ file \in Nat /\ row \in [Endpoint -> Nat] /\ told \in [Endpoint -> Nat]
                /\ since \in [Endpoint -> 0..(Window + 1)]
                /\ log \in Seq(ApiEvent) /\ Len(log) <= Window

LEMMA LongerTyped ==
  ASSUME TrackerTyped, NEW e \in Endpoint
  PROVE  Longer(e) \in 0..(Window + 1)
<1>1. since[e] \in 0..(Window + 1) /\ Window \in Nat
  BY Constants DEF TrackerTyped
<1> QED BY <1>1 DEF Longer

\* Each answer of the tracker, written down, keeps these types.
LEMMA RecordTyped ==
  ASSUME TrackerTyped, NEW e \in Endpoint,
         RecordLimit(e) \/ RecordOutage(e) \/ RecordSuccess(e) \/ UNCHANGED tracker
  PROVE  TrackerTyped'
<1> USE DEF TrackerTyped
<1>0. LogOK
  BY DEF LogOK
<1>1. CASE RecordLimit(e)
  <2>1. Pause(e) \in Nat
    BY <1>0, PauseIsHours
  <2>2. log' \in Seq(ApiEvent) /\ Len(log') <= Window
    <3>1. log' = Noted("rate_limited", e)
      BY <1>1 DEF RecordLimit
    <3>2. Noted("rate_limited", e) \in Seq(ApiEvent) /\ Len(Noted("rate_limited", e)) \in 1..Window
      BY <1>0, NotedIsLog
    <3> QED BY <3>1, <3>2, Constants
  <2>3. row' \in [Endpoint -> Nat] /\ file' \in Nat
    BY <1>1, <2>1 DEF RecordLimit, Written
  <2>4. told' \in [Endpoint -> Nat]
    BY <1>1 DEF RecordLimit
  <2>5. since' = [d \in Endpoint |-> IF d = e /\ since[d] = 0 THEN 1 ELSE Longer(d)]
    BY <1>1 DEF RecordLimit
  <2>6. \A d \in Endpoint : (IF d = e /\ since[d] = 0 THEN 1 ELSE Longer(d)) \in 0..(Window + 1)
    BY LongerTyped, Constants
  <2>7. since' \in [Endpoint -> 0..(Window + 1)]
    BY <2>5, <2>6
  <2> QED BY <2>2, <2>3, <2>4, <2>7
<1>2. CASE RecordOutage(e)
  <2>1. log' \in Seq(ApiEvent) /\ Len(log') <= Window
    <3>1. log' = Noted("unavailable", e)
      BY <1>2 DEF RecordOutage
    <3>2. Noted("unavailable", e) \in Seq(ApiEvent) /\ Len(Noted("unavailable", e)) \in 1..Window
      BY <1>0, NotedIsLog
    <3> QED BY <3>1, <3>2, Constants
  <2>2. row' \in [Endpoint -> Nat]
    BY <1>2, Constants DEF RecordOutage, Written
  <2>3. since' \in [Endpoint -> 0..(Window + 1)]
    BY <1>2, LongerTyped DEF RecordOutage
  <2> QED BY <1>2, <2>1, <2>2, <2>3 DEF RecordOutage
<1>3. CASE RecordSuccess(e)
  <2>1. log' \in Seq(ApiEvent) /\ Len(log') <= Window
    <3>1. log' = Noted("success", e) \/ log' = log
      BY <1>3 DEF RecordSuccess
    <3>2. Noted("success", e) \in Seq(ApiEvent) /\ Len(Noted("success", e)) \in 1..Window
      BY <1>0, NotedIsLog
    <3> QED BY <3>1, <3>2, Constants
  <2>2. told' \in [Endpoint -> Nat]
    BY <1>3 DEF RecordSuccess
  <2>3. 0 \in 0..(Window + 1)
    BY Constants
  <2>4. since' \in [Endpoint -> 0..(Window + 1)]
    <3>1. \/ since' = [d \in Endpoint |-> IF d = e THEN 0 ELSE Longer(d)]
          \/ since' = [since EXCEPT ![e] = 0]
      BY <1>3 DEF RecordSuccess
    <3>2. \A d \in Endpoint : (IF d = e THEN 0 ELSE Longer(d)) \in 0..(Window + 1)
      BY <2>3, LongerTyped
    <3> QED BY <2>3, <3>1, <3>2
  <2> QED BY <1>3, <2>1, <2>2, <2>4 DEF RecordSuccess
<1>4. CASE UNCHANGED tracker
  BY <1>4 DEF tracker
<1> QED BY <1>1, <1>2, <1>3, <1>4

-----------------------------------------------------------------------------
(* What a step does to a process.                                          *)

\* The processes have their records.
ProcOK == proc \in [Proc -> ProcRec]

\* Who leaves keeps the trigger in hand, and nothing else.
LEMMA GoneIsProc ==
  ASSUME ProcOK, NEW p \in Proc, NEW b \in {"off", "landing"}
  PROVE  /\ Gone(p, b) \in ProcRec /\ Gone(p, b).pc = "gone" /\ Gone(p, b).trig = proc[p].trig
         /\ Gone(p, b).beat = b
<1>1. proc[p] \in ProcRec
  BY DEF ProcOK
<1>2. proc[p].trig \in 0..MaxTriggers /\ 0 \in 0..Every /\ "gone" \in Places
  BY <1>1, Constants DEF ProcRec, Places
<1>3. Gone(p, b) = [pc |-> "gone", trig |-> proc[p].trig, lost |-> FALSE, beat |-> b,
                    age |-> 0, paused |-> FALSE, err |-> FALSE]
  BY DEF Gone
<1> QED BY <1>2, <1>3 DEF ProcRec

\* A process that gets a new record leaves the others alone.
LEMMA NewRecord ==
  ASSUME ProcOK, NEW p \in Proc, NEW r \in ProcRec, proc' = [proc EXCEPT ![p] = r]
  PROVE  ProcOK' /\ proc'[p] = r /\ Others(p)
BY DEF ProcOK, Others

\* What ensure_owned lets in is at its new place; who lost the lease is gone.
LEMMA EnterEffect ==
  ASSUME ProcOK, NEW p \in Proc, NEW place \in Places, NEW r \in ProcRec, Enter(p, place, r)
  PROVE  /\ ProcOK' /\ Others(p)
         /\ \/ /\ r.lost /\ lease' = Released(p)
               /\ proc'[p].pc = "gone" /\ proc'[p].trig = proc[p].trig
            \/ /\ ~r.lost /\ lease' = lease /\ proc'[p].pc = place
               /\ proc'[p].trig = r.trig /\ proc'[p].lost = r.lost /\ proc'[p].beat = r.beat
               /\ proc'[p].age = r.age /\ proc'[p].paused = r.paused
<1>1. CASE r.lost
  <2>1. proc' = [proc EXCEPT ![p] = Gone(p, "off")] /\ lease' = Released(p)
    BY <1>1 DEF Enter, Exit
  <2> QED BY <1>1, <2>1, GoneIsProc, NewRecord
<1>2. CASE ~r.lost
  <2> DEFINE s == [r EXCEPT !.pc = place]
  <2>1. /\ s \in ProcRec /\ s.pc = place /\ s.trig = r.trig /\ s.lost = r.lost
        /\ s.beat = r.beat /\ s.age = r.age /\ s.paused = r.paused
    BY DEF ProcRec
  <2>2. proc' = [proc EXCEPT ![p] = s] /\ lease' = lease
    BY <1>2 DEF Enter
  <2> HIDE DEF s
  <2> QED BY <1>2, <2>1, <2>2, NewRecord
<1> QED BY <1>1, <1>2

\* The phases of a cycle are places, and the guard is none of them.
LEMMA PlacesOfCycle == Cycle \cup {"mark"} \subseteq Places /\ "guard" \notin Cycle
BY DEF Cycle, Places, Phases, Tracker, Intents

\* After a phase comes another, or the mark; none that calls the tracker under a pause.
LEMMA OnwardEffect ==
  ASSUME NEW p \in Proc, NEW place \in Cycle \cup {"open"}, NEW r \in ProcRec,
         Onward(p, place, r)
  PROVE  \E ph \in Cycle \cup {"mark"} : Enter(p, ph, r) /\ (r.paused => ph \notin Tracker)
<1>1. CASE After(place, r) # "tail"
  <2>1. After(place, r) \in {"tracker_source_backfill", "prune", "pt_discovery", "tail"}
    BY DEF After, Plan
  <2>2. r.paused => After(place, r) \notin {"tracker_source_backfill", "pt_discovery"}
    BY DEF After, Plan
  <2>3. Enter(p, After(place, r), r)
    BY <1>1 DEF Onward
  <2>4. {"tracker_source_backfill", "prune", "pt_discovery"} \subseteq Cycle
    BY DEF Cycle, Tracker
  <2>5. "prune" \notin Tracker
    BY DEF Tracker
  <2> HIDE DEF After
  <2> QED BY <1>1, <2>1, <2>2, <2>3, <2>4, <2>5
<1>2. CASE After(place, r) = "tail"
  <2>1. PICK ph \in IntentPhases(r) : Enter(p, ph, r)
    BY <1>2 DEF Onward
  <2>2. ph \in Cycle \cup {"mark"} /\ (r.paused => ph \notin Tracker)
    BY DEF IntentPhases, Intents, Cycle, Tracker
  <2> QED BY <2>1, <2>2
<1> QED BY <1>1, <1>2

\* A process goes from the opening of its run, or a phase, to the next, with what it
\* learnt of the tracker.
Goes(p) ==
  \E ph \in Cycle \cup {"mark"}, r \in ProcRec :
    /\ Enter(p, ph, r) /\ (r.paused => ph \notin Tracker)
    /\ r.trig = proc[p].trig /\ r.lost = proc[p].lost
    /\ r.beat = proc[p].beat /\ r.age = proc[p].age
    /\ IF proc[p].pc = "open" THEN r.paused = Paused ELSE proc[p].paused => r.paused
    /\ UNCHANGED <<row, file>> \/ r.paused

\* The opening of a run and the end of each phase go on in that way, and only the
\* opening writes a run row.
LEMMA GoesEffect ==
  ASSUME ProcOK, NEW p \in Proc, Open(p) \/ EndTracker(p) \/ EndPrune(p) \/ EndSync(p)
  PROVE  /\ Goes(p) /\ proc[p].pc \in Cycle \cup {"open"}
         /\ UNCHANGED <<control, trigger, asked, late, stopped>>
         /\ IF proc[p].pc = "open" THEN runs' = RunRow(proc[p].trig) ELSE UNCHANGED runs
<1>t. proc[p] \in ProcRec
  BY DEF ProcOK
<1>p. \A b \in BOOLEAN :
        /\ [proc[p] EXCEPT !.paused = b] \in ProcRec
        /\ [proc[p] EXCEPT !.paused = b].paused = b
        /\ [proc[p] EXCEPT !.paused = b].trig = proc[p].trig
        /\ [proc[p] EXCEPT !.paused = b].lost = proc[p].lost
        /\ [proc[p] EXCEPT !.paused = b].beat = proc[p].beat
        /\ [proc[p] EXCEPT !.paused = b].age = proc[p].age
  BY <1>t DEF ProcRec
<1>e. \A b \in BOOLEAN :
        /\ [proc[p] EXCEPT !.err = b] \in ProcRec
        /\ [proc[p] EXCEPT !.err = b].paused = proc[p].paused
        /\ [proc[p] EXCEPT !.err = b].trig = proc[p].trig
        /\ [proc[p] EXCEPT !.err = b].lost = proc[p].lost
        /\ [proc[p] EXCEPT !.err = b].beat = proc[p].beat
        /\ [proc[p] EXCEPT !.err = b].age = proc[p].age
  BY <1>t DEF ProcRec
<1>m. "mark" \in Cycle \cup {"mark"} /\ "mark" \notin Tracker /\ "open" \notin Cycle
  BY DEF Tracker, Cycle, Intents
\* From a phase, with a record that differs in what it notes alone.
<1>n. ASSUME NEW r \in ProcRec, proc[p].pc \in Cycle,
             Enter(p, "mark", r) \/ Onward(p, proc[p].pc, r),
             r.trig = proc[p].trig, r.lost = proc[p].lost, r.beat = proc[p].beat,
             r.age = proc[p].age, proc[p].paused => r.paused,
             UNCHANGED <<row, file>> \/ r.paused
      PROVE  Goes(p)
  <2>1. PICK ph \in Cycle \cup {"mark"} : Enter(p, ph, r) /\ (r.paused => ph \notin Tracker)
    BY <1>n, <1>m, OnwardEffect
  <2> QED BY <1>n, <1>m, <2>1 DEF Goes
<1>1. CASE Open(p)
  <2>1. /\ proc[p].pc = "open" /\ Onward(p, "open", [proc[p] EXCEPT !.paused = Paused])
        /\ runs' = RunRow(proc[p].trig) /\ UNCHANGED <<row, file>>
        /\ UNCHANGED <<control, trigger, asked, late, stopped>>
    BY <1>1 DEF Open, tracker
  <2>2. Paused \in BOOLEAN
    BY DEF Paused, RowHolds
  <2> DEFINE r == [proc[p] EXCEPT !.paused = Paused]
  <2>3. /\ r \in ProcRec /\ r.paused = Paused /\ r.trig = proc[p].trig /\ r.lost = proc[p].lost
        /\ r.beat = proc[p].beat /\ r.age = proc[p].age /\ Onward(p, "open", r)
    BY <1>p, <2>1, <2>2
  <2> HIDE DEF r
  <2>4. PICK ph \in Cycle \cup {"mark"} : Enter(p, ph, r) /\ (r.paused => ph \notin Tracker)
    BY <2>3, OnwardEffect
  <2>5. Goes(p)
    BY <2>1, <2>3, <2>4 DEF Goes
  <2> QED BY <2>1, <2>5
<1>2. CASE EndTracker(p)
  <2>1. /\ proc[p].pc \in Tracker /\ proc[p].pc \in Cycle
        /\ UNCHANGED <<control, trigger, asked, runs, late, stopped>>
    BY <1>2 DEF EndTracker, counts, Cycle
  <2> DEFINE place == proc[p].pc
             next(r) == IF place \in Intents THEN Enter(p, "mark", r) ELSE Onward(p, place, r)
  <2>2. PICK r \in ProcRec :
          /\ next(r) /\ r.trig = proc[p].trig /\ r.lost = proc[p].lost
          /\ r.beat = proc[p].beat /\ r.age = proc[p].age
          /\ proc[p].paused => r.paused
          /\ UNCHANGED <<row, file>> \/ r.paused
    <3>1. CASE RecordSuccess("member/getUserTorrentList") /\ next(proc[p])
      <4>1. UNCHANGED <<row, file>>
        BY <3>1 DEF RecordSuccess
      <4> QED BY <1>t, <3>1, <4>1
    <3>2. CASE UNCHANGED tracker /\ \E err \in BOOLEAN : next([proc[p] EXCEPT !.err = err])
      <4>1. UNCHANGED <<row, file>>
        BY <3>2 DEF tracker
      <4>2. PICK err \in BOOLEAN : next([proc[p] EXCEPT !.err = err])
        BY <3>2
      <4> HIDE DEF next
      <4> QED BY <1>e, <4>1, <4>2
    <3>3. CASE next([proc[p] EXCEPT !.paused = TRUE])
      <4> HIDE DEF next
      <4> QED BY <1>p, <3>3
    <3>4. \/ RecordSuccess("member/getUserTorrentList") /\ next(proc[p])
          \/ UNCHANGED tracker /\ \E err \in BOOLEAN : next([proc[p] EXCEPT !.err = err])
          \/ next([proc[p] EXCEPT !.paused = TRUE])
      BY <1>2, Zenon DEF EndTracker
    <3> QED BY <3>1, <3>2, <3>3, <3>4
  <2>3. Goes(p)
    BY <1>n, <2>1, <2>2
  <2> QED BY <1>m, <2>1, <2>3
<1>3. CASE EndPrune(p)
  <2>1. /\ proc[p].pc = "prune" /\ proc[p].pc \in Cycle
        /\ UNCHANGED <<control, trigger, asked, runs, late, stopped>> /\ UNCHANGED <<row, file>>
    BY <1>3 DEF EndPrune, tracker, counts, Cycle
  <2>2. PICK err \in BOOLEAN : Onward(p, "prune", [proc[p] EXCEPT !.err = err])
    BY <1>3 DEF EndPrune
  <2>3. Goes(p)
    BY <1>e, <1>n, <2>1, <2>2
  <2> QED BY <1>m, <2>1, <2>3
<1>4. CASE EndSync(p)
  <2>1. /\ proc[p].pc \in Cycle /\ Enter(p, "mark", proc[p])
        /\ UNCHANGED <<control, trigger, asked, runs, late, stopped>> /\ UNCHANGED <<row, file>>
    BY <1>4 DEF EndSync, tracker, counts, Cycle, Intents
  <2>2. Goes(p)
    BY <1>t, <1>n, <2>1
  <2> QED BY <1>m, <2>1, <2>2
<1> QED BY <1>1, <1>2, <1>3, <1>4

\* A process stays in its lease: the thread, its age and what it noticed are as before.
SameLease(p) == /\ proc'[p].beat = proc[p].beat /\ proc'[p].lost = proc[p].lost
                /\ proc'[p].age = proc[p].age

\* A process leaves with the trigger it holds.
Leaves(p) == proc'[p].pc = "gone" /\ proc'[p].trig = proc[p].trig

\* The lease, its renewals and the head of the loop: what they make of the process.
LEMMA SimpleEffect ==
  ASSUME ProcOK, trigger \in 0..MaxTriggers, NEW p \in Proc
  PROVE  /\ Acquire(p) => /\ ProcOK' /\ Others(p) /\ proc[p].pc = "new"
                          /\ proc'[p].pc = "begin" /\ proc'[p].beat = "on"
                          /\ proc'[p].trig = proc[p].trig /\ proc'[p].lost = proc[p].lost
                          /\ proc'[p].age = proc[p].age
         /\ Beat(p) => /\ ProcOK' /\ Others(p) /\ Live(p)
                       /\ proc'[p].pc = proc[p].pc /\ proc'[p].trig = proc[p].trig
                       /\ proc'[p].paused = proc[p].paused
                       /\ IF MayTake(p) THEN /\ proc'[p].age = 0 /\ proc'[p].beat = proc[p].beat
                                             /\ proc'[p].lost = proc[p].lost
                          ELSE TRUE
         /\ BeatFails(p) => /\ ProcOK' /\ Others(p) /\ Live(p)
                            /\ proc'[p].pc = proc[p].pc /\ proc'[p].trig = proc[p].trig
                            /\ proc'[p].paused = proc[p].paused
         /\ Begin(p) => /\ ProcOK' /\ Others(p) /\ SameLease(p) /\ proc[p].pc = "begin"
                        /\ proc'[p].pc = "renew"
                        /\ proc'[p].trig = IF proc[p].trig = 0 THEN trigger ELSE proc[p].trig
         /\ Renew(p) => /\ ProcOK' /\ Others(p) /\ proc[p].pc = "renew"
                        /\ IF MayTake(p) /\ ~proc[p].lost
                             THEN /\ SameLease(p) /\ proc'[p].pc = "open"
                                  /\ proc'[p].trig = proc[p].trig /\ lease' = Grab(p)
                             ELSE Leaves(p) /\ lease' = Released(p)
<1>t. proc[p] \in ProcRec
  BY DEF ProcOK
<1>1. ASSUME Acquire(p)
      PROVE  /\ ProcOK' /\ Others(p) /\ proc[p].pc = "new"
             /\ proc'[p].pc = "begin" /\ proc'[p].beat = "on"
             /\ proc'[p].trig = proc[p].trig /\ proc'[p].lost = proc[p].lost
             /\ proc'[p].age = proc[p].age
  <2> DEFINE r == [proc[p] EXCEPT !.pc = "begin", !.beat = "on"]
  <2>1. /\ r \in ProcRec /\ r.pc = "begin" /\ r.beat = "on" /\ r.trig = proc[p].trig
        /\ r.lost = proc[p].lost /\ r.age = proc[p].age
    BY <1>t DEF ProcRec, Places
  <2>2. proc' = [proc EXCEPT ![p] = r] /\ proc[p].pc = "new"
    BY <1>1 DEF Acquire, ProcOK
  <2> HIDE DEF r
  <2> QED BY <2>1, <2>2, NewRecord
<1>2. ASSUME Beat(p)
      PROVE  /\ ProcOK' /\ Others(p) /\ Live(p)
             /\ proc'[p].pc = proc[p].pc /\ proc'[p].trig = proc[p].trig
             /\ proc'[p].paused = proc[p].paused
             /\ IF MayTake(p) THEN /\ proc'[p].age = 0 /\ proc'[p].beat = proc[p].beat
                                   /\ proc'[p].lost = proc[p].lost
                ELSE TRUE
  <2> DEFINE r == [proc[p] EXCEPT !.age = 0]
             s == [proc[p] EXCEPT !.beat = "off", !.lost = TRUE]
  <2>1. /\ r \in ProcRec /\ r.pc = proc[p].pc /\ r.trig = proc[p].trig /\ r.age = 0
        /\ r.paused = proc[p].paused /\ r.beat = proc[p].beat /\ r.lost = proc[p].lost
    BY <1>t, Constants DEF ProcRec
  <2>2. /\ s \in ProcRec /\ s.pc = proc[p].pc /\ s.trig = proc[p].trig
        /\ s.paused = proc[p].paused
    BY <1>t DEF ProcRec
  <2>3. /\ Live(p)
        /\ \/ MayTake(p) /\ proc' = [proc EXCEPT ![p] = r]
           \/ ~MayTake(p) /\ proc' = [proc EXCEPT ![p] = s]
    BY <1>2 DEF Beat, ProcOK
  <2> HIDE DEF r, s
  <2> QED BY <2>1, <2>2, <2>3, NewRecord
<1>3. ASSUME BeatFails(p)
      PROVE  /\ ProcOK' /\ Others(p) /\ Live(p)
             /\ proc'[p].pc = proc[p].pc /\ proc'[p].trig = proc[p].trig
             /\ proc'[p].paused = proc[p].paused
  <2> DEFINE s == [proc[p] EXCEPT !.beat = "off", !.lost = TRUE]
  <2>1. /\ s \in ProcRec /\ s.pc = proc[p].pc /\ s.trig = proc[p].trig
        /\ s.paused = proc[p].paused
    BY <1>t DEF ProcRec
  <2>2. Live(p) /\ proc' = [proc EXCEPT ![p] = s]
    BY <1>3 DEF BeatFails, ProcOK
  <2> HIDE DEF s
  <2> QED BY <2>1, <2>2, NewRecord
<1>4. ASSUME Begin(p)
      PROVE  /\ ProcOK' /\ Others(p) /\ SameLease(p) /\ proc[p].pc = "begin"
             /\ proc'[p].pc = "renew"
             /\ proc'[p].trig = IF proc[p].trig = 0 THEN trigger ELSE proc[p].trig
  <2> DEFINE t == IF proc[p].trig = 0 THEN trigger ELSE proc[p].trig
             r == [proc[p] EXCEPT !.pc = "renew", !.trig = t]
  <2>1. t \in 0..MaxTriggers
    BY <1>t DEF ProcRec
  <2>2. proc' = [proc EXCEPT ![p] = r] /\ proc[p].pc = "begin"
    BY <1>4 DEF Begin, TakesAtBegin, ProcOK
  <2> HIDE DEF t
  <2>3. /\ r \in ProcRec /\ r.pc = "renew" /\ r.trig = t /\ r.lost = proc[p].lost
        /\ r.beat = proc[p].beat /\ r.age = proc[p].age
    BY <1>t, <2>1 DEF ProcRec, Places
  <2> HIDE DEF r
  <2>4. ProcOK' /\ proc'[p] = r /\ Others(p)
    BY <2>2, <2>3, NewRecord
  <2> QED BY <2>2, <2>3, <2>4 DEF t, SameLease
<1>5. ASSUME Renew(p)
      PROVE  /\ ProcOK' /\ Others(p) /\ proc[p].pc = "renew"
             /\ IF MayTake(p) /\ ~proc[p].lost
                  THEN /\ SameLease(p) /\ proc'[p].pc = "open"
                       /\ proc'[p].trig = proc[p].trig /\ lease' = Grab(p)
                  ELSE Leaves(p) /\ lease' = Released(p)
  <2>1. CASE MayTake(p) /\ ~proc[p].lost
    <3> DEFINE r == [proc[p] EXCEPT !.pc = "open"]
    <3>1. /\ r \in ProcRec /\ r.pc = "open" /\ r.trig = proc[p].trig /\ r.lost = proc[p].lost
          /\ r.beat = proc[p].beat /\ r.age = proc[p].age
      BY <1>t DEF ProcRec, Places
    <3>2. proc' = [proc EXCEPT ![p] = r] /\ proc[p].pc = "renew" /\ lease' = Grab(p)
      BY <1>5, <2>1 DEF Renew, ProcOK
    <3> HIDE DEF r
    <3> QED BY <2>1, <3>1, <3>2, NewRecord DEF SameLease
  <2>2. CASE ~(MayTake(p) /\ ~proc[p].lost)
    <3>1. /\ proc' = [proc EXCEPT ![p] = Gone(p, "off")] /\ lease' = Released(p)
          /\ proc[p].pc = "renew"
      BY <1>5, <2>2 DEF Renew, Exit
    <3> QED BY <2>2, <3>1, GoneIsProc, NewRecord DEF Leaves
  <2> QED BY <2>1, <2>2
<1> QED BY <1>1, <1>2, <1>3, <1>4, <1>5

\* The wait, the guard and the ends of a process: what they make of the process.
LEMMA WaitEffect ==
  ASSUME ProcOK, trigger \in 0..MaxTriggers, NEW p \in Proc
  PROVE  /\ MarkWaiting(p) => /\ ProcOK' /\ Others(p) /\ SameLease(p) /\ proc[p].pc = "mark"
                              /\ proc'[p].pc = "wait" /\ proc'[p].trig = 0
         /\ WaitTake(p) => /\ ProcOK' /\ Others(p) /\ SameLease(p)
                           /\ proc[p].pc \in {"wait", "waited"}
                           /\ proc'[p].pc = "begin" /\ proc'[p].trig = trigger
         /\ WaitOver(p) => /\ ProcOK' /\ Others(p) /\ SameLease(p)
                           /\ proc[p].pc \in {"wait", "waited"}
                           /\ proc'[p].pc = "begin" /\ proc'[p].trig = proc[p].trig
         /\ Guard(p) => /\ ProcOK' /\ Others(p) /\ proc[p].pc \in {"wait", "guard"}
                        /\ \/ /\ SameLease(p) /\ lease' = lease
                              /\ proc'[p].pc \in {"guard", "waited"}
                              /\ proc'[p].trig = proc[p].trig
                           \/ Leaves(p) /\ proc[p].lost /\ lease' = Released(p)
         /\ Stop(p) \/ Kill(p) => ProcOK' /\ Others(p) /\ Live(p) /\ Leaves(p)
         /\ LateRenewal(p) =>
              /\ ProcOK' /\ Others(p) /\ proc'[p].pc = proc[p].pc /\ proc'[p].trig = proc[p].trig
              /\ proc'[p].paused = proc[p].paused
              /\ proc'[p].lost = proc[p].lost /\ proc'[p].age = proc[p].age
<1>t. proc[p] \in ProcRec
  BY DEF ProcOK
<1>1. ASSUME MarkWaiting(p)
      PROVE  /\ ProcOK' /\ Others(p) /\ SameLease(p) /\ proc[p].pc = "mark"
             /\ proc'[p].pc = "wait" /\ proc'[p].trig = 0
  <2> DEFINE r == [proc[p] EXCEPT !.pc = "wait", !.trig = 0, !.paused = FALSE, !.err = FALSE]
  <2>1. /\ r \in ProcRec /\ r.pc = "wait" /\ r.trig = 0 /\ r.lost = proc[p].lost
        /\ r.beat = proc[p].beat /\ r.age = proc[p].age
    <3>1. 0 \in 0..MaxTriggers /\ "wait" \in Places
      BY Constants DEF Places
    <3> QED BY <1>t, <3>1 DEF ProcRec
  <2>2. proc' = [proc EXCEPT ![p] = r] /\ proc[p].pc = "mark"
    BY <1>1 DEF MarkWaiting, ProcOK
  <2> HIDE DEF r
  <2> QED BY <2>1, <2>2, NewRecord DEF SameLease
<1>2. ASSUME NEW t \in 0..MaxTriggers, proc' = [proc EXCEPT ![p].pc = "begin", ![p].trig = t]
      PROVE  /\ ProcOK' /\ Others(p) /\ SameLease(p)
             /\ proc'[p].pc = "begin" /\ proc'[p].trig = t
  <2> DEFINE r == [proc[p] EXCEPT !.pc = "begin", !.trig = t]
  <2>1. /\ r \in ProcRec /\ r.pc = "begin" /\ r.trig = t /\ r.lost = proc[p].lost
        /\ r.beat = proc[p].beat /\ r.age = proc[p].age
    BY <1>t DEF ProcRec, Places
  <2>2. proc' = [proc EXCEPT ![p] = r]
    BY <1>2 DEF ProcOK
  <2> HIDE DEF r
  <2> QED BY <2>1, <2>2, NewRecord DEF SameLease
<1>3. ASSUME NEW place \in {"begin", "waited"}, proc' = [proc EXCEPT ![p].pc = place]
      PROVE  /\ ProcOK' /\ Others(p) /\ SameLease(p)
             /\ proc'[p].pc = place /\ proc'[p].trig = proc[p].trig
  <2> DEFINE r == [proc[p] EXCEPT !.pc = place]
  <2>1. /\ r \in ProcRec /\ r.pc = place /\ r.trig = proc[p].trig /\ r.lost = proc[p].lost
        /\ r.beat = proc[p].beat /\ r.age = proc[p].age
    BY <1>t DEF ProcRec, Places
  <2>2. proc' = [proc EXCEPT ![p] = r]
    BY <1>3 DEF ProcOK
  <2> HIDE DEF r
  <2> QED BY <2>1, <2>2, NewRecord DEF SameLease
<1>4. ASSUME Guard(p)
      PROVE  /\ ProcOK' /\ Others(p) /\ proc[p].pc \in {"wait", "guard"}
             /\ \/ /\ SameLease(p) /\ lease' = lease
                   /\ proc'[p].pc \in {"guard", "waited"} /\ proc'[p].trig = proc[p].trig
                \/ Leaves(p) /\ proc[p].lost /\ lease' = Released(p)
  <2>1. CASE proc[p].pc = "wait" /\ Enter(p, "guard", proc[p])
    <3>1. "guard" \in Places
      BY DEF Places, Phases
    <3> QED BY <1>t, <2>1, <3>1, EnterEffect DEF SameLease, Leaves
  <2>2. CASE proc[p].pc = "guard" /\ lease' = lease /\ proc' = [proc EXCEPT ![p].pc = "waited"]
    BY <1>3, <2>2
  <2> QED BY <1>4, <2>1, <2>2 DEF Guard
<1>5. ASSUME Stop(p) \/ Kill(p)
      PROVE  ProcOK' /\ Others(p) /\ Live(p) /\ Leaves(p)
  <2>1. PICK b \in {"off", "landing"} : proc' = [proc EXCEPT ![p] = Gone(p, b)]
    BY <1>5 DEF Stop, Kill
  <2>2. Live(p)
    BY <1>5 DEF Stop, Kill
  <2> QED BY <2>1, <2>2, GoneIsProc, NewRecord DEF Leaves
<1>6. ASSUME LateRenewal(p)
      PROVE  /\ ProcOK' /\ Others(p) /\ proc'[p].pc = proc[p].pc /\ proc'[p].trig = proc[p].trig
             /\ proc'[p].paused = proc[p].paused
             /\ proc'[p].lost = proc[p].lost /\ proc'[p].age = proc[p].age
  <2> DEFINE r == [proc[p] EXCEPT !.beat = "off"]
  <2>1. /\ r \in ProcRec /\ r.pc = proc[p].pc /\ r.trig = proc[p].trig
        /\ r.lost = proc[p].lost /\ r.age = proc[p].age /\ r.paused = proc[p].paused
    BY <1>t DEF ProcRec
  <2>2. proc' = [proc EXCEPT ![p] = r]
    BY <1>6 DEF LateRenewal, ProcOK
  <2> HIDE DEF r
  <2> QED BY <2>1, <2>2, NewRecord
<1>7. MarkWaiting(p) => /\ ProcOK' /\ Others(p) /\ SameLease(p) /\ proc[p].pc = "mark"
                        /\ proc'[p].pc = "wait" /\ proc'[p].trig = 0
  BY <1>1
<1>8. WaitTake(p) => /\ ProcOK' /\ Others(p) /\ SameLease(p)
                     /\ proc[p].pc \in {"wait", "waited"}
                     /\ proc'[p].pc = "begin" /\ proc'[p].trig = trigger
  BY <1>2 DEF WaitTake
<1>9. WaitOver(p) => /\ ProcOK' /\ Others(p) /\ SameLease(p)
                     /\ proc[p].pc \in {"wait", "waited"}
                     /\ proc'[p].pc = "begin" /\ proc'[p].trig = proc[p].trig
  BY <1>3 DEF WaitOver
<1> QED BY <1>4, <1>5, <1>6, <1>7, <1>8, <1>9

-----------------------------------------------------------------------------
(* Types.                                                                  *)

\* A renewed, released or kept lease is a lease.
LEMMA LeaseTyped ==
  ASSUME lease \in [owner : 0..Procs, left : 0..Ttl], NEW p \in Proc
  PROVE  /\ Grab(p) \in [owner : 0..Procs, left : 0..Ttl]
         /\ Released(p) \in [owner : 0..Procs, left : 0..Ttl]
         /\ [lease EXCEPT !.left = Less(@)] \in [owner : 0..Procs, left : 0..Ttl]
         /\ Grab(p).owner = p /\ Grab(p).left = Ttl
<1>1. p \in 0..Procs /\ Ttl \in 0..Ttl /\ 0 \in 0..Procs /\ 0 \in 0..Ttl
  BY Constants DEF Proc
<1>2. Less(lease.left) \in 0..Ttl
  BY Constants DEF Less
<1> QED BY <1>1, <1>2 DEF Grab, Released, Nobody

\* Every step keeps the types.
LEMMA TypeStep ==
  ASSUME SchedulerTypeOK, LogOK, [Next]_vars
  PROVE  SchedulerTypeOK' /\ LogOK'
<1>t. /\ lease \in [owner : 0..Procs, left : 0..Ttl] /\ ProcOK /\ TrackerTyped
      /\ trigger \in 0..asked /\ asked \in 0..MaxTriggers /\ trigger \in 0..MaxTriggers
  BY Constants DEF SchedulerTypeOK, LogOK, ProcOK, ProcRec, TrackerTyped
<1>g. ASSUME lease' \in [owner : 0..Procs, left : 0..Ttl], ProcOK', TrackerTyped',
             control' \in {"none", "waiting", "running"},
             trigger' \in 0..asked', asked' \in 0..MaxTriggers,
             runs' \in [1..MaxTriggers -> Nat], late' \subseteq Proc, stopped' \subseteq Proc
      PROVE  SchedulerTypeOK' /\ LogOK'
  BY <1>g DEF SchedulerTypeOK, LogOK, ProcOK, ProcRec, TrackerTyped
\* A step of a process that asks the tracker nothing and keeps the counts.
<1>p. ASSUME NEW p \in Proc, lease' \in {lease, Grab(p), Released(p)}, ProcOK',
             control' \in {control, "waiting", "running"}, trigger' \in {trigger, 0},
             UNCHANGED <<tracker, asked, runs>>,
             late' \in {late, late \cup {p}}, stopped' \in {stopped, stopped \cup {p}}
      PROVE  SchedulerTypeOK' /\ LogOK'
  <2>1. lease' \in [owner : 0..Procs, left : 0..Ttl]
    BY <1>p, <1>t, LeaseTyped
  <2>2. TrackerTyped'
    BY <1>p, <1>t DEF tracker, TrackerTyped
  <2>3. control' \in {"none", "waiting", "running"} /\ trigger' \in 0..asked'
        /\ asked' \in 0..MaxTriggers /\ runs' \in [1..MaxTriggers -> Nat]
    BY <1>p, <1>t DEF SchedulerTypeOK
  <2>4. late' \subseteq Proc /\ stopped' \subseteq Proc
    BY <1>p DEF SchedulerTypeOK
  <2> QED BY <1>g, <1>p, <2>1, <2>2, <2>3, <2>4
<1>0. CASE UNCHANGED vars
  BY <1>0 DEF vars, state, tracker, counts, SchedulerTypeOK, LogOK
<1>1. ASSUME NEW p \in Proc, Acquire(p) \/ Beat(p) \/ BeatFails(p) \/ Begin(p) \/ Renew(p)
      PROVE  SchedulerTypeOK' /\ LogOK'
  <2>1. ProcOK'
    BY <1>1, <1>t, SimpleEffect
  <2>2. /\ lease' \in {lease, Grab(p), Released(p)}
        /\ control' \in {control, "waiting", "running"} /\ trigger' \in {trigger, 0}
        /\ UNCHANGED <<tracker, asked, runs>>
        /\ late' \in {late, late \cup {p}} /\ stopped' \in {stopped, stopped \cup {p}}
    BY <1>1 DEF Acquire, Beat, BeatFails, Begin, Renew, Exit, counts
  <2> QED BY <1>p, <2>1, <2>2
<1>2. ASSUME NEW p \in Proc,
             \/ MarkWaiting(p) \/ WaitTake(p) \/ WaitOver(p) \/ Guard(p) \/ Stop(p) \/ Kill(p)
             \/ LateRenewal(p)
      PROVE  SchedulerTypeOK' /\ LogOK'
  <2>1. ProcOK'
    BY <1>2, <1>t, WaitEffect
  <2>2. /\ lease' \in {lease, Grab(p), Released(p)}
        /\ control' \in {control, "waiting", "running"} /\ trigger' \in {trigger, 0}
        /\ UNCHANGED <<tracker, asked, runs>>
        /\ late' \in {late, late \cup {p}} /\ stopped' \in {stopped, stopped \cup {p}}
    BY <1>2 DEF MarkWaiting, WaitTake, WaitOver, Guard, Enter, Exit, Stop, Kill, LateRenewal,
                LeftOver, counts
  <2> QED BY <1>p, <2>1, <2>2
<1>3. ASSUME NEW p \in Proc, Open(p) \/ EndTracker(p) \/ EndPrune(p) \/ EndSync(p)
      PROVE  SchedulerTypeOK' /\ LogOK'
  <2>1. /\ Goes(p) /\ UNCHANGED <<control, trigger, asked, late, stopped>>
        /\ IF proc[p].pc = "open" THEN runs' = RunRow(proc[p].trig) ELSE UNCHANGED runs
    BY <1>3, <1>t, GoesEffect
  <2>2. PICK ph \in Cycle \cup {"mark"}, r \in ProcRec : Enter(p, ph, r)
    BY <2>1 DEF Goes
  <2>3. ProcOK' /\ lease' \in {lease, Released(p)}
    BY <1>t, <2>2, EnterEffect, PlacesOfCycle
  <2>4. lease' \in [owner : 0..Procs, left : 0..Ttl]
    BY <1>t, <2>3, LeaseTyped
  <2>5. PICK e \in Endpoint :
          RecordLimit(e) \/ RecordOutage(e) \/ RecordSuccess(e) \/ UNCHANGED tracker
    <3>1. {"member/getUserTorrentList", "torrent/search"} = Endpoint
      BY DEF Endpoint
    <3>2. CASE EndTracker(p)
      <4> DEFINE e == IF proc[p].pc = "tracker_source_backfill" THEN "member/getUserTorrentList"
                      ELSE "torrent/search"
      <4>1. e \in Endpoint
        BY <3>1
      <4>2. RecordLimit(e) \/ RecordOutage(e) \/ RecordSuccess(e) \/ UNCHANGED tracker
        BY <3>2, Zenon DEF EndTracker
      <4> HIDE DEF e
      <4> QED BY <4>1, <4>2
    <3>3. CASE Open(p) \/ EndPrune(p) \/ EndSync(p)
      BY <3>1, <3>3 DEF Open, EndPrune, EndSync
    <3> QED BY <1>3, <3>2, <3>3
  <2>6. TrackerTyped'
    BY <1>t, <2>5, RecordTyped
  <2>7. runs' \in [1..MaxTriggers -> Nat]
    <3>1. proc[p].trig \in 0..MaxTriggers /\ runs \in [1..MaxTriggers -> Nat]
      BY <1>t DEF ProcOK, ProcRec, SchedulerTypeOK
    <3> QED BY <2>1, <3>1, Constants DEF RunRow
  <2> QED BY <1>g, <1>t, <2>1, <2>3, <2>4, <2>6, <2>7 DEF SchedulerTypeOK
<1>4. CASE Clear
  <2>1. log' = Noted("backoff_cleared", "*")
    BY <1>4 DEF Clear
  <2>2. log' \in Seq(ApiEvent) /\ Len(log') <= Window
    <3>1. /\ Noted("backoff_cleared", "*") \in Seq(ApiEvent)
          /\ Len(Noted("backoff_cleared", "*")) \in 1..Window
      BY NotedIsLog
    <3> QED BY <2>1, <3>1, Constants
  <2>3. TrackerTyped'
    BY <1>4, <2>2, Constants DEF Clear, TrackerTyped
  <2> QED BY <1>4, <2>3, <1>g, <1>t DEF Clear, state, counts, SchedulerTypeOK, ProcOK
<1>5. CASE Ask
  <2>1. trigger' = asked + 1 /\ asked' = asked + 1 /\ asked < MaxTriggers
        /\ UNCHANGED <<lease, control, proc, tracker, runs, late, stopped>>
    BY <1>5 DEF Ask
  <2>2. trigger' \in 0..asked' /\ asked' \in 0..MaxTriggers
    BY <1>t, <2>1, Constants
  <2>3. TrackerTyped' /\ ProcOK'
    BY <1>t, <2>1 DEF tracker, TrackerTyped, ProcOK
  <2> QED BY <1>g, <1>t, <2>1, <2>2, <2>3 DEF SchedulerTypeOK
<1>6. CASE Tick
  <2>1. lease' \in [owner : 0..Procs, left : 0..Ttl]
    <3>1. 1 \in Proc
      BY Constants, SchedulerAssumption DEF Proc
    <3> QED BY <1>6, <1>t, <3>1, LeaseTyped DEF Tick
  <2>2. ProcOK'
    <3>1. ASSUME NEW p \in Proc, proc[p].age < Every
          PROVE  [proc[p] EXCEPT !.age = @ + 1] \in ProcRec
      <4>1. proc[p] \in ProcRec /\ proc[p].age + 1 \in 0..Every
        BY <1>t, <3>1, Constants DEF ProcOK, ProcRec
      <4> QED BY <4>1 DEF ProcRec
    <3> QED BY <1>6, <1>t, <3>1 DEF Tick, ProcOK
  <2>3. TrackerTyped'
    BY <1>6, <1>t DEF Tick, TrackerTyped, Less
  <2>4. late' \subseteq Proc
    BY <1>6 DEF Tick, Due, SchedulerTypeOK
  <2> QED BY <1>6, <1>g, <1>t, <2>1, <2>2, <2>3, <2>4 DEF Tick, SchedulerTypeOK
<1> QED
  BY <1>0, <1>1, <1>2, <1>3, <1>4, <1>5, <1>6 DEF Next, Step, Thread

-----------------------------------------------------------------------------
(* The lease.                                                              *)

\* Nobody takes or releases the lease of a process that never missed a renewal.
LEMMA Sole ==
  ASSUME SchedulerTypeOK, LeaseOK, NEW q \in Proc, Live(q), q \notin late
  PROVE  /\ lease.owner = q /\ lease.left > 0 /\ proc[q].beat = "on" /\ ~proc[q].lost
         /\ lease.left + proc[q].age >= Ttl
         /\ MayTake(q)
         /\ \A p \in Proc \ {q} : /\ ~MayTake(p) /\ Released(p) = lease
                                  /\ Live(p) => p \in late
<1>1. /\ lease.owner = q /\ proc[q].beat = "on" /\ ~proc[q].lost
      /\ lease.left + proc[q].age >= Ttl
  BY DEF LeaseOK
<1>2. proc[q].age \in 0..Every /\ lease.left \in 0..Ttl
  BY DEF SchedulerTypeOK
<1>3. lease.left > 0
  BY <1>1, <1>2, Constants
<1>4. \A p \in Proc \ {q} : Live(p) => p \in late
  BY <1>1 DEF LeaseOK
<1> QED BY <1>1, <1>3, <1>4, SchedulerAssumption DEF MayTake, Released

\* A step of one process keeps the leases in order when it does for that process.
LEMMA LeaseFrame ==
  ASSUME SchedulerTypeOK, LeaseOK, NEW p \in Proc, Others(p), late \subseteq late',
         \/ lease' = lease \/ lease' = Released(p) \/ (MayTake(p) /\ lease' = Grab(p)),
         Live(p)' /\ p \notin late' =>
           /\ proc'[p].beat = "on" /\ ~proc'[p].lost
           /\ lease'.owner = p /\ lease'.left + proc'[p].age >= Ttl,
         proc'[p].pc = "new" => proc'[p].age = 0 /\ ~proc'[p].lost
  PROVE  LeaseOK'
<1> SUFFICES ASSUME NEW q \in Proc, q # p
             PROVE  /\ Live(q)' /\ q \notin late' =>
                         /\ proc'[q].beat = "on" /\ ~proc'[q].lost
                         /\ lease'.owner = q /\ lease'.left + proc'[q].age >= Ttl
                    /\ proc'[q].pc = "new" => proc'[q].age = 0 /\ ~proc'[q].lost
  BY DEF LeaseOK
<1>1. proc'[q] = proc[q]
  BY DEF Others
<1>2. Live(q)' <=> Live(q)
  BY <1>1 DEF Live
<1>3. ASSUME Live(q), q \notin late PROVE lease' = lease
  BY <1>3, Sole
<1> QED BY <1>1, <1>2, <1>3 DEF LeaseOK

\* Every step keeps the leases in order.
LEMMA LeaseStep ==
  ASSUME SchedulerTypeOK, LogOK, SchedulerTypeOK', LeaseOK, [Next]_vars
  PROVE  LeaseOK'
<1>t. ProcOK /\ trigger \in 0..MaxTriggers
  BY Constants DEF SchedulerTypeOK, ProcOK, ProcRec
<1>0. CASE UNCHANGED <<lease, proc, late>>
  BY <1>0 DEF LeaseOK, Live
\* A process that stays in its lease, or leaves.
<1>s. ASSUME NEW p \in Proc, Others(p), Live(p), SameLease(p), UNCHANGED <<lease, late>>,
             proc'[p].pc # "new"
      PROVE  LeaseOK'
  BY <1>s, LeaseFrame DEF LeaseOK, SameLease, Live
<1>l. ASSUME NEW p \in Proc, Others(p), proc'[p].pc = "gone", late \subseteq late',
             lease' = lease \/ lease' = Released(p)
      PROVE  LeaseOK'
  BY <1>l, LeaseFrame DEF Live
<1>1. ASSUME NEW p \in Proc, Acquire(p) PROVE LeaseOK'
  <2>1. /\ Others(p) /\ proc[p].pc = "new" /\ proc'[p].pc = "begin" /\ proc'[p].beat = "on"
        /\ proc'[p].lost = proc[p].lost /\ proc'[p].age = proc[p].age
    BY <1>1, <1>t, SimpleEffect
  <2>2. MayTake(p) /\ lease' = Grab(p) /\ late' = late
    BY <1>1 DEF Acquire, counts
  <2>3. proc[p].age = 0 /\ ~proc[p].lost
    BY <2>1 DEF LeaseOK
  <2>4. lease'.owner = p /\ lease'.left = Ttl
    BY <2>2 DEF Grab
  <2> QED BY <2>1, <2>2, <2>3, <2>4, LeaseFrame, Constants
<1>2. ASSUME NEW p \in Proc, Beat(p) PROVE LeaseOK'
  <2>1. /\ Others(p) /\ Live(p) /\ proc'[p].pc = proc[p].pc
        /\ MayTake(p) => /\ proc'[p].age = 0 /\ proc'[p].beat = proc[p].beat
                         /\ proc'[p].lost = proc[p].lost
    BY <1>2, <1>t, SimpleEffect
  <2>2. late' = late
    BY <1>2 DEF Beat, counts
  <2>3. CASE MayTake(p)
    <3>1. lease' = Grab(p) /\ lease'.owner = p /\ lease'.left = Ttl
      BY <1>2, <2>3 DEF Beat, Grab
    <3>2. p \notin late => proc[p].beat = "on" /\ ~proc[p].lost
      BY <2>1 DEF LeaseOK
    <3> QED BY <2>1, <2>2, <2>3, <3>1, <3>2, LeaseFrame, Constants DEF Live
  <2>4. CASE ~MayTake(p)
    <3>1. lease' = lease /\ p \in late
      BY <1>2, <2>1, <2>4, Sole DEF Beat
    <3> QED BY <2>1, <2>2, <3>1, LeaseFrame DEF Live
  <2> QED BY <2>3, <2>4
<1>3. ASSUME NEW p \in Proc, BeatFails(p) PROVE LeaseOK'
  <2>1. Others(p) /\ Live(p) /\ proc'[p].pc = proc[p].pc
    BY <1>3, <1>t, SimpleEffect
  <2>2. late' = late \cup {p} /\ lease' = lease
    BY <1>3 DEF BeatFails
  <2> QED BY <2>1, <2>2, LeaseFrame DEF Live
<1>4. ASSUME NEW p \in Proc, Begin(p) PROVE LeaseOK'
  <2>1. /\ Others(p) /\ SameLease(p) /\ proc[p].pc = "begin" /\ proc'[p].pc = "renew"
    BY <1>4, <1>t, SimpleEffect
  <2>2. UNCHANGED <<lease, late>>
    BY <1>4 DEF Begin, counts
  <2> QED BY <1>s, <2>1, <2>2 DEF Live
<1>5. ASSUME NEW p \in Proc, Renew(p) PROVE LeaseOK'
  <2>1. /\ Others(p) /\ proc[p].pc = "renew"
        /\ IF MayTake(p) /\ ~proc[p].lost
             THEN SameLease(p) /\ proc'[p].pc = "open" /\ lease' = Grab(p)
             ELSE proc'[p].pc = "gone" /\ lease' = Released(p)
    BY <1>5, <1>t, SimpleEffect DEF Leaves
  <2>2. late' = late
    BY <1>5 DEF Renew, counts
  <2>3. CASE MayTake(p) /\ ~proc[p].lost
    <3>1. lease'.owner = p /\ lease'.left = Ttl /\ Live(p)
      BY <2>1, <2>3 DEF Grab, Live
    <3>2. proc'[p].age \in Nat
      BY Constants DEF SchedulerTypeOK
    <3>3. p \notin late => proc[p].beat = "on" /\ ~proc[p].lost
      BY <3>1 DEF LeaseOK
    <3> QED BY <2>1, <2>2, <2>3, <3>1, <3>2, <3>3, LeaseFrame, Constants DEF SameLease
  <2>4. CASE ~(MayTake(p) /\ ~proc[p].lost)
    BY <1>l, <2>1, <2>2, <2>4
  <2> QED BY <2>3, <2>4
<1>6. ASSUME NEW p \in Proc, Open(p) \/ EndTracker(p) \/ EndPrune(p) \/ EndSync(p)
      PROVE  LeaseOK'
  <2>1. Goes(p) /\ proc[p].pc \in Cycle \cup {"open"} /\ late' = late
    BY <1>6, <1>t, GoesEffect
  <2>2. Live(p)
    BY <2>1 DEF Live, Cycle, Tracker, Intents
  <2>3. PICK ph \in Cycle \cup {"mark"}, r \in ProcRec :
          /\ Enter(p, ph, r) /\ r.lost = proc[p].lost
          /\ r.beat = proc[p].beat /\ r.age = proc[p].age
    BY <2>1 DEF Goes
  <2>4. /\ Others(p)
        /\ \/ lease' = Released(p) /\ proc'[p].pc = "gone"
           \/ lease' = lease /\ proc'[p].pc = ph /\ SameLease(p)
    BY <1>t, <2>3, EnterEffect, PlacesOfCycle DEF SameLease
  <2>5. ph # "new"
    BY DEF Cycle, Tracker, Intents
  <2> QED BY <1>s, <1>l, <2>1, <2>2, <2>4, <2>5
<1>7. ASSUME NEW p \in Proc, MarkWaiting(p) \/ WaitTake(p) \/ WaitOver(p) PROVE LeaseOK'
  <2>1. /\ Others(p) /\ SameLease(p) /\ proc[p].pc \in {"mark", "wait", "waited"}
        /\ proc'[p].pc \in {"wait", "begin"}
    BY <1>7, <1>t, WaitEffect
  <2>2. UNCHANGED <<lease, late>>
    BY <1>7 DEF MarkWaiting, WaitTake, WaitOver, counts
  <2> QED BY <1>s, <2>1, <2>2 DEF Live
<1>8. ASSUME NEW p \in Proc, Guard(p) PROVE LeaseOK'
  <2>1. /\ Others(p) /\ proc[p].pc \in {"wait", "guard"}
        /\ \/ SameLease(p) /\ lease' = lease /\ proc'[p].pc \in {"guard", "waited"}
           \/ proc'[p].pc = "gone" /\ lease' = Released(p)
    BY <1>8, <1>t, WaitEffect DEF Leaves
  <2>2. late' = late
    BY <1>8 DEF Guard, counts
  <2> QED BY <1>s, <1>l, <2>1, <2>2 DEF Live
<1>9. ASSUME NEW p \in Proc, Stop(p) \/ Kill(p) PROVE LeaseOK'
  <2>1. Others(p) /\ proc'[p].pc = "gone"
    BY <1>9, <1>t, WaitEffect DEF Leaves
  <2>2. late' = late /\ (lease' = lease \/ lease' = Released(p))
    BY <1>9 DEF Stop, Kill
  <2> QED BY <1>l, <2>1, <2>2
<1>10. ASSUME NEW p \in Proc, LateRenewal(p) PROVE LeaseOK'
  <2>1. /\ Others(p) /\ proc'[p].pc = proc[p].pc /\ proc[p].beat = "landing"
        /\ proc'[p].lost = proc[p].lost /\ proc'[p].age = proc[p].age
    BY <1>10, <1>t, WaitEffect DEF LateRenewal
  <2>2. late' = late /\ (lease' = lease \/ (MayTake(p) /\ lease' = Grab(p)))
    BY <1>10 DEF LateRenewal, counts
  <2>3. Live(p) => p \in late
    BY <2>1 DEF LeaseOK
  <2> QED BY <2>1, <2>2, <2>3, LeaseFrame DEF Live, LeaseOK
<1>11. CASE Clear \/ Ask
  BY <1>0, <1>11 DEF Clear, Ask, state, counts
<1>12. CASE Tick
  <2> SUFFICES ASSUME NEW p \in Proc
               PROVE  /\ Live(p)' /\ p \notin late' =>
                           /\ proc'[p].beat = "on" /\ ~proc'[p].lost
                           /\ lease'.owner = p /\ lease'.left + proc'[p].age >= Ttl
                      /\ proc'[p].pc = "new" => proc'[p].age = 0 /\ ~proc'[p].lost
    BY DEF LeaseOK
  <2>1. /\ proc'[p] = IF Live(p) /\ proc[p].beat = "on" /\ proc[p].age < Every
                        THEN [proc[p] EXCEPT !.age = @ + 1] ELSE proc[p]
        /\ lease' = [lease EXCEPT !.left = Less(@)]
        /\ late' = late \cup Due
    BY <1>12 DEF Tick
  <2>t. proc[p] \in ProcRec
    BY <1>t DEF ProcOK
  <2>2. /\ proc'[p].pc = proc[p].pc /\ proc'[p].beat = proc[p].beat
        /\ proc'[p].lost = proc[p].lost
        /\ Live(p) /\ proc[p].beat = "on" /\ proc[p].age < Every => proc'[p].age = proc[p].age + 1
        /\ ~Live(p) => proc'[p].age = proc[p].age
    BY <2>1, <2>t DEF ProcRec
  <2>3. ASSUME Live(p), p \notin late'
        PROVE  /\ proc'[p].beat = "on" /\ ~proc'[p].lost
               /\ lease'.owner = p /\ lease'.left + proc'[p].age >= Ttl
    <3>1. p \notin late /\ p \notin Due
      BY <2>1, <2>3
    <3>2. /\ lease.owner = p /\ lease.left > 0 /\ proc[p].beat = "on" /\ ~proc[p].lost
          /\ lease.left + proc[p].age >= Ttl
      BY <2>3, <3>1, Sole
    <3>3. proc[p].age \in 0..Every /\ proc[p].age # Every
      BY <2>t, <2>3, <3>1, <3>2 DEF Due, ProcRec
    <3>4. proc'[p].age = proc[p].age + 1
      BY <2>2, <2>3, <3>2, <3>3, Constants
    <3>5. lease'.owner = p /\ lease'.left = lease.left - 1 /\ lease.left \in Nat
      BY <2>1, <3>2, Constants DEF Less, SchedulerTypeOK
    <3> QED BY <2>2, <3>2, <3>3, <3>4, <3>5, Constants
  <2>4. proc'[p].pc = "new" => proc'[p].age = 0 /\ ~proc'[p].lost
    BY <2>2 DEF LeaseOK, Live
  <2>5. Live(p)' <=> Live(p)
    BY <2>2 DEF Live
  <2> QED BY <2>3, <2>4, <2>5
<1>13. CASE UNCHANGED vars
  BY <1>0, <1>13 DEF vars, state, counts
<1> QED
  BY <1>1, <1>2, <1>3, <1>4, <1>5, <1>6, <1>7, <1>8, <1>9, <1>10, <1>11, <1>12, <1>13
  DEF Next, Step, Thread


-----------------------------------------------------------------------------
(* The triggers.                                                           *)

\* The account of the triggers.
HeldOK == HeldOnce /\ RunOnce /\ TriggerAccounted

\* A process that keeps its trigger, in its hands or on its way out with a reason,
\* leaves the account of the triggers right.
LEMMA KeepsTrigger ==
  ASSUME SchedulerTypeOK, HeldOK, NEW p \in Proc, Others(p), proc'[p].trig = proc[p].trig,
         UNCHANGED <<trigger, asked, runs>>, late \subseteq late', stopped \subseteq stopped',
         RunsOf(p)', Live(p) => Live(p)' \/ p \in late' \cup stopped'
  PROVE  HeldOK'
<1>1. \A q \in Proc : proc'[q].trig = proc[q].trig
  BY DEF Others
<1>2. HeldOnce'
  BY <1>1 DEF HeldOK, HeldOnce
<1>3. RunOnce'
  <2> SUFFICES ASSUME NEW q \in Proc, q # p PROVE RunsOf(q)'
    BY DEF RunOnce
  <2>1. proc'[q] = proc[q] /\ RunsOf(q)
    BY DEF Others, HeldOK, RunOnce
  <2> QED BY <2>1 DEF RunsOf
<1>4. TriggerAccounted'
  <2> SUFFICES ASSUME NEW t \in 1..asked
               PROVE  /\ runs[t] <= 1
                      /\ \/ t = trigger \/ runs[t] = 1
                         \/ \E q \in Proc : proc'[q].trig = t /\ (Live(q)' \/ q \in late' \cup stopped')
    BY DEF TriggerAccounted
  <2>1. \A q \in Proc : Live(q) \/ q \in late \cup stopped => Live(q)' \/ q \in late' \cup stopped'
    BY DEF Others, Live
  <2> QED BY <1>1, <2>1 DEF HeldOK, TriggerAccounted
<1> QED BY <1>2, <1>3, <1>4 DEF HeldOK

\* Who takes the queued trigger holds what did not run, and he alone.
LEMMA TakesTrigger ==
  ASSUME SchedulerTypeOK, HeldOK, NEW p \in Proc, Others(p),
         proc[p].trig = 0, proc'[p].trig = trigger, trigger' = 0, proc'[p].pc \in Ahead,
         UNCHANGED <<asked, runs, late, stopped>>
  PROVE  HeldOK'
<1>t. /\ trigger \in 0..asked /\ asked \in 0..MaxTriggers /\ MaxTriggers \in Nat
      /\ trigger # 0 => trigger \in 1..asked /\ trigger \in 1..MaxTriggers
  BY Constants DEF SchedulerTypeOK
<1>a. Live(p)'
  BY DEF Live, Ahead
<1>1. HeldOnce'
  <2>1. \A q \in Proc \ {p} : proc'[q].trig = proc[q].trig
    BY DEF Others
  <2>2. \A q \in Proc : proc[q].trig # 0 =>
          /\ proc[q].trig \in 1..asked /\ proc[q].trig # trigger
          /\ \A o \in Proc \ {q} : proc[o].trig # proc[q].trig
    BY DEF HeldOK, HeldOnce
  <2>3. \A q \in Proc : proc'[q].trig # 0 =>
          /\ proc'[q].trig \in 1..asked' /\ proc'[q].trig # trigger'
          /\ \A o \in Proc \ {q} : proc'[o].trig # proc'[q].trig
    BY <1>t, <2>1, <2>2
  <2>4. \A t \in 1..MaxTriggers : t > asked' \/ t = trigger' => runs'[t] = 0
    BY <1>t DEF HeldOK, HeldOnce
  <2> QED BY <2>3, <2>4 DEF HeldOnce
<1>2. RunOnce'
  <2>1. RunsOf(p)'
    <3>1. trigger # 0 => runs[trigger] = 0
      BY <1>t DEF HeldOK, HeldOnce
    <3>2. proc'[p].pc \notin {"new", "wait", "waited", "guard"} \cup Cycle \cup {"mark"}
      BY DEF Ahead, Cycle, Tracker, Intents
    <3> QED BY <3>1, <3>2 DEF RunsOf
  <2>2. ASSUME NEW q \in Proc, q # p PROVE RunsOf(q)'
    <3>1. proc'[q] = proc[q] /\ RunsOf(q)
      BY <2>2 DEF Others, HeldOK, RunOnce
    <3> QED BY <3>1 DEF RunsOf
  <2> QED BY <2>1, <2>2 DEF RunOnce
<1>3. TriggerAccounted'
  <2> SUFFICES ASSUME NEW t \in 1..asked
               PROVE  /\ runs[t] <= 1
                      /\ \/ t = trigger' \/ runs[t] = 1
                         \/ \E q \in Proc : proc'[q].trig = t /\ (Live(q)' \/ q \in late \cup stopped)
    BY DEF TriggerAccounted
  <2>1. CASE t = trigger
    BY <1>a, <2>1 DEF HeldOK, TriggerAccounted
  <2>2. CASE t # trigger
    <3>1. ASSUME NEW q \in Proc, proc[q].trig = t PROVE proc'[q] = proc[q]
      BY <3>1, <1>t DEF Others
    <3> QED BY <2>2, <3>1 DEF HeldOK, TriggerAccounted, Live
  <2> QED BY <2>1, <2>2
<1> QED BY <1>1, <1>2, <1>3 DEF HeldOK

\* Who lets go of a trigger did run it.
LEMMA DropsTrigger ==
  ASSUME SchedulerTypeOK, HeldOK, NEW p \in Proc, Others(p),
         proc[p].pc = "mark", proc'[p].pc = "wait", proc'[p].trig = 0,
         UNCHANGED <<trigger, asked, runs, late, stopped>>
  PROVE  HeldOK'
<1>1. HeldOnce'
  BY DEF HeldOK, HeldOnce, Others
<1>2. RunOnce'
  <2>1. RunsOf(p)'
    BY DEF RunsOf, Ahead, Cycle, Tracker, Intents
  <2>2. ASSUME NEW q \in Proc, q # p PROVE RunsOf(q)'
    <3>1. proc'[q] = proc[q] /\ RunsOf(q)
      BY <2>2 DEF Others, HeldOK, RunOnce
    <3> QED BY <3>1 DEF RunsOf
  <2> QED BY <2>1, <2>2 DEF RunOnce
<1>3. TriggerAccounted'
  <2> SUFFICES ASSUME NEW t \in 1..asked
               PROVE  /\ runs[t] <= 1
                      /\ \/ t = trigger \/ runs[t] = 1
                         \/ \E q \in Proc : proc'[q].trig = t /\ (Live(q)' \/ q \in late \cup stopped)
    BY DEF TriggerAccounted
  <2>1. t # 0
    BY DEF SchedulerTypeOK
  <2>2. proc[p].trig = t => runs[t] = 1
    BY <2>1 DEF HeldOK, RunOnce, RunsOf
  <2>3. \A q \in Proc \ {p} : proc'[q] = proc[q]
    BY DEF Others
  <2> QED BY <2>2, <2>3 DEF HeldOK, TriggerAccounted, Live
<1> QED BY <1>1, <1>2, <1>3 DEF HeldOK

\* Who opens a run writes the row of the trigger he holds, and no other.
LEMMA OpensRun ==
  ASSUME SchedulerTypeOK, HeldOK, NEW p \in Proc, Others(p), proc'[p].trig = proc[p].trig,
         proc[p].pc = "open", proc'[p].pc \in Cycle \cup {"mark", "gone"},
         runs' = RunRow(proc[p].trig), UNCHANGED <<trigger, asked, late, stopped>>
  PROVE  HeldOK'
<1> DEFINE u == proc[p].trig
<1>t. /\ runs \in [1..MaxTriggers -> Nat] /\ asked \in 0..MaxTriggers /\ MaxTriggers \in Nat
      /\ u \in 0..MaxTriggers
  BY Constants DEF SchedulerTypeOK
<1>0. u # 0 => u \in 1..asked /\ u # trigger /\ \A q \in Proc \ {p} : proc[q].trig # u
  BY DEF HeldOK, HeldOnce
<1>o. u # 0 => runs[u] = 0
  BY DEF HeldOK, RunOnce, RunsOf, Ahead
<1>r. /\ \A t \in 1..MaxTriggers : t # u => runs'[t] = runs[t]
      /\ u # 0 => runs'[u] = 1
  <2>1. CASE u = 0
    BY <2>1, <1>t DEF RunRow
  <2>2. CASE u # 0
    <3>1. runs' = [runs EXCEPT ![u] = @ + 1] /\ u \in 1..MaxTriggers
      BY <2>2, <1>t, <1>0 DEF RunRow
    <3> QED BY <3>1, <1>o, <2>2, <1>t
  <2> QED BY <2>1, <2>2
<1>1. HeldOnce'
  <2>1. \A q \in Proc : proc'[q].trig = proc[q].trig
    BY DEF Others
  <2>2. \A t \in 1..MaxTriggers : t > asked \/ t = trigger => runs[t] = 0 /\ t # u
    <3>1. \A t \in 1..MaxTriggers : t > asked \/ t = trigger => t # u
      BY <1>0, <1>t
    <3> QED BY <3>1 DEF HeldOK, HeldOnce
  <2>3. \A t \in 1..MaxTriggers : t > asked' \/ t = trigger' => runs'[t] = 0
    BY <1>r, <2>2
  <2> QED BY <2>1, <2>3 DEF HeldOK, HeldOnce
<1>2. RunOnce'
  <2>1. RunsOf(p)'
    <3>1. proc'[p].pc \notin {"new", "wait", "waited", "guard"} \cup Ahead
      BY DEF Ahead, Cycle, Tracker, Intents
    <3> QED BY <1>r, <3>1 DEF RunsOf
  <2>2. ASSUME NEW q \in Proc, q # p PROVE RunsOf(q)'
    <3>1. proc'[q] = proc[q] /\ RunsOf(q)
      BY <2>2 DEF Others, HeldOK, RunOnce
    <3>2. proc[q].trig \in 0..MaxTriggers
      BY DEF SchedulerTypeOK
    <3>3. proc[q].trig # 0 => proc[q].trig # u
      BY <1>0, <2>2
    <3>4. proc[q].trig # 0 => runs'[proc[q].trig] = runs[proc[q].trig]
      BY <1>r, <1>t, <3>2, <3>3
    <3> QED BY <3>1, <3>4 DEF RunsOf
  <2> QED BY <2>1, <2>2 DEF RunOnce
<1>3. TriggerAccounted'
  <2> SUFFICES ASSUME NEW t \in 1..asked
               PROVE  /\ runs'[t] <= 1
                      /\ \/ t = trigger \/ runs'[t] = 1
                         \/ \E q \in Proc : proc'[q].trig = t /\ (Live(q)' \/ q \in late \cup stopped)
    BY DEF TriggerAccounted
  <2>0. t \in 1..MaxTriggers /\ t # 0
    BY <1>t
  <2>1. CASE t = u
    BY <1>r, <2>0, <2>1
  <2>2. CASE t # u
    <3>1. runs'[t] = runs[t]
      BY <1>r, <2>0, <2>2
    <3>2. \A q \in Proc : proc[q].trig = t => proc'[q] = proc[q]
      BY <2>2 DEF Others
    <3> QED BY <3>1, <3>2 DEF HeldOK, TriggerAccounted, Live
  <2> QED BY <2>1, <2>2
<1> QED BY <1>1, <1>2, <1>3 DEF HeldOK

\* Every step keeps the account of the triggers.
LEMMA HeldStep ==
  ASSUME SchedulerTypeOK, LogOK, LeaseOK, HeldOK, [Next]_vars
  PROVE  HeldOK'
<1>t. ProcOK /\ trigger \in 0..MaxTriggers
  BY Constants DEF SchedulerTypeOK, ProcOK, ProcRec
<1>r. \A p \in Proc : RunsOf(p)
  BY DEF HeldOK, RunOnce
<1>l. \A p \in Proc : Live(p) /\ p \notin late => MayTake(p) /\ ~proc[p].lost
  BY Sole
\* A process that has no trigger has no run either.
<1>n. \A p \in Proc : proc'[p].trig = 0 => RunsOf(p)'
  BY DEF RunsOf
<1>s. ASSUME NEW p \in Proc, proc'[p].pc = proc[p].pc, proc'[p].trig = proc[p].trig,
             Others(p), UNCHANGED <<trigger, asked, runs>>,
             late \subseteq late', stopped \subseteq stopped'
      PROVE  HeldOK'
  <2>1. RunsOf(p)' /\ (Live(p) => Live(p)')
    BY <1>s, <1>r DEF RunsOf, Live
  <2> QED BY <1>s, <2>1, KeepsTrigger
<1>g. ASSUME NEW p \in Proc, Leaves(p), Others(p), UNCHANGED <<trigger, asked, runs>>,
             late \subseteq late', stopped \subseteq stopped',
             Live(p) => p \in late' \cup stopped'
      PROVE  HeldOK'
  <2>1. RunsOf(p)'
    BY <1>g DEF RunsOf, Leaves, Ahead, Cycle, Tracker, Intents
  <2> QED BY <1>g, <2>1, KeepsTrigger DEF Leaves
<1>1. ASSUME NEW p \in Proc, Acquire(p) PROVE HeldOK'
  <2>1. /\ Others(p) /\ proc[p].pc = "new" /\ proc'[p].pc = "begin"
        /\ proc'[p].trig = proc[p].trig
    BY <1>1, <1>t, SimpleEffect
  <2>2. proc[p].trig = 0
    BY <1>r, <2>1 DEF RunsOf
  <2> QED BY <1>1, <1>n, <2>1, <2>2, KeepsTrigger DEF Acquire, counts, Live
<1>2. ASSUME NEW p \in Proc, Beat(p) \/ BeatFails(p) PROVE HeldOK'
  <2>1. Others(p) /\ proc'[p].pc = proc[p].pc /\ proc'[p].trig = proc[p].trig
    BY <1>2, <1>t, SimpleEffect
  <2> QED BY <1>2, <1>s, <2>1 DEF Beat, BeatFails, counts
<1>3. ASSUME NEW p \in Proc, LateRenewal(p) PROVE HeldOK'
  <2>1. Others(p) /\ proc'[p].pc = proc[p].pc /\ proc'[p].trig = proc[p].trig
    BY <1>3, <1>t, WaitEffect
  <2> QED BY <1>3, <1>s, <2>1 DEF LateRenewal, counts
<1>4. ASSUME NEW p \in Proc, Begin(p) PROVE HeldOK'
  <2>1. /\ Others(p) /\ proc[p].pc = "begin" /\ proc'[p].pc = "renew"
        /\ proc'[p].trig = IF proc[p].trig = 0 THEN trigger ELSE proc[p].trig
    BY <1>4, <1>t, SimpleEffect
  <2>2. /\ UNCHANGED <<asked, runs, late, stopped>>
        /\ IF proc[p].trig = 0 THEN trigger' = 0 ELSE trigger' = trigger
    BY <1>4 DEF Begin, TakesAtBegin, counts
  <2>3. proc'[p].pc \in Ahead /\ Live(p)'
    BY <2>1 DEF Ahead, Live
  <2>4. CASE proc[p].trig = 0
    BY <2>1, <2>2, <2>3, <2>4, TakesTrigger
  <2>5. CASE proc[p].trig # 0
    <3>1. RunsOf(p)'
      BY <1>r, <2>1, <2>2, <2>5 DEF RunsOf, Ahead, Cycle, Tracker, Intents
    <3> QED BY <2>1, <2>2, <2>3, <2>5, <3>1, KeepsTrigger
  <2> QED BY <2>4, <2>5
<1>5. ASSUME NEW p \in Proc, Renew(p) PROVE HeldOK'
  <2>1. /\ Others(p) /\ proc[p].pc = "renew"
        /\ IF MayTake(p) /\ ~proc[p].lost
             THEN proc'[p].pc = "open" /\ proc'[p].trig = proc[p].trig ELSE Leaves(p)
    BY <1>5, <1>t, SimpleEffect
  <2>2. UNCHANGED <<trigger, asked, runs, late, stopped>>
    BY <1>5 DEF Renew, counts
  <2>3. CASE MayTake(p) /\ ~proc[p].lost
    <3>1. RunsOf(p)' /\ Live(p)'
      BY <1>r, <2>1, <2>2, <2>3 DEF RunsOf, Ahead, Cycle, Tracker, Intents, Live
    <3> QED BY <2>1, <2>2, <2>3, <3>1, KeepsTrigger
  <2>4. CASE ~(MayTake(p) /\ ~proc[p].lost)
    BY <1>g, <1>l, <2>1, <2>2, <2>4
  <2> QED BY <2>3, <2>4
<1>6. ASSUME NEW p \in Proc, Open(p) \/ EndTracker(p) \/ EndPrune(p) \/ EndSync(p)
      PROVE  HeldOK'
  <2>1. /\ Goes(p) /\ proc[p].pc \in Cycle \cup {"open"}
        /\ UNCHANGED <<trigger, asked, late, stopped>>
        /\ IF proc[p].pc = "open" THEN runs' = RunRow(proc[p].trig) ELSE UNCHANGED runs
    BY <1>6, <1>t, GoesEffect
  <2>2. PICK ph \in Cycle \cup {"mark"}, r \in ProcRec :
          Enter(p, ph, r) /\ r.trig = proc[p].trig /\ r.lost = proc[p].lost
    BY <2>1 DEF Goes
  <2>3. /\ Others(p)
        /\ \/ proc[p].lost /\ Leaves(p)
           \/ proc'[p].pc = ph /\ proc'[p].trig = proc[p].trig
    BY <1>t, <2>2, EnterEffect, PlacesOfCycle DEF Leaves
  <2>4. CASE proc[p].pc = "open"
    BY <2>1, <2>3, <2>4, OpensRun DEF Leaves
  <2>5. CASE proc[p].pc \in Cycle /\ Leaves(p) /\ proc[p].lost
    BY <1>g, <1>l, <2>1, <2>3, <2>5 DEF Cycle, Tracker, Intents
  <2>6. CASE proc[p].pc \in Cycle /\ proc'[p].pc = ph /\ proc'[p].trig = proc[p].trig
    <3>1. UNCHANGED runs
      BY <2>1, <2>6 DEF Cycle, Tracker, Intents
    <3>2. RunsOf(p)' /\ Live(p)'
      BY <1>r, <2>2, <2>6, <3>1 DEF RunsOf, Ahead, Cycle, Tracker, Intents, Live
    <3> QED BY <2>1, <2>3, <2>6, <3>1, <3>2, KeepsTrigger
  <2> QED BY <2>1, <2>3, <2>4, <2>5, <2>6
<1>7. ASSUME NEW p \in Proc, MarkWaiting(p) PROVE HeldOK'
  <2>1. Others(p) /\ proc[p].pc = "mark" /\ proc'[p].pc = "wait" /\ proc'[p].trig = 0
    BY <1>7, <1>t, WaitEffect
  <2> QED BY <1>7, <2>1, DropsTrigger DEF MarkWaiting, counts
<1>8. ASSUME NEW p \in Proc, WaitTake(p) PROVE HeldOK'
  <2>1. /\ Others(p) /\ proc[p].pc \in {"wait", "waited"} /\ proc'[p].pc \in Ahead
        /\ proc'[p].trig = trigger
    BY <1>8, <1>t, WaitEffect DEF Ahead
  <2>2. proc[p].trig = 0
    BY <1>r, <2>1 DEF RunsOf
  <2> QED BY <1>8, <2>1, <2>2, TakesTrigger DEF WaitTake, LeftOver, counts
<1>9. ASSUME NEW p \in Proc, WaitOver(p) PROVE HeldOK'
  <2>1. /\ Others(p) /\ proc[p].pc \in {"wait", "waited"} /\ proc'[p].pc = "begin"
        /\ proc'[p].trig = proc[p].trig
    BY <1>9, <1>t, WaitEffect
  <2>2. proc[p].trig = 0
    BY <1>r, <2>1 DEF RunsOf
  <2> QED BY <1>9, <1>n, <2>1, <2>2, KeepsTrigger DEF WaitOver, counts, Live
<1>10. ASSUME NEW p \in Proc, Guard(p) PROVE HeldOK'
  <2>1. /\ Others(p) /\ proc[p].pc \in {"wait", "guard"}
        /\ \/ proc'[p].pc \in {"guard", "waited"} /\ proc'[p].trig = proc[p].trig
           \/ Leaves(p) /\ proc[p].lost
    BY <1>10, <1>t, WaitEffect
  <2>2. UNCHANGED <<trigger, asked, runs, late, stopped>>
    BY <1>10 DEF Guard, counts
  <2>3. proc[p].trig = 0
    BY <1>r, <2>1 DEF RunsOf
  <2>4. CASE Leaves(p) /\ proc[p].lost
    BY <1>g, <1>l, <2>1, <2>2, <2>4
  <2>5. CASE proc'[p].pc \in {"guard", "waited"} /\ proc'[p].trig = proc[p].trig
    BY <1>n, <2>1, <2>2, <2>3, <2>5, KeepsTrigger DEF Live
  <2> QED BY <2>1, <2>4, <2>5
<1>11. ASSUME NEW p \in Proc, Stop(p) \/ Kill(p) PROVE HeldOK'
  <2>1. Others(p) /\ Leaves(p)
    BY <1>11, <1>t, WaitEffect
  <2> QED BY <1>11, <1>g, <2>1 DEF Stop, Kill
<1>12. CASE Tick
  <2>1. \A p \in Proc : proc'[p].pc = proc[p].pc /\ proc'[p].trig = proc[p].trig
    BY <1>12, <1>t DEF Tick, ProcOK, ProcRec
  <2>2. UNCHANGED <<trigger, asked, runs, stopped>> /\ late \subseteq late'
    BY <1>12 DEF Tick
  <2> QED BY <2>1, <2>2 DEF HeldOK, HeldOnce, RunOnce, RunsOf, TriggerAccounted, Live
<1>13. CASE Ask
  <2>1. /\ trigger = 0 /\ trigger' = asked + 1 /\ asked' = asked + 1 /\ asked < MaxTriggers
        /\ UNCHANGED <<proc, runs, late, stopped>>
    BY <1>13 DEF Ask
  <2>2. asked \in Nat /\ MaxTriggers \in Nat /\ trigger' \notin 1..asked
    BY <2>1, Constants DEF SchedulerTypeOK
  <2>3. HeldOnce'
    <3>1. \A t \in 1..MaxTriggers : t > asked' \/ t = trigger' => t > asked
      BY <2>1, <2>2
    <3>2. \A t \in 1..asked : t \in 1..asked' /\ t # trigger'
      BY <2>1, <2>2
    <3> QED BY <2>1, <3>1, <3>2 DEF HeldOK, HeldOnce
  <2>4. RunOnce'
    BY <2>1 DEF HeldOK, RunOnce, RunsOf
  <2>5. TriggerAccounted'
    <3>1. trigger' \in 1..MaxTriggers /\ trigger' > asked
      BY <2>1, <2>2
    <3>2. runs[trigger'] = 0
      BY <3>1 DEF HeldOK, HeldOnce
    <3>3. \A t \in 1..asked' : t \in 1..asked \/ t = trigger'
      BY <2>1, <2>2
    <3>4. \A t \in 1..asked : t # trigger
      BY <2>1
    <3> QED BY <2>1, <3>2, <3>3, <3>4 DEF HeldOK, TriggerAccounted, Live
  <2> QED BY <2>3, <2>4, <2>5 DEF HeldOK
<1>14. CASE Clear \/ UNCHANGED vars
  <2>1. UNCHANGED <<trigger, proc, asked, runs, late, stopped>>
    BY <1>14 DEF Clear, vars, state, counts
  <2> QED BY <2>1 DEF HeldOK, HeldOnce, RunOnce, RunsOf, TriggerAccounted, Live
<1> QED
  BY <1>1, <1>2, <1>3, <1>4, <1>5, <1>6, <1>7, <1>8, <1>9, <1>10, <1>11, <1>12, <1>13, <1>14
  DEF Next, Step, Thread

-----------------------------------------------------------------------------
(* The pauses.                                                             *)

\* The steps of a process that go to no phase of a cycle say nothing of the tracker.
LEMMA ElsewhereEffect ==
  ASSUME ProcOK, trigger \in 0..MaxTriggers, NEW p \in Proc,
         \/ Acquire(p) \/ Beat(p) \/ BeatFails(p) \/ Begin(p) \/ Renew(p) \/ MarkWaiting(p)
         \/ WaitTake(p) \/ WaitOver(p) \/ Guard(p) \/ Stop(p) \/ Kill(p) \/ LateRenewal(p)
  PROVE  /\ Others(p) /\ UNCHANGED <<row, file>> /\ late \subseteq late'
         /\ \/ proc'[p].pc = proc[p].pc /\ proc'[p].paused = proc[p].paused
            \/ proc'[p].pc \notin Cycle
<1> USE DEF Cycle, Tracker, Intents
<1>1. UNCHANGED <<row, file>> /\ late \subseteq late'
  BY DEF Acquire, Beat, BeatFails, Begin, Renew, MarkWaiting, WaitTake, WaitOver, Guard, Stop,
         Kill, LateRenewal, tracker, counts
<1>2. CASE Acquire(p) \/ Beat(p) \/ BeatFails(p) \/ Begin(p) \/ Renew(p)
  BY <1>1, <1>2, SimpleEffect DEF Leaves
<1>3. CASE \/ MarkWaiting(p) \/ WaitTake(p) \/ WaitOver(p) \/ Guard(p) \/ Stop(p) \/ Kill(p)
           \/ LateRenewal(p)
  BY <1>1, <1>3, WaitEffect DEF Leaves
<1> QED BY <1>2, <1>3

\* Every step leaves a cycle that knows of no pause with none, while nobody is late.
LEMMA QuietStep ==
  ASSUME SchedulerTypeOK, LogOK, LeaseOK, QuietOK, [Next]_vars
  PROVE  QuietOK'
<1>t. ProcOK /\ trigger \in 0..MaxTriggers
  BY Constants DEF SchedulerTypeOK, ProcOK, ProcRec
<1>p. UNCHANGED <<row, file>> => Paused' = Paused
  BY DEF Paused, RowHolds
<1>1. ASSUME NEW p \in Proc,
             \/ Acquire(p) \/ Beat(p) \/ BeatFails(p) \/ Begin(p) \/ Renew(p) \/ MarkWaiting(p)
             \/ WaitTake(p) \/ WaitOver(p) \/ Guard(p) \/ Stop(p) \/ Kill(p) \/ LateRenewal(p)
      PROVE  QuietOK'
  <2>1. /\ Others(p) /\ UNCHANGED <<row, file>> /\ late \subseteq late'
        /\ \/ proc'[p].pc = proc[p].pc /\ proc'[p].paused = proc[p].paused
           \/ proc'[p].pc \notin Cycle
    BY <1>1, <1>t, ElsewhereEffect
  <2> QED BY <1>p, <2>1 DEF QuietOK, Others
<1>2. ASSUME NEW p \in Proc, Open(p) \/ EndTracker(p) \/ EndPrune(p) \/ EndSync(p)
      PROVE  QuietOK'
  <2>1. Goes(p) /\ proc[p].pc \in Cycle \cup {"open"} /\ late' = late
    BY <1>2, <1>t, GoesEffect
  <2>2. PICK ph \in Cycle \cup {"mark"}, r \in ProcRec :
          /\ Enter(p, ph, r)
          /\ IF proc[p].pc = "open" THEN r.paused = Paused ELSE proc[p].paused => r.paused
          /\ UNCHANGED <<row, file>> \/ r.paused
    BY <2>1 DEF Goes
  <2>3. /\ Others(p)
        /\ proc'[p].pc = "gone" \/ proc'[p].paused = r.paused
    BY <1>t, <2>2, EnterEffect, PlacesOfCycle
  <2> SUFFICES ASSUME late = {}, NEW q \in Proc, proc'[q].pc \in Cycle, ~proc'[q].paused
               PROVE  ~Paused'
    BY <2>1 DEF QuietOK
  <2>4. Live(p)
    BY <2>1 DEF Live, Cycle, Tracker, Intents
  <2>5. q = p
    <3>1. q # p => Live(q)
      BY <2>3 DEF Others, Live, Cycle, Tracker, Intents
    <3> QED BY <2>4, <3>1, Sole
  <2>6. ~r.paused
    BY <2>3, <2>5 DEF Cycle, Tracker, Intents
  <2>7. ~Paused
    BY <2>1, <2>2, <2>6 DEF QuietOK
  <2> QED BY <1>p, <2>2, <2>6, <2>7
<1>3. CASE Clear
  <2>1. file' = 0 /\ row' = [e \in Endpoint |-> 0]
    BY <1>3 DEF Clear
  <2>2. ~Paused'
    BY <2>1 DEF Paused, RowHolds
  <2> QED BY <2>2 DEF QuietOK
<1>4. CASE Ask \/ UNCHANGED vars
  BY <1>4, <1>p DEF Ask, vars, state, tracker, counts, QuietOK
<1>5. CASE Tick
  <2>1. late \subseteq late' /\ file' = Less(file) /\ row' = [e \in Endpoint |-> Less(row[e])]
    BY <1>5 DEF Tick
  <2>2. \A p \in Proc : proc'[p].pc = proc[p].pc /\ proc'[p].paused = proc[p].paused
    BY <1>5, <1>t DEF Tick, ProcOK, ProcRec
  <2>3. ~Paused => ~Paused'
    BY <2>1 DEF Paused, RowHolds, Less, SchedulerTypeOK
  <2> QED BY <2>1, <2>2, <2>3 DEF QuietOK
<1> QED BY <1>1, <1>2, <1>3, <1>4, <1>5 DEF Next, Step, Thread

-----------------------------------------------------------------------------
(* The theorems.                                                           *)

\* Nothing has happened yet.
LEMMA InitInv ==
  Init => SchedulerInv
<1> SUFFICES ASSUME Init PROVE SchedulerInv
  OBVIOUS
<1>i. /\ lease = Nobody /\ control = "none" /\ trigger = 0
      /\ row = [e \in Endpoint |-> 0] /\ file = 0 /\ log = <<>>
      /\ asked = 0 /\ runs = [t \in 1..MaxTriggers |-> 0]
      /\ late = {} /\ stopped = {} /\ told = [e \in Endpoint |-> 0] /\ since = told
  BY DEF Init
<1>p. /\ \A p \in Proc : proc[p] = [pc |-> "new", trig |-> 0, lost |-> FALSE, beat |-> "off",
                                    age |-> 0, paused |-> FALSE, err |-> FALSE]
      /\ DOMAIN proc = Proc /\ proc = [p \in Proc |-> proc[p]]
  BY DEF Init
<1>1. SchedulerTypeOK
  <2>1. /\ lease \in [owner : 0..Procs, left : 0..Ttl]
        /\ trigger \in 0..asked /\ asked \in 0..MaxTriggers
    BY <1>i, Constants DEF Nobody
  <2>2. ASSUME NEW p \in Proc PROVE proc[p] \in ProcRec
    <3> DEFINE r == [pc |-> "new", trig |-> 0, lost |-> FALSE, beat |-> "off",
                     age |-> 0, paused |-> FALSE, err |-> FALSE]
    <3>1. 0 \in 0..MaxTriggers /\ 0 \in 0..Every /\ "new" \in Places
      BY Constants DEF Places
    <3>2. r \in ProcRec
      BY <3>1 DEF ProcRec
    <3>3. proc[p] = r
      BY <1>p
    <3> HIDE DEF r
    <3> QED BY <3>2, <3>3
  <2>3. proc \in [Proc -> ProcRec]
    BY <1>p, <2>2
  <2>4. Len(log) <= Window
    BY <1>i, Constants
  <2>5. /\ runs \in [1..MaxTriggers -> Nat] /\ row \in [Endpoint -> Nat]
        /\ told \in [Endpoint -> Nat] /\ since \in [Endpoint -> 0..(Window + 1)] /\ file \in Nat
    BY <1>i, Constants
  <2> QED BY <1>i, <2>1, <2>3, <2>4, <2>5 DEF SchedulerTypeOK, ProcRec
<1>2. LogOK
  BY <1>i DEF LogOK
<1>3. LeaseOK
  BY <1>p DEF LeaseOK, Live
<1>4. HeldOnce /\ RunOnce
  BY <1>i, <1>p DEF HeldOnce, RunOnce, RunsOf, Ahead, Cycle, Tracker, Intents
<1>5. TriggerAccounted
  BY <1>i DEF TriggerAccounted
<1>6. QuietOK
  BY <1>p DEF QuietOK, Cycle, Tracker, Intents
<1> QED BY <1>1, <1>2, <1>3, <1>4, <1>5, <1>6 DEF SchedulerInv

\* The invariant holds of every behaviour: the types, one owner of a lease that lives,
\* one hand for every trigger, and no cycle that overlooks a pause.
THEOREM SchedulerInvariant == Spec => []SchedulerInv
<1>1. SchedulerInv /\ [Next]_vars => SchedulerInv'
  <2> SUFFICES ASSUME SchedulerInv, [Next]_vars PROVE SchedulerInv'
    OBVIOUS
  <2>1. /\ SchedulerTypeOK /\ LogOK /\ LeaseOK /\ QuietOK /\ HeldOK
    BY DEF SchedulerInv, HeldOK
  <2>2. SchedulerTypeOK' /\ LogOK'
    BY <2>1, TypeStep
  <2>3. LeaseOK'
    BY <2>1, <2>2, LeaseStep
  <2>4. HeldOK'
    BY <2>1, HeldStep
  <2>5. QuietOK'
    BY <2>1, QuietStep
  <2> QED BY <2>2, <2>3, <2>4, <2>5 DEF SchedulerInv, HeldOK
<1> QED BY <1>1, InitInv, PTL DEF Spec

\* No trigger is lost but with a process that was stopped or came late, and none starts
\* two cycles: consume_scheduler_trigger, the head of the loop, the run row, the releases.
THEOREM TriggersAreKeptHolds == Spec => []TriggersAreKept
<1>1. SchedulerInv => TriggersAreKept
  BY DEF SchedulerInv, TriggersAreKept
<1> QED BY <1>1, SchedulerInvariant, PTL

\* Two schedulers are in a phase together only after one of them missed a renewal.
THEOREM OneAtWorkHolds == Spec => []OneAtWork
<1>1. SchedulerInv => OneAtWork
  <2> SUFFICES ASSUME SchedulerInv, NEW p \in Proc, NEW q \in Proc, p # q,
                      InCycle(p), InCycle(q), p \notin late
               PROVE  q \in late
    BY DEF OneAtWork
  <2>1. Live(p) /\ Live(q)
    BY DEF InCycle, Live, Phases, Tracker, Intents
  <2> QED BY <2>1, Sole DEF SchedulerInv
<1> QED BY <1>1, SchedulerInvariant, PTL

\* Under a pause nobody enters a phase that calls the tracker, as long as every renewal
\* came in time.
THEOREM QuietWhilePausedHolds == Spec => QuietWhilePaused
<1>1. SchedulerInv /\ [Next]_vars =>
        (late = {} /\ Paused => \A p \in Proc : Calls(p)' => proc[p].pc = proc'[p].pc)
  <2> SUFFICES ASSUME SchedulerInv, [Next]_vars, late = {}, Paused,
                      NEW p \in Proc, Calls(p)', proc'[p].pc # proc[p].pc
               PROVE  FALSE
    OBVIOUS
  <2>t. ProcOK /\ trigger \in 0..MaxTriggers
    BY Constants DEF SchedulerInv, SchedulerTypeOK, ProcOK, ProcRec
  <2>c. proc'[p].pc \in Tracker /\ proc'[p].pc \in Cycle
    BY DEF Calls, Cycle
  <2>1. ASSUME NEW q \in Proc,
               \/ Acquire(q) \/ Beat(q) \/ BeatFails(q) \/ Begin(q) \/ Renew(q) \/ MarkWaiting(q)
               \/ WaitTake(q) \/ WaitOver(q) \/ Guard(q) \/ Stop(q) \/ Kill(q) \/ LateRenewal(q)
        PROVE  FALSE
    <3>1. Others(q) /\ (proc'[q].pc = proc[q].pc \/ proc'[q].pc \notin Cycle)
      BY <2>1, <2>t, ElsewhereEffect
    <3> QED BY <2>c, <3>1 DEF Others
  <2>2. ASSUME NEW q \in Proc, Open(q) \/ EndTracker(q) \/ EndPrune(q) \/ EndSync(q)
        PROVE  FALSE
    <3>1. Goes(q) /\ proc[q].pc \in Cycle \cup {"open"}
      BY <2>2, <2>t, GoesEffect
    <3>2. PICK ph \in Cycle \cup {"mark"}, r \in ProcRec :
            /\ Enter(q, ph, r) /\ (r.paused => ph \notin Tracker)
            /\ IF proc[q].pc = "open" THEN r.paused = Paused ELSE proc[q].paused => r.paused
      BY <3>1 DEF Goes
    <3>3. Others(q) /\ (proc'[q].pc = "gone" \/ proc'[q].pc = ph)
      BY <2>t, <3>2, EnterEffect, PlacesOfCycle
    <3>4. r.paused
      BY <3>1, <3>2 DEF SchedulerInv, QuietOK
    <3>5. proc'[q].pc \notin Tracker
      BY <3>2, <3>3, <3>4 DEF Tracker
    <3> QED BY <2>c, <3>3, <3>5 DEF Others
  <2>3. CASE Clear \/ Ask \/ Tick \/ UNCHANGED vars
    BY <2>3, <2>t DEF Clear, Ask, Tick, vars, state, ProcOK, ProcRec
  <2> QED BY <2>1, <2>2, <2>3 DEF Next, Step, Thread
<1> QED BY <1>1, SchedulerInvariant, PTL DEF Spec, QuietWhilePaused

-----------------------------------------------------------------------------
(* The streak.                                                             *)

Limit(e) == [what |-> "rate_limited", at |-> e]
EndsOf(l, e) == {i \in DOMAIN l : Ends(l[i], e)}
LimitsOf(l, e) == {i \in DOMAIN l : l[i] = Limit(e) /\ \A j \in EndsOf(l, e) : i < j}

LEMMA StreakIs ==
  ASSUME NEW l \in Seq(ApiEvent), NEW e \in Endpoint
  PROVE  /\ Streak(l, e) = Cardinality(LimitsOf(l, e))
         /\ IsFiniteSet(LimitsOf(l, e)) /\ Streak(l, e) \in Nat
<1>1. Streak(l, e) = Cardinality(LimitsOf(l, e))
  BY DEF Streak, LimitsOf, EndsOf, Limit
<1>2. IsFiniteSet(1..Len(l)) /\ LimitsOf(l, e) \subseteq 1..Len(l)
  BY FS_Interval DEF LimitsOf
<1>3. IsFiniteSet(LimitsOf(l, e))
  BY <1>2, FS_Subset
<1> QED BY <1>1, <1>3, FS_CardinalityType

\* What the newest event does to the streak of an endpoint.
LEMMA StreakAfter ==
  ASSUME NEW l \in Seq(ApiEvent), NEW m \in Seq(ApiEvent), NEW e \in Endpoint,
         Len(m) = Len(l) + 1, \A i \in 1..Len(l) : m[i + 1] = l[i]
  PROVE  /\ Streak(m, e) = IF Ends(m[1], e) THEN 0
                           ELSE IF m[1] = Limit(e) THEN Streak(l, e) + 1 ELSE Streak(l, e)
         /\ \A i \in LimitsOf(m, e) :
              ~Ends(m[1], e) /\ ((i = 1 /\ m[1] = Limit(e)) \/ i - 1 \in LimitsOf(l, e))
<1> DEFINE old == LimitsOf(l, e)
           new == LimitsOf(m, e)
           moved == {i + 1 : i \in old}
<1>0. Len(l) \in Nat /\ DOMAIN l = 1..Len(l) /\ DOMAIN m = 1..(Len(l) + 1)
  OBVIOUS
<1>1. /\ Streak(m, e) = Cardinality(new) /\ IsFiniteSet(new)
      /\ Streak(l, e) = Cardinality(old) /\ IsFiniteSet(old) /\ Streak(l, e) \in Nat
  BY StreakIs
<1>2. CASE Ends(m[1], e)
  <2>1. 1 \in EndsOf(m, e)
    BY <1>0, <1>2 DEF EndsOf
  <2>2. new = {}
    BY <1>0, <2>1 DEF LimitsOf
  <2> QED BY <1>1, <1>2, <2>2, FS_EmptySet
<1>3. CASE ~Ends(m[1], e)
  <2>1. \A j \in EndsOf(m, e) : j \in Nat /\ j # 1 /\ j - 1 \in EndsOf(l, e)
    <3> SUFFICES ASSUME NEW j \in EndsOf(m, e) PROVE j \in Nat /\ j # 1 /\ j - 1 \in EndsOf(l, e)
      OBVIOUS
    <3>1. j \in 1..(Len(l) + 1) /\ Ends(m[j], e) /\ j # 1
      BY <1>0, <1>3 DEF EndsOf
    <3>2. j - 1 \in 1..Len(l) /\ (j - 1) + 1 = j
      BY <1>0, <3>1
    <3>3. m[j] = l[j - 1]
      BY <3>2
    <3> QED BY <1>0, <3>1, <3>2, <3>3 DEF EndsOf
  <2>2. \A j \in EndsOf(l, e) : j \in 1..Len(l) /\ j + 1 \in EndsOf(m, e)
    BY <1>0 DEF EndsOf
  <2>3. \A i \in 1..Len(l) : i \in old <=> i + 1 \in new
    <3> SUFFICES ASSUME NEW i \in 1..Len(l) PROVE i \in old <=> i + 1 \in new
      OBVIOUS
    <3>1. m[i + 1] = l[i] /\ i + 1 \in 1..(Len(l) + 1)
      BY <1>0
    <3>2. (\A j \in EndsOf(l, e) : i < j) <=> (\A j \in EndsOf(m, e) : i + 1 < j)
      <4>1. ASSUME \A j \in EndsOf(l, e) : i < j, NEW j \in EndsOf(m, e) PROVE i + 1 < j
        <5>1. j \in Nat /\ i < j - 1
          BY <2>1, <4>1
        <5> QED BY <5>1
      <4>2. ASSUME \A j \in EndsOf(m, e) : i + 1 < j, NEW j \in EndsOf(l, e) PROVE i < j
        <5>1. j \in 1..Len(l) /\ i + 1 < j + 1
          BY <2>2, <4>2
        <5> QED BY <1>0, <5>1
      <4> QED BY <4>1, <4>2
    <3> QED BY <1>0, <3>1, <3>2 DEF LimitsOf
  <2>4. 1 \in new <=> m[1] = Limit(e)
    <3>1. \A j \in EndsOf(m, e) : 1 < j
      <4>1. \A j \in EndsOf(m, e) : j \in 1..(Len(l) + 1)
        BY <1>0 DEF EndsOf
      <4> QED BY <1>0, <2>1, <4>1
    <3> QED BY <1>0, <3>1 DEF LimitsOf
  <2>5. old \subseteq 1..Len(l) /\ new \subseteq 1..(Len(l) + 1)
    BY <1>0 DEF LimitsOf
  <2> HIDE DEF old, new
  <2>6. moved \subseteq new /\ 1 \notin moved /\ \A i \in new : i = 1 \/ i \in moved
    <3>1. \A i \in old : i \in 1..Len(l) /\ i + 1 \in new
      BY <2>3, <2>5
    <3>2. ASSUME NEW i \in new, i # 1 PROVE i \in moved
      <4>1. i - 1 \in 1..Len(l) /\ (i - 1) + 1 = i
        BY <1>0, <2>5, <3>2
      <4>2. i - 1 \in old
        BY <2>3, <4>1
      <4> QED BY <4>1, <4>2
    <3> QED BY <1>0, <3>1, <3>2
  <2>7. IsFiniteSet(moved) /\ Cardinality(moved) = Cardinality(old)
    <3> DEFINE f == [i \in old |-> i + 1]
    <3>1. IsFiniteSet(moved)
      BY <1>1, <2>6, FS_Subset
    <3>2. \A i \in old : i \in Nat
      BY <1>0, <2>5
    <3>3. f \in Injection(old, moved)
      BY <3>2 DEF Injection, IsInjective
    <3>4. f \in Surjection(old, moved)
      BY DEF Surjection
    <3> HIDE DEF f, moved
    <3> QED BY <3>1, <3>3, <3>4, FS_Injection
  <2>10. \A i \in LimitsOf(m, e) : (i = 1 /\ m[1] = Limit(e)) \/ i - 1 \in LimitsOf(l, e)
    <3>1. \A i \in moved : i - 1 \in old
      BY <1>0, <2>5
    <3>2. \A i \in new : (i = 1 /\ m[1] = Limit(e)) \/ i - 1 \in old
      BY <2>4, <2>6, <3>1
    <3> QED BY <3>2 DEF old, new
  <2> HIDE DEF moved
  <2>8. CASE m[1] = Limit(e)
    <3>1. new = moved \cup {1}
      BY <2>4, <2>6, <2>8
    <3>2. Streak(m, e) = Streak(l, e) + 1
      BY <1>1, <2>6, <2>7, <3>1, FS_AddElement
    <3> QED BY <1>3, <2>8, <2>10, <3>2
  <2>9. CASE m[1] # Limit(e)
    <3>1. new = moved
      BY <2>4, <2>6, <2>9
    <3>2. Streak(m, e) = Streak(l, e)
      BY <1>1, <2>7, <3>1
    <3> QED BY <1>3, <2>9, <2>10, <3>2
  <2> QED BY <2>8, <2>9
<1> QED BY <1>2, <1>3

\* The limits that the window leaves are those that were in it.
LEMMA StreakCut ==
  ASSUME NEW l \in Seq(ApiEvent), NEW n \in 1..Len(l), NEW e \in Endpoint
  PROVE  LET cut == SubSeq(l, 1, n)
         IN  /\ cut \in Seq(ApiEvent) /\ LimitsOf(cut, e) = LimitsOf(l, e) \cap (1..n)
             /\ Streak(cut, e) <= Streak(l, e)
             /\ LimitsOf(l, e) \subseteq 1..n => Streak(cut, e) = Streak(l, e)
<1> DEFINE cut == SubSeq(l, 1, n)
<1>0. Len(l) \in Nat /\ DOMAIN l = 1..Len(l) /\ 1..n \subseteq 1..Len(l) /\ n \in Nat
  OBVIOUS
<1>1. cut \in Seq(ApiEvent) /\ DOMAIN cut = 1..n /\ \A i \in 1..n : cut[i] = l[i]
  BY <1>0
<1> HIDE DEF cut
<1>2. EndsOf(cut, e) = EndsOf(l, e) \cap (1..n)
  BY <1>0, <1>1 DEF EndsOf
<1>3. ASSUME NEW i \in 1..n
      PROVE  (\A j \in EndsOf(cut, e) : i < j) <=> (\A j \in EndsOf(l, e) : i < j)
  <2>1. \A j \in EndsOf(l, e) : j \in 1..Len(l) /\ (j \in 1..n \/ i < j)
    BY <1>0 DEF EndsOf
  <2> QED BY <1>2, <2>1
<1>4. LimitsOf(cut, e) = LimitsOf(l, e) \cap (1..n)
  <2>1. \A i \in 1..n : i \in LimitsOf(cut, e) <=> i \in LimitsOf(l, e)
    BY <1>0, <1>1, <1>3 DEF LimitsOf
  <2>2. LimitsOf(cut, e) \subseteq 1..n
    BY <1>1 DEF LimitsOf
  <2> QED BY <2>1, <2>2
<1>5. /\ Streak(cut, e) = Cardinality(LimitsOf(cut, e))
      /\ Streak(l, e) = Cardinality(LimitsOf(l, e)) /\ IsFiniteSet(LimitsOf(l, e))
  BY <1>1, StreakIs
<1>6. Streak(cut, e) <= Streak(l, e)
  BY <1>4, <1>5, FS_Subset
<1>7. LimitsOf(l, e) \subseteq 1..n => Streak(cut, e) = Streak(l, e)
  BY <1>4, <1>5
<1> QED BY <1>1, <1>4, <1>6, <1>7 DEF cut

\* An event that is noted, and what it does to the streak of an endpoint whose limits are
\* among the s newest events.
LEMMA Noting ==
  ASSUME TrackerTyped, NEW d \in Endpoint, NEW s \in Nat,
         NEW what \in {"rate_limited", "unavailable", "success", "backoff_cleared"},
         NEW e \in Endpoint \cup {"*"}
  PROVE  LET now   == Noted(what, e)
             ends  == what = "backoff_cleared" \/ (what = "success" /\ e = d)
             limit == what = "rate_limited" /\ e = d
             then  == IF ends THEN 0 ELSE IF limit THEN Streak(log, d) + 1 ELSE Streak(log, d)
         IN  /\ Streak(now, d) <= then
             /\ limit => Streak(now, d) >= 1
             /\ ends => LimitsOf(now, d) = {} /\ Streak(now, d) = 0
             /\ LimitsOf(log, d) = {} /\ ~limit => LimitsOf(now, d) = {} /\ Streak(now, d) = 0
             /\ s < Window /\ LimitsOf(log, d) \subseteq 1..s =>
                  LimitsOf(now, d) \subseteq 1..(s + 1) /\ Streak(now, d) = then
<1> DEFINE x == [what |-> what, at |-> e]
           l == <<x>> \o log
           n == IF Len(l) < Window THEN Len(l) ELSE Window
           now == SubSeq(l, 1, n)
           ends == what = "backoff_cleared" \/ (what = "success" /\ e = d)
           limit == what = "rate_limited" /\ e = d
           then == IF ends THEN 0 ELSE IF limit THEN Streak(log, d) + 1 ELSE Streak(log, d)
<1>1. x \in ApiEvent /\ (Ends(x, d) <=> ends) /\ (x = Limit(d) <=> limit)
  BY DEF ApiEvent, Ends, Limit
<1>2. /\ log \in Seq(ApiEvent) /\ l \in Seq(ApiEvent) /\ Len(l) = Len(log) + 1 /\ l[1] = x
      /\ Len(log) \in Nat /\ \A i \in 1..Len(log) : l[i + 1] = log[i]
  <2> HIDE DEF x
  <2>1. <<x>> \in Seq(ApiEvent) /\ Len(<<x>>) = 1 /\ <<x>>[1] = x
    BY <1>1
  <2>2. log \in Seq(ApiEvent) /\ Len(log) \in Nat
    BY DEF TrackerTyped
  <2> QED BY <2>1, <2>2, ConcatProperties
<1>3. n \in 1..Len(l) /\ (n = Len(l) \/ n = Window) /\ Window \in Nat
  BY <1>2, Constants
<1>4. Noted(what, e) = now
  BY DEF Noted
<1> HIDE DEF x, l, n, now, ends, limit
<1>5. /\ Streak(l, d) = then
      /\ \A i \in LimitsOf(l, d) : ~ends /\ ((i = 1 /\ limit) \/ i - 1 \in LimitsOf(log, d))
  BY <1>1, <1>2, StreakAfter
<1>6. /\ now \in Seq(ApiEvent) /\ LimitsOf(now, d) = LimitsOf(l, d) \cap (1..n)
      /\ Streak(now, d) <= Streak(l, d)
      /\ LimitsOf(l, d) \subseteq 1..n => Streak(now, d) = Streak(l, d)
  BY <1>2, <1>3, StreakCut DEF now
<1>7. /\ Streak(now, d) = Cardinality(LimitsOf(now, d)) /\ Streak(now, d) \in Nat
      /\ IsFiniteSet(LimitsOf(now, d))
  BY <1>6, StreakIs
<1>8. LimitsOf(now, d) = {} => Streak(now, d) = 0
  BY <1>7, FS_EmptySet
<1>9. limit => Streak(now, d) >= 1
  <2> SUFFICES ASSUME limit PROVE Streak(now, d) # 0
    BY <1>7
  <2>1. 1 \in DOMAIN l /\ l[1] = Limit(d) /\ ~Ends(l[1], d)
    BY <1>1, <1>2 DEF Ends, Limit
  <2>2. \A j \in EndsOf(l, d) : 1 < j
    <3>1. \A j \in EndsOf(l, d) : j \in 1..Len(l) /\ j # 1
      BY <1>2, <2>1 DEF EndsOf
    <3> QED BY <1>2, <3>1
  <2>3. 1 \in LimitsOf(l, d)
    BY <2>1, <2>2 DEF LimitsOf
  <2>4. 1 \in LimitsOf(now, d)
    BY <1>2, <1>3, <1>6, <2>3
  <2> QED BY <1>7, <2>4, FS_EmptySet
<1>10. ends => LimitsOf(now, d) = {}
  BY <1>5, <1>6
<1>11. LimitsOf(log, d) = {} /\ ~limit => LimitsOf(now, d) = {}
  BY <1>5, <1>6
<1>12. ASSUME s < Window, LimitsOf(log, d) \subseteq 1..s
       PROVE  LimitsOf(now, d) \subseteq 1..(s + 1) /\ Streak(now, d) = then
  <2>1. \A i \in LimitsOf(l, d) : i \in 1..Len(l)
    BY <1>2 DEF LimitsOf
  <2>2. \A i \in LimitsOf(l, d) : i = 1 \/ i - 1 \in 1..s
    BY <1>5, <1>12
  <2>3. LimitsOf(l, d) \subseteq 1..(s + 1)
    BY <1>2, <2>1, <2>2
  <2>4. LimitsOf(l, d) \subseteq 1..n
    BY <1>2, <1>3, <1>12, <2>1, <2>3
  <2> QED BY <1>5, <1>6, <2>3, <2>4
<1> QED BY <1>4, <1>5, <1>6, <1>8, <1>9, <1>10, <1>11, <1>12 DEF ends, limit

\* The inductive invariant of a row of limits: the streak never exceeds it, and is all of
\* it as long as its limits are within the window.
RowOK(e) ==
  /\ Streak(log, e) <= told[e]
  /\ since[e] <= Window => told[e] = Streak(log, e) /\ LimitsOf(log, e) \subseteq 1..since[e]
StreakOK == \A e \in Endpoint : RowOK(e)

\* What the row of d is after an event that neither ends it nor is its limit.
LEMMA RowGoesOn ==
  ASSUME TrackerTyped, NEW d \in Endpoint, RowOK(d),
         NEW what \in {"rate_limited", "unavailable", "success"}, NEW e \in Endpoint,
         what = "unavailable" \/ e # d,
         log' = Noted(what, e), told'[d] = told[d], since'[d] = Longer(d)
  PROVE  RowOK(d)'
<1>1. since[d] \in Nat /\ since[d] <= Window + 1 /\ told[d] \in Nat /\ Window \in Nat
  BY Constants DEF TrackerTyped
<1>2. /\ Streak(log', d) <= Streak(log, d)
      /\ LimitsOf(log, d) = {} => LimitsOf(log', d) = {} /\ Streak(log', d) = 0
      /\ since[d] < Window /\ LimitsOf(log, d) \subseteq 1..since[d] =>
           LimitsOf(log', d) \subseteq 1..(since[d] + 1) /\ Streak(log', d) = Streak(log, d)
  BY <1>1, Noting
<1>3. log \in Seq(ApiEvent) /\ Streak(log, d) \in Nat /\ Streak(log, d) = Cardinality(LimitsOf(log, d))
  BY StreakIs DEF TrackerTyped
<1>4. log' \in Seq(ApiEvent)
  BY NotedIsLog DEF TrackerTyped, LogOK
<1>5. Streak(log', d) \in Nat
  BY <1>4, StreakIs
<1>6. CASE since[d] = 0
  <2>1. LimitsOf(log, d) = {} /\ told[d] = Streak(log, d)
    BY <1>1, <1>6 DEF RowOK
  <2>2. told[d] = 0
    BY <1>3, <2>1, FS_EmptySet
  <2> QED BY <1>1, <1>2, <1>6, <2>1, <2>2 DEF RowOK, Longer
<1>7. CASE since[d] \in 1..(Window - 1)
  BY <1>1, <1>2, <1>7 DEF RowOK, Longer
<1>8. CASE since[d] \in {Window, Window + 1} /\ since[d] # 0
  BY <1>1, <1>2, <1>3, <1>5, <1>8 DEF RowOK, Longer
<1> QED BY <1>1, <1>6, <1>7, <1>8

\* A row that has ended.
LEMMA RowEnds ==
  ASSUME NEW d \in Endpoint, Streak(log, d)' = 0, LimitsOf(log, d)' = {}, told'[d] = 0
  PROVE  RowOK(d)'
BY DEF RowOK

LEMMA StreakTracked ==
  ASSUME TrackerTyped, StreakOK,
         \/ \E e \in Endpoint : RecordLimit(e) \/ RecordOutage(e) \/ RecordSuccess(e)
         \/ Clear \/ UNCHANGED <<log, told, since>>
  PROVE  StreakOK' /\ PauseFollows
<1>0. /\ told \in [Endpoint -> Nat] /\ since \in [Endpoint -> 0..(Window + 1)] /\ Window \in Nat
      /\ Window >= 1 /\ log \in Seq(ApiEvent)
  BY Constants DEF TrackerTyped
<1>1. ASSUME NEW e \in Endpoint, RecordLimit(e)
      PROVE  StreakOK' /\ PauseFollows
  <2>1. /\ log' = Noted("rate_limited", e) /\ file' = Pause(e) /\ told' = [told EXCEPT ![e] = @ + 1]
        /\ since' = [d \in Endpoint |-> IF d = e /\ since[d] = 0 THEN 1 ELSE Longer(d)]
    BY <1>1 DEF RecordLimit
  <2>2. ASSUME NEW d \in Endpoint, d # e PROVE RowOK(d)' /\ told'[d] = told[d]
    <3>1. told'[d] = told[d] /\ since'[d] = Longer(d)
      BY <1>0, <2>1, <2>2
    <3> QED BY <2>1, <2>2, <3>1, RowGoesOn DEF StreakOK
  <2>3. told'[e] = told[e] + 1 /\ since'[e] = IF since[e] = 0 THEN 1 ELSE Longer(e)
    BY <1>0, <2>1
  <2>4. since[e] \in Nat /\ since[e] <= Window + 1 /\ told[e] \in Nat
    BY <1>0
  <2>r. RowOK(e)
    BY DEF StreakOK
  <2>5. /\ Streak(log', e) <= Streak(log, e) + 1 /\ Streak(log', e) >= 1
        /\ since[e] < Window /\ LimitsOf(log, e) \subseteq 1..since[e] =>
             LimitsOf(log', e) \subseteq 1..(since[e] + 1) /\ Streak(log', e) = Streak(log, e) + 1
    BY <2>1, <2>4, Noting
  <2>6. Streak(log, e) \in Nat /\ Streak(log', e) \in Nat
    <3>1. log' \in Seq(ApiEvent)
      BY <1>0, <2>1, NotedIsLog DEF LogOK
    <3> QED BY <1>0, <3>1, StreakIs
  <2>7. RowOK(e)'
    <3>1. CASE since[e] < Window
      <4>1. since'[e] = since[e] + 1 /\ since[e] <= Window
        BY <1>0, <2>3, <2>4, <3>1 DEF Longer
      <4> QED BY <1>0, <2>r, <2>3, <2>4, <2>5, <2>6, <3>1, <4>1 DEF RowOK
    <3>2. CASE since[e] >= Window
      <4>1. since'[e] > Window /\ since'[e] \in Nat
        BY <1>0, <2>3, <2>4, <3>2, Constants DEF Longer
      <4> QED BY <1>0, <2>r, <2>3, <2>4, <2>5, <2>6, <4>1 DEF RowOK
    <3> QED BY <1>0, <2>4, <3>1, <3>2
  <2>8. Streak(log', e) \in 1..told'[e] /\ (Streak(log', e) = told'[e] \/ since'[e] > Window)
    <3>1. since'[e] \in Nat
      BY <1>0, <2>3, <2>4 DEF Longer
    <3> QED BY <1>0, <2>3, <2>4, <2>5, <2>6, <2>7, <3>1 DEF RowOK
  <2>9. file' = PauseOf(Streak(log', e))
    BY <2>1 DEF Pause, PauseOf
  <2>10. PauseFollows
    <3> SUFFICES ASSUME NEW d \in Endpoint, told'[d] > told[d] PROVE d = e
      BY <2>8, <2>9 DEF PauseFollows
    <3>1. d # e => told'[d] = told[d] /\ told[d] \in Nat
      BY <1>0, <2>2
    <3> QED BY <3>1
  <2>11. StreakOK'
    BY <2>2, <2>7 DEF StreakOK
  <2> QED BY <2>10, <2>11
<1>2. ASSUME \A d \in Endpoint : told'[d] = told[d] \/ told'[d] = 0
      PROVE  PauseFollows
  <2> SUFFICES ASSUME NEW d \in Endpoint, told'[d] > told[d] PROVE FALSE
    BY DEF PauseFollows
  <2>1. told[d] \in Nat /\ (told'[d] = told[d] \/ told'[d] = 0)
    BY <1>0, <1>2
  <2> QED BY <2>1
<1>3. ASSUME NEW e \in Endpoint, RecordOutage(e)
      PROVE  StreakOK' /\ PauseFollows
  <2>1. /\ log' = Noted("unavailable", e) /\ told' = told
        /\ since' = [d \in Endpoint |-> Longer(d)]
    BY <1>3 DEF RecordOutage
  <2>2. ASSUME NEW d \in Endpoint PROVE RowOK(d)'
    BY <2>1, RowGoesOn DEF StreakOK
  <2>3. StreakOK'
    BY <2>2 DEF StreakOK
  <2> QED BY <1>2, <2>1, <2>3
<1>4. ASSUME UNCHANGED <<log, told, since>>
      PROVE  StreakOK' /\ PauseFollows
  <2>1. StreakOK'
    BY <1>4 DEF StreakOK, RowOK
  <2> QED BY <1>2, <1>4, <2>1
<1>5. ASSUME NEW e \in Endpoint, RecordSuccess(e)
      PROVE  StreakOK' /\ PauseFollows
  <2>1. told' = [told EXCEPT ![e] = 0]
    BY <1>5 DEF RecordSuccess
  <2>2. \A d \in Endpoint : told'[d] = IF d = e THEN 0 ELSE told[d]
    BY <1>0, <2>1
  <2>3. PauseFollows
    BY <1>2, <2>2
  <2>4. CASE Streak(log, e) > 0
    <3>1. log' = Noted("success", e) /\ since' = [d \in Endpoint |-> IF d = e THEN 0 ELSE Longer(d)]
      BY <1>5, <2>4 DEF RecordSuccess
    <3>2. LimitsOf(log', e) = {} /\ Streak(log', e) = 0
      BY <3>1, Noting
    <3>3. ASSUME NEW d \in Endpoint, d = e PROVE RowOK(d)'
      BY <2>2, <3>2, <3>3, RowEnds
    <3>4. ASSUME NEW d \in Endpoint, d # e PROVE RowOK(d)'
      <4>1. told'[d] = told[d] /\ since'[d] = Longer(d)
        BY <2>2, <3>1, <3>4
      <4> QED BY <3>1, <3>4, <4>1, RowGoesOn DEF StreakOK
    <3>5. \A d \in Endpoint : RowOK(d)'
      BY <3>3, <3>4
    <3> QED BY <2>3, <3>5 DEF StreakOK
  <2>5. CASE ~(Streak(log, e) > 0)
    <3>1. log' = log /\ since' = [since EXCEPT ![e] = 0]
      BY <1>5, <2>5 DEF RecordSuccess
    <3>2. Streak(log, e) = 0 /\ LimitsOf(log, e) = {}
      <4>1. /\ Streak(log, e) = Cardinality(LimitsOf(log, e)) /\ Streak(log, e) \in Nat
            /\ IsFiniteSet(LimitsOf(log, e))
        BY <1>0, StreakIs
      <4>2. Streak(log, e) = 0
        BY <2>5, <4>1
      <4> QED BY <4>1, <4>2, FS_EmptySet
    <3>3. ASSUME NEW d \in Endpoint, d = e PROVE RowOK(d)'
      BY <2>2, <3>1, <3>2, <3>3, RowEnds
    <3>4. ASSUME NEW d \in Endpoint, d # e PROVE RowOK(d)'
      BY <1>0, <2>2, <3>1, <3>4 DEF StreakOK, RowOK
    <3>5. \A d \in Endpoint : RowOK(d)'
      BY <3>3, <3>4
    <3> QED BY <2>3, <3>5 DEF StreakOK
  <2> QED BY <2>4, <2>5
<1>6. ASSUME Clear
      PROVE  StreakOK' /\ PauseFollows
  <2>1. log' = Noted("backoff_cleared", "*") /\ told' = [e \in Endpoint |-> 0]
    BY <1>6 DEF Clear
  <2>2. ASSUME NEW d \in Endpoint PROVE RowOK(d)'
    <3>1. LimitsOf(log', d) = {} /\ Streak(log', d) = 0
      BY <2>1, Noting
    <3> QED BY <2>1, <3>1, RowEnds
  <2>3. StreakOK'
    BY <2>2 DEF StreakOK
  <2> QED BY <1>2, <2>1, <2>3
<1> QED BY <1>1, <1>3, <1>4, <1>5, <1>6

LEMMA InitStreak == Init => StreakOK
<1> SUFFICES ASSUME Init PROVE StreakOK
  OBVIOUS
<1>1. log = <<>> /\ told = [e \in Endpoint |-> 0] /\ since = told
  BY DEF Init
<1>2. ASSUME NEW e \in Endpoint PROVE Streak(log, e) = 0 /\ LimitsOf(log, e) = {}
  <2>1. LimitsOf(<<>>, e) = {} /\ <<>> \in Seq(ApiEvent)
    BY DEF LimitsOf
  <2> QED BY <1>1, <2>1, StreakIs, FS_EmptySet
<1> QED BY <1>1, <1>2 DEF StreakOK, RowOK

\* What a step writes to the log.
LEMMA Events ==
  ASSUME [Next]_vars
  PROVE  \/ \E e \in Endpoint : RecordLimit(e) \/ RecordOutage(e) \/ RecordSuccess(e)
         \/ Clear \/ UNCHANGED <<log, told, since>>
<1>1. ASSUME NEW p \in Proc, EndTracker(p)
      PROVE  \/ \E e \in Endpoint : RecordLimit(e) \/ RecordOutage(e) \/ RecordSuccess(e)
             \/ UNCHANGED <<log, told, since>>
  BY <1>1 DEF EndTracker, tracker, Endpoint
<1>2. ASSUME NEW p \in Proc,
             \/ Acquire(p) \/ Begin(p) \/ Renew(p) \/ Open(p) \/ EndPrune(p) \/ EndSync(p)
             \/ MarkWaiting(p) \/ WaitTake(p) \/ WaitOver(p) \/ Guard(p) \/ Thread(p)
             \/ BeatFails(p) \/ Stop(p) \/ Kill(p)
      PROVE  UNCHANGED <<log, told, since>>
  BY <1>2 DEF Acquire, Begin, Renew, Open, EndPrune, EndSync, MarkWaiting, WaitTake, WaitOver,
              Guard, Thread, Beat, LateRenewal, BeatFails, Stop, Kill, tracker
<1>3. CASE Ask \/ Tick \/ UNCHANGED vars
  BY <1>3 DEF Ask, Tick, vars, tracker
<1> QED BY <1>1, <1>2, <1>3 DEF Next, Step

\* A limit brings the pause of its place in the row of limits, for any number of refusals,
\* outages, successes, clears, restarts and processes; a row that began more than Window
\* events ago may be counted short, and is never counted as longer than it is
\* (cli._mteam_rate_limit_streak, cli._record_schedule_rate_limit_backoff).
THEOREM PauseFollowsStreakHolds == Spec => PauseFollowsStreak
<1>1. SchedulerInv /\ StreakOK /\ [Next]_vars => StreakOK' /\ PauseFollows
  <2> SUFFICES ASSUME SchedulerInv, StreakOK, [Next]_vars PROVE StreakOK' /\ PauseFollows
    OBVIOUS
  <2>1. TrackerTyped
    BY DEF SchedulerInv, SchedulerTypeOK, LogOK, TrackerTyped
  <2> QED BY <2>1, Events, StreakTracked
<1> QED BY InitStreak, SchedulerInvariant, <1>1, PTL DEF Spec, PauseFollowsStreak, PauseFollows

\* A command is in the hands of execute_command and its acknowledgement.
InHand == worker.pc \in {"open", "baseline", "apply", "ack"}

\* Nothing refers to an epoch that has not begun, or to a request never made.
EpochsPast ==
  /\ \A u \in Client : /\ form[u].epoch <= db.epoch
                       /\ form[u].pc # "idle" => form[u].cfg # None
  /\ \A c \in Command : request[c] # None => request[c].epoch <= db.epoch
  /\ worker.seen <= db.epoch
  /\ \A c \in Command : db.cmd[c].status \in {"queued", "running"} => request[c] # None
  /\ InHand => request[worker.cmd] # None

\* What is still to be done has not been done.
NotYet ==
  /\ AtMostOnce
  /\ \A c \in Command : request[c] = None => effects[c] = 0
  /\ \A c \in Command : db.cmd[c].status = "queued" => effects[c] = 0
  /\ InHand => db.cmd[worker.cmd].status # "queued"
  /\ InHand /\ worker.pc # "ack" => effects[worker.cmd] = 0

\* What execute_command has checked still holds in the epoch it read.
Pins ==
  /\ worker.pc \in {"baseline", "apply"} => request[worker.cmd].epoch = worker.seen
  /\ worker.pc = "apply" /\ worker.seen = db.epoch =>
       request[worker.cmd].base \in {None, db.plan}

\* An outcome to be acknowledged is true in the epoch of its command.
Outcome ==
  /\ CompleteIsApplied
  /\ backup # None =>
       \A c \in Command : backup.cmd[c].status = "complete" => c \in backup.applied
  /\ worker.pc = "ack" /\ worker.result = "complete"
       /\ request[worker.cmd].epoch = db.epoch => worker.cmd \in db.applied

IInv == CommandsTypeOK /\ EpochsPast /\ NotYet /\ Pins /\ Outcome /\ PendingCoalesce

-----------------------------------------------------------------------------

\* The invariant holds before anything has been submitted.
LEMMA InitInvariant == CommandsInit => IInv
<1> SUFFICES ASSUME CommandsInit PROVE IInv
  OBVIOUS
<1> USE CommandsAssumption
<1>1. PICK e \in Evidence :
        db = [epoch |-> 0, plan |-> e, cmd |-> [c \in Command |-> NoCmd], applied |-> {}]
  BY DEF CommandsInit
<1>2. CommandsTypeOK
  <2>1. 0 \in Epoch /\ NoCmd \in CmdRec /\ ~NoCmd.claimed
    BY DEF Epoch, NoCmd, CmdRec, Status
  <2>2. db \in Database /\ TokenKept(db.cmd)
    BY <1>1, <2>1 DEF Database, TokenKept
  <2>3. form \in [Client -> Form]
    <3>1. NoForm \in Form
      BY <2>1 DEF NoForm, Form
    <3> QED BY <3>1 DEF CommandsInit
  <2>4. /\ worker \in Worker
        /\ (worker.cmd # None) <=> (worker.pc \in {"open", "baseline", "apply", "ack"})
    BY <2>1 DEF CommandsInit, Worker, Down
  <2>5. backup = None /\ cfg \in Config /\ crashes \in 0..MaxCrashes
    BY DEF CommandsInit
  <2>6. /\ request \in [Command -> Request \cup {None}]
        /\ effects \in [Command -> Nat]
    BY DEF CommandsInit
  <2> QED BY <2>2, <2>3, <2>4, <2>5, <2>6 DEF CommandsTypeOK
<1>3. EpochsPast /\ Pins
  BY <1>1 DEF CommandsInit, EpochsPast, Pins, InHand, NoForm, NoCmd, Down
<1>4. NotYet
  BY <1>1 DEF CommandsInit, NotYet, AtMostOnce, InHand, NoCmd, Down
<1>5. Outcome
  BY <1>1 DEF CommandsInit, Outcome, CompleteIsApplied, Having, NoCmd, Down
<1>6. PendingCoalesce
  BY <1>1 DEF CommandsInit, PendingCoalesce, Pending, Having, NoCmd
<1> QED BY <1>2, <1>3, <1>4, <1>5, <1>6 DEF IInv

-----------------------------------------------------------------------------
(* Types. *)

\* Every rewriting of a row yields a row.
LEMMA RowUpdates ==
  ASSUME NEW rec \in CmdRec
  PROVE  /\ Interrupted(rec) \in CmdRec
         /\ Superseded(rec) \in CmdRec
         /\ [rec EXCEPT !.status = "running", !.claimed = TRUE] \in CmdRec
         /\ \A s \in Status : [rec EXCEPT !.status = s] \in CmdRec
BY DEF CmdRec, Status, Interrupted, Superseded

\* The worker part of CommandsTypeOK, for a given worker.
WorkerKept(w) ==
  /\ w \in Worker
  /\ w.cmd # None <=> w.pc \in {"open", "baseline", "apply", "ack"}

\* A new cmd table of the right type is all a transaction must show.
LEMMA TableUpdate ==
  ASSUME NEW d \in Database, NEW cmd \in [Command -> CmdRec]
  PROVE  [d EXCEPT !.cmd = cmd] \in Database
BY DEF Database

\* Every step keeps the types.
LEMMA StepType ==
  ASSUME CommandsTypeOK, EpochsPast, [CommandsNext]_commandVars
  PROVE  CommandsTypeOK'
<1>0. /\ db \in Database
      /\ db.epoch \in Epoch /\ db.plan \in Evidence
      /\ db.cmd \in [Command -> CmdRec] /\ db.applied \in SUBSET Command
      /\ form \in [Client -> Form] /\ request \in [Command -> Request \cup {None}]
      /\ WorkerKept(worker) /\ TokenKept(db.cmd)
  BY DEF CommandsTypeOK, Database, WorkerKept
<1>a. None \notin Command /\ MaxRestores \in Nat /\ MaxCrashes \in Nat /\ IsFiniteSet(Command)
  BY CommandsAssumption
<1>b. WorkerKept(Down)
  BY <1>a DEF WorkerKept, Worker, Down, Epoch
<1>c. ASSUME UNCHANGED <<db, backup, cfg, form, request, crashes, effects>>,
             WorkerKept(worker')
      PROVE  CommandsTypeOK'
  BY <1>c DEF CommandsTypeOK, WorkerKept
<1>d. ASSUME UNCHANGED <<backup, cfg, form, request, crashes>>, WorkerKept(worker'),
             db' \in Database, TokenKept(db'.cmd), effects' \in [Command -> Nat]
      PROVE  CommandsTypeOK'
  BY <1>d DEF CommandsTypeOK, WorkerKept
<1>e. ASSUME UNCHANGED <<db, backup, cfg, worker, crashes, effects, request>>,
             form' \in [Client -> Form]
      PROVE  CommandsTypeOK'
  BY <1>e DEF CommandsTypeOK
<1>f. ASSUME NEW pc \in {"recover", "claim", "cycle"}, FencedWrite(pc)
      PROVE  WorkerKept(worker')
  BY <1>0, <1>b, <1>f DEF FencedWrite, WorkerKept, Worker, Down
<1>1. CASE \E u \in Client : OpenForm(u)
  <2>1. PICK u \in Client, action \in Action :
          form' = [form EXCEPT ![u] =
                    [pc |-> "base", action |-> action, base |-> None, cfg |-> cfg, epoch |-> 0]]
    BY <1>1 DEF OpenForm
  <2>2. cfg \in Config
    BY DEF CommandsTypeOK
  <2>3. [pc |-> "base", action |-> action, base |-> None, cfg |-> cfg, epoch |-> 0] \in Form
    <3>1. 0 \in Epoch
      BY <1>a DEF Epoch
    <3> QED BY <2>2, <3>1 DEF Form
  <2> QED BY <1>0, <1>1, <1>e, <2>1, <2>3 DEF OpenForm
<1>2. CASE \E u \in Client : ReadBaseline(u)
  <2>1. PICK u \in Client : ReadBaseline(u)
    BY <1>2
  <2> DEFINE base == IF form[u].action = "scan" THEN None ELSE db.plan
  <2>2. [form[u] EXCEPT !.pc = "epoch", !.base = base] \in Form
    BY <1>0 DEF Form
  <2>3. form' = [form EXCEPT ![u] = [form[u] EXCEPT !.pc = "epoch", !.base = base]]
    BY <1>0, <2>1 DEF ReadBaseline, Form
  <2> QED BY <1>0, <1>e, <2>1, <2>2, <2>3 DEF ReadBaseline
<1>3. CASE \E u \in Client : ReadEpoch(u)
  <2>1. PICK u \in Client : ReadEpoch(u)
    BY <1>3
  <2>2. [form[u] EXCEPT !.pc = "insert", !.epoch = db.epoch] \in Form
    BY <1>0 DEF Form
  <2>3. form' = [form EXCEPT ![u] = [form[u] EXCEPT !.pc = "insert", !.epoch = db.epoch]]
    BY <1>0, <2>1 DEF ReadEpoch, Form
  <2> QED BY <1>0, <1>e, <2>1, <2>2, <2>3 DEF ReadEpoch
<1>4. CASE \E u \in Client : Insert(u)
  <2>1. PICK u \in Client : Insert(u)
    BY <1>4
  <2>2. Requested(u) \in Request
    BY <1>0, <2>1 DEF EpochsPast, Insert, Requested, Request, Form
  <2> DEFINE rec == [status |-> "queued", claimed |-> FALSE,
                     born |-> Cardinality(Command \ Having({"none"}))]
  <2>3. rec \in CmdRec
    <3>1. Cardinality(Command \ Having({"none"})) \in Nat
      BY <1>a, FS_CardinalityType, FS_Subset
    <3> QED BY <3>1 DEF CmdRec, Status
  <2>4. form' \in [Client -> Form]
    BY <1>0, <1>a, <2>1 DEF Insert, Form, NoForm, Epoch
  <2>5. CASE db' = db /\ request' = request
    BY <2>1, <2>4, <2>5, <1>e DEF Insert
  <2>6. CASE ~(db' = db /\ request' = request)
    <3>1. PICK c \in Command : /\ request' = [request EXCEPT ![c] = Requested(u)]
                               /\ db' = [db EXCEPT !.cmd[c] = rec]
      BY <2>1, <2>6 DEF Insert
    <3>2. db' = [db EXCEPT !.cmd = [db.cmd EXCEPT ![c] = rec]]
      BY <1>0, <3>1 DEF Database
    <3>3. [db.cmd EXCEPT ![c] = rec] \in [Command -> CmdRec]
      BY <1>0, <2>3
    <3>4. db' \in Database /\ db'.cmd = [db.cmd EXCEPT ![c] = rec]
      BY <1>0, <3>2, <3>3, TableUpdate DEF Database
    <3>5. TokenKept(db'.cmd)
      BY <1>0, <3>4 DEF TokenKept
    <3>6. request' \in [Command -> Request \cup {None}]
      BY <1>0, <2>2, <3>1
    <3> QED BY <2>1, <2>4, <3>4, <3>5, <3>6 DEF Insert, CommandsTypeOK
  <2> QED BY <2>5, <2>6
<1>5. CASE WorkerStart
  <2>1. WorkerKept(worker')
    BY <1>0, <1>b, <1>5 DEF WorkerStart, WorkerKept, Worker, Down
  <2> QED BY <1>5, <1>c, <2>1 DEF WorkerStart, submitVars
<1>6. CASE BeginRecovery
  BY <1>6, <1>c, <1>f DEF BeginRecovery, submitVars
<1>7. CASE RecoverCommands
  <2> DEFINE cmd == [c \in Command |->
               IF c \in Having({"running"}) THEN Interrupted(db.cmd[c]) ELSE db.cmd[c]]
  <2>1. db' = [db EXCEPT !.cmd = cmd]
    BY <1>0, <1>7 DEF RecoverCommands
  <2>2. cmd \in [Command -> CmdRec]
    BY <1>0, RowUpdates
  <2>3. db' \in Database /\ db'.cmd = cmd
    BY <1>0, <2>1, <2>2, TableUpdate DEF Database
  <2>4. TokenKept(cmd)
    BY <1>0 DEF TokenKept, Interrupted, CmdRec
  <2>5. WorkerKept(worker')
    BY <1>0, <1>7 DEF RecoverCommands, WorkerKept, Worker
  <2> HIDE DEF cmd
  <2> QED BY <1>7, <1>d, <2>3, <2>4, <2>5 DEF RecoverCommands, CommandsTypeOK, submitVars
<1>8. CASE BeginCycle
  BY <1>8, <1>c, <1>f DEF BeginCycle, submitVars
<1>9. CASE Claim
  <2>1. PICK c \in Command :
          /\ db' = [db EXCEPT !.cmd[c].status = "running", !.cmd[c].claimed = TRUE]
          /\ worker' = [worker EXCEPT !.pc = "open", !.cmd = c]
    BY <1>9 DEF Claim, NextCommand, Having
  <2> DEFINE rec == [db.cmd[c] EXCEPT !.status = "running", !.claimed = TRUE]
             cmd == [db.cmd EXCEPT ![c] = rec]
  <2>2. rec \in CmdRec /\ rec.status = "running"
    BY <1>0, RowUpdates DEF CmdRec
  <2>3. cmd \in [Command -> CmdRec] /\ TokenKept(cmd)
    BY <1>0, <2>2 DEF TokenKept
  <2>4. db' = [db EXCEPT !.cmd = cmd]
    BY <1>0, <2>1 DEF Database
  <2>5. db' \in Database /\ db'.cmd = cmd
    BY <1>0, <2>3, <2>4, TableUpdate DEF Database
  <2>6. WorkerKept(worker')
    BY <1>0, <1>a, <2>1 DEF WorkerKept, Worker
  <2> HIDE DEF cmd
  <2> QED BY <1>9, <1>d, <2>3, <2>5, <2>6 DEF Claim, CommandsTypeOK, submitVars
<1>10. CASE ClaimNothing
  <2>1. WorkerKept(worker')
    BY <1>0, <1>10 DEF ClaimNothing, WorkerKept, Worker
  <2> QED BY <1>10, <1>c, <2>1 DEF ClaimNothing, submitVars
<1>11. CASE IdleWork
  <2>1. db' \in Database /\ db'.cmd = db.cmd
    BY <1>0, <1>11 DEF IdleWork, Database
  <2> QED BY <1>0, <1>11, <1>d, <1>f, <2>1 DEF IdleWork, CommandsTypeOK, submitVars
<1>12. CASE OpenEngine \/ CheckBaseline \/ ApplyFails
  <2>1. WorkerKept(worker')
    BY <1>0, <1>12 DEF OpenEngine, CheckBaseline, ApplyFails, Refused, WorkerKept, Worker
  <2> QED BY <1>12, <1>c, <2>1 DEF OpenEngine, CheckBaseline, ApplyFails, submitVars
<1>13. CASE Apply
  <2>1. worker.cmd \in Command
    BY <1>0, <1>13 DEF Apply, WorkerKept, Worker
  <2>2. PICK e \in Evidence, result \in {"complete", "failed"} :
          /\ db' = [db EXCEPT !.plan = e, !.applied = @ \cup {worker.cmd}]
          /\ worker' = [worker EXCEPT !.pc = "ack", !.result = result]
    BY <1>13 DEF Apply
  <2>3. db' \in Database /\ db'.cmd = db.cmd
    BY <1>0, <2>1, <2>2 DEF Database
  <2>4. WorkerKept(worker')
    BY <1>0, <1>13, <2>2 DEF Apply, WorkerKept, Worker
  <2>5. effects' \in [Command -> Nat]
    BY <1>13, <2>1 DEF Apply, CommandsTypeOK
  <2> QED BY <1>0, <1>13, <1>d, <2>3, <2>4, <2>5 DEF Apply, submitVars
<1>14. CASE Ack
  <2>1. worker.cmd \in Command /\ worker.result \in {"complete", "failed"}
    BY <1>0, <1>14 DEF Ack, WorkerKept, Worker
  <2>2. WorkerKept(worker')
    BY <1>0, <1>b, <1>14 DEF Ack, WorkerKept, Worker, Down
  <2>3. CASE db' = db
    BY <1>0, <1>14, <1>c, <2>2, <2>3 DEF Ack, submitVars
  <2>4. CASE db' # db
    <3> DEFINE rec == [db.cmd[worker.cmd] EXCEPT !.status = worker.result]
               cmd == [db.cmd EXCEPT ![worker.cmd] = rec]
    <3>1. db' = [db EXCEPT !.cmd[worker.cmd].status = worker.result]
      BY <1>14, <2>4 DEF Ack
    <3>2. db' = [db EXCEPT !.cmd = cmd]
      BY <1>0, <2>1, <3>1 DEF Database
    <3>3. rec \in CmdRec /\ rec.status \in {"complete", "failed"}
      <4>1. worker.result \in Status /\ db.cmd[worker.cmd] \in CmdRec
        BY <1>0, <2>1 DEF Status
      <4> QED BY <2>1, <4>1, RowUpdates DEF CmdRec
    <3>4. cmd \in [Command -> CmdRec] /\ TokenKept(cmd)
      BY <1>0, <2>1, <3>3 DEF TokenKept
    <3>5. db' \in Database /\ db'.cmd = cmd
      BY <1>0, <3>2, <3>4, TableUpdate DEF Database
    <3> HIDE DEF cmd
    <3> QED BY <1>14, <1>d, <2>2, <3>4, <3>5 DEF Ack, CommandsTypeOK, submitVars
  <2> QED BY <2>3, <2>4
<1>15. CASE Crash
  <2>1. crashes' \in 0..MaxCrashes
    BY <1>a, <1>15 DEF Crash, CommandsTypeOK
  <2> QED BY <1>b, <1>15, <2>1 DEF Crash, CommandsTypeOK, WorkerKept, submitVars
<1>16. CASE ChangeConfig \/ TakeBackup
  BY <1>16 DEF ChangeConfig, TakeBackup, CommandsTypeOK, submitVars
<1>17. CASE Restore
  <2> DEFINE cmd == [c \in Command |-> Superseded(backup.cmd[c])]
  <2>1. /\ backup \in Database /\ backup.cmd \in [Command -> CmdRec]
        /\ db.epoch + 1 \in Epoch
    BY <1>0, <1>a, <1>17 DEF Restore, CommandsTypeOK, Database, Epoch
  <2>2. db' = [backup EXCEPT !.epoch = db.epoch + 1, !.cmd = cmd]
    BY <1>17, <2>1 DEF Restore
  <2>3. cmd \in [Command -> CmdRec]
    BY <2>1, RowUpdates
  <2>4. db' \in Database /\ db'.cmd = cmd
    BY <2>1, <2>2, <2>3 DEF Database
  <2>5. TokenKept(cmd)
    <3>1. TokenKept(backup.cmd)
      BY <1>17 DEF Restore, CommandsTypeOK
    <3> QED BY <2>1, <3>1 DEF TokenKept, Superseded, CmdRec
  <2> HIDE DEF cmd
  <2> QED BY <1>17, <2>4, <2>5 DEF Restore, CommandsTypeOK, submitVars
<1>18. CASE UNCHANGED commandVars
  BY <1>18 DEF commandVars, submitVars, CommandsTypeOK
<1> QED
  BY <1>1, <1>2, <1>3, <1>4, <1>5, <1>6, <1>7, <1>8, <1>9, <1>10, <1>11, <1>12,
     <1>13, <1>14, <1>15, <1>16, <1>17, <1>18
  DEF CommandsNext, SubmitStep, WorkerStep

-----------------------------------------------------------------------------
(* What the steps do to the tables. *)

\* The typing facts that the other proofs use.
LEMMA TypeFacts ==
  ASSUME CommandsTypeOK
  PROVE  /\ db \in Database /\ db.epoch \in Nat
         /\ db.cmd \in [Command -> CmdRec] /\ db.applied \in SUBSET Command
         /\ form \in [Client -> Form]
         /\ request \in [Command -> Request \cup {None}]
         /\ effects \in [Command -> Nat]
         /\ worker \in Worker /\ worker.epoch \in Nat /\ worker.seen \in Nat
         /\ InHand <=> worker.cmd # None
         /\ InHand => worker.cmd \in Command
         /\ None \notin Command
         /\ \A u \in Client : form[u].epoch \in Nat
         /\ \A c \in Command : request[c] # None => request[c].epoch \in Nat
<1>1. MaxRestores \in Nat /\ None \notin Command
  BY CommandsAssumption
<1> QED BY <1>1 DEF CommandsTypeOK, Database, Worker, Form, Request, Epoch, InHand

\* What is in the form at the transaction is a request.
LEMMA RequestMade ==
  ASSUME CommandsTypeOK, EpochsPast, NEW u \in Client, form[u].pc = "insert"
  PROVE  Requested(u) \in Request /\ Requested(u) # None
<1>1. form[u] \in Form /\ form[u].cfg \in Config
  BY DEF CommandsTypeOK, EpochsPast, Form
<1> QED BY <1>1, NoneIsNoRequest DEF Requested, Request, Form

\* The rows' statuses after a step, and how often commands took effect.  A submitter
\* adds a queued row under a free identifier, and of a key only one.
LEMMA InsertEffect ==
  ASSUME CommandsTypeOK, NEW u \in Client, Insert(u)
  PROVE  \/ db' = db /\ request' = request
         \/ \E c \in Command :
              /\ request[c] = None /\ Same(u) = {}
              /\ request' = [request EXCEPT ![c] = Requested(u)]
              /\ db'.epoch = db.epoch /\ db'.plan = db.plan /\ db'.applied = db.applied
              /\ \A d \in Command :
                   db'.cmd[d].status = IF d = c THEN "queued" ELSE db.cmd[d].status
<1>1. CASE db' = db /\ request' = request
  BY <1>1
<1>2. CASE ~(db' = db /\ request' = request)
  <2>1. PICK c \in Command :
          /\ request[c] = None /\ Same(u) = {}
          /\ request' = [request EXCEPT ![c] = Requested(u)]
          /\ db' = [db EXCEPT !.cmd[c] =
               [status |-> "queued", claimed |-> FALSE,
                born |-> Cardinality(Command \ Having({"none"}))]]
    BY <1>2 DEF Insert
  <2> QED BY <2>1, TypeFacts DEF Database
<1> QED BY <1>1, <1>2

\* recover_commands gives up what was running.
LEMMA RecoverEffect ==
  ASSUME CommandsTypeOK, RecoverCommands
  PROVE  /\ db'.epoch = db.epoch /\ db'.plan = db.plan /\ db'.applied = db.applied
         /\ \A d \in Command :
              db'.cmd[d].status = IF db.cmd[d].status = "running" THEN "interrupted"
                                  ELSE db.cmd[d].status
BY TypeFacts DEF RecoverCommands, Database, Having, Interrupted, CmdRec

\* A claim takes a queued row.
LEMMA ClaimEffect ==
  ASSUME CommandsTypeOK, Claim
  PROVE  \E c \in Command :
           /\ db.cmd[c].status = "queued"
           /\ worker'.pc = "open" /\ worker'.cmd = c /\ worker'.seen = worker.seen
           /\ db'.epoch = db.epoch /\ db'.plan = db.plan /\ db'.applied = db.applied
           /\ \A d \in Command :
                db'.cmd[d].status = IF d = c THEN "running" ELSE db.cmd[d].status
<1>1. PICK c \in Command :
        /\ db.cmd[c].status = "queued"
        /\ db' = [db EXCEPT !.cmd[c].status = "running", !.cmd[c].claimed = TRUE]
        /\ worker' = [worker EXCEPT !.pc = "open", !.cmd = c]
  BY DEF Claim, NextCommand, Having
<1> DEFINE rec == [db.cmd[c] EXCEPT !.status = "running", !.claimed = TRUE]
<1>2. rec.status = "running"
  BY TypeFacts DEF CmdRec
<1>3. /\ db'.cmd = [db.cmd EXCEPT ![c] = rec]
      /\ db'.epoch = db.epoch /\ db'.plan = db.plan /\ db'.applied = db.applied
  BY <1>1, TypeFacts DEF Database
<1>4. worker'.pc = "open" /\ worker'.cmd = c /\ worker'.seen = worker.seen
  BY <1>1, TypeFacts DEF Worker
<1> HIDE DEF rec
<1>5. \A d \in Command :
        db'.cmd[d].status = IF d = c THEN "running" ELSE db.cmd[d].status
  BY <1>2, <1>3, TypeFacts
<1> QED BY <1>1, <1>3, <1>4, <1>5

\* A lifecycle write and a start leave the worker with no command in hand.
LEMMA LifecycleEffect ==
  ASSUME BeginRecovery \/ BeginCycle \/ WorkerStart \/ IdleWork \/ Crash
  PROVE  worker'.seen = 0 /\ worker'.pc \notin {"open", "baseline", "apply", "ack"}
<1>1. ASSUME NEW pc \in {"recover", "claim", "cycle"}, FencedWrite(pc)
      PROVE  worker'.seen = 0 /\ worker'.pc \in {"down", pc}
  BY <1>1 DEF FencedWrite, Down
<1>2. CASE BeginRecovery
  BY <1>1, <1>2 DEF BeginRecovery
<1>3. CASE BeginCycle
  BY <1>1, <1>3 DEF BeginCycle
<1>4. CASE IdleWork
  BY <1>1, <1>4 DEF IdleWork
<1>5. CASE Crash
  BY <1>5 DEF Crash, Down
<1>6. CASE WorkerStart
  BY <1>6 DEF WorkerStart, Down
<1> QED BY <1>2, <1>3, <1>4, <1>5, <1>6

\* An effect is recorded in the tables, and the command remains to be acknowledged.
LEMMA ApplyEffect ==
  ASSUME CommandsTypeOK, Apply
  PROVE  /\ db'.epoch = db.epoch /\ db'.cmd = db.cmd
         /\ db'.applied = db.applied \cup {worker.cmd}
         /\ worker'.pc = "ack" /\ worker'.cmd = worker.cmd /\ worker'.seen = worker.seen
BY TypeFacts DEF Apply, Database, Worker

\* An acknowledgement changes at most the row of the command in hand, in its epoch.
LEMMA AckEffect ==
  ASSUME CommandsTypeOK, Ack
  PROVE  /\ db'.epoch = db.epoch /\ db'.plan = db.plan /\ db'.applied = db.applied
         /\ \A d \in Command :
              \/ db'.cmd[d].status = db.cmd[d].status
              \/ /\ d = worker.cmd /\ request[d].epoch = db.epoch
                 /\ db'.cmd[d].status = worker.result
         /\ worker.result \in {"complete", "failed"}
         /\ worker'.pc = "idle" /\ worker'.seen = 0
<1>1. worker.result \in {"complete", "failed"}
  BY TypeFacts DEF Worker
<1>2. worker'.pc = "idle" /\ worker'.seen = 0
  BY DEF Ack, Down
<1>3. worker.cmd \in Command
  BY TypeFacts DEF Ack, InHand
<1>4. CASE db' = db
  BY <1>1, <1>2, <1>4
<1>5. CASE db' # db
  <2>1. /\ request[worker.cmd].epoch = db.epoch
        /\ db' = [db EXCEPT !.cmd[worker.cmd].status = worker.result]
    BY <1>5 DEF Ack, AckMatches
  <2> QED BY <1>1, <1>2, <1>3, <2>1, TypeFacts DEF Database, CmdRec
<1> QED BY <1>4, <1>5

\* After a restore nothing is pending, and complete is what the backup has complete.
LEMMA RestoreEffect ==
  ASSUME CommandsTypeOK, Restore
  PROVE  /\ db'.epoch = db.epoch + 1 /\ db'.applied = backup.applied
         /\ \A d \in Command :
              /\ db'.cmd[d].status \notin {"queued", "running"}
              /\ db'.cmd[d].status = "complete" => backup.cmd[d].status = "complete"
<1>1. backup \in Database
  BY DEF Restore, CommandsTypeOK
<1> QED BY <1>1 DEF Restore, Database, Superseded, CmdRec

\* The worker's own work leaves the commands alone.
LEMMA IdleEffect ==
  ASSUME CommandsTypeOK, IdleWork
  PROVE  db'.epoch = db.epoch /\ db'.cmd = db.cmd /\ db'.applied = db.applied
BY TypeFacts DEF IdleWork, Database

-----------------------------------------------------------------------------
(* Each part of the invariant is kept by every step. *)

\* Every step keeps epochs and requests in order.
LEMMA StepEpochs ==
  ASSUME CommandsTypeOK, EpochsPast, [CommandsNext]_commandVars
  PROVE  EpochsPast'
<1> USE TypeFacts
<1>1. CASE \E u \in Client : OpenForm(u) \/ ReadBaseline(u) \/ ReadEpoch(u)
  <2>1. PICK u \in Client : OpenForm(u) \/ ReadBaseline(u) \/ ReadEpoch(u)
    BY <1>1
  <2>2. cfg # None
    BY CommandsAssumption DEF CommandsTypeOK
  <2>3. /\ form'[u].epoch \in {0, form[u].epoch, db.epoch}
        /\ form'[u].cfg \in {cfg, form[u].cfg}
        /\ form[u].pc = "idle" => form'[u].cfg = cfg
        /\ \A v \in Client \ {u} : form'[v] = form[v]
    BY <2>1 DEF OpenForm, ReadBaseline, ReadEpoch, Form
  <2>4. UNCHANGED <<db, request, worker>>
    BY <2>1 DEF OpenForm, ReadBaseline, ReadEpoch
  <2>5. /\ form'[u].epoch <= db.epoch
        /\ form'[u].cfg # None
    BY <2>1, <2>2, <2>3 DEF OpenForm, ReadBaseline, ReadEpoch, EpochsPast
  <2> QED BY <2>3, <2>4, <2>5 DEF EpochsPast, InHand
<1>2. CASE \E u \in Client : Insert(u)
  <2>1. PICK u \in Client : Insert(u)
    BY <1>2
  <2>2. CASE db' = db /\ request' = request
    BY <2>1, <2>2 DEF Insert, EpochsPast, InHand, NoForm
  <2>3. CASE ~(db' = db /\ request' = request)
    <3>1. PICK c \in Command :
            /\ request[c] = None
            /\ request' = [request EXCEPT ![c] = Requested(u)]
            /\ db'.epoch = db.epoch
            /\ \A d \in Command :
                 db'.cmd[d].status = IF d = c THEN "queued" ELSE db.cmd[d].status
      BY <2>1, <2>3, InsertEffect
    <3>2. Requested(u) # None
      BY <2>1, RequestMade DEF Insert
    <3> QED BY <2>1, <3>1, <3>2 DEF Insert, EpochsPast, InHand, NoForm, Requested
  <2> QED BY <2>2, <2>3
<1>3. CASE WorkerStart \/ BeginRecovery \/ BeginCycle
  BY <1>3, LifecycleEffect
  DEF WorkerStart, BeginRecovery, BeginCycle, EpochsPast, InHand, submitVars
<1>4. CASE RecoverCommands
  BY <1>4, RecoverEffect DEF RecoverCommands, EpochsPast, InHand, submitVars, Worker
<1>5. CASE Claim
  <2>1. /\ worker'.cmd \in Command /\ worker'.seen = worker.seen
        /\ db'.epoch = db.epoch
        /\ request[worker'.cmd] # None
        /\ \A d \in Command : \/ db'.cmd[d].status = db.cmd[d].status
                             \/ db.cmd[d].status = "queued"
    BY <1>5, ClaimEffect DEF EpochsPast
  <2> QED BY <1>5, <2>1 DEF Claim, EpochsPast, InHand, submitVars
<1>6. CASE ClaimNothing \/ OpenEngine \/ CheckBaseline \/ ApplyFails
  BY <1>6 DEF ClaimNothing, OpenEngine, CheckBaseline, ApplyFails, Refused, EpochsPast,
              InHand, submitVars, Worker
<1>7. CASE IdleWork
  BY <1>7, IdleEffect, LifecycleEffect DEF IdleWork, EpochsPast, InHand, submitVars
<1>8. CASE Apply
  BY <1>8, ApplyEffect DEF Apply, EpochsPast, InHand, submitVars
<1>9. CASE Ack
  BY <1>9, AckEffect DEF Ack, EpochsPast, InHand, submitVars
<1>10. CASE Crash \/ ChangeConfig \/ TakeBackup
  BY <1>10 DEF Crash, ChangeConfig, TakeBackup, Down, EpochsPast, InHand, submitVars
<1>11. CASE Restore
  BY <1>11, RestoreEffect DEF Restore, EpochsPast, InHand, submitVars
<1>12. CASE UNCHANGED commandVars
  BY <1>12 DEF commandVars, submitVars, EpochsPast, InHand
<1> QED
  BY <1>1, <1>2, <1>3, <1>4, <1>5, <1>6, <1>7, <1>8, <1>9, <1>10, <1>11, <1>12
  DEF CommandsNext, SubmitStep, WorkerStep

\* Every step keeps what is queued or in hand without effect.
LEMMA StepNotYet ==
  ASSUME CommandsTypeOK, EpochsPast, NotYet, [CommandsNext]_commandVars
  PROVE  NotYet'
<1> USE TypeFacts DEF NotYet, AtMostOnce
<1>1. CASE \E u \in Client : OpenForm(u) \/ ReadBaseline(u) \/ ReadEpoch(u)
  BY <1>1 DEF OpenForm, ReadBaseline, ReadEpoch, InHand
<1>2. CASE \E u \in Client : Insert(u)
  <2>1. PICK u \in Client : Insert(u)
    BY <1>2
  <2>2. CASE db' = db /\ request' = request
    BY <2>1, <2>2 DEF Insert, InHand
  <2>3. CASE ~(db' = db /\ request' = request)
    <3>1. PICK c \in Command :
            /\ request[c] = None
            /\ request' = [request EXCEPT ![c] = Requested(u)]
            /\ \A d \in Command :
                 db'.cmd[d].status = IF d = c THEN "queued" ELSE db.cmd[d].status
      BY <2>1, <2>3, InsertEffect
    <3>2. Requested(u) # None
      BY <2>1, RequestMade DEF Insert
    <3>3. InHand => worker.cmd # c
      BY <3>1 DEF EpochsPast
    <3> QED BY <2>1, <3>1, <3>2, <3>3 DEF Insert, InHand
  <2> QED BY <2>2, <2>3
<1>3. CASE WorkerStart \/ BeginRecovery \/ BeginCycle
  BY <1>3, LifecycleEffect DEF WorkerStart, BeginRecovery, BeginCycle, InHand, submitVars
<1>4. CASE RecoverCommands
  BY <1>4, RecoverEffect DEF RecoverCommands, InHand, submitVars, Worker
<1>5. CASE Claim
  <2>1. PICK c \in Command :
          /\ db.cmd[c].status = "queued" /\ worker'.cmd = c
          /\ \A d \in Command :
               db'.cmd[d].status = IF d = c THEN "running" ELSE db.cmd[d].status
    BY <1>5, ClaimEffect
  <2> QED BY <1>5, <2>1 DEF Claim, InHand, submitVars
<1>6. CASE ClaimNothing \/ OpenEngine \/ CheckBaseline \/ ApplyFails
  BY <1>6 DEF ClaimNothing, OpenEngine, CheckBaseline, ApplyFails, Refused, InHand,
              submitVars, Worker
<1>7. CASE IdleWork
  BY <1>7, IdleEffect, LifecycleEffect DEF IdleWork, InHand, submitVars
<1>8. CASE Apply
  BY <1>8, ApplyEffect DEF Apply, InHand, submitVars, EpochsPast
<1>9. CASE Ack
  BY <1>9, AckEffect DEF Ack, InHand, submitVars
<1>10. CASE Crash \/ ChangeConfig \/ TakeBackup
  BY <1>10 DEF Crash, ChangeConfig, TakeBackup, Down, InHand, submitVars
<1>11. CASE Restore
  BY <1>11, RestoreEffect DEF Restore, InHand, submitVars
<1>12. CASE UNCHANGED commandVars
  BY <1>12 DEF commandVars, submitVars, InHand
<1> QED
  BY <1>1, <1>2, <1>3, <1>4, <1>5, <1>6, <1>7, <1>8, <1>9, <1>10, <1>11, <1>12
  DEF CommandsNext, SubmitStep, WorkerStep

\* Every step keeps what execute_command has checked, in the epoch it read.
LEMMA StepPins ==
  ASSUME CommandsTypeOK, EpochsPast, Pins, [CommandsNext]_commandVars
  PROVE  Pins'
<1> USE TypeFacts DEF Pins
<1>1. CASE \E u \in Client : OpenForm(u) \/ ReadBaseline(u) \/ ReadEpoch(u)
  BY <1>1 DEF OpenForm, ReadBaseline, ReadEpoch
<1>2. CASE \E u \in Client : Insert(u)
  <2>1. PICK u \in Client : Insert(u)
    BY <1>2
  <2>2. CASE db' = db /\ request' = request
    BY <2>1, <2>2 DEF Insert
  <2>3. CASE ~(db' = db /\ request' = request)
    <3>1. PICK c \in Command :
            /\ request[c] = None
            /\ request' = [request EXCEPT ![c] = Requested(u)]
            /\ db'.epoch = db.epoch /\ db'.plan = db.plan
      BY <2>1, <2>3, InsertEffect
    <3>2. InHand => request'[worker.cmd] = request[worker.cmd]
      BY <3>1 DEF EpochsPast
    <3> QED BY <2>1, <3>1, <3>2 DEF Insert, InHand
  <2> QED BY <2>2, <2>3
<1>3. CASE WorkerStart \/ BeginRecovery \/ BeginCycle \/ IdleWork \/ Crash
  BY <1>3, LifecycleEffect
<1>4. CASE RecoverCommands \/ Claim \/ ClaimNothing \/ Apply \/ ApplyFails \/ Ack
  <2>1. worker'.pc \notin {"baseline", "apply"}
    BY <1>4, ClaimEffect, ApplyEffect, AckEffect
    DEF RecoverCommands, ClaimNothing, ApplyFails, Refused, Worker
  <2> QED BY <2>1
<1>5. CASE OpenEngine
  BY <1>5 DEF OpenEngine, Refused, submitVars, Worker
<1>6. CASE CheckBaseline
  BY <1>6 DEF CheckBaseline, Refused, submitVars, Worker
<1>7. CASE ChangeConfig \/ TakeBackup
  BY <1>7 DEF ChangeConfig, TakeBackup, submitVars
<1>8. CASE Restore
  BY <1>8, RestoreEffect DEF Restore, EpochsPast, submitVars
<1>9. CASE UNCHANGED commandVars
  BY <1>9 DEF commandVars, submitVars
<1> QED
  BY <1>1, <1>2, <1>3, <1>4, <1>5, <1>6, <1>7, <1>8, <1>9
  DEF CommandsNext, SubmitStep, WorkerStep

\* What the tables call complete, and the backup does, has been applied in them.
LEMMA StepOutcome ==
  ASSUME CommandsTypeOK, EpochsPast, Outcome, [CommandsNext]_commandVars
  PROVE  Outcome'
<1> DEFINE Told == \A c \in Command : db.cmd[c].status = "complete" => c \in db.applied
           Saved == backup # None =>
             \A c \in Command : backup.cmd[c].status = "complete" => c \in backup.applied
           Acked == worker.pc = "ack" /\ worker.result = "complete"
             /\ request[worker.cmd].epoch = db.epoch => worker.cmd \in db.applied
<1>0. Outcome <=> Told /\ Saved /\ Acked
  BY DEF Outcome, CompleteIsApplied, Having
<1>a. Outcome' <=> Told' /\ Saved' /\ Acked'
  BY DEF Outcome, CompleteIsApplied, Having
<1> USE TypeFacts
<1>1. CASE \E u \in Client : OpenForm(u) \/ ReadBaseline(u) \/ ReadEpoch(u)
  BY <1>0, <1>a, <1>1 DEF OpenForm, ReadBaseline, ReadEpoch
<1>2. CASE \E u \in Client : Insert(u)
  <2>1. PICK u \in Client : Insert(u)
    BY <1>2
  <2>2. CASE db' = db /\ request' = request
    BY <1>0, <1>a, <2>1, <2>2 DEF Insert
  <2>3. CASE ~(db' = db /\ request' = request)
    <3>1. PICK c \in Command :
            /\ request[c] = None
            /\ request' = [request EXCEPT ![c] = Requested(u)]
            /\ db'.epoch = db.epoch /\ db'.applied = db.applied
            /\ \A d \in Command :
                 db'.cmd[d].status = IF d = c THEN "queued" ELSE db.cmd[d].status
      BY <2>1, <2>3, InsertEffect
    <3>2. InHand => request'[worker.cmd] = request[worker.cmd]
      BY <3>1 DEF EpochsPast
    <3> QED BY <1>0, <1>a, <2>1, <3>1, <3>2 DEF Insert, InHand
  <2> QED BY <2>2, <2>3
<1>3. CASE WorkerStart \/ BeginRecovery \/ BeginCycle \/ Crash
  BY <1>0, <1>a, <1>3, LifecycleEffect DEF WorkerStart, BeginRecovery, BeginCycle, Crash
<1>4. CASE RecoverCommands
  BY <1>0, <1>a, <1>4, RecoverEffect DEF RecoverCommands, Worker
<1>5. CASE Claim
  BY <1>0, <1>a, <1>5, ClaimEffect DEF Claim
<1>6. CASE ClaimNothing \/ OpenEngine \/ CheckBaseline \/ ApplyFails
  <2>1. worker'.pc # "ack" \/ worker'.result = "failed"
    BY <1>6 DEF ClaimNothing, OpenEngine, CheckBaseline, ApplyFails, Refused, Worker
  <2>2. UNCHANGED <<db, backup>>
    BY <1>6 DEF ClaimNothing, OpenEngine, CheckBaseline, ApplyFails
  <2> QED BY <1>0, <1>a, <2>1, <2>2
<1>7. CASE IdleWork
  BY <1>0, <1>a, <1>7, IdleEffect, LifecycleEffect DEF IdleWork
<1>8. CASE Apply
  BY <1>0, <1>a, <1>8, ApplyEffect DEF Apply
<1>9. CASE Ack
  <2>1. Told'
    BY <1>0, <1>9, AckEffect DEF Ack
  <2> QED BY <1>0, <1>a, <1>9, <2>1, AckEffect DEF Ack
<1>10. CASE ChangeConfig \/ TakeBackup
  BY <1>0, <1>a, <1>10 DEF ChangeConfig, TakeBackup, submitVars
<1>11. CASE Restore
  <2>1. Told' /\ Saved'
    BY <1>0, <1>11, RestoreEffect DEF Restore
  <2>2. Acked'
    BY <1>11, RestoreEffect DEF Restore, EpochsPast, submitVars, InHand
  <2> QED BY <1>a, <2>1, <2>2
<1>12. CASE UNCHANGED commandVars
  BY <1>0, <1>a, <1>12 DEF commandVars, submitVars
<1> QED
  BY <1>1, <1>2, <1>3, <1>4, <1>5, <1>6, <1>7, <1>8, <1>9, <1>10, <1>11, <1>12
  DEF CommandsNext, SubmitStep, WorkerStep

\* Only a submission adds a pending command, and it finds none of its key.
LEMMA StepCoalesce ==
  ASSUME CommandsTypeOK, EpochsPast, PendingCoalesce, [CommandsNext]_commandVars
  PROVE  PendingCoalesce'
<1> USE TypeFacts
<1>0. PendingCoalesce' <=> \A c, d \in Pending' : request'[c] = request'[d] => c = d
  BY DEF PendingCoalesce
<1>a. ASSUME request' = request, Pending' \subseteq Pending
      PROVE  PendingCoalesce'
  BY <1>0, <1>a DEF PendingCoalesce
<1>b. ASSUME UNCHANGED <<db, request>>
      PROVE  PendingCoalesce'
  BY <1>b, <1>a DEF Pending, Having
<1>c. ASSUME request' = request,
             \A d \in Command : db'.cmd[d].status \in {"queued", "running"} =>
                                  db.cmd[d].status \in {"queued", "running"}
      PROVE  PendingCoalesce'
  BY <1>c, <1>a DEF Pending, Having
<1>1. CASE \E u \in Client : OpenForm(u) \/ ReadBaseline(u) \/ ReadEpoch(u)
  BY <1>1, <1>b DEF OpenForm, ReadBaseline, ReadEpoch
<1>2. CASE \E u \in Client : Insert(u)
  <2>1. PICK u \in Client : Insert(u)
    BY <1>2
  <2>2. CASE db' = db /\ request' = request
    BY <1>b, <2>2
  <2>3. CASE ~(db' = db /\ request' = request)
    <3>1. PICK c \in Command :
            /\ request[c] = None /\ Same(u) = {}
            /\ request' = [request EXCEPT ![c] = Requested(u)]
            /\ \A d \in Command :
                 db'.cmd[d].status = IF d = c THEN "queued" ELSE db.cmd[d].status
      BY <2>1, <2>3, InsertEffect
    <3>2. Pending' = Pending \cup {c} /\ c \notin Pending
      BY <3>1 DEF Pending, Having, EpochsPast
    <3>3. \A d \in Pending : request'[d] = request[d] /\ request[d] # Requested(u)
      BY <3>1, <3>2 DEF Same, Pending, Having
    <3>4. request'[c] = Requested(u)
      BY <3>1
    <3> QED BY <1>0, <3>2, <3>3, <3>4 DEF PendingCoalesce
  <2> QED BY <2>2, <2>3
<1>3. CASE RecoverCommands
  BY <1>3, <1>c, RecoverEffect DEF RecoverCommands, submitVars
<1>4. CASE Claim
  <2>1. \A d \in Command : \/ db'.cmd[d].status = db.cmd[d].status
                          \/ db.cmd[d].status = "queued"
    BY <1>4, ClaimEffect
  <2> QED BY <1>4, <1>c, <2>1 DEF Claim, submitVars
<1>5. CASE IdleWork \/ Apply
  BY <1>5, <1>c, IdleEffect, ApplyEffect DEF IdleWork, Apply, submitVars
<1>6. CASE Ack
  BY <1>6, <1>c, AckEffect DEF Ack, submitVars
<1>7. CASE Restore
  BY <1>7, <1>c, RestoreEffect DEF Restore, submitVars
<1>8. CASE WorkerStart \/ BeginRecovery \/ BeginCycle \/ ClaimNothing \/ OpenEngine
        \/ CheckBaseline \/ ApplyFails \/ Crash \/ ChangeConfig \/ TakeBackup
        \/ UNCHANGED commandVars
  BY <1>8, <1>b
  DEF WorkerStart, BeginRecovery, BeginCycle, ClaimNothing, OpenEngine, CheckBaseline, ApplyFails,
      Crash, ChangeConfig, TakeBackup, commandVars, submitVars
<1> QED
  BY <1>1, <1>2, <1>3, <1>4, <1>5, <1>6, <1>7, <1>8
  DEF CommandsNext, SubmitStep, WorkerStep

-----------------------------------------------------------------------------
(* The theorems. *)

\* The strengthened invariant holds in every behaviour.
THEOREM Invariant == CommandsSpec => []IInv
<1>1. IInv /\ [CommandsNext]_commandVars => IInv'
  BY StepType, StepEpochs, StepNotYet, StepPins, StepOutcome, StepCoalesce DEF IInv
<1> QED BY <1>1, InitInvariant, PTL DEF CommandsSpec

\* Every variable keeps its type, and claim tokens are where they belong.
THEOREM CommandsTypeCorrect == CommandsSpec => []CommandsTypeOK
<1>1. IInv => CommandsTypeOK
  BY DEF IInv
<1> QED BY <1>1, Invariant, PTL

\* No command takes effect twice, however often the worker dies (recover_commands)
\* and backups that still have it queued come back (restore_media_database).
THEOREM AtMostOnceHolds == CommandsSpec => []AtMostOnce
<1>1. IInv => AtMostOnce
  BY DEF IInv, NotYet
<1> QED BY <1>1, Invariant, PTL

\* A command the tables call complete has been applied in them: the guard of
\* process_one's acknowledgement suffices against restores.
THEOREM CompleteIsAppliedHolds == CommandsSpec => []CompleteIsApplied
<1>1. IInv => CompleteIsApplied
  BY DEF IInv, Outcome
<1> QED BY <1>1, Invariant, PTL

\* Of each key at most one command is pending (submit's coalescing).
THEOREM PendingCoalesceHolds == CommandsSpec => []PendingCoalesce
<1>1. IInv => PendingCoalesce
  BY DEF IInv
<1> QED BY <1>1, Invariant, PTL

\* An effect lands in the epoch, and on the evidence, that its submitter saw, although
\* execute_command checks both before it has the lease.
THEOREM PinnedAtEffectHolds == CommandsSpec => PinnedAtEffect
<1>1. IInv /\ [CommandsNext]_commandVars =>
        [\A c \in Command : effects'[c] # effects[c] =>
           /\ request[c].epoch = db.epoch
           /\ request[c].base \in {None, db.plan}]_commandVars
  <2> SUFFICES ASSUME IInv, CommandsNext, ~(UNCHANGED effects)
               PROVE  \A c \in Command : effects'[c] # effects[c] =>
                        /\ request[c].epoch = db.epoch
                        /\ request[c].base \in {None, db.plan}
    BY DEF commandVars
  <2>1. Apply
    BY DEF CommandsNext, SubmitStep, WorkerStep, OpenForm, ReadBaseline, ReadEpoch, Insert,
           WorkerStart, BeginRecovery, RecoverCommands, BeginCycle, Claim, ClaimNothing, IdleWork,
           OpenEngine, CheckBaseline, ApplyFails, Ack, Crash, ChangeConfig, TakeBackup, Restore
  <2>2. request[worker.cmd].epoch = db.epoch /\ request[worker.cmd].base \in {None, db.plan}
    BY <2>1 DEF IInv, Pins, Apply, LeaseGranted
  <2>3. \A c \in Command : effects'[c] # effects[c] => c = worker.cmd
    BY <2>1, TypeFacts DEF IInv, Apply
  <2> QED BY <2>2, <2>3
<1> QED BY <1>1, Invariant, PTL DEF CommandsSpec, PinnedAtEffect

==============================================================================
