----------------------------- MODULE WantSearch -----------------------------
(***************************************************************************)
(* When wants are searched: the intent phase of a scheduled cycle, which   *)
(* reads the configured sources, searches a batch of the wants that are    *)
(* due and enqueues what is ready, and the searches of the web pages that  *)
(* run beside it (cli._intent_run_once_payload, actions/intent.py,         *)
(* state.list_due_intents, intent/workflow.py, web/app.py).                *)
(*                                                                         *)
(* The history of a want is kept as far as next_search_at looks at it: its *)
(* latest row, whether that row still keeps it waiting, whether it was     *)
(* searched since the daily hour, and the order of the latest rows.  How   *)
(* long a wait lasts is left out: it ends some time.  The scheduler is one *)
(* process, as its lease sees to (Scheduler), and claims and merges are in *)
(* WantQueue.                                                              *)
(***************************************************************************)
EXTENDS Integers, Sequences, FiniteSets

CONSTANTS
  Intent,          \* intents, by their identifiers, in the order of created_at
  Batch,           \* SCHEDULED_INTENT_SEARCH_BATCH_SIZE
  Posted,          \* the wants that Telegram updates ask for, in their order
  Listed,          \* wants on the configured lists
  Filed,           \* wants in the inbox file
  Refused,         \* wants whose identifier the tracker refuses
  MaxRequests      \* bound on web requests

ASSUME SearchAssumption ==
  /\ Intent \subseteq Nat /\ IsFiniteSet(Intent)
  /\ Batch \in Nat \ {0}
  /\ Posted \in Seq(Intent) /\ Listed \cup Filed \cup Refused \subseteq Intent
  /\ MaxRequests \in Nat

VARIABLES
  known, taken,    \* intents, and those of them with a selected release
  ready,           \* wants whose stored candidates can be enqueued
  last,            \* [Intent -> status of the latest row of want_search_runs]
  older,           \* pairs of wants: the latest row of the first is the older one
  waits,           \* wants that their latest row keeps waiting
  fresh,           \* wants searched since the daily hour
  paused,          \* a backoff of the tracker is active
  sent, confirmed, cursor,    \* updates sent, dropped by Telegram, and source_cursors
  refreshed, searched,        \* runs since the daily hour that say so in their summary
  cycle,           \* the scheduler
  web,             \* a request of the web pages
  requests

wantList == <<known, taken, ready>>
history  == <<last, older, waits, fresh>>
sources  == <<sent, confirmed, cursor>>
marks    == <<refreshed, searched>>
vars     == <<wantList, history, paused, sources, marks, cycle, web, requests>>

Status == {"none", "searched", "failed", "skipped"}

CycleRec == [pc : {"idle", "fetch", "ingest", "choose", "search", "enqueue", "note"},
             refresh : BOOLEAN, search : BOOLEAN, retry : BOOLEAN,
             clean   : BOOLEAN,        \* no source and no later step failed
             events  : SUBSET Intent,    \* events that are still to be ingested
             offset  : Nat,            \* the cursor that would be stored
             batch   : SUBSET Intent,
             todo    : SUBSET Intent]    \* wants that are still to be enqueued

NoCycle == [pc |-> "idle", refresh |-> FALSE, search |-> FALSE, retry |-> FALSE,
            clean |-> TRUE, events |-> {}, offset |-> 0, batch |-> {}, todo |-> {}]

Init ==
  /\ known = {} /\ taken = {} /\ ready = {}
  /\ last = [w \in Intent |-> "none"] /\ older = {} /\ waits = {} /\ fresh = {}
  /\ paused = FALSE
  /\ sent = 0 /\ confirmed = 0 /\ cursor = 0
  /\ refreshed = FALSE /\ searched = FALSE
  /\ cycle = NoCycle /\ web = "idle"
  /\ requests = 0

At(pc) == cycle.pc = pc

-----------------------------------------------------------------------------
(* The history of searches. *)

\* want_searchable, intent_searchable
StillWanted == known \ taken

\* next_search_at: a success lasts until the daily hour, a failure and a backoff that
\* the latest row names until their time.
Due == StillWanted \ (waits \cup fresh)

Tried == {w \in Intent : last[w] # "none"}
ByName(v, w) == v < w      \* mutant: the history is not looked at

\* Wants without a row come first, the others by the time of their row.
Before(v, w) ==
  \/ v \notin Tried /\ w \notin Tried /\ v < w
  \/ v \notin Tried /\ w \in Tried
  \/ <<v, w>> \in older

\* list_due_intents(limit)
DueBatch == {w \in Due : Cardinality({v \in Due : Before(v, w)}) < Batch}

\* The orders in which rows are written: of requests, its reverse, and of the batch.
Ascending(set)  == {pair \in set \X set : pair[1] < pair[2]}
Descending(set) == {pair \in set \X set : pair[2] < pair[1]}
AsDue(set)      == {pair \in set \X set : Before(pair[1], pair[2])}

\* One row for each want of a set, written in an order.
Later(set, sorted) ==
  {pair \in older : pair[1] \notin set /\ pair[2] \notin set}
    \cup ((Tried \ set) \X set) \cup sorted

Record(set, sorted, status, held) ==
  /\ last' = [w \in Intent |-> IF w \in set THEN status ELSE last[w]]
  /\ older' = Later(set, sorted)
  /\ waits' = IF held THEN waits \cup set ELSE waits \ set

\* save_want_search_batch: what is still searchable gets its candidates, its state and
\* a row, in one transaction.
Save(batch, good) ==
  LET saved == batch \cap StillWanted
  IN  /\ Record(saved, Ascending(saved), "searched", FALSE)
      /\ fresh' = fresh \cup saved
      /\ ready' = (ready \ saved) \cup (good \cap saved)

\* search_intents_batch, the handler: every want of the batch gets a row, and waits.
Abort(set, sorted) == Record(set, sorted, "failed", TRUE) /\ UNCHANGED <<fresh, ready>>

\* A provider answers for every want of the batch.
Answered(batch) == batch \cap Refused = {}

-----------------------------------------------------------------------------
(* The intent phase of a cycle. *)

\* A cycle comes to its intent phase.  The phases before it record a backoff, or pass; a
\* backoff that the cycle has met holds for all of it.
CycleBegins ==
  /\ At("idle")
  /\ \E held \in IF paused THEN {TRUE} ELSE BOOLEAN :
        LET refresh == ~refreshed
            search  == (~searched \/ Due # {}) /\ ~held
            retry   == ~search /\ ~held /\ StillWanted \cap ready # {}
        IN  /\ paused' = held
            /\ refresh \/ ~held
            /\ cycle' = [NoCycle EXCEPT !.refresh = refresh, !.search = search,
                                        !.retry = retry, !.offset = cursor,
                                        !.pc = IF refresh THEN "fetch" ELSE "choose"]
  /\ UNCHANGED <<wantList, history, sources, marks, web, requests>>

\* poll_telegram_update_batch: Telegram drops what lies below the offset it is given.
DropsPolled == sent            \* mutant: the poll confirms what it reads
Drops == cursor

Polled == {Posted[i] : i \in (cursor + 1)..sent}

\* Telegram fails, or storing an event does, after some of them: the refresh ends there.
RefreshFails ==
  /\ At("fetch") \/ At("ingest")
  /\ \E some \in SUBSET cycle.events : known' = known \cup some
  /\ cycle' = [cycle EXCEPT !.pc = "choose", !.clean = FALSE, !.events = {}]
  /\ UNCHANGED <<taken, ready, history, paused, sources, marks, web, requests>>

\* The lists are read one by one; one that fails leaves a warning.
Fetch ==
  /\ At("fetch")
  /\ \E read \in SUBSET Listed :
        cycle' = [cycle EXCEPT !.pc = "ingest", !.events = Polled \cup read,
                               !.offset = sent, !.clean = read = Listed]
  /\ confirmed' = IF confirmed > Drops THEN confirmed ELSE Drops
  /\ UNCHANGED <<wantList, history, paused, sent, cursor, marks, web, requests>>

\* ingest_events
Ingest ==
  /\ At("ingest")
  /\ known' = known \cup cycle.events
  /\ cycle' = [cycle EXCEPT !.pc = "choose", !.events = {}]
  /\ UNCHANGED <<taken, ready, history, paused, sources, marks, web, requests>>

\* The stored candidates of wants that were searched last are tried again.
Again == IF cycle.search \/ cycle.retry
         THEN {w \in StillWanted \cap ready : last[w] = "searched"} ELSE {}

\* run_intent_once: the inbox, then the wants that are due.
ReadInbox == known' = known \cup Filed
ChooseDue ==
  /\ At("choose")
  /\ UNCHANGED <<taken, ready, history>>
  /\ ReadInbox
  /\ cycle' = IF cycle.search /\ DueBatch' # {}
              THEN [cycle EXCEPT !.pc = "search", !.batch = DueBatch']
              ELSE [cycle EXCEPT !.pc = "enqueue", !.todo = Again, !.retry = FALSE]
  /\ UNCHANGED <<paused, sources, marks, web, requests>>

\* A search fails, and with it the cycle, of which nothing is noted: a backoff is
\* recorded when the tracker was busy or not there.
SearchFails ==
  /\ At("search")
  /\ Abort(cycle.batch, AsDue(cycle.batch))
  /\ \E busy \in IF Answered(cycle.batch) THEN BOOLEAN ELSE {FALSE} : paused' = (paused \/ busy)
  /\ cycle' = NoCycle
  /\ UNCHANGED <<known, taken, sources, marks, web, requests>>

SearchSucceeds ==
  /\ At("search") /\ Answered(cycle.batch)
  /\ \E good \in SUBSET cycle.batch : Save(cycle.batch, good)
  /\ cycle' = [cycle EXCEPT !.pc = "enqueue",
                            !.todo = {w \in StillWanted \cap ready' : last'[w] = "searched"},
                            !.batch = {}]
  /\ UNCHANGED <<known, taken, paused, sources, marks, web, requests>>

\* enqueue_intent: the gates let it through, or stop it.
Enqueue(w) ==
  /\ At("enqueue") /\ w \in cycle.todo
  /\ taken' = taken \cup {w}
  /\ cycle' = [cycle EXCEPT !.todo = @ \ {w}]
  /\ UNCHANGED <<known, ready, history, paused, sources, marks, web, requests>>

Gated(w) ==
  /\ At("enqueue") /\ w \in cycle.todo
  /\ cycle' = [cycle EXCEPT !.todo = @ \ {w}]
  /\ UNCHANGED <<wantList, history, paused, sources, marks, web, requests>>

\* MutationBatchError: the downloader refuses, and the cycle ends.  So it does
\* when the process dies.
EnqueueFails ==
  /\ At("enqueue") /\ cycle.todo # {}
  /\ cycle' = NoCycle
  /\ UNCHANGED <<wantList, history, paused, sources, marks, web, requests>>

\* set_source_cursor, for a refresh without a warning.
Commit ==
  /\ At("enqueue") /\ cycle.todo = {}
  /\ cursor' = IF cycle.refresh /\ cycle.clean THEN cycle.offset ELSE cursor
  /\ cycle' = [cycle EXCEPT !.pc = "note", !.offset = 0, !.refresh = @ /\ cycle.clean]
  /\ UNCHANGED <<wantList, history, paused, sent, confirmed, marks, web, requests>>

\* finish_scheduler_run: the summary says what succeeded.
Note ==
  /\ At("note")
  /\ refreshed' = (refreshed \/ cycle.refresh)
  /\ searched' = (searched \/ cycle.search)
  /\ cycle' = NoCycle
  /\ UNCHANGED <<wantList, history, paused, sources, web, requests>>

-----------------------------------------------------------------------------
(* The web pages. *)

\* A search of some wants, or of any one: during a backoff a row says that it was skipped.
WebSkips ==
  /\ web = "idle" /\ requests < MaxRequests /\ paused
  /\ \E some \in ((SUBSET StillWanted) \cup {{w} : w \in known}) \ {{}} :
        Record(some, Descending(some), "skipped", TRUE)
  /\ requests' = requests + 1
  /\ UNCHANGED <<wantList, fresh, paused, sources, marks, cycle, web>>

\* Searching one does not read the sources, searching many does.
WebBegins ==
  /\ web = "idle" /\ requests < MaxRequests /\ ~paused
  /\ requests' = requests + 1
  /\ web' \in {"sync", "search"}
  /\ UNCHANGED <<wantList, history, paused, sources, marks, cycle>>

\* _sync_wants_payload: no cursor is stored.
WebSync ==
  /\ web = "sync"
  /\ \/ \E read \in SUBSET Listed :
          /\ known' = known \cup Polled \cup read
          /\ confirmed' = IF confirmed > Drops THEN confirmed ELSE Drops
          /\ web' \in {"idle", "search"}
     \/ web' = "idle" /\ UNCHANGED <<known, confirmed>>
  /\ UNCHANGED <<taken, ready, history, paused, sent, cursor, marks, cycle, requests>>

\* _search_want_items: all at once, without a limit and without an enqueue.  Which
\* wants it was asked for shows when the answer is saved.
WebSearch ==
  /\ web = "search"
  /\ \E some \in (SUBSET known) \ {{}} :
       \/ Answered(some) /\ \E good \in SUBSET some : Save(some, good)
       \/ Abort(some, Descending(some))
  /\ web' = "idle"
  /\ UNCHANGED <<known, taken, paused, sources, marks, cycle, requests>>

-----------------------------------------------------------------------------
(* Time, and the outside. *)

DailyHour ==
  /\ refreshed' = FALSE /\ searched' = FALSE /\ fresh' = {}
  /\ UNCHANGED <<wantList, last, older, waits, paused, sources, cycle, web, requests>>

WaitEnds(w) ==
  /\ w \in waits
  /\ waits' = waits \ {w}
  /\ UNCHANGED <<wantList, last, older, fresh, paused, sources, marks, cycle, web, requests>>

\* Its deadline passes, or the operator clears it.
PauseEnds ==
  /\ paused
  /\ paused' = FALSE
  /\ UNCHANGED <<wantList, history, sources, marks, cycle, web, requests>>

Post ==
  /\ sent < Len(Posted)
  /\ sent' = sent + 1
  /\ UNCHANGED <<wantList, history, paused, confirmed, cursor, marks, cycle, web, requests>>

-----------------------------------------------------------------------------

Scheduled ==
  \/ CycleBegins \/ RefreshFails \/ Fetch \/ Ingest \/ ChooseDue
  \/ SearchFails \/ SearchSucceeds \/ EnqueueFails \/ Commit \/ Note
  \/ \E w \in Intent : Enqueue(w) \/ Gated(w)

Web == WebSkips \/ WebBegins \/ WebSync \/ WebSearch

Outside == DailyHour \/ PauseEnds \/ Post \/ \E w \in Intent : WaitEnds(w)

Next == Scheduled \/ Web \/ Outside

\* The scheduler goes on, and time passes.  No want fails for ever, nor do Telegram and
\* the gates: what keeps being tried works out some time.
Fairness ==
  /\ WF_vars(Scheduled) /\ WF_vars(DailyHour) /\ WF_vars(PauseEnds)
  /\ SF_vars(CycleBegins /\ ~paused')
  /\ \A w \in Intent : /\ WF_vars(WaitEnds(w))
                       /\ SF_vars(SearchSucceeds /\ w \in cycle.batch)

Spec == Init /\ [][Next]_vars /\ Fairness

-----------------------------------------------------------------------------
(* Properties. *)

\* The types, and what the history rows of one want have to do with each other: the
\* latest rows were written one after the other, and a want waits only for a row that is
\* not a success.
InARow ==
  /\ older \subseteq Tried \X Tried
  /\ \A v, w \in Tried : v # w => <<v, w>> \in older \/ <<w, v>> \in older
  /\ \A v, w \in Tried : <<v, w>> \in older => <<w, v>> \notin older
  /\ \A u, v, w \in Tried : <<u, v>> \in older /\ <<v, w>> \in older => <<u, w>> \in older

WantSearchTypeOK ==
  /\ taken \subseteq known /\ known \subseteq Intent /\ ready \subseteq known
  /\ last \in [Intent -> Status] /\ fresh \subseteq known
  /\ InARow
  /\ waits \subseteq {w \in Intent : last[w] \in {"failed", "skipped"}}
  /\ {sent, confirmed, cursor} \subseteq 0..Len(Posted)
  /\ {paused, refreshed, searched} \subseteq BOOLEAN
  /\ cycle \in CycleRec /\ web \in {"idle", "sync", "search"}

\* What Telegram has dropped is on the Want List, whatever failed and whoever died on
\* the way, and although web requests and the scheduler poll the same bot.
MessagesKept == \A i \in 1..confirmed : Posted[i] \in known

\* The history rows fit together, and no message is lost.
WantsAreKept == WantSearchTypeOK /\ MessagesKept

\* A want is searched again after every daily hour, as long as nothing was enqueued for
\* it: neither the limit of a batch nor the failures of others starve it.
EveryWantSearched == \A w \in Intent : w \in known ~> w \in fresh \cup taken

\* docs/operations/docker-scheduling.md: the batches continue "until the backlog is
\* drained": a want the tracker answers for is searched, although another is refused.
BacklogDrains == \A w \in Intent \ Refused : w \in known ~> w \in fresh \cup taken
=============================================================================
