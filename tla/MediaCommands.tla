---------------------------- MODULE MediaCommands ----------------------------
(***************************************************************************)
(* The durable command queue of the media importer: submit (Web and CLI),  *)
(* the worker's loop serve with claim, execute_command and the             *)
(* acknowledgement, MediaWorkerLifecycle's fence, backup and restore.      *)
(*                                                                         *)
(* Every step is one transaction of the media database or one read of the  *)
(* configuration file.  A restore replaces the database as a whole and     *)
(* gives it a new epoch; it holds .media.lock, as an engine does while it  *)
(* has its lease, and .access.lock, as every connection does.              *)
(*                                                                         *)
(* Commands concern one source and one mapping.  "plan" is the evidence a  *)
(* baseline is a digest of: the source's row, job and review decision.     *)
(* "scan" stands for "subtitles" too, "review" for every action with a      *)
(* baseline.  The configuration stays valid, enabled and of one identity.  *)
(***************************************************************************)
EXTENDS Integers, FiniteSets, Functions

CONSTANTS
  Client,       \* submitting processes: Web requests and CLI calls
  Command,      \* identifiers a command may get
  Config,       \* effective configuration revisions
  Evidence,     \* what the tables may say of the source
  Action,       \* what is submitted: "scan" has no baseline, "review" has one
  None,         \* no command, no baseline, no backup
  MaxPending,   \* MAX_PENDING
  MaxCrashes,   \* bound on the deaths of the worker
  MaxRestores   \* bound on the restores

ASSUME CommandsAssumption ==
  /\ None \notin Command \cup Config \cup Evidence
  /\ Action \subseteq {"scan", "review"}
  /\ IsFiniteSet(Command)
  /\ MaxPending \in Nat \ {0}
  /\ MaxCrashes \in Nat
  /\ MaxRestores \in Nat

VARIABLES
  db,       \* Database: the media database
  backup,   \* the latest backup of it, or None
  cfg,      \* the revision of the configuration file
  form,     \* [Client -> Form]  submit's locals
  request,  \* [Command -> Request \cup {None}]  what was submitted under an identifier
  worker,   \* the worker's program counter and locals; its death loses them
  crashes,  \* how often the worker died
  effects   \* [Command -> Nat]  how often a command took effect; nothing rolls it back

submitVars == <<form, request>>
commandVars == <<db, backup, cfg, submitVars, worker, crashes, effects>>

-----------------------------------------------------------------------------
(* The database and the locals. *)

Status == {"none", "queued", "running", "complete", "failed", "interrupted",
           "superseded"}

Epoch == 0..MaxRestores

\* "born" orders the rows by their creation; "claimed" says that the row still has
\* the claim token it was given, which is another one at every claim.
CmdRec == [status : Status, born : Nat, claimed : BOOLEAN]

NoCmd == [status |-> "none", born |-> 0, claimed |-> FALSE]

Database == [epoch : Epoch, plan : Evidence, cmd : [Command -> CmdRec],
             applied : SUBSET Command]   \* the effects these tables show

Request == [base : Evidence \cup {None}, cfg : Config, epoch : Epoch]

ASSUME NoneIsNoRequest == None \notin Request

Form == [pc : {"idle", "base", "epoch", "insert"}, action : Action \cup {None},
         base : Evidence \cup {None}, cfg : Config \cup {None}, epoch : Epoch]

NoForm == [pc |-> "idle", action |-> None, base |-> None, cfg |-> None, epoch |-> 0]

Worker == [pc : {"down", "start", "recover", "cycle", "claim", "open", "baseline",
                 "apply", "ack", "idle"},
           epoch  : Epoch,                 \* of the lifecycle
           seen   : Epoch,                 \* of the engine that executes the command
           cmd    : Command \cup {None},
           result : {"complete", "failed"}]

Down == [pc |-> "down", epoch |-> 0, seen |-> 0, cmd |-> None, result |-> "failed"]

Having(status) == {c \in Command : db.cmd[c].status \in status}

Pending == Having({"queued", "running"})

CommandsInit ==
  /\ \E e \in Evidence :
       db = [epoch |-> 0, plan |-> e, cmd |-> [c \in Command |-> NoCmd],
             applied |-> {}]
  /\ backup = None
  /\ cfg \in Config
  /\ form = [u \in Client |-> NoForm]
  /\ request = [c \in Command |-> None]
  /\ worker = Down
  /\ crashes = 0
  /\ effects = [c \in Command |-> 0]

-----------------------------------------------------------------------------
(* submit. *)

\* The configuration view, the baseline and the epoch are read one after the other.
\* The identifiers bound how much is submitted.
OpenForm(u) ==
  /\ form[u].pc = "idle"
  /\ \E c \in Command : request[c] = None
  /\ \E action \in Action :
       form' = [form EXCEPT ![u] =
         [pc |-> "base", action |-> action, base |-> None, cfg |-> cfg, epoch |-> 0]]
  /\ UNCHANGED <<db, backup, cfg, request, worker, crashes, effects>>

ReadBaseline(u) ==
  /\ form[u].pc = "base"
  /\ form' = [form EXCEPT ![u].pc = "epoch",
                          ![u].base = IF form[u].action = "scan" THEN None ELSE db.plan]
  /\ UNCHANGED <<db, backup, cfg, request, worker, crashes, effects>>

ReadEpoch(u) ==
  /\ form[u].pc = "epoch"
  /\ form' = [form EXCEPT ![u].pc = "insert", ![u].epoch = db.epoch]
  /\ UNCHANGED <<db, backup, cfg, request, worker, crashes, effects>>

Requested(u) == [base |-> form[u].base, cfg |-> form[u].cfg, epoch |-> form[u].epoch]

SameQueued(u) == {c \in Having({"queued"}) : request[c] = Requested(u)}

\* The pending commands with this coalesce_key.
Same(u) == {c \in Pending : request[c] = Requested(u)}

\* One transaction: answer with the prior command, refuse, or insert.
Insert(u) ==
  /\ form[u].pc = "insert"
  /\ form' = [form EXCEPT ![u] = NoForm]
  /\ IF Same(u) # {} \/ Cardinality(Pending) >= MaxPending
       THEN UNCHANGED <<db, request>>
       ELSE \E c \in Command :
              /\ request[c] = None
              /\ request' = [request EXCEPT ![c] = Requested(u)]
              /\ db' = [db EXCEPT !.cmd[c] =
                   [status |-> "queued", claimed |-> FALSE,
                    born |-> Cardinality(Command \ Having({"none"}))]]
  /\ UNCHANGED <<backup, cfg, worker, crashes, effects>>

-----------------------------------------------------------------------------
(* serve and its lifecycle. *)

\* __init__ remembers the epoch the worker starts with.
WorkerStart ==
  /\ worker.pc = "down"
  /\ worker' = [Down EXCEPT !.pc = "start", !.epoch = db.epoch]
  /\ UNCHANGED <<db, backup, cfg, submitVars, crashes, effects>>

\* A lifecycle write (start, apply, phase, progress) of another epoch raises, and
\* serve ends.
FencedWrite(pc) ==
  worker' = IF worker.epoch = db.epoch
              THEN [Down EXCEPT !.pc = pc, !.epoch = worker.epoch] ELSE Down

BeginRecovery ==
  /\ worker.pc = "start"
  /\ FencedWrite("recover")
  /\ UNCHANGED <<db, backup, cfg, submitVars, crashes, effects>>

Restarted(rec) == [rec EXCEPT !.status = "queued", !.claimed = FALSE]

Interrupted(rec) == [rec EXCEPT !.status = "interrupted", !.claimed = FALSE]

\* recover_commands
RecoverCommands ==
  /\ worker.pc = "recover"
  /\ db' = [db EXCEPT !.cmd = [c \in Command |->
              IF c \in Having({"running"}) THEN Interrupted(@[c]) ELSE @[c]]]
  /\ worker' = [worker EXCEPT !.pc = "cycle"]
  /\ UNCHANGED <<backup, cfg, submitVars, crashes, effects>>

BeginCycle ==
  /\ worker.pc = "cycle"
  /\ FencedWrite("claim")
  /\ UNCHANGED <<db, backup, cfg, submitVars, crashes, effects>>

NextWhenIdle == IF Having({"running"}) # {} THEN {} ELSE Having({"queued"})

\* ORDER BY created LIMIT 1
NextCommand ==
  {c \in Having({"queued"}) :
     \A d \in Having({"queued"}) : db.cmd[c].born <= db.cmd[d].born}

Claim ==
  /\ worker.pc = "claim"
  /\ \E c \in NextCommand :
       /\ db' = [db EXCEPT !.cmd[c].status = "running", !.cmd[c].claimed = TRUE]
       /\ worker' = [worker EXCEPT !.pc = "open", !.cmd = c]
  /\ UNCHANGED <<backup, cfg, submitVars, crashes, effects>>

ClaimNothing ==
  /\ worker.pc = "claim"
  /\ NextCommand = {}
  /\ worker' = [worker EXCEPT !.pc = "idle"]
  /\ UNCHANGED <<db, backup, cfg, submitVars, crashes, effects>>

\* The worker's own scans and enrichment, when nothing is queued: they may change
\* what the tables say of the source, inside a lease of the lifecycle's epoch.
IdleWork ==
  /\ worker.pc = "idle"
  /\ FencedWrite("cycle")
  /\ IF worker.epoch = db.epoch /\ Having({"queued"}) = {}
       THEN \E e \in Evidence : db' = [db EXCEPT !.plan = e]
       ELSE UNCHANGED db
  /\ UNCHANGED <<backup, cfg, submitVars, crashes, effects>>

-----------------------------------------------------------------------------
(* execute_command and the acknowledgement. *)

Refused == [worker EXCEPT !.pc = "ack", !.result = "failed"]

\* build_engine reads the epoch and the configuration once more.
OpenEngine ==
  LET r == request[worker.cmd]
  IN  /\ worker.pc = "open"
      /\ worker' = IF r.epoch = db.epoch /\ r.cfg = cfg
                     THEN [worker EXCEPT !.pc = "baseline", !.seen = db.epoch]
                     ELSE Refused
      /\ UNCHANGED <<db, backup, cfg, submitVars, crashes, effects>>

CheckBaseline ==
  /\ worker.pc = "baseline"
  /\ worker' = IF request[worker.cmd].base \in {None, db.plan}
                 THEN [worker EXCEPT !.pc = "apply"] ELSE Refused
  /\ UNCHANGED <<db, backup, cfg, submitVars, crashes, effects>>

LeaseUnchecked == TRUE

\* Engine.lease, inside the flock that a restore needs too.
LeaseGranted == db.epoch = worker.seen

Apply ==
  LET c == worker.cmd
  IN  /\ worker.pc = "apply"
      /\ LeaseGranted
      /\ \E e \in Evidence, result \in {"complete", "failed"} :
           /\ request[c].base # None => e # db.plan
           /\ db' = [db EXCEPT !.plan = e, !.applied = @ \cup {c}]
           /\ worker' = [worker EXCEPT !.pc = "ack", !.result = result]
      /\ effects' = [effects EXCEPT ![c] = @ + 1]
      /\ UNCHANGED <<backup, cfg, submitVars, crashes>>

\* The lease is refused or busy, the source has changed.
ApplyFails ==
  /\ worker.pc = "apply"
  /\ worker' = Refused
  /\ UNCHANGED <<db, backup, cfg, submitVars, crashes, effects>>

AckUnfenced(c) == TRUE

\* claim_token=? AND epoch=(SELECT epoch FROM media_control)
AckMatches(c) == db.cmd[c].claimed /\ request[c].epoch = db.epoch

Ack ==
  LET c == worker.cmd
  IN  /\ worker.pc = "ack"
      /\ db' = IF AckMatches(c)
                 THEN [db EXCEPT !.cmd[c].status = worker.result] ELSE db
      /\ worker' = [Down EXCEPT !.pc = "idle", !.epoch = worker.epoch]
      /\ UNCHANGED <<backup, cfg, submitVars, crashes, effects>>

-----------------------------------------------------------------------------
(* The operator and the machine. *)

Crash ==
  /\ worker.pc # "down"
  /\ crashes < MaxCrashes
  /\ crashes' = crashes + 1
  /\ worker' = Down
  /\ UNCHANGED <<db, backup, cfg, submitVars, effects>>

ChangeConfig ==
  /\ cfg' \in Config \ {cfg}
  /\ UNCHANGED <<db, backup, submitVars, worker, crashes, effects>>

\* One backup of an epoch is enough: a later one is this one taken later.
TakeBackup ==
  /\ db.epoch < MaxRestores
  /\ backup = None
  /\ backup' = db
  /\ UNCHANGED <<db, cfg, submitVars, worker, crashes, effects>>

Superseded(rec) ==
  IF rec.status \in {"queued", "running"}
    THEN [rec EXCEPT !.status = "superseded", !.claimed = FALSE] ELSE rec

\* restore_media_database, into an epoch nothing has seen.  The backup is not kept:
\* one per restore is the bound here.
Restore ==
  /\ backup # None
  /\ db.epoch < MaxRestores
  /\ db' = [backup EXCEPT !.epoch = db.epoch + 1,
                          !.cmd = [c \in Command |-> Superseded(@[c])]]
  /\ backup' = None
  /\ UNCHANGED <<cfg, submitVars, worker, crashes, effects>>

SubmitStep ==
  \E u \in Client : OpenForm(u) \/ ReadBaseline(u) \/ ReadEpoch(u) \/ Insert(u)

WorkerStep ==
  \/ WorkerStart \/ BeginRecovery \/ RecoverCommands
  \/ BeginCycle \/ Claim \/ ClaimNothing \/ IdleWork
  \/ OpenEngine \/ CheckBaseline \/ Apply \/ ApplyFails \/ Ack

CommandsNext ==
  \/ SubmitStep
  \/ WorkerStep
  \/ Crash \/ ChangeConfig \/ TakeBackup \/ Restore

\* serve never blocks, and the container's restart policy (on-failure, 5 times)
\* starts the worker again after the deaths and restores the bounds allow.
CommandsSpec == CommandsInit /\ [][CommandsNext]_commandVars /\ WF_commandVars(WorkerStep)

-----------------------------------------------------------------------------
(* Properties. *)

\* Only what was claimed has a claim token, and nothing that was given up.
TokenKept(cmd) ==
  \A c \in Command : cmd[c].claimed => cmd[c].status \in {"running", "complete", "failed"}

\* The database, its backup and all locals hold values of their types, and
\* claim tokens are where they belong: a restore and a restart leave none behind.
CommandsTypeOK ==
  /\ db \in Database
  /\ backup \in Database \cup {None}
  /\ cfg \in Config
  /\ form \in [Client -> Form]
  /\ request \in [Command -> Request \cup {None}]
  /\ worker \in Worker
  /\ crashes \in 0..MaxCrashes
  /\ effects \in [Command -> Nat]
  /\ (worker.cmd # None) <=> (worker.pc \in {"open", "baseline", "apply", "ack"})
  /\ TokenKept(db.cmd)
  /\ backup # None => TokenKept(backup.cmd)

\* A command takes effect at most once, in spite of deaths between the effect and
\* its acknowledgement, of restarts, and of backups that still have it queued:
\* "neither path replays uncertain completed side effects".
AtMostOnce == \A c \in Command : effects[c] <= 1

\* No two pending commands have one key, no matter how submitters, worker, deaths
\* and restores interleave: identical work is never queued behind itself.
PendingCoalesce ==
  \A c, d \in Pending : request[c] = request[d] => c = d

\* What the tables call complete has its effect in the same tables: the late
\* acknowledgement of a command that a restore has undone does not count.
CompleteIsApplied == Having({"complete"}) \subseteq db.applied

\* A command takes effect only in the epoch it was submitted in, and on the
\* evidence its submitter saw, although both were checked before the lease.
PinnedAtEffect ==
  [][\A c \in Command : effects'[c] # effects[c] =>
       /\ request[c].epoch = db.epoch
       /\ request[c].base \in {None, db.plan}]_commandVars

\* Every pending command is settled, or belongs to an epoch that is over: a command
\* inserted across a restore keeps no other command waiting.
EveryCommandSettles ==
  \A c \in Command :
    c \in Pending ~> (c \notin Pending \/ request[c].epoch # db.epoch)

=============================================================================
