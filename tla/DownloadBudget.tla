---------------------------- MODULE DownloadBudget ----------------------------
(***************************************************************************)
(* The persistent daily download allowance of one subtitle provider        *)
(* (quota.py) and those who use it: a link is reserved in the database,    *)
(* asked for at the provider, and its answer is observed; an account       *)
(* answer may be synchronised at any time.  A user may die, an answer may  *)
(* be lost or may arrive when its period is over, and the database may be  *)
(* restored from a backup in between.                                      *)
(*                                                                         *)
(* The provider is honest about what is left; it may say nothing.  Nobody  *)
(* else spends from the account.  The clock's unit is a part of a day, and *)
(* an account read, which is one short request, lies within one unit; the  *)
(* answer to a link may take any time.                                     *)
(***************************************************************************)
EXTENDS Integers

CONSTANTS
  User,         \* holders of a DownloadBudget object: engines of one database
  None,         \* no row, no number, no token
  Day,          \* DAY
  Period,       \* time between two resets at the provider
  Full,         \* what the provider allows in a period
  MaxTime,      \* bound on the clock
  MaxDeaths,    \* bound on the deaths of users
  MaxRestores   \* bound on the restores

ASSUME BudgetAssumption ==
  /\ None \notin User \cup Int
  /\ Period \in Nat \ {0}
  /\ Day \in Nat /\ Period <= Day
  /\ Full \in Nat \ {0}
  /\ MaxTime \in Nat /\ MaxDeaths \in Nat /\ MaxRestores \in Nat

VARIABLES
  now,        \* the clock
  epoch,      \* of the database
  row,        \* the row of media_provider_state, or None
  provider,   \* what the provider keeps: links left, and when they are renewed
  user,       \* [User -> UserRec]  objects and the calls they are in
  deaths,     \* how many users died
  late        \* links asked for after their reservation ran out, in a provider's period

budgetVars == <<now, epoch, row, provider, user, deaths, late>>

-----------------------------------------------------------------------------

Count == 0..Full

Known(n) == n # None

\* "remaining", "reserved_remaining", "token" (by its owner), "reservation" as far as
\* it is the wait after a restore, and next_request.
Row == [left : Count \cup {None}, reserved : Count \cup {None},
        token : User \cup {None}, wait : BOOLEAN, next : Nat]

ASSUME NoneIsNoRow == None \notin Row

\* What a provider says: "left" and "reset" may be missing (None, and a reset of 0).
Evidence == [left : Count \cup {None}, reset : Nat]

Silence == [left |-> None, reset |-> 0]

\* "fresh": this object has no token yet.
UserRec == [pc : {"idle", "reserved", "answered", "account"}, fresh : BOOLEAN,
            epoch : 0..MaxRestores, said : Evidence]

NewUser(e) == [pc |-> "idle", fresh |-> TRUE, epoch |-> e, said |-> Silence]

BudgetInit ==
  /\ now = 0
  /\ epoch = 0
  /\ row = None
  /\ provider = [left |-> Full, reset |-> Period]
  /\ user = [u \in User |-> NewUser(0)]
  /\ deaths = 0
  /\ late = 0

\* The period of the row is not over.
Active == row # None /\ row.next > now

\* check: "daily_quota".
Exhausted == Active /\ row.left \in {None, 0}

Current(u) == user[u].epoch = epoch

\* quota_evidence: a reset that is missing or over counts as a day from now.
ResetAt(said) == IF said.reset > now THEN said.reset ELSE now + Day

-----------------------------------------------------------------------------
(* DownloadBudget. *)

\* Takes one off what is left, or the only probe, and keeps everybody else out.
Reserved(u) ==
  LET left == IF Active THEN row.left - 1 ELSE None
  IN  [left |-> None, reserved |-> left, token |-> u, wait |-> FALSE,
       next |-> IF Active THEN row.next ELSE now + Day]

Reserve(u) ==
  /\ user[u].pc = "idle"
  /\ Current(u)
  /\ ~Exhausted
  /\ row' = Reserved(u)
  /\ user' = [user EXCEPT ![u].pc = "reserved", ![u].fresh = FALSE]
  /\ UNCHANGED <<now, epoch, provider, deaths, late>>

\* An object without a token matches a row without one.
Matches(u) ==
  row # None /\ row.token = (IF user[u].fresh THEN None ELSE u)

Smaller(m, n) == IF Known(m) /\ Known(n) /\ m < n THEN m ELSE n

Stated(left, reset) ==
  [left |-> left, reserved |-> None, token |-> None, wait |-> FALSE, next |-> reset]

UnfencedAnswer(u, said) ==
  IF row # None /\ Current(u)
    THEN Stated(IF Active THEN Smaller(row.reserved, said.left) ELSE said.left,
                ResetAt(said))
    ELSE row

\* The row after observe(said) by u.
Observed(u, said) ==
  IF Current(u) /\ Matches(u)
    THEN Stated(IF Active THEN Smaller(row.reserved, said.left) ELSE said.left,
                ResetAt(said))
    ELSE row

RefundingSync(u, said) ==
  IF Current(u) THEN Stated(said.left, ResetAt(said)) ELSE row

\* The row after sync(said) by u: no refund of what is reserved, uncertain or restored.
Synced(u, said) ==
  IF ~Current(u) \/ (Active /\ (~Known(row.left) \/ row.wait)) THEN row
  ELSE Stated(IF Active THEN Smaller(row.left, said.left) ELSE said.left,
              ResetAt(said))

-----------------------------------------------------------------------------
(* Users and the provider. *)

Says(left) == {Silence, [left |-> left, reset |-> provider.reset],
               [left |-> left, reset |-> 0]}

\* The provider grants the link, or refuses it; both are answers.
AskLink(u) ==
  LET left == IF provider.left > 0 THEN provider.left - 1 ELSE 0
  IN  /\ user[u].pc = "reserved"
      /\ provider' = [provider EXCEPT !.left = left]
      /\ \E said \in Says(left) :
           user' = [user EXCEPT ![u].pc = "answered", ![u].said = said]
      /\ late' = IF Active /\ Matches(u) THEN late ELSE late + 1
      /\ UNCHANGED <<now, epoch, row, deaths>>

Observe(u) ==
  /\ user[u].pc = "answered"
  /\ row' = Observed(u, user[u].said)
  /\ user' = [user EXCEPT ![u].pc = "idle", ![u].said = Silence]
  /\ UNCHANGED <<now, epoch, provider, deaths, late>>

\* The link is never asked for, or its answer never comes.
LoseAnswer(u) ==
  /\ user[u].pc \in {"reserved", "answered"}
  /\ user' = [user EXCEPT ![u].pc = "idle", ![u].said = Silence]
  /\ UNCHANGED <<now, epoch, row, provider, deaths, late>>

\* Any request may be refused for the quota: download_observer with remaining 0.
Refused(u) ==
  /\ user[u].pc = "idle"
  /\ provider.left = 0
  /\ \E said \in Says(0) : row' = Observed(u, [said EXCEPT !.left = 0])
  /\ UNCHANGED <<now, epoch, provider, user, deaths, late>>

ReadAccount(u) ==
  /\ user[u].pc = "idle"
  /\ \E said \in Says(provider.left) :
       /\ Known(said.left)
       /\ user' = [user EXCEPT ![u].pc = "account", ![u].said = said]
  /\ UNCHANGED <<now, epoch, row, provider, deaths, late>>

Sync(u) ==
  /\ user[u].pc = "account"
  /\ row' = Synced(u, user[u].said)
  /\ user' = [user EXCEPT ![u].pc = "idle", ![u].said = Silence]
  /\ UNCHANGED <<now, epoch, provider, deaths, late>>

\* A process dies, and another engine is opened.
Die(u) ==
  /\ user[u].pc # "idle"
  /\ deaths < MaxDeaths
  /\ deaths' = deaths + 1
  /\ user' = [user EXCEPT ![u] = NewUser(epoch)]
  /\ UNCHANGED <<now, epoch, row, provider, late>>

\* "superseded": the engine of the old epoch is given up for a new one.
Reopen(u) ==
  /\ user[u].pc = "idle"
  /\ ~Current(u)
  /\ user' = [user EXCEPT ![u] = NewUser(epoch)]
  /\ UNCHANGED <<now, epoch, row, provider, deaths, late>>

\* restore_media_database: every budget the database or the backup knows has to wait.
HeldRow == [left |-> 0, reserved |-> None, token |-> None, wait |-> TRUE, next |-> now + Day]

RestoreBudget ==
  /\ epoch < MaxRestores
  /\ epoch' = epoch + 1
  /\ row' = IF row = None THEN None ELSE HeldRow
  /\ UNCHANGED <<now, provider, user, deaths, late>>

MayPass == now < MaxTime /\ \A u \in User : user[u].pc # "account"

PassTime ==
  /\ MayPass
  /\ now + 1 < provider.reset
  /\ now' = now + 1
  /\ UNCHANGED <<epoch, row, provider, user, deaths, late>>

\* The provider renews the allowance.
Renew ==
  /\ MayPass
  /\ now + 1 = provider.reset
  /\ now' = now + 1
  /\ provider' = [left |-> Full, reset |-> provider.reset + Period]
  /\ late' = 0
  /\ UNCHANGED <<epoch, row, user, deaths>>

UserStep(u) ==
  \/ Reserve(u) \/ AskLink(u) \/ Observe(u) \/ LoseAnswer(u) \/ Refused(u)
  \/ ReadAccount(u) \/ Sync(u) \/ Die(u) \/ Reopen(u)

BudgetNext == (\E u \in User : UserStep(u)) \/ RestoreBudget \/ PassTime \/ Renew

BudgetSpec == BudgetInit /\ [][BudgetNext]_budgetVars

-----------------------------------------------------------------------------
(* Properties. *)

BudgetTypeOK ==
  /\ now \in 0..MaxTime
  /\ epoch \in 0..MaxRestores
  /\ row \in Row \cup {None}
  /\ provider \in [left : Count, reset : Nat]
  /\ user \in [User -> UserRec]
  /\ deaths \in 0..MaxDeaths
  /\ late \in Nat

\* What the row still allows is never more than what the provider still grants, in any
\* interleaving of reservations, answers, account reads, deaths, restores and resets;
\* only a link that is asked for after its reservation ran out escapes it.
WithinAllowance ==
  Active /\ Known(row.left) => row.left <= provider.left + late

\* The abstract allowance: a reservation counts as spent.
Budget == INSTANCE Allowance WITH
  allowed <- IF row = None THEN 0
             ELSE IF Known(row.left) THEN row.left
             ELSE IF Known(row.reserved) THEN row.reserved ELSE 0,
  until   <- IF row = None THEN 0 ELSE row.next,
  probing <- row # None /\ Known(row.token) /\ ~Known(row.reserved)

\* No answer, account read, death, restore or clock step ever refunds a link.
ImplementsAllowance == Budget!AllowanceSpec

=============================================================================
