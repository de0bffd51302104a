------------------------------- MODULE Allowance -------------------------------
(***************************************************************************)
(* What a daily download allowance promises, whoever asks for it and       *)
(* whatever gets lost: within a period the number of links still allowed   *)
(* only falls.  The one exception is the probe, the single link that is    *)
(* allowed when nothing is known: its answer says how many are left.       *)
(* DownloadBudget implements this with one row of a table.                 *)
(***************************************************************************)
EXTENDS Naturals

CONSTANTS
  Day,      \* how long an unanswered link keeps every other one back
  Full      \* most links a provider ever allows in a period

VARIABLES
  now,      \* the clock
  allowed,  \* links that may still be asked for
  until,    \* when the period ends
  probing   \* the probe's answer is still to come

allowanceVars == <<now, allowed, until, probing>>

Over == now >= until

AllowanceInit ==
  /\ now = 0
  /\ allowed = 0
  /\ until = 0
  /\ probing = FALSE

Tick ==
  /\ now' = now + 1
  /\ UNCHANGED <<allowed, until, probing>>

Spend ==
  /\ ~Over
  /\ allowed > 0
  /\ allowed' = allowed - 1
  /\ UNCHANGED <<now, until, probing>>

Probe ==
  /\ Over
  /\ allowed' = 0
  /\ until' = now + Day
  /\ probing' = TRUE
  /\ UNCHANGED now

\* News of the provider; the period ends whenever the provider says.
News ==
  /\ allowed' \in 0..Full
  /\ Over \/ probing \/ allowed' <= allowed
  /\ probing' = FALSE
  /\ UNCHANGED now

Learn == News /\ until' > now

\* Nobody knows any more what was spent.
Hold ==
  /\ allowed' = 0
  /\ until' = now + Day
  /\ probing' = FALSE
  /\ UNCHANGED now

AllowanceNext == Tick \/ Spend \/ Probe \/ Learn \/ Hold

AllowanceSpec == AllowanceInit /\ [][AllowanceNext]_allowanceVars

=============================================================================
