----------------------------- MODULE MCScheduler -----------------------------
(* A small instance of Scheduler: two owner ids, so that the second is the    *)
(* container that is left when the first was stopped or came late.            *)
EXTENDS Scheduler, TLC

BackoffHours == <<1, 2>>
ThreeHours == <<1, 2, 3>>
AllPhases == {"tracker_source_backfill", "prune", "pt_discovery", "intent"}

\* A long row of refusals, outages and clears, or a trigger or a fault beside two of them.
Apart == bad <= 2 \/ (asked = 0 /\ Faults = 0)

HistoryNext == Next /\ Apart'

HistorySpec ==
  /\ Init /\ [][HistoryNext]_vars
  /\ \A p \in Proc : WF_vars(Step(p) /\ Apart')
  /\ WF_vars(Tick /\ Apart')
=============================================================================
