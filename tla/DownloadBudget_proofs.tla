------------------------ MODULE DownloadBudget_proofs ------------------------
(***************************************************************************)
(* Theorems about the download allowance, for any number of users, any     *)
(* length of a day and any bounds: the row never allows more than the      *)
(* provider still grants, and DownloadBudget implements Allowance.         *)
(***************************************************************************)
EXTENDS DownloadBudget, TLAPS

(* A link is late only when it is not the one the row is reserved for, so what *)
(* the provider grants and what was late only fall together when the holder of *)
(* the reservation asks.                                                       *)
Granted == provider.left + late

\* The reservation of u is in the row, and u is in its call.
Holds(u) == user[u].pc \in {"reserved", "answered"} /\ Matches(u)

RowOK ==
  row # None =>
    /\ Known(row.token) => ~Known(row.left)
    /\ Known(row.reserved) => Known(row.token) /\ row.reserved < Full
    /\ row.wait => row.left = 0

UserOK(u) ==
  /\ user[u].pc \in {"reserved", "answered"} => ~user[u].fresh
  /\ user[u].pc = "reserved" /\ Matches(u) /\ Known(row.reserved)
       => row.reserved < Granted
  /\ user[u].pc = "answered" /\ Matches(u) =>
       /\ Known(row.reserved) => row.reserved <= Granted
       /\ Known(user[u].said.left) => user[u].said.left <= Granted
  /\ user[u].pc = "account" =>
       Known(user[u].said.left) /\ (Active \/ user[u].said.left <= Granted)

\* The inductive invariant.
BudgetInv ==
  /\ BudgetTypeOK
  /\ WithinAllowance
  /\ RowOK
  /\ \A u \in User : UserOK(u)

-----------------------------------------------------------------------------
(* What the helpers return. *)

\* Evidence keeps every reader away for some time.
LEMMA ResetIsAhead ==
  ASSUME now \in Nat, NEW said \in Evidence
  PROVE  ResetAt(said) \in Nat /\ ResetAt(said) > now
BY BudgetAssumption DEF ResetAt, Evidence

\* Of two numbers the smaller one; of a number and nothing, the second.
LEMMA SmallerBounds ==
  ASSUME NEW m \in Count \cup {None}, NEW n \in Count \cup {None}
  PROVE  /\ Smaller(m, n) \in Count \cup {None}
         /\ Known(Smaller(m, n)) => Known(n) /\ Smaller(m, n) <= n
         /\ Known(m) /\ Known(Smaller(m, n)) => Smaller(m, n) <= m
BY BudgetAssumption DEF Smaller, Known, Count

\* The row after new evidence is a row, and it holds nobody's reservation.
LEMMA StatedRow ==
  ASSUME NEW left \in Count \cup {None}, NEW reset \in Nat
  PROVE  /\ Stated(left, reset) \in Row
         /\ Stated(left, reset).left = left
         /\ Stated(left, reset).next = reset
         /\ ~Known(Stated(left, reset).token)
         /\ ~Known(Stated(left, reset).reserved)
         /\ ~Stated(left, reset).wait
BY DEF Stated, Row, Known

\* What a provider says is evidence, and never more than is left.
LEMMA SaysEvidence ==
  ASSUME BudgetTypeOK, NEW left \in Count, NEW said \in Says(left)
  PROVE  said \in Evidence /\ said.left \in {None, left}
BY DEF Says, Silence, Evidence, BudgetTypeOK

\* The row after a reservation.
LEMMA ReservedRow ==
  ASSUME BudgetTypeOK, ~Exhausted, NEW u \in User
  PROVE  /\ Reserved(u) \in Row
         /\ ~Known(Reserved(u).left)
         /\ Reserved(u).token = u
         /\ ~Reserved(u).wait
         /\ Reserved(u).next > now
         /\ Known(Reserved(u).reserved) =>
              Active /\ Known(row.left) /\ Reserved(u).reserved = row.left - 1
<1>1. CASE Active
  <2>1. row \in Row /\ row.left \in Count /\ row.left # 0
    BY <1>1 DEF BudgetTypeOK, Active, Exhausted, Row
  <2>2. row.left - 1 \in Count
    BY <2>1, BudgetAssumption DEF Count
  <2> QED
    BY <1>1, <2>1, <2>2, BudgetAssumption DEF Reserved, Row, Known, Count, Active
<1>2. CASE ~Active
  BY <1>2, BudgetAssumption DEF Reserved, Row, Known, BudgetTypeOK
<1> QED BY <1>1, <1>2

\* observe leaves the row alone, or replaces one that has the user's token.
LEMMA ObservedRow ==
  ASSUME BudgetTypeOK, NEW u \in User, NEW said \in Evidence
  PROVE  /\ Observed(u, said) \in Row \cup {None}
         /\ \/ Observed(u, said) = row
            \/ /\ Matches(u)
               /\ \E left \in Count \cup {None} :
                    /\ Observed(u, said) = Stated(left, ResetAt(said))
                    /\ Known(left) => Known(said.left) /\ left <= said.left
                    /\ Known(left) /\ Active /\ Known(row.reserved) => left <= row.reserved
<1>1. CASE Current(u) /\ Matches(u)
  <2> DEFINE left == IF Active THEN Smaller(row.reserved, said.left) ELSE said.left
  <2>1. row \in Row /\ said.left \in Count \cup {None}
    BY <1>1 DEF BudgetTypeOK, Matches, Evidence
  <2>2. row.reserved \in Count \cup {None}
    BY <2>1 DEF Row
  <2>3. /\ left \in Count \cup {None}
        /\ Known(left) => Known(said.left) /\ left <= said.left
        /\ Known(left) /\ Active /\ Known(row.reserved) => left <= row.reserved
    <3>1. CASE Active
      BY <3>1, <2>1, <2>2, SmallerBounds
    <3>2. CASE ~Active
      BY <3>2, <2>1, BudgetAssumption DEF Known, Count
    <3> QED BY <3>1, <3>2
  <2>4. Observed(u, said) = Stated(left, ResetAt(said))
    BY <1>1 DEF Observed
  <2>5. Stated(left, ResetAt(said)) \in Row
    BY <2>3, ResetIsAhead, StatedRow DEF BudgetTypeOK
  <2> QED BY <1>1, <2>3, <2>4, <2>5
<1>2. CASE ~(Current(u) /\ Matches(u))
  BY <1>2 DEF Observed, BudgetTypeOK
<1> QED BY <1>1, <1>2

\* sync leaves the row alone, or replaces it; an active one only with something smaller.
LEMMA SyncedRow ==
  ASSUME BudgetTypeOK, NEW u \in User, NEW said \in Evidence
  PROVE  /\ Synced(u, said) \in Row \cup {None}
         /\ \/ Synced(u, said) = row
            \/ \E left \in Count \cup {None} :
                 /\ Synced(u, said) = Stated(left, ResetAt(said))
                 /\ Known(left) => Known(said.left) /\ left <= said.left
                 /\ Active => Known(row.left) /\ (Known(left) => left <= row.left)
<1>1. CASE ~Current(u) \/ (Active /\ (~Known(row.left) \/ row.wait))
  BY <1>1 DEF Synced, BudgetTypeOK
<1>2. CASE ~(~Current(u) \/ (Active /\ (~Known(row.left) \/ row.wait)))
  <2> DEFINE left == IF Active THEN Smaller(row.left, said.left) ELSE said.left
  <2>1. said.left \in Count \cup {None}
    BY DEF Evidence
  <2>3. /\ left \in Count \cup {None}
        /\ Known(left) => Known(said.left) /\ left <= said.left
        /\ Active => Known(row.left) /\ (Known(left) => left <= row.left)
    <3>1. CASE Active
      <4>1. row.left \in Count \cup {None}
        BY <3>1 DEF BudgetTypeOK, Active, Row
      <4> QED BY <1>2, <3>1, <4>1, <2>1, SmallerBounds
    <3>2. CASE ~Active
      BY <3>2, <2>1, BudgetAssumption DEF Known, Count
    <3> QED BY <3>1, <3>2
  <2>4. Synced(u, said) = Stated(left, ResetAt(said))
    BY <1>2 DEF Synced
  <2>5. Stated(left, ResetAt(said)) \in Row
    BY <2>3, ResetIsAhead, StatedRow DEF BudgetTypeOK
  <2> QED BY <2>3, <2>4, <2>5
<1> QED BY <1>1, <1>2

\* The row after a restore.
LEMMA HeldIsRow ==
  ASSUME BudgetTypeOK
  PROVE  /\ HeldRow \in Row
         /\ HeldRow.left = 0 /\ ~Known(HeldRow.token) /\ ~Known(HeldRow.reserved)
         /\ HeldRow.next > now
BY BudgetAssumption DEF HeldRow, Row, Known, Count, BudgetTypeOK

-----------------------------------------------------------------------------
(* Types. *)

LEMMA TypeInit ==
  ASSUME BudgetInit
  PROVE  BudgetTypeOK
BY BudgetAssumption DEF BudgetInit, BudgetTypeOK, NewUser, UserRec, Silence, Evidence, Count

LEMMA TypeStep ==
  ASSUME BudgetTypeOK, [BudgetNext]_budgetVars
  PROVE  BudgetTypeOK'
<1>0. CASE UNCHANGED budgetVars
  BY <1>0 DEF BudgetTypeOK, budgetVars
<1>1. ASSUME NEW u \in User, Reserve(u) PROVE BudgetTypeOK'
  <2>1. Reserved(u) \in Row
    BY <1>1, ReservedRow DEF Reserve
  <2> QED BY <1>1, <2>1 DEF BudgetTypeOK, Reserve, UserRec
<1>2. ASSUME NEW u \in User, AskLink(u) PROVE BudgetTypeOK'
  <2>1. (IF provider.left > 0 THEN provider.left - 1 ELSE 0) \in Count
    BY BudgetAssumption DEF BudgetTypeOK, Count
  <2>2. PICK said \in Says(IF provider.left > 0 THEN provider.left - 1 ELSE 0) :
          user' = [user EXCEPT ![u].pc = "answered", ![u].said = said]
    BY <1>2 DEF AskLink
  <2>3. said \in Evidence
    BY <2>1, <2>2, SaysEvidence
  <2>4. user' \in [User -> UserRec]
    BY <2>2, <2>3 DEF BudgetTypeOK, UserRec
  <2>5. provider' \in [left : Count, reset : Nat]
    BY <1>2, <2>1 DEF AskLink, BudgetTypeOK
  <2>6. late' \in Nat
    BY <1>2 DEF AskLink, BudgetTypeOK
  <2> QED BY <1>2, <2>4, <2>5, <2>6 DEF BudgetTypeOK, AskLink
<1>3. ASSUME NEW u \in User, Observe(u) PROVE BudgetTypeOK'
  <2>1. user[u].said \in Evidence /\ Silence \in Evidence
    BY DEF BudgetTypeOK, UserRec, Silence, Evidence
  <2>2. row' \in Row \cup {None}
    BY <1>3, <2>1, ObservedRow DEF Observe
  <2>3. user' \in [User -> UserRec]
    BY <1>3, <2>1 DEF Observe, BudgetTypeOK, UserRec
  <2> QED BY <1>3, <2>2, <2>3 DEF BudgetTypeOK, Observe
<1>4. ASSUME NEW u \in User, LoseAnswer(u) PROVE BudgetTypeOK'
  <2>1. Silence \in Evidence
    BY DEF Silence, Evidence
  <2>2. user' \in [User -> UserRec]
    BY <1>4, <2>1 DEF LoseAnswer, BudgetTypeOK, UserRec
  <2> QED BY <1>4, <2>2 DEF LoseAnswer, BudgetTypeOK
<1>5. ASSUME NEW u \in User, Refused(u) PROVE BudgetTypeOK'
  <2>1. PICK said \in Says(0) : row' = Observed(u, [said EXCEPT !.left = 0])
    BY <1>5 DEF Refused
  <2>2. said \in Evidence /\ [said EXCEPT !.left = 0] \in Evidence
    BY <2>1, SaysEvidence, BudgetAssumption DEF Count, Evidence
  <2>3. row' \in Row \cup {None}
    BY <2>1, <2>2, ObservedRow
  <2> QED BY <1>5, <2>3 DEF BudgetTypeOK, Refused
<1>6. ASSUME NEW u \in User, ReadAccount(u) PROVE BudgetTypeOK'
  <2>1. PICK said \in Says(provider.left) :
          user' = [user EXCEPT ![u].pc = "account", ![u].said = said]
    BY <1>6 DEF ReadAccount
  <2>2. said \in Evidence
    BY <2>1, SaysEvidence DEF BudgetTypeOK
  <2> QED BY <1>6, <2>1, <2>2 DEF BudgetTypeOK, ReadAccount, UserRec
<1>7. ASSUME NEW u \in User, Sync(u) PROVE BudgetTypeOK'
  <2>1. user[u].said \in Evidence /\ Silence \in Evidence
    BY DEF BudgetTypeOK, UserRec, Silence, Evidence
  <2>2. row' \in Row \cup {None}
    BY <1>7, <2>1, SyncedRow DEF Sync
  <2>3. user' \in [User -> UserRec]
    BY <1>7, <2>1 DEF Sync, BudgetTypeOK, UserRec
  <2> QED BY <1>7, <2>2, <2>3 DEF BudgetTypeOK, Sync
<1>8. ASSUME NEW u \in User, Die(u) \/ Reopen(u) PROVE BudgetTypeOK'
  <2>1. NewUser(epoch) \in UserRec
    BY DEF NewUser, BudgetTypeOK, UserRec, Silence, Evidence
  <2>2. user' = [user EXCEPT ![u] = NewUser(epoch)]
    BY <1>8 DEF Die, Reopen
  <2>3. user' \in [User -> UserRec]
    BY <2>1, <2>2 DEF BudgetTypeOK
  <2>4. deaths' \in 0..MaxDeaths
    BY <1>8, BudgetAssumption DEF Die, Reopen, BudgetTypeOK
  <2> QED BY <1>8, <2>3, <2>4 DEF Die, Reopen, BudgetTypeOK
<1>9. CASE RestoreBudget
  <2>1. row' \in Row \cup {None}
    BY <1>9, HeldIsRow DEF RestoreBudget
  <2> QED BY <1>9, <2>1, BudgetAssumption DEF RestoreBudget, BudgetTypeOK
<1>10. CASE PassTime
  BY <1>10, BudgetAssumption DEF PassTime, MayPass, BudgetTypeOK
<1>11. CASE Renew
  BY <1>11, BudgetAssumption DEF Renew, MayPass, BudgetTypeOK, Count
<1> QED
  BY <1>0, <1>1, <1>2, <1>3, <1>4, <1>5, <1>6, <1>7, <1>8, <1>9, <1>10, <1>11
     DEF BudgetNext, UserStep

\* Every value of every variable is of its type, for all constants.
THEOREM BudgetTyped == BudgetSpec => []BudgetTypeOK
BY TypeInit, TypeStep, PTL DEF BudgetSpec

-----------------------------------------------------------------------------
(* The allowance. *)

LEMMA InvInit ==
  ASSUME BudgetInit
  PROVE  BudgetInv
<1>1. BudgetTypeOK
  BY TypeInit
<1>2. \A u \in User : UserOK(u)
  BY DEF BudgetInit, UserOK, NewUser
<1> QED
  BY <1>1, <1>2 DEF BudgetInv, BudgetInit, WithinAllowance, RowOK, Active

\* A step that replaces the row by evidence keeps the invariant: nobody holds the row
\* any more, and what it allows is granted.
LEMMA ReplacedRow ==
  ASSUME BudgetInv, BudgetTypeOK',
         NEW left \in Count \cup {None}, NEW reset \in Nat, NEW w \in BOOLEAN,
         row' = [left |-> left, reserved |-> None, token |-> None, wait |-> w,
                 next |-> reset],
         reset > now, w => left = 0,
         Known(left) => left <= Granted,
         UNCHANGED <<now, provider, late>>,
         \A v \in User : user'[v].pc \in {user[v].pc, "idle"},
         \A v \in User : user'[v].pc # "idle" => user'[v] = user[v]
  PROVE  BudgetInv'
<1>1. RowOK'
  BY DEF RowOK, Known
<1>2. WithinAllowance'
  BY DEF WithinAllowance, Granted, Active
<1>3. ASSUME NEW v \in User PROVE UserOK(v)'
  <2>1. user[v].pc \in {"idle", "reserved", "answered", "account"} /\ UserOK(v)
    BY DEF BudgetInv, BudgetTypeOK, UserRec
  <2>2. CASE user'[v].pc = "idle"
    BY <2>2 DEF UserOK
  <2>3. CASE user'[v].pc = "account"
    <3>1. Active'
      BY NoneIsNoRow DEF Active, Row
    <3> QED BY <2>1, <2>3, <3>1 DEF UserOK
  <2>4. CASE user'[v].pc \in {"reserved", "answered"}
    <3>1. user'[v] = user[v] /\ ~user'[v].fresh
      BY <2>1, <2>4 DEF UserOK
    <3>2. ~Matches(v)'
      BY <3>1, BudgetAssumption DEF Matches
    <3> QED BY <2>4, <3>1, <3>2 DEF UserOK
  <2> QED BY <2>1, <2>2, <2>3, <2>4
<1> QED BY <1>1, <1>2, <1>3 DEF BudgetInv

\* A step that touches neither the row nor the provider, and of the users only those
\* that come to rest.
LEMMA RowKept ==
  ASSUME BudgetInv, BudgetTypeOK',
         UNCHANGED <<now, row, provider, late>>,
         \A v \in User : user'[v].pc # "idle" => user'[v] = user[v]
  PROVE  BudgetInv'
<1>1. ASSUME NEW v \in User PROVE UserOK(v)'
  <2>1. UserOK(v)
    BY DEF BudgetInv
  <2>2. CASE user'[v].pc = "idle"
    BY <2>2 DEF UserOK
  <2>3. CASE user'[v] = user[v]
    BY <2>1, <2>3 DEF UserOK, Matches, Granted, Active
  <2> QED BY <2>2, <2>3
<1>2. RowOK' /\ WithinAllowance'
  BY DEF BudgetInv, RowOK, WithinAllowance, Active
<1> QED BY <1>1, <1>2 DEF BudgetInv

\* What observe writes is granted.
LEMMA ObservedGranted ==
  ASSUME BudgetInv, NEW u \in User, user[u].pc = "answered", Matches(u),
         NEW left \in Count \cup {None},
         Known(left) => Known(user[u].said.left) /\ left <= user[u].said.left
  PROVE  Known(left) => left <= Granted
<1>1. UserOK(u) /\ user[u].said.left \in Count \cup {None}
  BY DEF BudgetInv, BudgetTypeOK, UserRec, Evidence
<1>2. Granted \in Nat
  BY DEF BudgetInv, BudgetTypeOK, Granted, Count
<1> QED BY <1>1, <1>2, BudgetAssumption DEF UserOK, Known, Count

LEMMA OneLess ==
  ASSUME NEW a \in Int, NEW b \in Int, NEW c \in Int, a < b, b <= c + 1
  PROVE  a <= c
OBVIOUS

LEMMA InvStep ==
  ASSUME BudgetInv, [BudgetNext]_budgetVars
  PROVE  BudgetInv'
<1> USE DEF BudgetInv
<1>t. BudgetTypeOK'
  BY TypeStep
<1>g. Granted \in Nat /\ provider.left \in Count /\ late \in Nat /\ now \in Nat
  BY BudgetAssumption DEF BudgetTypeOK, Granted, Count
<1>0. CASE UNCHANGED budgetVars
  BY <1>0, <1>t, RowKept DEF budgetVars
<1>1. ASSUME NEW u \in User, Reserve(u) PROVE BudgetInv'
  <2>1. /\ row' = Reserved(u) /\ ~Exhausted
        /\ UNCHANGED <<now, provider, late>>
        /\ user[u].pc = "idle"
        /\ user'[u].pc = "reserved" /\ ~user'[u].fresh
        /\ \A v \in User \ {u} : user'[v] = user[v]
    BY <1>1 DEF Reserve, BudgetTypeOK, UserRec
  <2>2. /\ ~Known(row'.left) /\ row'.token = u /\ ~row'.wait /\ row'.next > now
        /\ row' \in Row /\ row' # None
        /\ Known(row'.reserved) =>
             Active /\ Known(row.left) /\ row'.reserved = row.left - 1
    BY <2>1, ReservedRow, NoneIsNoRow
  <2>3. Known(row'.reserved) => row'.reserved < Granted /\ row'.reserved < Full
    <3> SUFFICES ASSUME Known(row'.reserved)
                 PROVE  row'.reserved < Granted /\ row'.reserved < Full
      OBVIOUS
    <3>1. row.left \in Count /\ row.left <= Granted /\ row'.reserved = row.left - 1
      BY <2>2 DEF WithinAllowance, Granted, BudgetTypeOK, Row, Active, Known
    <3> QED BY <3>1, <1>g, BudgetAssumption DEF Count
  <2>4. RowOK'
    BY <2>2, <2>3, BudgetAssumption DEF RowOK, Known
  <2>5. WithinAllowance'
    BY <2>2 DEF WithinAllowance
  <2>6. ASSUME NEW v \in User PROVE UserOK(v)'
    <3>1. Granted' = Granted
      BY <2>1 DEF Granted
    <3>2. CASE v = u
      BY <2>1, <2>3, <3>1, <3>2 DEF UserOK
    <3>3. CASE v # u
      <4>1. UserOK(v) /\ user'[v] = user[v]
        BY <2>1, <3>3
      <4>2. user[v].pc \in {"reserved", "answered"} => ~Matches(v)'
        BY <4>1, <2>2, <3>3 DEF UserOK, Matches
      <4>3. Active'
        BY <2>1, <2>2 DEF Active
      <4> QED BY <4>1, <4>2, <4>3 DEF UserOK
    <3> QED BY <3>2, <3>3
  <2> QED BY <1>t, <2>4, <2>5, <2>6
<1>2. ASSUME NEW u \in User, AskLink(u) PROVE BudgetInv'
  <2> DEFINE left == IF provider.left > 0 THEN provider.left - 1 ELSE 0
  <2>1. PICK said \in Says(left) :
          user' = [user EXCEPT ![u].pc = "answered", ![u].said = said]
    BY <1>2 DEF AskLink
  <2>2. /\ user[u].pc = "reserved"
        /\ UNCHANGED <<now, row>>
        /\ provider'.left = left
        /\ late' = IF Active /\ Matches(u) THEN late ELSE late + 1
        /\ user'[u] = [user[u] EXCEPT !.pc = "answered", !.said = said]
        /\ \A v \in User \ {u} : user'[v] = user[v]
    BY <1>2, <2>1 DEF AskLink, BudgetTypeOK, UserRec
  <2>3. left \in Count
    BY <1>g, BudgetAssumption DEF Count
  <2>4. said.left \in {None, left}
    BY <2>1, <2>3, SaysEvidence
  <2>5. /\ Granted' \in Nat
        /\ left <= Granted'
        /\ ~(Active /\ Matches(u)) => Granted <= Granted'
        /\ Granted <= Granted' + 1
    BY <2>2, <2>3, <1>g, BudgetAssumption DEF Granted, Count
  <2>6. RowOK'
    BY <2>2 DEF RowOK
  <2>7. UserOK(u) /\ ~user[u].fresh
    BY <2>2 DEF UserOK
  <2>8. Matches(u) => Known(row.token) /\ ~Known(row.left)
    BY <2>7, BudgetAssumption DEF Matches, RowOK, Known
  <2>9. WithinAllowance'
    <3> SUFFICES ASSUME Active, Known(row.left)
                 PROVE  row.left <= Granted'
      BY <2>2 DEF WithinAllowance, Active, Granted
    <3>1. row.left \in Count /\ row.left <= Granted
      BY DEF WithinAllowance, Granted, BudgetTypeOK, Row, Active, Known
    <3>2. Granted <= Granted'
      BY <2>5, <2>8
    <3> QED BY <3>1, <3>2, <2>5, <1>g DEF Count
  <2>10. Matches(u)' <=> Matches(u)
    BY <2>2 DEF Matches
  <2>11. UserOK(u)'
    <3>1. user'[u].pc = "answered" /\ ~user'[u].fresh /\ user'[u].said.left = said.left
      BY <2>2, <2>7 DEF BudgetTypeOK, UserRec
    <3>2. Known(said.left) => said.left <= Granted'
      BY <2>4, <2>5 DEF Known
    <3>3. Matches(u) /\ Known(row.reserved) => row.reserved <= Granted'
      <4> SUFFICES ASSUME Matches(u), Known(row.reserved)
                   PROVE  row.reserved <= Granted'
        OBVIOUS
      <4>1. row.reserved \in Int /\ row.reserved < Granted
        BY <2>2, <2>7, BudgetAssumption
           DEF UserOK, BudgetTypeOK, Row, Matches, Known, Count
      <4>2. Granted \in Int
        BY <1>g
      <4>3. Granted' \in Int
        BY <2>5
      <4>4. Granted <= Granted' + 1
        BY <2>5
      <4> HIDE DEF left
      <4> QED BY <4>1, <4>2, <4>3, <4>4, OneLess
    <3> QED BY <3>1, <3>2, <3>3, <2>2, <2>10 DEF UserOK
  <2>12. ASSUME NEW v \in User \ {u} PROVE UserOK(v)'
    <3>1. UserOK(v) /\ user'[v] = user[v] /\ (Matches(v)' <=> Matches(v)) /\ (Active' <=> Active)
      BY <2>2 DEF Matches, Active
    <3>2. user[v].said.left \in Count \cup {None}
      BY DEF BudgetTypeOK, UserRec, Evidence
    <3>3. CASE user[v].pc = "account"
      <4>1. ~Active => Granted <= Granted'
        BY <2>5
      <4> QED BY <3>1, <3>2, <3>3, <4>1, <2>5, <1>g, BudgetAssumption DEF UserOK, Known, Count
    <3>4. CASE user[v].pc \in {"reserved", "answered"} /\ Matches(v)
      <4>1. ~Matches(u)
        BY <3>1, <3>4, <2>7 DEF UserOK, Matches
      <4>2. Granted <= Granted'
        BY <4>1, <2>5
      <4>3. row.reserved \in Count \cup {None} /\ row' = row
        BY <2>2, <3>4 DEF BudgetTypeOK, Row, Matches
      <4> QED
        BY <3>1, <3>2, <3>4, <4>2, <4>3, <2>5, <1>g, BudgetAssumption
           DEF UserOK, Known, Count
    <3>5. CASE user[v].pc = "idle" \/ (user[v].pc \in {"reserved", "answered"} /\ ~Matches(v))
      BY <3>1, <3>5 DEF UserOK
    <3>6. user[v].pc \in {"idle", "reserved", "answered", "account"}
      BY DEF BudgetTypeOK, UserRec
    <3> QED BY <3>3, <3>4, <3>5, <3>6
  <2> QED BY <1>t, <2>6, <2>9, <2>11, <2>12
<1>3. ASSUME NEW u \in User, Observe(u) PROVE BudgetInv'
  <2> DEFINE said == user[u].said
  <2>1. /\ user[u].pc = "answered" /\ row' = Observed(u, said)
        /\ UNCHANGED <<now, provider, late>>
        /\ said \in Evidence
        /\ \A v \in User : user'[v].pc # "idle" => user'[v] = user[v]
        /\ \A v \in User : user'[v].pc \in {user[v].pc, "idle"}
    BY <1>3 DEF Observe, BudgetTypeOK, UserRec
  <2>2. CASE row' = row
    BY <2>1, <2>2, <1>t, RowKept
  <2>3. CASE row' # row
    <3>1. PICK left \in Count \cup {None} :
            /\ Matches(u)
            /\ row' = Stated(left, ResetAt(said))
            /\ Known(left) => Known(said.left) /\ left <= said.left
      BY <2>1, <2>3, ObservedRow
    <3>2. Known(left) => left <= Granted
      BY <2>1, <3>1, ObservedGranted
    <3>3. ResetAt(said) \in Nat /\ ResetAt(said) > now
      BY <2>1, <1>g, ResetIsAhead
    <3> HIDE DEF said
    <3> QED BY <2>1, <3>1, <3>2, <3>3, <1>t, ReplacedRow DEF Stated
  <2> QED BY <2>2, <2>3
<1>4. ASSUME NEW u \in User, LoseAnswer(u) PROVE BudgetInv'
  <2>1. \A v \in User : user'[v].pc # "idle" => user'[v] = user[v]
    BY <1>4 DEF LoseAnswer, BudgetTypeOK, UserRec
  <2> QED BY <2>1, <1>4, <1>t, RowKept DEF LoseAnswer
<1>5. ASSUME NEW u \in User, Refused(u) PROVE BudgetInv'
  <2>1. PICK said \in Says(0) : row' = Observed(u, [said EXCEPT !.left = 0])
    BY <1>5 DEF Refused
  <2> DEFINE none == [said EXCEPT !.left = 0]
  <2>2. none \in Evidence /\ none.left = 0
    BY <2>1, SaysEvidence, BudgetAssumption DEF Count, Evidence
  <2>3. UNCHANGED <<now, provider, late, user>>
    BY <1>5 DEF Refused
  <2>4. CASE row' = row
    BY <2>3, <2>4, <1>t, RowKept
  <2>5. CASE row' # row
    <3>1. PICK left \in Count \cup {None} :
            /\ row' = Stated(left, ResetAt(none))
            /\ Known(left) => left <= 0
      BY <2>1, <2>2, <2>5, ObservedRow
    <3>2. Known(left) => left <= Granted
      BY <3>1, <1>g DEF Count, Known
    <3>3. ResetAt(none) \in Nat /\ ResetAt(none) > now
      BY <2>2, <1>g, ResetIsAhead
    <3> HIDE DEF none
    <3> QED BY <2>3, <3>1, <3>2, <3>3, <1>t, ReplacedRow DEF Stated
  <2> QED BY <2>4, <2>5
<1>6. ASSUME NEW u \in User, ReadAccount(u) PROVE BudgetInv'
  <2>1. PICK said \in Says(provider.left) :
          /\ Known(said.left)
          /\ user' = [user EXCEPT ![u].pc = "account", ![u].said = said]
    BY <1>6 DEF ReadAccount
  <2>2. said.left = provider.left
    BY <2>1, <1>g, SaysEvidence DEF Known
  <2>3. /\ UNCHANGED <<now, row, provider, late>>
        /\ user'[u].pc = "account" /\ user'[u].said = said
        /\ \A v \in User \ {u} : user'[v] = user[v]
    BY <1>6, <2>1 DEF ReadAccount, BudgetTypeOK, UserRec
  <2>4. UserOK(u)'
    BY <2>1, <2>2, <2>3, <1>g DEF UserOK, Granted, Count
  <2>5. ASSUME NEW v \in User \ {u} PROVE UserOK(v)'
    <3>1. UserOK(v)
      OBVIOUS
    <3> QED BY <3>1, <2>3 DEF UserOK, Matches, Granted, Active
  <2>6. RowOK' /\ WithinAllowance'
    BY <2>3 DEF RowOK, WithinAllowance, Active
  <2> QED BY <1>t, <2>4, <2>5, <2>6
<1>7. ASSUME NEW u \in User, Sync(u) PROVE BudgetInv'
  <2> DEFINE said == user[u].said
  <2>1. /\ user[u].pc = "account" /\ row' = Synced(u, said)
        /\ UNCHANGED <<now, provider, late>>
        /\ said \in Evidence
        /\ \A v \in User : user'[v].pc # "idle" => user'[v] = user[v]
        /\ \A v \in User : user'[v].pc \in {user[v].pc, "idle"}
    BY <1>7 DEF Sync, BudgetTypeOK, UserRec
  <2>2. CASE row' = row
    BY <2>1, <2>2, <1>t, RowKept
  <2>3. CASE row' # row
    <3>1. PICK left \in Count \cup {None} :
            /\ row' = Stated(left, ResetAt(said))
            /\ Known(left) => Known(said.left) /\ left <= said.left
            /\ Active => Known(row.left) /\ (Known(left) => left <= row.left)
      BY <2>1, <2>3, SyncedRow
    <3>2. Known(left) => left <= Granted
      <4>1. CASE Active
        <5>1. row.left \in Count /\ row.left <= Granted
          BY <3>1, <4>1 DEF WithinAllowance, Granted, BudgetTypeOK, Row, Active, Known
        <5> QED BY <5>1, <4>1, <3>1, <1>g DEF Count, Known
      <4>2. CASE ~Active
        <5>1. UserOK(u)
          OBVIOUS
        <5>2. said.left \in Count /\ said.left <= Granted
          BY <5>1, <4>2, <2>1 DEF UserOK, Known, Evidence
        <5> QED BY <5>2, <3>1, <1>g DEF Count, Known
      <4> QED BY <4>1, <4>2
    <3>3. ResetAt(said) \in Nat /\ ResetAt(said) > now
      BY <2>1, <1>g, ResetIsAhead
    <3> HIDE DEF said
    <3> QED BY <2>1, <3>1, <3>2, <3>3, <1>t, ReplacedRow DEF Stated
  <2> QED BY <2>2, <2>3
<1>8. ASSUME NEW u \in User, Die(u) \/ Reopen(u) PROVE BudgetInv'
  <2>1. UNCHANGED <<now, row, provider, late>>
    BY <1>8 DEF Die, Reopen
  <2>2. \A v \in User : user'[v].pc # "idle" => user'[v] = user[v]
    BY <1>8 DEF Die, Reopen, BudgetTypeOK, UserRec, NewUser
  <2> QED BY <2>1, <2>2, <1>t, RowKept
<1>9. CASE RestoreBudget
  <2>1. UNCHANGED <<now, provider, late, user>>
    BY <1>9 DEF RestoreBudget
  <2>2. CASE row = None
    BY <1>9, <2>1, <2>2, <1>t, RowKept DEF RestoreBudget
  <2>3. CASE row # None
    <3>1. row' = [left |-> 0, reserved |-> None, token |-> None, wait |-> TRUE,
                  next |-> now + Day]
      BY <1>9, <2>3 DEF RestoreBudget, HeldRow
    <3>2. 0 \in Count \cup {None} /\ now + Day \in Nat /\ now + Day > now /\ 0 <= Granted
      BY <1>g, BudgetAssumption DEF Count
    <3> QED BY <2>1, <3>1, <3>2, <1>t, ReplacedRow
  <2> QED BY <2>2, <2>3
<1>10. CASE PassTime
  <2>1. /\ UNCHANGED <<row, provider, late, user>>
        /\ now' = now + 1
        /\ \A u \in User : user[u].pc # "account"
    BY <1>10 DEF PassTime, MayPass
  <2>2. Active' => Active
    BY <2>1, <1>g DEF Active, BudgetTypeOK, Row
  <2>3. ASSUME NEW v \in User PROVE UserOK(v)'
    <3>1. UserOK(v)
      OBVIOUS
    <3> QED BY <3>1, <2>1 DEF UserOK, Matches, Granted
  <2> QED BY <1>t, <2>1, <2>2, <2>3 DEF RowOK, WithinAllowance
<1>11. CASE Renew
  <2>1. /\ UNCHANGED <<row, user>>
        /\ provider'.left = Full /\ late' = 0
        /\ \A u \in User : user[u].pc # "account"
    BY <1>11 DEF Renew, MayPass
  <2>2. Granted' = Full
    BY <2>1, BudgetAssumption DEF Granted
  <2>3. RowOK'
    BY <2>1 DEF RowOK
  <2>4. WithinAllowance'
    BY <2>1, BudgetAssumption DEF WithinAllowance, Active, BudgetTypeOK, Row, Known, Count
  <2>5. ASSUME NEW v \in User PROVE UserOK(v)'
    <3>1. UserOK(v) /\ (Matches(v)' <=> Matches(v)) /\ user'[v] = user[v]
      BY <2>1 DEF Matches
    <3>2. user[v].said.left \in Count \cup {None}
      BY DEF BudgetTypeOK, UserRec, Evidence
    <3>3. Known(user[v].said.left) => user[v].said.left <= Full
      BY <3>2 DEF Known, Count
    <3>4. Matches(v) /\ Known(row.reserved) => row.reserved < Full /\ row.reserved \in Count
      BY DEF RowOK, Matches, BudgetTypeOK, Row, Known
    <3>5. Matches(v) /\ Known(row.reserved) => row.reserved <= Full
      BY <3>4, BudgetAssumption DEF Count
    <3> QED BY <3>1, <3>3, <3>4, <3>5, <2>1, <2>2 DEF UserOK
  <2> QED BY <1>t, <2>3, <2>4, <2>5
<1> QED
  BY <1>0, <1>1, <1>2, <1>3, <1>4, <1>5, <1>6, <1>7, <1>8, <1>9, <1>10, <1>11
     DEF BudgetNext, UserStep

\* The row never allows more links than the provider still grants, but for late ones.
THEOREM NeverOverdrawn == BudgetSpec => []WithinAllowance
<1>1. BudgetSpec => []BudgetInv
  BY InvInit, InvStep, PTL DEF BudgetSpec
<1>2. BudgetInv => WithinAllowance
  BY DEF BudgetInv
<1> QED BY <1>1, <1>2, PTL

-----------------------------------------------------------------------------
(* The refinement.  The mapped variables are named once; a step of the         *)
(* allowance is decided by the row and the clock before and after.             *)

Allowed == IF row = None THEN 0
           ELSE IF Known(row.left) THEN row.left
           ELSE IF Known(row.reserved) THEN row.reserved ELSE 0

Until == IF row = None THEN 0 ELSE row.next

Probing == row # None /\ Known(row.token) /\ ~Known(row.reserved)

LEMMA MappedTypes ==
  ASSUME BudgetTypeOK
  PROVE  /\ Allowed \in Count /\ Until \in Nat /\ now \in Nat
         /\ Active <=> Until > now
BY BudgetAssumption DEF BudgetTypeOK, Allowed, Until, Active, Row, Known, Count

\* A step of the allowance in the terms of the mapping.
AllowanceStep ==
  \/ now' = now + 1 /\ UNCHANGED <<Allowed, Until, Probing>>
  \/ /\ Until > now /\ Allowed > 0 /\ Allowed' = Allowed - 1
     /\ UNCHANGED <<now, Until, Probing>>
  \/ now >= Until /\ Allowed' = 0 /\ Until' = now + Day /\ Probing' /\ now' = now
  \/ /\ Allowed' \in 0..Full /\ (now >= Until \/ Probing \/ Allowed' <= Allowed)
     /\ Until' > now /\ ~Probing' /\ now' = now
  \/ Allowed' = 0 /\ Until' = now + Day /\ ~Probing' /\ now' = now
  \/ UNCHANGED <<now, Allowed, Until, Probing>>

LEMMA StepIsAllowance ==
  ASSUME AllowanceStep, BudgetTypeOK
  PROVE  [Budget!AllowanceNext]_(Budget!allowanceVars)
<1>1. now \in Nat /\ Until \in Nat
  BY MappedTypes
<1> QED
  BY <1>1
     DEF AllowanceStep, Allowed, Until, Probing, Budget!AllowanceNext, Budget!allowanceVars,
         Budget!Tick, Budget!Spend, Budget!Probe, Budget!Learn, Budget!News, Budget!Hold, Budget!Over

\* Evidence that replaces the row is learnt: nothing is refunded in an active period.
LEMMA ReplacedIsLearnt ==
  ASSUME BudgetTypeOK, now' = now,
         NEW left \in Count \cup {None}, NEW reset \in Nat, reset > now,
         row' = Stated(left, reset),
         \/ ~Active
         \/ Probing
         \/ Known(left) => left <= Allowed
  PROVE  AllowanceStep
<1>1. Allowed \in Count /\ Until \in Nat /\ now \in Nat /\ (Active <=> Until > now)
  BY MappedTypes
<1>2. row' # None /\ row'.left = left /\ row'.next = reset /\ ~Known(row'.token)
        /\ ~Known(row'.reserved)
  BY StatedRow, NoneIsNoRow
<1>3. Allowed' = (IF Known(left) THEN left ELSE 0) /\ Until' = reset /\ ~Probing'
  BY <1>2 DEF Allowed, Until, Probing
<1>4. Allowed' \in 0..Full
  BY <1>3, BudgetAssumption DEF Known, Count
<1> QED BY <1>1, <1>3, <1>4, BudgetAssumption DEF AllowanceStep, Count, Known

LEMMA RefinesInit ==
  ASSUME BudgetInit
  PROVE  Budget!AllowanceInit
BY DEF BudgetInit, Budget!AllowanceInit, Known

LEMMA RefinesStep ==
  ASSUME BudgetInv, [BudgetNext]_budgetVars
  PROVE  [Budget!AllowanceNext]_(Budget!allowanceVars)
<1> SUFFICES AllowanceStep
  BY StepIsAllowance DEF BudgetInv
<1> USE DEF BudgetInv
<1>t. /\ Allowed \in Count /\ Until \in Nat /\ now \in Nat
      /\ Active <=> Until > now
  BY MappedTypes
<1>s. ASSUME UNCHANGED <<now, row>> PROVE AllowanceStep
  BY <1>s DEF AllowanceStep, Allowed, Until, Probing
<1>1. ASSUME NEW u \in User, Reserve(u) PROVE AllowanceStep
  <2>1. row' = Reserved(u) /\ ~Exhausted /\ now' = now
    BY <1>1 DEF Reserve
  <2>2. /\ ~Known(row'.left) /\ row'.token = u /\ row' # None
        /\ Known(row'.reserved) =>
             Active /\ Known(row.left) /\ row'.reserved = row.left - 1
        /\ Known(u)
    BY <2>1, ReservedRow, NoneIsNoRow, BudgetAssumption DEF Known
  <2>3. CASE Active
    <3>1. row # None /\ Known(row.left) /\ row.left # 0 /\ row.left \in Count
      BY <2>1, <2>3 DEF Exhausted, Active, Known, BudgetTypeOK, Row
    <3>2. row'.reserved = row.left - 1 /\ row'.next = row.next
      BY <2>1, <2>3 DEF Reserved
    <3>3. Known(row'.reserved)
      BY <3>1, <3>2, BudgetAssumption DEF Known, Count
    <3>4. ~Known(row.token)
      BY <3>1 DEF RowOK
    <3>5. /\ Allowed = row.left /\ Allowed' = row.left - 1
          /\ Until' = Until /\ ~Probing /\ ~Probing'
      BY <2>2, <3>1, <3>2, <3>3, <3>4 DEF Allowed, Until, Probing
    <3> QED BY <2>1, <2>3, <3>1, <3>5, <1>t, BudgetAssumption DEF AllowanceStep, Count
  <2>4. CASE ~Active
    <3>1. row'.next = now + Day /\ ~Known(row'.reserved)
      BY <2>1, <2>4 DEF Reserved, Known
    <3>2. Allowed' = 0 /\ Until' = now + Day /\ Probing'
      BY <2>2, <3>1 DEF Allowed, Until, Probing
    <3>3. now >= Until
      BY <2>4, <1>t
    <3> QED BY <2>1, <3>2, <3>3 DEF AllowanceStep
  <2> QED BY <2>3, <2>4
<1>2. ASSUME NEW u \in User, AskLink(u) PROVE AllowanceStep
  BY <1>2, <1>s DEF AskLink
<1>3. ASSUME NEW u \in User, NEW said \in Evidence, row' = Observed(u, said), now' = now
      PROVE  \/ AllowanceStep
             \/ Matches(u) /\ ~Known(row.token)
  <2>1. CASE row' = row
    BY <1>3, <2>1, <1>s
  <2>2. CASE row' # row
    <3>1. PICK left \in Count \cup {None} :
            /\ Matches(u)
            /\ row' = Stated(left, ResetAt(said))
            /\ Known(left) /\ Active /\ Known(row.reserved) => left <= row.reserved
      BY <1>3, <2>2, ObservedRow
    <3>2. ResetAt(said) \in Nat /\ ResetAt(said) > now
      BY <1>3, <1>t, ResetIsAhead
    <3>3. row # None
      BY <3>1 DEF Matches
    <3>4. CASE Known(row.token)
      <4>1. Known(row.reserved) => Allowed = row.reserved
        BY <3>3, <3>4 DEF RowOK, Allowed
      <4>2. ~Known(row.reserved) => Probing
        BY <3>3, <3>4 DEF Probing
      <4> QED BY <1>3, <3>1, <3>2, <4>1, <4>2, ReplacedIsLearnt
    <3> QED BY <3>1, <3>4
  <2> QED BY <2>1, <2>2
<1>4. ASSUME NEW u \in User, Observe(u) PROVE AllowanceStep
  <2>1. user[u].said \in Evidence /\ UserOK(u)
    BY DEF BudgetTypeOK, UserRec
  <2>2. Matches(u) => Known(row.token)
    BY <1>4, <2>1, BudgetAssumption DEF Observe, UserOK, Matches, Known
  <2> QED BY <1>3, <1>4, <2>1, <2>2 DEF Observe
<1>5. ASSUME NEW u \in User, Refused(u) PROVE AllowanceStep
  <2>1. PICK said \in Says(0) : row' = Observed(u, [said EXCEPT !.left = 0])
    BY <1>5 DEF Refused
  <2> DEFINE none == [said EXCEPT !.left = 0]
  <2>2. none \in Evidence /\ none.left = 0 /\ now' = now
    BY <1>5, <2>1, SaysEvidence, BudgetAssumption DEF Count, Evidence, Refused
  <2>3. CASE row' = row
    BY <2>2, <2>3, <1>s
  <2>4. CASE row' # row
    <3>1. PICK left \in Count \cup {None} :
            row' = Stated(left, ResetAt(none)) /\ (Known(left) => left <= 0)
      BY <2>1, <2>2, <2>4, ObservedRow
    <3>2. ResetAt(none) \in Nat /\ ResetAt(none) > now
      BY <2>2, <1>t, ResetIsAhead
    <3>3. Known(left) => left <= Allowed
      BY <3>1, <1>t, BudgetAssumption DEF Count, Known
    <3> HIDE DEF none
    <3> QED BY <2>2, <3>1, <3>2, <3>3, ReplacedIsLearnt
  <2> QED BY <2>3, <2>4
<1>6. ASSUME NEW u \in User, Sync(u) PROVE AllowanceStep
  <2> DEFINE said == user[u].said
  <2>1. row' = Synced(u, said) /\ now' = now /\ said \in Evidence
    BY <1>6 DEF Sync, BudgetTypeOK, UserRec
  <2>2. CASE row' = row
    BY <2>1, <2>2, <1>s
  <2>3. CASE row' # row
    <3>1. PICK left \in Count \cup {None} :
            /\ row' = Stated(left, ResetAt(said))
            /\ Active => Known(row.left) /\ (Known(left) => left <= row.left)
      BY <2>1, <2>3, SyncedRow
    <3>2. ResetAt(said) \in Nat /\ ResetAt(said) > now
      BY <2>1, <1>t, ResetIsAhead
    <3>3. Active => (Known(left) => left <= Allowed)
      BY <3>1 DEF Active, Allowed
    <3> HIDE DEF said
    <3> QED BY <2>1, <3>1, <3>2, <3>3, ReplacedIsLearnt
  <2> QED BY <2>2, <2>3
<1>7. ASSUME NEW u \in User,
             LoseAnswer(u) \/ ReadAccount(u) \/ Die(u) \/ Reopen(u)
      PROVE  AllowanceStep
  BY <1>7, <1>s DEF LoseAnswer, ReadAccount, Die, Reopen
<1>8. CASE RestoreBudget
  <2>1. CASE row = None
    BY <1>8, <2>1, <1>s DEF RestoreBudget
  <2>2. CASE row # None
    <3>1. /\ row' # None /\ row'.left = 0 /\ ~Known(row'.token) /\ row'.next = now + Day
          /\ now' = now
      BY <1>8, <2>2, NoneIsNoRow, HeldIsRow DEF RestoreBudget, HeldRow
    <3>2. Known(0)
      BY BudgetAssumption DEF Known
    <3>3. Allowed' = 0 /\ Until' = now + Day /\ ~Probing'
      BY <3>1, <3>2 DEF Allowed, Until, Probing
    <3> QED BY <3>1, <3>3 DEF AllowanceStep
  <2> QED BY <2>1, <2>2
<1>9. CASE PassTime \/ Renew
  BY <1>9 DEF PassTime, Renew, AllowanceStep, Allowed, Until, Probing
<1>10. CASE UNCHANGED budgetVars
  BY <1>10, <1>s DEF budgetVars
<1> QED
  BY <1>1, <1>2, <1>4, <1>5, <1>6, <1>7, <1>8, <1>9, <1>10 DEF BudgetNext, UserStep

\* DownloadBudget implements Allowance: no answer, account read, death, restore or
\* clock step refunds a link within a period.
THEOREM BudgetRefines == BudgetSpec => ImplementsAllowance
<1>1. BudgetSpec => []BudgetInv
  BY InvInit, InvStep, PTL DEF BudgetSpec
<1> QED
  BY <1>1, RefinesInit, RefinesStep, PTL
     DEF BudgetSpec, ImplementsAllowance, Budget!AllowanceSpec

=============================================================================
