------------------------ MODULE ReloginBudgetProofs ------------------------
(***************************************************************************)
(* The re-login budget, for every number of attempts, window and bound on  *)
(* the clock: no coordinator attempts more than MaxAttempts re-logins in   *)
(* any window of its life, and it never holds one back without cause.      *)
(***************************************************************************)
EXTENDS ReloginBudget, FiniteSetTheorems, TLAPS

\* The attempts of the current coordinator that the current window counts.
CountedLogins == {a \in logins : a.life = life /\ now - a.at < Window}

\* Nothing was logged by a coordinator, or at a time, that is yet to come.
LoginsArePast ==
    /\ IsFiniteSet(logins)
    /\ \A a \in logins : a.at <= now /\ a.life <= life

\* The list is a part of the current coordinator's history, and the part the
\* prune has dropped is out of the window for good.
ListIsTheRecentHistory ==
    /\ relogin_attempts \subseteq {a \in logins : a.life = life}
    /\ CountedLogins \subseteq relogin_attempts

BudgetInv ==
    /\ BudgetTypeOK
    /\ LoginsArePast
    /\ ListIsTheRecentHistory
    /\ Cardinality(CountedLogins) <= MaxAttempts
    /\ LoginWindowBound

----------------------------------------------------------------------------

\* What the prune keeps is exactly what the window counts.
LEMMA RecentIsCounted ==
  ASSUME BudgetTypeOK, ListIsTheRecentHistory
  PROVE  Recent = CountedLogins
  BY DEF ListIsTheRecentHistory, Recent, CountedLogins

\* A coordinator's logins in one window are a finite set.
LEMMA LoginsInFinite ==
  ASSUME LoginsArePast, NEW l, NEW from
  PROVE  IsFiniteSet(LoginsIn(l, from))
  <1>1. LoginsIn(l, from) \subseteq logins
    BY DEF LoginsIn
  <1> QED
    BY <1>1, FS_Subset DEF LoginsArePast

\* So are the logins of the current window.
LEMMA CountedFinite ==
  ASSUME LoginsArePast
  PROVE  IsFiniteSet(CountedLogins)
  <1>1. CountedLogins \subseteq logins
    BY DEF CountedLogins
  <1> QED
    BY <1>1, FS_Subset DEF LoginsArePast

\* Adding an element to a finite set makes it larger by one at most.
LEMMA AddsAtMostOne ==
  ASSUME NEW S, IsFiniteSet(S), NEW x
  PROVE  /\ IsFiniteSet(S \cup {x})
         /\ Cardinality(S \cup {x}) <= Cardinality(S) + 1
  <1>1. Cardinality(S) \in Nat
    BY FS_CardinalityType
  <1>2. Cardinality(S \cup {x}) = IF x \in S THEN Cardinality(S) ELSE Cardinality(S) + 1
    BY FS_AddElement
  <1> QED
    BY <1>1, <1>2, FS_AddElement

\* What _spend_relogin_budget records is an attempt.
LEMMA NewAttemptType ==
  ASSUME BudgetTypeOK, LoginsArePast, BudgetAssumption
  PROVE  NewAttempt \in Attempt
  <1>1. Cardinality(logins) \in Nat
    BY FS_CardinalityType DEF LoginsArePast
  <1> QED
    BY <1>1 DEF NewAttempt, Attempt, BudgetTypeOK, BudgetAssumption

----------------------------------------------------------------------------

\* A first coordinator has an empty list and no history.
LEMMA InitEstablishesInv ==
  ASSUME BudgetAssumption, BudgetInit
  PROVE  BudgetInv
  <1> USE DEF BudgetInit
  <1>1. BudgetTypeOK /\ LoginsArePast
    BY FS_EmptySet DEF BudgetAssumption, BudgetTypeOK, LoginsArePast
  <1>2. ListIsTheRecentHistory
    BY DEF ListIsTheRecentHistory, CountedLogins
  <1>3. CountedLogins = {} /\ \A l, from : LoginsIn(l, from) = {}
    BY DEF CountedLogins, LoginsIn
  <1>4. Cardinality(CountedLogins) <= MaxAttempts
    BY <1>3, FS_EmptySet DEF BudgetAssumption
  <1>5. LoginWindowBound
    BY <1>3, FS_EmptySet DEF BudgetAssumption, LoginWindowBound
  <1> QED
    BY <1>1, <1>2, <1>4, <1>5 DEF BudgetInv

\* The heart of the matter: granting an attempt keeps every window within
\* the budget, because a window the new attempt falls into holds, of the
\* same life, only attempts the prune has kept.
LEMMA SpendKeepsInv ==
  ASSUME BudgetAssumption, BudgetInv, SpendReloginBudget
  PROVE  BudgetInv'
  <1> USE DEF BudgetInv
  <1>1. NewAttempt \in Attempt /\ NewAttempt.at = now /\ NewAttempt.life = life
    BY NewAttemptType DEF NewAttempt
  <1>2. Recent = CountedLogins /\ IsFiniteSet(Recent)
    BY RecentIsCounted, CountedFinite
  <1>3. Cardinality(Recent) \in Nat /\ Cardinality(Recent) < MaxAttempts
    BY <1>2, FS_CardinalityType DEF SpendReloginBudget, BudgetSpent, BudgetAssumption
  <1>4. Cardinality(Recent \cup {NewAttempt}) <= MaxAttempts
    <2>1. Cardinality(Recent \cup {NewAttempt}) <= Cardinality(Recent) + 1
      BY <1>2, AddsAtMostOne
    <2>2. Cardinality(Recent \cup {NewAttempt}) \in Nat
      BY <1>2, AddsAtMostOne, FS_CardinalityType
    <2> QED
      BY <1>3, <2>1, <2>2 DEF BudgetAssumption
  <1>5. IsFiniteSet(Recent \cup {NewAttempt})
    BY <1>2, AddsAtMostOne
  <1>6. BudgetTypeOK'
    BY <1>1 DEF SpendReloginBudget, BudgetTypeOK, Recent
  <1>7. LoginsArePast'
    <2>1. IsFiniteSet(logins')
      BY AddsAtMostOne DEF LoginsArePast, SpendReloginBudget
    <2>2. \A a \in logins' : a.at <= now' /\ a.life <= life'
      BY <1>1 DEF LoginsArePast, SpendReloginBudget, BudgetTypeOK
    <2> QED
      BY <2>1, <2>2 DEF LoginsArePast
  <1>8. ListIsTheRecentHistory'
    <2>1. relogin_attempts' \subseteq {a \in logins' : a.life = life'}
      BY <1>1 DEF SpendReloginBudget, Recent, ListIsTheRecentHistory
    <2>2. CountedLogins' \subseteq relogin_attempts'
      BY <1>2 DEF SpendReloginBudget, CountedLogins
    <2> QED
      BY <2>1, <2>2 DEF ListIsTheRecentHistory
  <1>9. (Cardinality(CountedLogins) <= MaxAttempts)'
    <2>1. CountedLogins' \subseteq Recent \cup {NewAttempt}
      BY <1>2 DEF SpendReloginBudget, CountedLogins
    <2>2. Cardinality(CountedLogins') <= Cardinality(Recent \cup {NewAttempt})
      BY <1>5, <2>1, FS_Subset
    <2>3. Cardinality(CountedLogins') \in Nat /\ Cardinality(Recent \cup {NewAttempt}) \in Nat
      BY <1>5, <2>1, FS_Subset, FS_CardinalityType
    <2> QED
      BY <1>4, <2>2, <2>3 DEF BudgetAssumption
  <1>10. LoginWindowBound'
    <2> SUFFICES ASSUME NEW l \in 1 .. MaxLives, NEW from \in 0 .. MaxTime
                 PROVE  Cardinality(LoginsIn(l, from)') <= MaxAttempts
      BY DEF LoginWindowBound
    <2>1. CASE l = life /\ now < from + Window /\ from <= now
      <3>1. LoginsIn(l, from)' \subseteq Recent \cup {NewAttempt}
        <4> SUFFICES ASSUME NEW a \in logins, a.life = life, from <= a.at
                     PROVE  a \in CountedLogins
          BY <1>2, <2>1 DEF LoginsIn, SpendReloginBudget
        <4> QED
          BY <2>1 DEF CountedLogins, BudgetTypeOK, Attempt, BudgetAssumption
      <3>2. Cardinality(LoginsIn(l, from)') <= Cardinality(Recent \cup {NewAttempt})
        BY <1>5, <3>1, FS_Subset
      <3>3. Cardinality(LoginsIn(l, from)') \in Nat /\ Cardinality(Recent \cup {NewAttempt}) \in Nat
        BY <1>5, <3>1, FS_Subset, FS_CardinalityType
      <3> QED
        BY <1>4, <3>2, <3>3 DEF BudgetAssumption
    <2>2. CASE ~ (l = life /\ now < from + Window /\ from <= now)
      <3>1. LoginsIn(l, from)' = LoginsIn(l, from)
        BY <1>1, <2>2 DEF LoginsIn, SpendReloginBudget
      <3> QED
        BY <3>1 DEF LoginWindowBound
    <2> QED
      BY <2>1, <2>2
  <1> QED
    BY <1>6, <1>7, <1>8, <1>9, <1>10

\* A refusal prunes the list, and what it drops is out of the window.
LEMMA RefuseKeepsInv ==
  ASSUME BudgetAssumption, BudgetInv, RefuseRelogin
  PROVE  BudgetInv'
  <1> USE DEF BudgetInv, RefuseRelogin
  <1>1. Recent = CountedLogins
    BY RecentIsCounted
  <1>2. CountedLogins' = CountedLogins /\ LoginWindowBound'
    BY DEF CountedLogins, LoginWindowBound, LoginsIn
  <1>3. BudgetTypeOK' /\ LoginsArePast'
    BY DEF BudgetTypeOK, LoginsArePast, Recent
  <1>4. ListIsTheRecentHistory'
    BY <1>1, <1>2 DEF ListIsTheRecentHistory, Recent
  <1> QED
    BY <1>2, <1>3, <1>4

\* Time only takes attempts out of the window.
LEMMA TickKeepsInv ==
  ASSUME BudgetAssumption, BudgetInv, Tick
  PROVE  BudgetInv'
  <1> USE DEF BudgetInv, Tick
  <1>1. CountedLogins' \subseteq CountedLogins
    BY DEF CountedLogins, BudgetTypeOK, Attempt, BudgetAssumption
  <1>2. IsFiniteSet(CountedLogins)
    BY CountedFinite
  <1>3. (Cardinality(CountedLogins) <= MaxAttempts)'
    <2>1. Cardinality(CountedLogins') <= Cardinality(CountedLogins)
      BY <1>1, <1>2, FS_Subset
    <2>2. Cardinality(CountedLogins') \in Nat /\ Cardinality(CountedLogins) \in Nat
      BY <1>1, <1>2, FS_Subset, FS_CardinalityType
    <2> QED
      BY <2>1, <2>2 DEF BudgetAssumption
  <1>4. BudgetTypeOK'
    BY DEF BudgetTypeOK, BudgetAssumption
  <1>5. LoginsArePast'
    BY DEF LoginsArePast, BudgetTypeOK, Attempt
  <1>6. ListIsTheRecentHistory'
    BY <1>1 DEF ListIsTheRecentHistory
  <1>7. LoginWindowBound'
    BY DEF LoginWindowBound, LoginsIn
  <1> QED
    BY <1>3, <1>4, <1>5, <1>6, <1>7

\* A new coordinator starts with an empty list and a life of its own.
LEMMA NewCoordinatorKeepsInv ==
  ASSUME BudgetAssumption, BudgetInv, NewCoordinator
  PROVE  BudgetInv'
  <1> USE DEF BudgetInv, NewCoordinator
  <1>1. CountedLogins' = {}
    BY DEF CountedLogins, LoginsArePast, BudgetTypeOK, Attempt
  <1>2. (Cardinality(CountedLogins) <= MaxAttempts)'
    BY <1>1, FS_EmptySet DEF BudgetAssumption
  <1>3. BudgetTypeOK'
    BY DEF BudgetTypeOK, BudgetAssumption
  <1>4. LoginsArePast'
    BY DEF LoginsArePast, BudgetTypeOK, Attempt
  <1>5. ListIsTheRecentHistory'
    BY <1>1 DEF ListIsTheRecentHistory
  <1>6. LoginWindowBound'
    BY DEF LoginWindowBound, LoginsIn
  <1> QED
    BY <1>2, <1>3, <1>4, <1>5, <1>6

\* Every step of the budget keeps the invariant.
LEMMA BudgetInvInductive ==
  ASSUME BudgetAssumption, BudgetInv, [BudgetNext]_budgetVars
  PROVE  BudgetInv'
  <1>1. CASE SpendReloginBudget
    BY <1>1, SpendKeepsInv
  <1>2. CASE RefuseRelogin
    BY <1>2, RefuseKeepsInv
  <1>3. CASE Tick
    BY <1>3, TickKeepsInv
  <1>4. CASE NewCoordinator
    BY <1>4, NewCoordinatorKeepsInv
  <1>5. CASE UNCHANGED budgetVars
    BY <1>5 DEF budgetVars, BudgetInv, BudgetTypeOK, LoginsArePast,
         ListIsTheRecentHistory, CountedLogins, LoginWindowBound, LoginsIn
  <1> QED
    BY <1>1, <1>2, <1>3, <1>4, <1>5 DEF BudgetNext

----------------------------------------------------------------------------

\* The variables keep their types.
THEOREM BudgetTypeCorrect == BudgetSpec => []BudgetTypeOK
  <1>1. BudgetInit => BudgetInv
    BY BudgetAssumption, InitEstablishesInv
  <1>2. BudgetInv /\ [BudgetNext]_budgetVars => BudgetInv'
    BY BudgetAssumption, BudgetInvInductive
  <1>3. BudgetInv => BudgetTypeOK
    BY DEF BudgetInv
  <1> QED
    BY <1>1, <1>2, <1>3, PTL DEF BudgetSpec

\* _spend_relogin_budget keeps its promise for every budget and window: no
\* window of Window seconds sees more than MaxAttempts re-logins of one
\* coordinator.
THEOREM WindowBoundHolds == BudgetSpec => []LoginWindowBound
  <1>1. BudgetInit => BudgetInv
    BY BudgetAssumption, InitEstablishesInv
  <1>2. BudgetInv /\ [BudgetNext]_budgetVars => BudgetInv'
    BY BudgetAssumption, BudgetInvInductive
  <1>3. BudgetInv => LoginWindowBound
    BY DEF BudgetInv
  <1> QED
    BY <1>1, <1>2, <1>3, PTL DEF BudgetSpec

\* And it is no stricter than promised: a re-login is held back only when
\* MaxAttempts real ones were attempted in the window that ends now.
THEOREM HeldBackForCause == BudgetSpec => []HeldBackOnlyByLogins
  <1>1. BudgetInit => BudgetInv
    BY BudgetAssumption, InitEstablishesInv
  <1>2. BudgetInv /\ [BudgetNext]_budgetVars => BudgetInv'
    BY BudgetAssumption, BudgetInvInductive
  <1>3. BudgetInv => HeldBackOnlyByLogins
    <2> SUFFICES ASSUME BudgetInv, BudgetSpent
                 PROVE  Cardinality(CountedLogins) = MaxAttempts
      BY DEF HeldBackOnlyByLogins, CountedLogins
    <2>1. Cardinality(CountedLogins) >= MaxAttempts
      BY RecentIsCounted DEF BudgetInv, BudgetSpent
    <2>2. Cardinality(CountedLogins) \in Nat
      BY CountedFinite, FS_CardinalityType DEF BudgetInv
    <2> QED
      BY <2>1, <2>2, BudgetAssumption DEF BudgetInv, BudgetAssumption
  <1> QED
    BY <1>1, <1>2, <1>3, PTL DEF BudgetSpec


----------------------------------------------------------------------------
(* What becomes of the promise when coordinators come and go.              *)

\* The re-logins of the account in one window, whichever coordinator's.
AccountLogins(from) == {a \in logins : from <= a.at /\ a.at < from + Window}

\* Those of the coordinators before the current one.
EarlierLogins(from) == {a \in AccountLogins(from) : a.life < life}

\* Each of them has left behind no more than its own budget.
EarlierBound ==
    \A from \in 0 .. MaxTime : Cardinality(EarlierLogins(from)) <= (life - 1) * MaxAttempts

\* The account's window holds one budget for each time the entry was set up.
OneBudgetPerSetup ==
    \A from \in 0 .. MaxTime : Cardinality(AccountLogins(from)) <= life * MaxAttempts

\* The account's logins are those of earlier coordinators and the current
\* one's, and these are no more than one budget.
LEMMA OneBudgetMore ==
  ASSUME BudgetAssumption, BudgetInv, EarlierBound
  PROVE  OneBudgetPerSetup
  <1> SUFFICES ASSUME NEW from \in 0 .. MaxTime
               PROVE  Cardinality(AccountLogins(from)) <= life * MaxAttempts
    BY DEF OneBudgetPerSetup
  <1> DEFINE E == EarlierLogins(from)
             L == LoginsIn(life, from)
  <1>1. AccountLogins(from) = E \cup L
    BY DEF AccountLogins, EarlierLogins, LoginsIn, BudgetInv, BudgetTypeOK, LoginsArePast, Attempt
  <1>2. IsFiniteSet(E) /\ IsFiniteSet(L)
    <2>1. E \subseteq logins
      BY DEF AccountLogins, EarlierLogins
    <2> QED
      BY <2>1, FS_Subset, LoginsInFinite DEF BudgetInv, LoginsArePast
  <1>3. Cardinality(E) <= (life - 1) * MaxAttempts /\ Cardinality(L) <= MaxAttempts
    BY DEF EarlierBound, BudgetInv, BudgetTypeOK, LoginWindowBound
  <1> HIDE DEF E, L
  <1>4. Cardinality(E \cup L) = Cardinality(E) + Cardinality(L) - Cardinality(E \cap L)
    BY <1>2, FS_Union
  <1>5. /\ Cardinality(E) \in Nat /\ Cardinality(L) \in Nat
        /\ Cardinality(E \cap L) \in Nat
    BY <1>2, FS_Intersection, FS_CardinalityType
  <1>6. Cardinality(E \cup L) <= (life - 1) * MaxAttempts + MaxAttempts
    <2>1. (life - 1) * MaxAttempts \in Int /\ MaxAttempts \in Int
      BY DEF BudgetInv, BudgetTypeOK, BudgetAssumption
    <2> QED
      BY <1>3, <1>4, <1>5, <2>1
  <1>7. (life - 1) * MaxAttempts + MaxAttempts = life * MaxAttempts
    BY DEF BudgetInv, BudgetTypeOK, BudgetAssumption
  <1> QED
    BY <1>1, <1>6, <1>7

\* A new coordinator leaves a full budget behind at most; nothing else adds
\* to what earlier coordinators did.
LEMMA EarlierBoundInductive ==
  ASSUME BudgetAssumption, BudgetInv, EarlierBound, [BudgetNext]_budgetVars
  PROVE  EarlierBound'
  <1>1. CASE NewCoordinator
    <2>1. \A from : EarlierLogins(from)' = AccountLogins(from)
      BY <1>1 DEF NewCoordinator, EarlierLogins, AccountLogins, BudgetInv, BudgetTypeOK,
                  LoginsArePast, Attempt
    <2>2. life' - 1 = life
      BY <1>1 DEF NewCoordinator, BudgetInv, BudgetTypeOK
    <2> QED
      BY <2>1, <2>2, OneBudgetMore DEF EarlierBound, OneBudgetPerSetup
  <1>2. CASE life' = life /\ \A from : EarlierLogins(from)' = EarlierLogins(from)
    BY <1>2 DEF EarlierBound
  <1>3. CASE SpendReloginBudget
    <2>1. NewAttempt.life = life
      BY DEF NewAttempt
    <2>2. life \in Nat
      BY DEF BudgetInv, BudgetTypeOK
    <2>3. \A from : EarlierLogins(from)' = EarlierLogins(from)
      BY <1>3, <2>1, <2>2 DEF SpendReloginBudget, EarlierLogins, AccountLogins
    <2> QED
      BY <1>2, <1>3, <2>3 DEF SpendReloginBudget
  <1>4. CASE RefuseRelogin \/ Tick \/ UNCHANGED budgetVars
    BY <1>2, <1>4 DEF RefuseRelogin, Tick, budgetVars, EarlierLogins, AccountLogins
  <1> QED
    BY <1>1, <1>3, <1>4 DEF BudgetNext

\* const.py promises its bound for the account and the code keeps it for a
\* coordinator.  What the account sees in any window is one such bound for
\* each time the entry has been set up, and no more.
THEOREM AccountSeesABudgetPerSetup == BudgetSpec => []OneBudgetPerSetup
  <1>1. BudgetInit => BudgetInv /\ EarlierBound
    <2> SUFFICES ASSUME BudgetInit
                 PROVE  EarlierBound
      BY BudgetAssumption, InitEstablishesInv
    <2>1. \A from : EarlierLogins(from) = {}
      BY DEF BudgetInit, EarlierLogins, AccountLogins
    <2>2. life - 1 = 0 /\ 0 * MaxAttempts = 0
      BY BudgetAssumption DEF BudgetInit, BudgetAssumption
    <2> QED
      BY <2>1, <2>2, FS_EmptySet DEF EarlierBound
  <1>2. BudgetInv /\ EarlierBound /\ [BudgetNext]_budgetVars => BudgetInv' /\ EarlierBound'
    BY BudgetAssumption, BudgetInvInductive, EarlierBoundInductive
  <1>3. BudgetInv /\ EarlierBound => OneBudgetPerSetup
    BY BudgetAssumption, OneBudgetMore
  <1> QED
    BY <1>1, <1>2, <1>3, PTL DEF BudgetSpec

\* So the promise holds as it stands until the entry is set up anew.
THEOREM PromiseKeptUntilSetUpAnew == BudgetSpec => [](life = 1 => AccountWindowBound)
  <1>1. OneBudgetPerSetup => (life = 1 => AccountWindowBound)
    <2> SUFFICES ASSUME OneBudgetPerSetup, life = 1
                 PROVE  AccountWindowBound
      OBVIOUS
    <2>1. life * MaxAttempts = MaxAttempts
      BY BudgetAssumption DEF BudgetAssumption
    <2> QED
      BY <2>1 DEF OneBudgetPerSetup, AccountLogins, AccountWindowBound
  <1> QED
    BY <1>1, AccountSeesABudgetPerSetup, PTL

============================================================================
