--------------------------- MODULE ReloginBudget ---------------------------
(***************************************************************************)
(* The sliding-window budget every silent re-login is taken from           *)
(* (AlwaysFullCoordinator._spend_relogin_budget).  The poll path and the   *)
(* five write platforms share one budget per coordinator; Home Assistant   *)
(* builds a new coordinator, with an empty list, every time it sets the    *)
(* entry up.                                                               *)
(*                                                                         *)
(* An entry of the Python list is a monotonic time.  Here it is a record   *)
(* that also carries a serial number, so that two attempts at one reading  *)
(* of the clock stay two entries of the set, and the life (coordinator)    *)
(* it was made in.                                                         *)
(***************************************************************************)
EXTENDS Naturals, FiniteSets

CONSTANTS
    MaxAttempts,    \* RELOGIN_MAX_ATTEMPTS
    Window,         \* RELOGIN_WINDOW_SECONDS, in ticks of the clock
    MaxTime,        \* bound: the last reading of the clock
    MaxLives        \* bound: how often the entry is set up

ASSUME BudgetAssumption ==
    /\ MaxAttempts \in Nat \ {0}
    /\ Window \in Nat \ {0}
    /\ MaxTime \in Nat
    /\ MaxLives \in Nat \ {0}

VARIABLES
    now,                \* time.monotonic()
    life,               \* which coordinator object is the current one
    relogin_attempts,   \* coordinator._relogin_attempts
    logins              \* history: every re-login ever attempted

budgetVars == <<now, life, relogin_attempts, logins>>

Attempt == [n : Nat \ {0}, at : Nat, life : Nat]

BudgetTypeOK ==
    /\ now \in 0 .. MaxTime
    /\ life \in 1 .. MaxLives
    /\ relogin_attempts \subseteq Attempt
    /\ logins \subseteq Attempt

----------------------------------------------------------------------------

\* Faulty variant: nothing ever leaves the list.
RecentWithoutPrune == relogin_attempts

\* The list comprehension that drops what has left the window.
Recent == {a \in relogin_attempts : now - a.at < Window}

\* Faulty variant: > for >=.
BudgetSpentTooLate == Cardinality(Recent) > MaxAttempts

BudgetSpent == Cardinality(Recent) >= MaxAttempts

NewAttempt == [n |-> Cardinality(logins) + 1, at |-> now, life |-> life]

BudgetInit ==
    /\ now = 0
    /\ life = 1
    /\ relogin_attempts = {}
    /\ logins = {}

\* The attempt is recorded before the login request is sent.
SpendReloginBudget ==
    /\ ~ BudgetSpent
    /\ relogin_attempts' = Recent \cup {NewAttempt}
    /\ logins' = logins \cup {NewAttempt}
    /\ UNCHANGED <<now, life>>

\* Faulty variant: the attempt is appended before the length is tested, so
\* a refusal is charged like a login.
RefuseReloginAndCharge ==
    /\ BudgetSpent
    /\ relogin_attempts' = Recent \cup {NewAttempt}
    /\ UNCHANGED <<now, life, logins>>

\* AlwaysFullReloginThrottledError.  The pruned list has been assigned by then.
RefuseRelogin ==
    /\ BudgetSpent
    /\ relogin_attempts' = Recent
    /\ UNCHANGED <<now, life, logins>>

Tick ==
    /\ now < MaxTime
    /\ now' = now + 1
    /\ UNCHANGED <<life, relogin_attempts, logins>>

\* A new coordinator: a reload, or a retry after ConfigEntryNotReady.
NewCoordinator ==
    /\ life < MaxLives
    /\ life' = life + 1
    /\ relogin_attempts' = {}
    /\ UNCHANGED <<now, logins>>

BudgetNext == SpendReloginBudget \/ RefuseRelogin \/ Tick \/ NewCoordinator

BudgetSpec == BudgetInit /\ [][BudgetNext]_budgetVars

----------------------------------------------------------------------------

LoginsIn(l, from) ==
    {a \in logins : a.life = l /\ from <= a.at /\ a.at < from + Window}

\* One coordinator never attempts more than MaxAttempts re-logins in any
\* window of Window seconds, wherever the window starts: the sliding prune
\* of _spend_relogin_budget loses no attempt that still counts.
LoginWindowBound ==
    \A l \in 1 .. MaxLives, from \in 0 .. MaxTime :
        Cardinality(LoginsIn(l, from)) <= MaxAttempts

\* A re-login is held back only if MaxAttempts real logins were attempted in
\* the window that ends now: neither refusals nor the previous coordinator's
\* attempts count, so waiting always refills the budget.
HeldBackOnlyByLogins ==
    BudgetSpent =>
        Cardinality({a \in logins : a.life = life /\ now - a.at < Window}) = MaxAttempts

\* const.py: "How many re-logins this integration will attempt for one
\* account in any RELOGIN_WINDOW_SECONDS" -- for the account, not for one
\* coordinator object.
AccountWindowBound ==
    \A from \in 0 .. MaxTime :
        Cardinality({a \in logins : from <= a.at /\ a.at < from + Window}) <= MaxAttempts

============================================================================
