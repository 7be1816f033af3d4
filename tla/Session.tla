------------------------------ MODULE Session ------------------------------
(***************************************************************************)
(* One account's session, shared by the poll, the writes and the clients   *)
(* of other people.  The vendor keeps a single session per account: every  *)
(* login ends the session before it.  A rejected token is worth one silent *)
(* re-login and one retry, taken from the budget of ReloginBudget, on the  *)
(* poll path (AlwaysFullCoordinator._async_update_data) and on the write   *)
(* path (entity.async_send_write) alike.  Writes queue for the             *)
(* coordinator's write lock; the poll does not take it.                    *)
(*                                                                         *)
(* Between two awaits the code runs alone, so a step is one await's worth: *)
(* an answer arrives, is handled, and the next request leaves with the     *)
(* token of that moment.  Only the login's answer is split in two, at the  *)
(* vendor and at the client, because the new session is valid in between   *)
(* while the client still holds the old token.                             *)
(***************************************************************************)
EXTENDS ReloginBudget, Sequences

CONSTANTS
    Poll,           \* the process that polls
    Writers,        \* the write platforms, one operation at a time each
    PollRequests,   \* how many requests one poll makes, in sequence
    FaultKinds,     \* the failures the vendor or the network may answer with
    MayChangePassword,  \* whether the owner may change the account's password
    MaxEvictions,   \* bound: logins of other clients
    MaxFaults,      \* bound: failed requests
    MaxWrites,      \* bound: writes started
    QuietFrom       \* bound: nothing disturbs the account from this time on

ASSUME SessionAssumption ==
    /\ Poll \notin Writers
    /\ PollRequests \in Nat \ {0}
    /\ FaultKinds \subseteq {"rate", "transport", "malformed"}
    /\ MayChangePassword \in BOOLEAN
    /\ {MaxEvictions, MaxFaults, MaxWrites, QuietFrom} \subseteq Nat

VARIABLES
    session,            \* the vendor: the number of the one valid session
    passwordOK,         \* the vendor: the entry's password is the account's
    token,              \* client.token
    storedToken,        \* entry.data[CONF_TOKEN], never written by a re-login
    op,                 \* op[p]: what process p is waiting for
    lockQueue,          \* the write lock: its holder, then its waiters
    phase,              \* where the entry's setup stands
    timer,              \* Home Assistant's poll timer is armed
    refreshPending,     \* a requested refresh waits for the debouncer
    lastUpdateSuccess,  \* coordinator.last_update_success
    reauth,             \* a reauth prompt is open
    told,               \* told[w]: what the last write's caller was told
    effect,             \* history: what that write did to the vendor
    count               \* history: what the bounds count

vendorVars == <<session, passwordOK>>
haVars == <<phase, timer, refreshPending, lastUpdateSuccess, reauth, storedToken>>
writeVars == <<told, effect>>
sessionVars == <<vendorVars, token, op, lockQueue, haVars, writeVars, count>>
vars == <<budgetVars, sessionVars>>

Procs == {Poll} \cup Writers

\* What a request can raise, by exception class.  "credentials" is a
\* subclass of "auth"; "throttled" and "rate" are not.
AuthErrors == {"auth", "credentials"}

Answers == {"none", "ok", "unchanged", "unknown", "reauth", "raw"}

Idle == [pc |-> "idle", tok |-> 0, req |-> 0, minted |-> 0]

\* A request leaves with the client's token of that moment.
Request(tok, req, minted) == [pc |-> "request", tok |-> tok, req |-> req, minted |-> minted]

Waiting(p, pc) == [op[p] EXCEPT !.pc = pc]

\* How often a write was applied, how many of its requests may yet take
\* effect, and whether one of them was refused for its session.
EffectRecord == [applied : Nat, late : Nat, refused : BOOLEAN]

NoEffect == [applied |-> 0, late |-> 0, refused |-> FALSE]

\* A request whose outcome is not known did nothing, was applied, or will
\* be applied later.
Unknown(x) == {x, [x EXCEPT !.applied = @ + 1], [x EXCEPT !.late = @ + 1]}

\* The write w is answered, and what its request did is one of `outcomes'.
Leaves(w, outcomes) == \E x \in outcomes : effect' = [effect EXCEPT ![w] = x]

TypeOK ==
    /\ BudgetTypeOK
    /\ {session, token, storedToken} \subseteq Nat
    /\ passwordOK \in BOOLEAN
    /\ op \in [Procs -> [pc : {"idle", "queued", "request", "login", "minted", "reconcile"},
                         tok : Nat, req : Nat, minted : Nat]]
    /\ lockQueue \in Seq(Writers)
    /\ phase \in {"setup", "loaded", "retry", "failed"}
    /\ {timer, refreshPending, lastUpdateSuccess, reauth} \subseteq BOOLEAN
    /\ told \in [Writers -> Answers]
    /\ effect \in [Writers -> EffectRecord]
    /\ count \in [evictions : Nat, faults : Nat, writes : Nat]

\* The entry is set up with a stored token that an earlier session's
\* in-memory re-login may long have replaced.
Init ==
    /\ BudgetInit
    /\ session = 1
    /\ storedToken \in {0, 1}
    /\ token = storedToken
    /\ passwordOK = TRUE
    /\ op = [p \in Procs |-> IF p = Poll THEN Request(storedToken, 1, 0) ELSE Idle]
    /\ lockQueue = << >>
    /\ phase = "setup"
    /\ timer = FALSE
    /\ refreshPending = FALSE
    /\ lastUpdateSuccess = TRUE
    /\ reauth = FALSE
    /\ told = [w \in Writers |-> "none"]
    /\ effect = [w \in Writers |-> NoEffect]
    /\ count = [evictions |-> 0, faults |-> 0, writes |-> 0]

----------------------------------------------------------------------------
(* The poll's end: what _async_update_data returns or raises, and what     *)
(* Home Assistant's DataUpdateCoordinator makes of it.                     *)

\* A writer that awaited this refresh resumes, raises, and frees the lock.
EndPoll(ok, blamed) ==
    /\ op' = [p \in Procs |->
                IF p = Poll \/ op[p].pc = "reconcile" THEN Idle ELSE op[p]]
    /\ lockQueue' = IF \E w \in Writers : op[w].pc = "reconcile"
                    THEN Tail(lockQueue) ELSE lockQueue
    /\ lastUpdateSuccess' = ok
    /\ reauth' = (reauth \/ blamed)
    /\ timer' = ~ blamed
    /\ phase' = CASE phase # "setup" -> phase
                  [] ok -> "loaded"
                  [] blamed -> "failed"
                  [] OTHER -> "retry"
    /\ UNCHANGED <<refreshPending, storedToken, writeVars>>

\* Faulty variant: a held-back re-login taken for an authentication failure.
PollRaisesThrottledAsAuth(e) == EndPoll(FALSE, e \in AuthErrors \cup {"throttled"})

PollRaises(e) == EndPoll(FALSE, e \in AuthErrors)

----------------------------------------------------------------------------
(* The write's end: entity.async_send_write's outer handlers.              *)

\* Faulty variant: an ended write leaves the lock held.
EndWriteKeepsLock(w) ==
    /\ op' = [op EXCEPT ![w] = Idle]
    /\ UNCHANGED lockQueue

\* The write lock is released and the next waiter, if any, may take it.
EndWrite(w) ==
    /\ op' = [op EXCEPT ![w] = Idle]
    /\ lockQueue' = Tail(lockQueue)

\* async_request_refresh, awaited with the lock held: the debouncer either
\* runs the poll now, or has one running or cooling down and runs it later.
RequestRefresh(w) ==
    \/ /\ op[Poll].pc = "idle"
       /\ op' = [op EXCEPT ![Poll] = Request(token, 1, 0), ![w] = Waiting(w, "reconcile")]
       /\ UNCHANGED <<lockQueue, refreshPending>>
    \/ /\ refreshPending' = TRUE
       /\ EndWrite(w)

\* Faulty variant: str(TimeoutError()) is the empty string.
FailureMessageWithAHole(e) == IF e = "rate" THEN "unchanged" ELSE ""

\* Faulty variant: every failure is reported as a refusal.
FailureMessageAlwaysUnchanged(e) == "unchanged"

\* _write_failure_message.
FailureMessage(e) == IF e = "rate" THEN "unchanged" ELSE "unknown"

WriteRaises(w, e) ==
    /\ \/ /\ e = "credentials"
          /\ told' = [told EXCEPT ![w] = "reauth"]
          /\ reauth' = TRUE
          /\ EndWrite(w)
          /\ UNCHANGED refreshPending
       \* A malformed body raises ValueError, which is not one of WRITE_FAILURES.
       \/ /\ e = "malformed"
          /\ told' = [told EXCEPT ![w] = "raw"]
          /\ EndWrite(w)
          /\ UNCHANGED <<refreshPending, reauth>>
       \/ /\ e \notin {"credentials", "malformed"}
          /\ told' = [told EXCEPT ![w] = FailureMessage(e)]
          /\ RequestRefresh(w)
          /\ UNCHANGED reauth
    /\ UNCHANGED <<phase, timer, lastUpdateSuccess, storedToken>>

Raises(p, e) ==
    \/ p = Poll /\ PollRaises(e)
    \/ p \in Writers /\ WriteRaises(p, e)

----------------------------------------------------------------------------
(* Requests and their answers.                                             *)

Undisturbed == now >= QuietFrom

CountFault == count' = [count EXCEPT !.faults = @ + 1]

MayFail == count.faults < MaxFaults /\ ~ Undisturbed

\* The coordinator's write lock is per account; a waiter that reaches the
\* head of the queue sends its request.
TakeLock(w) ==
    /\ op[w].pc = "queued"
    /\ lockQueue # << >> /\ Head(lockQueue) = w
    /\ op' = [op EXCEPT ![w] = Request(token, 1, 0)]
    /\ UNCHANGED <<budgetVars, vendorVars, token, lockQueue, haVars, writeVars, count>>

\* Home Assistant does not call a service on an unavailable entity.  What
\* an earlier call of the same platform may yet do is not this call's.
StartWrite(w) ==
    /\ phase = "loaded" /\ lastUpdateSuccess
    /\ op[w].pc = "idle"
    /\ count.writes < MaxWrites /\ ~ Undisturbed
    /\ count' = [count EXCEPT !.writes = @ + 1]
    /\ op' = [op EXCEPT ![w] = Waiting(w, "queued")]
    /\ lockQueue' = Append(lockQueue, w)
    /\ told' = [told EXCEPT ![w] = "none"]
    /\ effect' = [effect EXCEPT ![w] = NoEffect]
    /\ UNCHANGED <<budgetVars, vendorVars, token, haVars>>

\* The timer, or the debouncer at the end of its cooldown, starts a poll.
StartPoll ==
    /\ phase = "loaded"
    /\ op[Poll].pc = "idle"
    /\ \/ timer /\ UNCHANGED refreshPending
       \/ refreshPending /\ refreshPending' = FALSE
    /\ op' = [op EXCEPT ![Poll] = Request(token, 1, 0)]
    /\ UNCHANGED <<budgetVars, vendorVars, token, lockQueue, writeVars, count,
                   phase, timer, lastUpdateSuccess, reauth, storedToken>>

PollAnswered ==
    /\ op[Poll].pc = "request" /\ op[Poll].tok = session
    /\ \/ /\ op[Poll].req < PollRequests
          /\ op' = [op EXCEPT ![Poll] = Request(token, @.req + 1, @.minted)]
          /\ UNCHANGED <<lockQueue, haVars, writeVars>>
       \/ /\ op[Poll].req = PollRequests
          /\ EndPoll(TRUE, FALSE)
    /\ UNCHANGED <<budgetVars, vendorVars, token, count>>

\* A config write publishes what it sent; a device-row write asks for a poll.
WriteAnswered(w) ==
    /\ op[w].pc = "request" /\ op[w].tok = session
    /\ effect' = [effect EXCEPT ![w].applied = @ + 1]
    /\ told' = [told EXCEPT ![w] = "ok"]
    /\ \/ EndWrite(w) /\ UNCHANGED refreshPending
       \/ RequestRefresh(w)
    /\ UNCHANGED <<budgetVars, vendorVars, token, count, phase, timer,
                   lastUpdateSuccess, reauth, storedToken>>

\* Faulty variant: the re-login is recorded but the budget is not tested.
RejectedUnbudgeted(p) ==
    \/ /\ op[p].minted = 0
       /\ relogin_attempts' = Recent \cup {NewAttempt}
       /\ logins' = logins \cup {NewAttempt}
       /\ UNCHANGED <<now, life>>
       /\ op' = [op EXCEPT ![p] = Waiting(p, "login")]
       /\ UNCHANGED <<lockQueue, haVars, told>>
    \/ /\ op[p].minted # 0
       /\ Raises(p, "auth")
       /\ UNCHANGED budgetVars

\* async_relogin, or the second rejection after one.
Rejected(p) ==
    \/ /\ op[p].minted = 0
       /\ SpendReloginBudget
       /\ op' = [op EXCEPT ![p] = Waiting(p, "login")]
       /\ UNCHANGED <<lockQueue, haVars, told>>
    \/ /\ op[p].minted = 0
       /\ RefuseRelogin
       /\ Raises(p, "throttled")
    \/ /\ op[p].minted # 0
       /\ Raises(p, "auth")
       /\ UNCHANGED budgetVars

\* Whether a write refused for its session was applied is not settled
\* (_write_failure_message), and the retry sends it again all the same.
RequestRejected(p) ==
    /\ op[p].pc = "request" /\ op[p].tok # session
    /\ \/ p = Poll /\ UNCHANGED effect
       \/ p \in Writers /\ Leaves(p, Unknown([effect[p] EXCEPT !.refused = TRUE]))
    /\ Rejected(p)
    /\ UNCHANGED <<vendorVars, token, count>>

\* Faulty variant: one silent retry after any failure, not only a rejection.
RequestFailsAndRetries(p) ==
    /\ op[p].pc = "request" /\ MayFail
    /\ \E e \in FaultKinds :
          /\ \/ (p = Poll \/ e = "rate") /\ UNCHANGED effect
             \/ p \in Writers /\ e # "rate" /\ Leaves(p, Unknown(effect[p]))
          /\ \/ op[p].minted = 0 /\ Rejected(p)
             \/ op[p].minted # 0 /\ Raises(p, e) /\ UNCHANGED budgetVars
    /\ CountFault
    /\ UNCHANGED <<vendorVars, token>>

\* A rate limit refuses the request at the gate.  Any other failure of a
\* write leaves open whether the vendor took it, or is yet to: an error was
\* measured whose value landed seven seconds later.
RequestFails(p) ==
    /\ op[p].pc = "request" /\ MayFail
    /\ \E e \in FaultKinds :
          /\ \/ (p = Poll \/ e = "rate") /\ UNCHANGED effect
             \/ p \in Writers /\ e # "rate" /\ Leaves(p, Unknown(effect[p]))
          /\ Raises(p, e)
    /\ CountFault
    /\ UNCHANGED <<budgetVars, vendorVars, token>>

\* The vendor mints a session: the one before it is gone at once.
LoginAnswered(p) ==
    /\ op[p].pc = "login" /\ passwordOK
    /\ session' = session + 1
    /\ op' = [op EXCEPT ![p] = [Waiting(p, "minted") EXCEPT !.minted = session + 1]]
    /\ UNCHANGED <<budgetVars, passwordOK, token, lockQueue, haVars, writeVars, count>>

\* client.login stores the token, and the operation starts over with it.
LoginDelivered(p) ==
    /\ op[p].pc = "minted"
    /\ token' = op[p].minted
    /\ op' = [op EXCEPT ![p] = Request(@.minted, 1, @.minted)]
    /\ UNCHANGED <<budgetVars, vendorVars, lockQueue, haVars, writeVars, count>>

\* 652/602 from the login endpoint.
LoginRejected(p) ==
    /\ op[p].pc = "login" /\ ~ passwordOK
    /\ Raises(p, "credentials")
    /\ UNCHANGED <<budgetVars, vendorVars, token, effect, count>>

\* The login fails, or its answer is lost after the vendor minted a session.
LoginFails(p) ==
    /\ op[p].pc \in {"login", "minted"} /\ MayFail
    /\ \E e \in FaultKinds :
          /\ op[p].pc = "minted" => e # "rate"
          /\ Raises(p, e)
    /\ CountFault
    /\ UNCHANGED <<budgetVars, vendorVars, token, effect>>

----------------------------------------------------------------------------
(* The environment and the entry's life.                                   *)

\* What a request was answered with an error for takes effect after all.
LateEffect(w) ==
    /\ effect[w].late > 0
    /\ effect' = [effect EXCEPT ![w].applied = @ + 1, ![w].late = @ - 1]
    /\ UNCHANGED <<budgetVars, vendorVars, token, op, lockQueue, haVars, told, count>>

\* The phone app, or a second Home Assistant.
OtherClientLogin ==
    /\ count.evictions < MaxEvictions /\ ~ Undisturbed
    /\ count' = [count EXCEPT !.evictions = @ + 1]
    /\ session' = session + 1
    /\ UNCHANGED <<budgetVars, passwordOK, token, op, lockQueue, haVars, writeVars>>

ChangePassword ==
    /\ MayChangePassword /\ passwordOK /\ ~ Undisturbed
    /\ passwordOK' = FALSE
    /\ UNCHANGED <<budgetVars, session, token, op, lockQueue, haVars, writeVars, count>>

\* async_setup_entry: a client with the entry's token, a new coordinator,
\* and its first refresh.
SetUpEntry(tok) ==
    /\ NewCoordinator
    /\ token' = tok
    /\ op' = [op EXCEPT ![Poll] = Request(tok, 1, 0)]
    /\ phase' = "setup"
    /\ timer' = FALSE
    /\ refreshPending' = FALSE
    /\ lastUpdateSuccess' = TRUE
    /\ UNCHANGED <<lockQueue, writeVars, count>>

\* Home Assistant sets up again an entry that was not ready.
RetrySetup ==
    /\ phase = "retry"
    /\ SetUpEntry(storedToken)
    /\ UNCHANGED <<vendorVars, storedToken, reauth>>

\* The reauth form, filled in with the right password: it logs in with a
\* client of its own, stores the token and reloads the entry.
UserReauthenticates ==
    /\ reauth
    /\ \A p \in Procs : op[p].pc = "idle"
    /\ session' = session + 1
    /\ passwordOK' = TRUE
    /\ storedToken' = session + 1
    /\ reauth' = FALSE
    /\ SetUpEntry(session + 1)

ClockTick == Tick /\ UNCHANGED sessionVars

ProcStep(p) ==
    \/ RequestRejected(p) \/ RequestFails(p)
    \/ LoginAnswered(p) \/ LoginDelivered(p) \/ LoginRejected(p) \/ LoginFails(p)

WriterStep(w) == TakeLock(w) \/ WriteAnswered(w) \/ ProcStep(w)

PollStep == PollAnswered \/ ProcStep(Poll)

Next ==
    \/ PollStep \/ StartPoll
    \/ \E w \in Writers : WriterStep(w) \/ StartWrite(w)
    \/ \E w \in Writers : LateEffect(w)
    \/ OtherClientLogin \/ ChangePassword
    \/ RetrySetup \/ UserReauthenticates
    \/ ClockTick

Spec == Init /\ [][Next]_vars

\* Requests are answered or time out (every answer the code waits for is one
\* of ProcStep's), the lock is handed on, the timer fires, the clock runs and
\* Home Assistant retries a setup.  Nobody is made to write, log in, change
\* a password or answer a prompt.
Fairness ==
    /\ WF_vars(PollStep)
    /\ \A w \in Writers : WF_vars(WriterStep(w))
    /\ WF_vars(StartPoll)
    /\ WF_vars(RetrySetup)
    /\ WF_vars(ClockTick)

FairSpec == Spec /\ Fairness

----------------------------------------------------------------------------
(* Properties.                                                             *)

\* What w's requests did to the vendor, and may yet do.
Effects(w) == effect[w].applied + effect[w].late

\* What a request refused for its session may have done: nobody knows.
Doubt(w) == IF effect[w].refused THEN 1 ELSE 0

\* What the user is told of a write is true of the vendor, then and for ever
\* after, as far as anyone can know it.  "ok" means that the write was
\* applied.  "Nothing was changed" and the reauth prompt mean that it was
\* not and never will be, unless its first request was refused for its
\* session; and only such a write can take effect a second time: no request
\* whose answer was an error, a timeout or a rate limit is repeated.
ToldTheTruth ==
    \A w \in Writers :
        /\ Effects(w) <= 1 + Doubt(w)
        /\ told[w] = "ok" => effect[w].applied >= 1
        /\ told[w] \in {"unchanged", "reauth"} => Effects(w) <= Doubt(w)

\* The writers whose call has not returned.
Pending == {w \in Writers : op[w].pc # "idle"}

\* Each call of a service keeps the promise of WriteContract, step by step:
\* through evictions, re-logins, held-back re-logins and lost answers it is
\* answered once, sends a second request only after a refused one and none
\* after its answer, and all that happens to the vendor after that is the
\* late effect of a request whose outcome the answer left open
\* (entity.async_send_write, UNKNOWN_OUTCOME and _write_failure_message).
Contract == INSTANCE WriteContract WITH pending <- Pending

KeepsContract == Contract!Spec

\* With the right password a reauth prompt opens only when the poll's own
\* fresh session has been rejected in turn: never for a rate limit, a spent
\* budget, a timeout, a malformed body or a single rejected token.
PromptNeedsSecondRejection ==
    [][~ reauth /\ reauth' =>
        \/ ~ passwordOK
        \/ op[Poll].pc = "request" /\ op[Poll].minted # 0 /\ op[Poll].tok # session]_vars

\* coordinator.py: "Second failure: the stored credentials really are wrong."
PromptOnlyIfPasswordWrong == reauth => ~ passwordOK

\* entity.py: "A failed write requests a reconciliation": by the time the
\* caller is told of a failure other than reauth, a poll is under way or due.
FailedWriteRereads ==
    [][\A w \in Writers :
        told[w] = "none" /\ told'[w] \in {"unknown", "unchanged", "raw"} =>
            refreshPending' \/ op'[Poll].pc # "idle"]_vars

\* Every write ends and frees the lock: nothing waits on itself, although a
\* failed write awaits a poll with the lock held.
WritesEnd == \A w \in Writers : op[w].pc # "idle" ~> op[w].pc = "idle"

\* The clock of the model has ended, and the logins of its last window are
\* still in the budget.
ClockEndedTooSoon ==
    /\ now = MaxTime
    /\ Cardinality({a \in logins : a.life = life /\ now - a.at < Window}) >= MaxAttempts

\* Once nothing disturbs the account, the entry recovers by itself -- the
\* budget refills, a poll succeeds and every later one does -- unless a
\* reauth prompt is open.
Recovers ==
    <>[](\/ reauth
         \/ phase = "loaded" /\ lastUpdateSuccess
         \/ ClockEndedTooSoon)

============================================================================
