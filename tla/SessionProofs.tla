--------------------------- MODULE SessionProofs ---------------------------
(***************************************************************************)
(* What holds of an account's session for every set of writers, length of  *)
(* a poll and size of the budget: its re-logins are those of               *)
(* ReloginBudget, whatever the poll and the writes do to each other, and   *)
(* its users are told nothing of their writes that is not so.              *)
(***************************************************************************)
EXTENDS Session, ReloginBudgetProofs, SequenceTheorems

\* Every path to a login -- the poll's, a write's, a retry after either --
\* passes the budget, and nothing else in the session touches it.
LEMMA StepIsBudgetStep ==
  ASSUME [Next]_vars
  PROVE  [BudgetNext]_budgetVars
  <1> USE DEF BudgetNext
  <1>1. ASSUME NEW p \in Procs, ProcStep(p)
        PROVE  [BudgetNext]_budgetVars
    <2>1. CASE RequestRejected(p)
      BY <2>1 DEF RequestRejected, Rejected
    <2>2. CASE RequestFails(p) \/ LoginFails(p)
      BY <2>2 DEF RequestFails, LoginFails
    <2>3. CASE LoginAnswered(p) \/ LoginDelivered(p) \/ LoginRejected(p)
      BY <2>3 DEF LoginAnswered, LoginDelivered, LoginRejected
    <2> QED
      BY <1>1, <2>1, <2>2, <2>3 DEF ProcStep
  <1>2. CASE PollStep
    BY <1>1, <1>2 DEF PollStep, PollAnswered, Procs
  <1>3. CASE StartPoll
    BY <1>3 DEF StartPoll
  <1>4. ASSUME NEW w \in Writers, WriterStep(w) \/ StartWrite(w)
        PROVE  [BudgetNext]_budgetVars
    BY <1>1, <1>4 DEF WriterStep, TakeLock, WriteAnswered, StartWrite, Procs
  <1>5. CASE OtherClientLogin \/ ChangePassword
    BY <1>5 DEF OtherClientLogin, ChangePassword
  <1>6. CASE RetrySetup \/ UserReauthenticates
    BY <1>6 DEF RetrySetup, UserReauthenticates, SetUpEntry
  <1>7. CASE ClockTick
    BY <1>7 DEF ClockTick
  <1>8. ASSUME NEW w \in Writers, LateEffect(w)
        PROVE  [BudgetNext]_budgetVars
    BY <1>8 DEF LateEffect
  <1>9. CASE UNCHANGED vars
    BY <1>9 DEF vars
  <1> QED
    BY <1>2, <1>3, <1>4, <1>5, <1>6, <1>7, <1>8, <1>9 DEF Next

\* The session implements the budget it shares between the poll and the
\* writes: each of its steps is a step of ReloginBudget or leaves it alone.
THEOREM SessionKeepsTheBudget == Spec => BudgetSpec
  <1>1. Init => BudgetInit
    BY DEF Init
  <1>2. [Next]_vars => [BudgetNext]_budgetVars
    BY StepIsBudgetStep
  <1> QED
    BY <1>1, <1>2, PTL DEF Spec, BudgetSpec

\* So one coordinator never attempts more than MaxAttempts re-logins in any
\* window, whatever the poll, the writes, the other clients and the vendor
\* do to each other.
THEOREM SessionLoginWindowBound == Spec => []LoginWindowBound
  BY SessionKeepsTheBudget, WindowBoundHolds, PTL

\* Nor is a re-login of the poll or of a write held back without cause: a
\* refusal, a failed login or a previous coordinator uses up nothing.
THEOREM SessionHeldBackForCause == Spec => []HeldBackOnlyByLogins
  BY SessionKeepsTheBudget, HeldBackForCause, PTL

\* And the account as a whole sees one budget for each setup of the entry,
\* however many writers share it and whatever fails.
THEOREM SessionSeesABudgetPerSetup == Spec => []OneBudgetPerSetup
  BY SessionKeepsTheBudget, AccountSeesABudgetPerSetup, PTL

----------------------------------------------------------------------------
(* What the user is told.                                                  *)

OpRecord ==
    [pc : {"idle", "queued", "request", "login", "minted", "reconcile"},
     tok : Nat, req : Nat, minted : Nat]

\* TypeOK but for the budget's variables.
SessionTypeOK ==
    /\ {session, token, storedToken} \subseteq Nat
    /\ passwordOK \in BOOLEAN
    /\ op \in [Procs -> OpRecord]
    /\ lockQueue \in Seq(Writers)
    /\ phase \in {"setup", "loaded", "retry", "failed"}
    /\ {timer, refreshPending, lastUpdateSuccess, reauth} \subseteq BOOLEAN
    /\ told \in [Writers -> Answers]
    /\ effect \in [Writers -> EffectRecord]
    /\ count \in [evictions : Nat, faults : Nat, writes : Nat]

\* Whoever has gone past the queue holds the lock.
LockHeld ==
    \A w \in Writers :
        op[w].pc \in {"request", "login", "minted", "reconcile"} =>
            lockQueue # << >> /\ Head(lockQueue) = w

\* As long as a write is under way nobody was told anything of it, and it
\* has had no effect but what a refused request may have had: any other
\* answer ends it.  Before its re-login it has not been refused.  A write
\* that waits for its re-read has been answered.
OutcomeOpen ==
    \A w \in Writers :
        /\ op[w].pc \in {"queued", "request", "login", "minted"} =>
              told[w] = "none" /\ Effects(w) <= Doubt(w)
        /\ op[w].pc = "queued" => ~ effect[w].refused
        /\ op[w].pc = "request" /\ op[w].minted = 0 => ~ effect[w].refused
        /\ op[w].pc = "minted" => op[w].minted # 0
        /\ op[w].pc = "reconcile" => told[w] # "none"

SessionInv == SessionTypeOK /\ LockHeld /\ OutcomeOpen /\ ToldTheTruth

ErrorKinds == {"auth", "credentials", "throttled", "rate", "transport", "malformed"}

\* Initially nobody has written and nobody holds the lock.
LEMMA InitEstablishesSessionInv ==
  ASSUME Init, SessionAssumption
  PROVE  SessionInv
  <1> USE DEF Init
  <1>1. SessionTypeOK
    <2>1. op \in [Procs -> OpRecord]
      BY DEF OpRecord, Idle, Request
    <2>2. lockQueue \in Seq(Writers)
      OBVIOUS
    <2>3. told \in [Writers -> Answers] /\ effect \in [Writers -> EffectRecord]
      BY DEF Answers, NoEffect, EffectRecord
    <2>4. count \in [evictions : Nat, faults : Nat, writes : Nat]
      OBVIOUS
    <2>5. {session, token, storedToken} \subseteq Nat
      OBVIOUS
    <2> QED
      BY <2>1, <2>2, <2>3, <2>4, <2>5 DEF SessionTypeOK
  <1>2. \A w \in Writers : op[w] = Idle
    BY DEF SessionAssumption, Procs
  <1>3. LockHeld /\ OutcomeOpen
    BY <1>2 DEF LockHeld, OutcomeOpen, Idle
  <1>4. ToldTheTruth
    BY DEF ToldTheTruth, Effects, Doubt, NoEffect
  <1> QED
    BY <1>1, <1>3, <1>4 DEF SessionInv

\* What a request may have done that was not answered with success: one
\* effect at most, on this write alone.
LEMMA UnknownLeft ==
  ASSUME NEW w \in Writers, effect \in [Writers -> EffectRecord], NEW x \in EffectRecord,
         x.applied = effect[w].applied, x.late = effect[w].late,
         Leaves(w, Unknown(x))
  PROVE  /\ effect' \in [Writers -> EffectRecord]
         /\ \A v \in Writers : v # w => effect'[v] = effect[v]
         /\ effect'[w] \in Unknown(x)
         /\ effect'[w].refused = x.refused
         /\ Effects(w)' <= Effects(w) + 1
  <1>1. PICK y \in Unknown(x) : effect' = [effect EXCEPT ![w] = y]
    BY DEF Leaves
  <1>2. y \in EffectRecord /\ y.refused = x.refused /\ y.applied + y.late <= x.applied + x.late + 1
    <2>1. CASE y = x
      BY <2>1 DEF EffectRecord
    <2>2. CASE y = [x EXCEPT !.applied = @ + 1]
      BY <2>2 DEF EffectRecord
    <2>3. CASE y = [x EXCEPT !.late = @ + 1]
      BY <2>3 DEF EffectRecord
    <2> QED
      BY <1>1, <2>1, <2>2, <2>3 DEF Unknown
  <1>3. effect' \in [Writers -> EffectRecord] /\ effect'[w] = y
    BY <1>1, <1>2
  <1>4. \A v \in Writers : v # w => effect'[v] = effect[v]
    BY <1>1
  <1>5. Effects(w)' <= Effects(w) + 1
    BY <1>2, <1>3 DEF Effects
  <1> QED
    BY <1>1, <1>2, <1>3, <1>4, <1>5

\* The end of a poll frees the lock for a writer that awaited it.
LEMMA EndPollKeepsInv ==
  ASSUME SessionAssumption, SessionInv,
         NEW ok \in BOOLEAN, NEW blamed \in BOOLEAN, EndPoll(ok, blamed),
         UNCHANGED <<vendorVars, token>>,
         count' \in [evictions : Nat, faults : Nat, writes : Nat]
  PROVE  SessionInv'
  <1> USE DEF SessionInv, EndPoll, haVars, writeVars, vendorVars
  <1>1. \A w \in Writers : op'[w] = IF op[w].pc = "reconcile" THEN Idle ELSE op[w]
    BY DEF Procs, SessionAssumption
  <1>2. op' \in [Procs -> OpRecord]
    BY DEF SessionTypeOK, Idle, OpRecord, Procs
  <1>3. lockQueue' \in Seq(Writers)
    BY DEF SessionTypeOK, LockHeld
  <1>4. phase' \in {"setup", "loaded", "retry", "failed"}
    BY DEF SessionTypeOK
  <1>5. SessionTypeOK'
    BY <1>2, <1>3, <1>4 DEF SessionTypeOK
  <1>6. LockHeld'
    BY <1>1 DEF LockHeld, Idle
  <1>7. OutcomeOpen' /\ ToldTheTruth'
    BY <1>1 DEF OutcomeOpen, ToldTheTruth, Effects, Doubt, Idle
  <1> QED
    BY <1>5, <1>6, <1>7

\* The end of a write that holds the lock, once its outcome is told: no
\* other writer has passed the queue, so none loses the lock.
LEMMA EndingKeepsLock ==
  ASSUME SessionInv, SessionAssumption, NEW w \in Writers,
         op[w].pc \in {"request", "login", "minted"}, EndWrite(w)
  PROVE  /\ op' \in [Procs -> OpRecord]
         /\ lockQueue' \in Seq(Writers)
         /\ LockHeld'
         /\ \A v \in Writers : v # w => op'[v] = op[v]
         /\ op'[w] = Idle
  <1> USE DEF SessionInv, EndWrite
  <1>1. op' \in [Procs -> OpRecord] /\ op'[w] = Idle
    <2>1. Idle \in OpRecord /\ w \in Procs
      BY DEF Idle, OpRecord, Procs
    <2> QED
      BY <2>1 DEF SessionTypeOK
  <1>2. \A v \in Writers : v # w => op'[v] = op[v]
    BY DEF SessionTypeOK, Procs
  <1>3. lockQueue' \in Seq(Writers)
    BY DEF SessionTypeOK, LockHeld
  <1>4. LockHeld'
    BY <1>1, <1>2 DEF LockHeld, Idle
  <1> QED
    BY <1>1, <1>2, <1>3, <1>4

\* The same of a write that asks for a refresh, and perhaps waits for it.
LEMMA RefreshingKeepsLock ==
  ASSUME SessionInv, SessionAssumption, NEW w \in Writers,
         op[w].pc \in {"request", "login", "minted"}, RequestRefresh(w)
  PROVE  /\ op' \in [Procs -> OpRecord]
         /\ lockQueue' \in Seq(Writers)
         /\ LockHeld'
         /\ refreshPending' \in BOOLEAN
         /\ \A v \in Writers : v # w => op'[v] = op[v]
         /\ op'[w].pc \in {"idle", "reconcile"}
  <1>1. CASE refreshPending' = TRUE /\ EndWrite(w)
    <2>1. op'[w].pc = "idle"
      BY <1>1, EndingKeepsLock DEF Idle
    <2> QED
      BY <1>1, <2>1, EndingKeepsLock
  <1>2. CASE /\ op' = [op EXCEPT ![Poll] = Request(token, 1, 0), ![w] = Waiting(w, "reconcile")]
             /\ UNCHANGED <<lockQueue, refreshPending>>
    <2> USE <1>2 DEF SessionInv
    <2>1. w # Poll /\ Poll \in Procs /\ w \in Procs
      BY DEF Procs, SessionAssumption
    <2>2. op' \in [Procs -> OpRecord]
      BY <2>1 DEF SessionTypeOK, Request, Waiting, OpRecord
    <2>3. /\ \A v \in Writers : v # w => op'[v] = op[v]
          /\ op'[w].pc = "reconcile"
      BY <2>1 DEF SessionTypeOK, Waiting, Procs, SessionAssumption
    <2>4. LockHeld'
      BY <2>3 DEF LockHeld
    <2> QED
      BY <2>2, <2>3, <2>4 DEF SessionTypeOK
  <1> QED
    BY <1>1, <1>2 DEF RequestRefresh

Counts == [evictions : Nat, faults : Nat, writes : Nat]

\* A write that raises tells its caller no more than is known: whatever the
\* failure was, it left one effect open at most besides that of a refused
\* request, and none if it was refused at the gate or for its credentials.
LEMMA WriteRaisesKeepsInv ==
  ASSUME SessionInv, SessionAssumption, NEW w \in Writers, NEW e \in ErrorKinds,
         op[w].pc \in {"request", "login", "minted"},
         WriteRaises(w, e),
         effect' \in [Writers -> EffectRecord],
         \A v \in Writers : v # w => effect'[v] = effect[v],
         Effects(w)' <= 1 + Doubt(w)',
         e \in {"rate", "credentials"} => Effects(w)' <= Doubt(w)',
         UNCHANGED <<vendorVars, token>>, count' \in Counts
  PROVE  SessionInv'
  <1> USE DEF SessionInv
  <1>1. /\ op' \in [Procs -> OpRecord]
        /\ lockQueue' \in Seq(Writers)
        /\ LockHeld'
        /\ \A v \in Writers : v # w => op'[v] = op[v]
        /\ op'[w].pc \in {"idle", "reconcile"}
        /\ refreshPending' \in BOOLEAN
    <2>1. CASE EndWrite(w) /\ UNCHANGED refreshPending
      <3>1. op'[w].pc = "idle"
        BY <2>1, EndingKeepsLock DEF Idle
      <3> QED
        BY <2>1, <3>1, EndingKeepsLock DEF SessionTypeOK
    <2>2. CASE RequestRefresh(w)
      BY <2>2, RefreshingKeepsLock
    <2> QED
      BY <2>1, <2>2 DEF WriteRaises
  <1>2. \E a \in {"reauth", "raw", "unchanged", "unknown"} :
           /\ told' = [told EXCEPT ![w] = a]
           /\ a \in {"unchanged", "reauth"} => e \in {"rate", "credentials"}
    BY DEF WriteRaises, FailureMessage
  <1>3. told' \in [Writers -> Answers]
    BY <1>2 DEF SessionTypeOK, Answers
  <1>4. reauth' \in BOOLEAN
    BY DEF WriteRaises, SessionTypeOK
  <1>5. SessionTypeOK'
    BY <1>1, <1>3, <1>4 DEF SessionTypeOK, WriteRaises, vendorVars, Counts
  <1>6. ToldTheTruth'
    <2> SUFFICES ASSUME NEW v \in Writers
                 PROVE  /\ Effects(v)' <= 1 + Doubt(v)'
                        /\ told'[v] = "ok" => effect'[v].applied >= 1
                        /\ told'[v] \in {"unchanged", "reauth"} => Effects(v)' <= Doubt(v)'
      BY DEF ToldTheTruth
    <2>1. CASE v = w
      BY <1>2, <2>1 DEF SessionTypeOK
    <2>2. CASE v # w
      <3>1. told'[v] = told[v] /\ effect'[v] = effect[v]
        BY <1>2, <2>2 DEF SessionTypeOK
      <3> QED
        BY <3>1 DEF ToldTheTruth, Effects, Doubt
    <2> QED
      BY <2>1, <2>2
  <1>7. OutcomeOpen'
    <2>1. \A v \in Writers : v # w => told'[v] = told[v]
      BY <1>2 DEF SessionTypeOK
    <2>2. told'[w] # "none"
      BY <1>2 DEF SessionTypeOK
    <2> QED
      BY <1>1, <2>1, <2>2 DEF OutcomeOpen, Effects, Doubt
  <1> QED
    BY <1>1, <1>5, <1>6, <1>7

\* So does any process that raises.
LEMMA RaisesKeepsInv ==
  ASSUME SessionInv, SessionAssumption, NEW p \in Procs, NEW e \in ErrorKinds,
         op[p].pc \in {"request", "login", "minted"},
         Raises(p, e),
         p = Poll \/ /\ p \in Writers
                     /\ effect' \in [Writers -> EffectRecord]
                     /\ \A v \in Writers : v # p => effect'[v] = effect[v]
                     /\ Effects(p)' <= 1 + Doubt(p)'
                     /\ e \in {"rate", "credentials"} => Effects(p)' <= Doubt(p)',
         UNCHANGED <<vendorVars, token>>, count' \in Counts
  PROVE  SessionInv'
  <1>1. CASE p = Poll
    <2>1. PollRaises(e)
      BY <1>1 DEF Raises, SessionAssumption
    <2>2. PICK blamed \in BOOLEAN : EndPoll(FALSE, blamed)
      <3>1. CASE e \in AuthErrors
        BY <2>1, <3>1 DEF PollRaises, EndPoll
      <3>2. CASE e \notin AuthErrors
        BY <2>1, <3>2 DEF PollRaises, EndPoll
      <3> QED
        BY <3>1, <3>2
    <2> QED
      BY <2>2, EndPollKeepsInv DEF Counts
  <1>2. CASE p \in Writers
    BY <1>2, WriteRaisesKeepsInv DEF Raises, SessionAssumption
  <1> QED
    BY <1>1, <1>2 DEF Procs

\* A step that only moves a process on, within its hold of the lock, and
\* ends nothing.
LEMMA MovingOnKeepsInv ==
  ASSUME SessionInv, SessionAssumption, NEW p \in Procs, NEW r \in OpRecord,
         op' = [op EXCEPT ![p] = r],
         p \in Writers =>
            /\ r.pc \in {"request", "login", "minted"}
            /\ \/ op[p].pc \in {"request", "login", "minted"} /\ r.minted # 0
               \/ op[p].pc \in {"request", "login", "minted"} /\ r.pc = "login"
               \/ /\ op[p].pc = "queued" /\ lockQueue # << >> /\ Head(lockQueue) = p
                  /\ r.pc = "request" /\ UNCHANGED effect
            /\ Effects(p)' <= Doubt(p)',
         effect' \in [Writers -> EffectRecord],
         \A v \in Writers : v # p => effect'[v] = effect[v],
         {session', token'} \subseteq Nat, passwordOK' \in BOOLEAN,
         UNCHANGED <<lockQueue, phase, timer, lastUpdateSuccess, reauth, storedToken, told>>,
         refreshPending' \in BOOLEAN, count' \in Counts
  PROVE  SessionInv'
  <1> USE DEF SessionInv
  <1>1. op' \in [Procs -> OpRecord]
    BY DEF SessionTypeOK
  <1>2. \A w \in Writers : op'[w] = IF w = p THEN r ELSE op[w]
    BY DEF SessionTypeOK, Procs
  <1>3. SessionTypeOK'
    BY <1>1 DEF SessionTypeOK, Counts
  <1>4. LockHeld'
    BY <1>2 DEF LockHeld
  <1>5. \A w \in Writers : w # p => Effects(w)' = Effects(w) /\ Doubt(w)' = Doubt(w)
    BY DEF Effects, Doubt
  <1>6. OutcomeOpen'
    <2> SUFFICES ASSUME NEW w \in Writers
                 PROVE  /\ op'[w].pc \in {"queued", "request", "login", "minted"} =>
                              told'[w] = "none" /\ Effects(w)' <= Doubt(w)'
                        /\ op'[w].pc = "queued" => ~ effect'[w].refused
                        /\ op'[w].pc = "request" /\ op'[w].minted = 0 => ~ effect'[w].refused
                        /\ op'[w].pc = "minted" => op'[w].minted # 0
                        /\ op'[w].pc = "reconcile" => told'[w] # "none"
      BY DEF OutcomeOpen
    <2>1. CASE w = p
      <3>1. told[w] = "none"
        BY <2>1 DEF OutcomeOpen
      <3>2. op'[w] = r
        BY <1>2, <2>1
      <3> QED
        BY <2>1, <3>1, <3>2 DEF OutcomeOpen
    <2>2. CASE w # p
      BY <1>2, <1>5, <2>2 DEF OutcomeOpen
    <2> QED
      BY <2>1, <2>2
  <1>7. ToldTheTruth'
    <2>1. \A w \in Writers : w = p => told[w] = "none" /\ Effects(w)' <= Doubt(w)'
      BY DEF OutcomeOpen
    <2>2. \A w \in Writers : w = p => Effects(w)' <= 1 + Doubt(w)'
      BY <2>1 DEF Effects, Doubt, EffectRecord
    <2> QED
      BY <1>5, <2>1, <2>2 DEF ToldTheTruth
  <1> QED
    BY <1>3, <1>4, <1>6, <1>7

----------------------------------------------------------------------------

\* A rejected token: one more login, or the end of the operation.  What the
\* rejected request of a write did remains in doubt.
LEMMA RequestRejectedKeepsInv ==
  ASSUME SessionInv, SessionAssumption, NEW p \in Procs, RequestRejected(p)
  PROVE  SessionInv'
  <1> USE DEF RequestRejected
  <1>0. count' \in Counts
    BY DEF SessionInv, SessionTypeOK, Counts
  <1>1. p = Poll \/ /\ p \in Writers
                    /\ effect' \in [Writers -> EffectRecord]
                    /\ \A v \in Writers : v # p => effect'[v] = effect[v]
                    /\ Effects(p)' <= 1 + Doubt(p)'
                    /\ Effects(p) = 0 => Effects(p)' <= Doubt(p)'
    <2> SUFFICES ASSUME p \in Writers, Leaves(p, Unknown([effect[p] EXCEPT !.refused = TRUE]))
                 PROVE  /\ effect' \in [Writers -> EffectRecord]
                        /\ \A v \in Writers : v # p => effect'[v] = effect[v]
                        /\ Effects(p)' <= 1 + Doubt(p)'
                        /\ Effects(p) = 0 => Effects(p)' <= Doubt(p)'
      BY DEF Procs, SessionAssumption
    <2> DEFINE x == [effect[p] EXCEPT !.refused = TRUE]
    <2>1. effect \in [Writers -> EffectRecord] /\ effect[p] \in EffectRecord
      BY DEF SessionInv, SessionTypeOK
    <2>2. /\ x \in EffectRecord /\ x.refused = TRUE
          /\ x.applied = effect[p].applied /\ x.late = effect[p].late
      BY <2>1 DEF EffectRecord
    <2>3. Effects(p) <= Doubt(p)
      BY DEF SessionInv, OutcomeOpen
    <2> HIDE DEF x
    <2>4. /\ effect' \in [Writers -> EffectRecord]
          /\ \A v \in Writers : v # p => effect'[v] = effect[v]
          /\ effect'[p].refused /\ Effects(p)' <= Effects(p) + 1
      BY <2>1, <2>2, UnknownLeft DEF x
    <2>5. Effects(p) \in Nat /\ Effects(p)' \in Nat /\ Doubt(p) \in {0, 1} /\ Doubt(p)' = 1
      BY <2>1, <2>4 DEF Effects, Doubt, EffectRecord
    <2> QED
      BY <2>3, <2>4, <2>5
  <1>2. CASE Raises(p, "throttled")
    BY <1>0, <1>1, <1>2, RaisesKeepsInv DEF ErrorKinds
  <1>3. CASE Raises(p, "auth")
    BY <1>0, <1>1, <1>3, RaisesKeepsInv DEF ErrorKinds
  <1>4. CASE /\ op[p].minted = 0
             /\ op' = [op EXCEPT ![p] = Waiting(p, "login")]
             /\ UNCHANGED <<lockQueue, haVars, told>>
    <2>1. Waiting(p, "login") \in OpRecord /\ Waiting(p, "login").pc = "login"
      BY DEF Waiting, OpRecord, SessionInv, SessionTypeOK
    <2>2. {session', token'} \subseteq Nat /\ passwordOK' \in BOOLEAN /\ refreshPending' \in BOOLEAN
      BY <1>4 DEF SessionInv, SessionTypeOK, vendorVars, haVars
    <2>3. effect' \in [Writers -> EffectRecord] /\ \A v \in Writers : v # p => effect'[v] = effect[v]
      BY <1>1 DEF SessionInv, SessionTypeOK, SessionAssumption
    <2>4. p \in Writers => Effects(p)' <= Doubt(p)'
      <3>1. p \in Writers => Effects(p) <= Doubt(p) /\ Doubt(p) = 0 /\ Effects(p) \in Nat
        BY <1>4 DEF SessionInv, SessionTypeOK, OutcomeOpen, Doubt, Effects, EffectRecord
      <3> QED
        BY <1>1, <3>1 DEF SessionAssumption
    <2> QED
      BY <1>0, <1>4, <2>1, <2>2, <2>3, <2>4, MovingOnKeepsInv DEF haVars
  <1> QED
    BY <1>2, <1>3, <1>4 DEF Rejected

\* A request that fails leaves the vendor in doubt once, not twice.
LEMMA RequestFailsKeepsInv ==
  ASSUME SessionInv, SessionAssumption, NEW p \in Procs, RequestFails(p)
  PROVE  SessionInv'
  <1> USE DEF RequestFails
  <1>0. count' \in Counts
    <2>1. count \in Counts
      BY DEF SessionInv, SessionTypeOK, Counts
    <2> QED
      BY <2>1 DEF CountFault, Counts
  <1>1. PICK e \in FaultKinds :
          /\ \/ (p = Poll \/ e = "rate") /\ UNCHANGED effect
             \/ p \in Writers /\ e # "rate" /\ Leaves(p, Unknown(effect[p]))
          /\ Raises(p, e)
    OBVIOUS
  <1>2. e \in ErrorKinds /\ e # "credentials"
    BY DEF SessionAssumption, ErrorKinds
  <1>3. p = Poll \/ /\ p \in Writers
                    /\ effect' \in [Writers -> EffectRecord]
                    /\ \A v \in Writers : v # p => effect'[v] = effect[v]
                    /\ Effects(p)' <= 1 + Doubt(p)'
                    /\ e \in {"rate", "credentials"} => Effects(p)' <= Doubt(p)'
    <2> SUFFICES ASSUME p \in Writers
                 PROVE  /\ effect' \in [Writers -> EffectRecord]
                        /\ \A v \in Writers : v # p => effect'[v] = effect[v]
                        /\ Effects(p)' <= 1 + Doubt(p)'
                        /\ e \in {"rate", "credentials"} => Effects(p)' <= Doubt(p)'
      BY DEF Procs
    <2>1. /\ effect \in [Writers -> EffectRecord] /\ effect[p] \in EffectRecord
          /\ Effects(p) <= Doubt(p)
      BY DEF SessionInv, SessionTypeOK, OutcomeOpen
    <2>2. CASE UNCHANGED effect
      BY <2>1, <2>2 DEF Effects, Doubt, EffectRecord
    <2>3. CASE e # "rate" /\ Leaves(p, Unknown(effect[p]))
      <3>1. /\ effect' \in [Writers -> EffectRecord]
            /\ \A v \in Writers : v # p => effect'[v] = effect[v]
            /\ effect'[p].refused = effect[p].refused
            /\ Effects(p)' <= Effects(p) + 1
        BY <2>1, <2>3, UnknownLeft
      <3>2. Effects(p) \in Nat /\ Effects(p)' \in Nat /\ Doubt(p) \in {0, 1} /\ Doubt(p)' = Doubt(p)
        BY <2>1, <3>1 DEF Effects, Doubt, EffectRecord
      <3> QED
        BY <1>2, <2>1, <2>3, <3>1, <3>2
    <2> QED
      BY <1>1, <2>2, <2>3, SessionAssumption DEF SessionAssumption
  <1> QED
    BY <1>0, <1>1, <1>2, <1>3, RaisesKeepsInv

\* The steps of a login.
LEMMA LoginKeepsInv ==
  ASSUME SessionInv, SessionAssumption, NEW p \in Procs,
         LoginAnswered(p) \/ LoginDelivered(p) \/ LoginRejected(p) \/ LoginFails(p)
  PROVE  SessionInv'
  <1> USE DEF haVars, vendorVars, writeVars
  <1>0. op[p] \in OpRecord /\ session \in Nat /\ count \in Counts
    BY DEF SessionInv, SessionTypeOK, Counts
  <1>1. /\ UNCHANGED effect /\ effect \in [Writers -> EffectRecord]
        /\ p \in Writers => /\ Effects(p)' <= Doubt(p)'
                            /\ Effects(p)' <= 1 + Doubt(p)'
    <2>1. UNCHANGED effect /\ op[p].pc \in {"login", "minted"}
      BY DEF LoginAnswered, LoginDelivered, LoginRejected, LoginFails
    <2>2. effect \in [Writers -> EffectRecord] /\ (p \in Writers => Effects(p) <= Doubt(p))
      BY <2>1 DEF SessionInv, OutcomeOpen, SessionTypeOK
    <2> QED
      BY <2>1, <2>2 DEF Effects, Doubt, EffectRecord
  <1>2. CASE LoginAnswered(p)
    <2> DEFINE r == [Waiting(p, "minted") EXCEPT !.minted = session + 1]
    <2>1. r \in OpRecord /\ r.pc = "minted" /\ r.minted # 0
      <3>1. Waiting(p, "minted") \in OpRecord /\ Waiting(p, "minted").pc = "minted"
        BY <1>0 DEF Waiting, OpRecord
      <3> QED
        BY <1>0, <3>1 DEF OpRecord
    <2>2. op' = [op EXCEPT ![p] = r]
      BY <1>2 DEF LoginAnswered
    <2>3. {session', token'} \subseteq Nat /\ passwordOK' \in BOOLEAN /\ refreshPending' \in BOOLEAN
      BY <1>2 DEF LoginAnswered, SessionInv, SessionTypeOK
    <2> HIDE DEF r
    <2> QED
      BY <1>0, <1>1, <1>2, <2>1, <2>2, <2>3, MovingOnKeepsInv DEF LoginAnswered
  <1>3. CASE LoginDelivered(p)
    <2> DEFINE r == Request(op[p].minted, 1, op[p].minted)
    <2>1. r \in OpRecord /\ r.pc = "request" /\ op[p].minted \in Nat /\ r.minted = op[p].minted
      BY <1>0 DEF Request, OpRecord
    <2>2. op' = [op EXCEPT ![p] = r]
      BY <1>3 DEF LoginDelivered
    <2>3. {session', token'} \subseteq Nat /\ passwordOK' \in BOOLEAN /\ refreshPending' \in BOOLEAN
      BY <1>3, <2>1 DEF LoginDelivered, SessionInv, SessionTypeOK
    <2> HIDE DEF r
    <2>4. p \in Writers => r.minted # 0
      BY <1>3, <2>1 DEF LoginDelivered, SessionInv, OutcomeOpen
    <2> QED
      BY <1>0, <1>1, <1>3, <2>1, <2>2, <2>3, <2>4, MovingOnKeepsInv DEF LoginDelivered
  <1>4. CASE LoginRejected(p)
    BY <1>0, <1>1, <1>4, RaisesKeepsInv DEF LoginRejected, ErrorKinds, Procs
  <1>5. CASE LoginFails(p)
    <2>1. PICK e \in FaultKinds : Raises(p, e)
      BY <1>5 DEF LoginFails
    <2>2. e \in ErrorKinds
      BY DEF SessionAssumption, ErrorKinds
    <2>3. count' \in Counts
      BY <1>0, <1>5 DEF LoginFails, CountFault, Counts
    <2> QED
      BY <1>1, <1>5, <2>1, <2>2, <2>3, RaisesKeepsInv DEF LoginFails, Procs
  <1> QED
    BY <1>2, <1>3, <1>4, <1>5

\* Every step of a process, whatever it is waiting for.
LEMMA ProcStepKeepsInv ==
  ASSUME SessionInv, SessionAssumption, NEW p \in Procs, ProcStep(p)
  PROVE  SessionInv'
  BY RequestRejectedKeepsInv, RequestFailsKeepsInv, LoginKeepsInv DEF ProcStep

\* The lock goes to the head of the queue, and the request leaves.
LEMMA TakeLockKeepsInv ==
  ASSUME SessionInv, SessionAssumption, NEW w \in Writers, TakeLock(w)
  PROVE  SessionInv'
  <1> USE DEF TakeLock
  <1> DEFINE r == Request(token, 1, 0)
  <1>1. w \in Procs /\ count' \in Counts
    BY DEF Procs, SessionInv, SessionTypeOK, Counts
  <1>2. r \in OpRecord /\ r.pc = "request"
    BY DEF Request, OpRecord, SessionInv, SessionTypeOK
  <1>3. {session', token'} \subseteq Nat /\ passwordOK' \in BOOLEAN /\ refreshPending' \in BOOLEAN
    BY DEF SessionInv, SessionTypeOK, vendorVars, haVars
  <1>4. op' = [op EXCEPT ![w] = r]
    OBVIOUS
  <1> HIDE DEF r
  <1> QED
    <2>1. effect \in [Writers -> EffectRecord] /\ Effects(w) <= Doubt(w)
      BY DEF SessionInv, SessionTypeOK, OutcomeOpen
    <2>2. Effects(w)' <= Doubt(w)'
      BY <2>1 DEF Effects, Doubt, writeVars
    <2> QED
      BY <1>1, <1>2, <1>3, <1>4, <2>1, <2>2, MovingOnKeepsInv DEF haVars, writeVars

\* A write that was answered was applied by that very request.
LEMMA WriteAnsweredKeepsInv ==
  ASSUME SessionInv, SessionAssumption, NEW w \in Writers, WriteAnswered(w)
  PROVE  SessionInv'
  <1> USE DEF WriteAnswered, SessionInv
  <1>1. /\ op' \in [Procs -> OpRecord]
        /\ lockQueue' \in Seq(Writers)
        /\ LockHeld'
        /\ \A v \in Writers : v # w => op'[v] = op[v]
        /\ op'[w].pc \in {"idle", "reconcile"}
        /\ refreshPending' \in BOOLEAN
    <2>1. CASE EndWrite(w) /\ UNCHANGED refreshPending
      <3>1. op'[w].pc = "idle"
        BY <2>1, EndingKeepsLock DEF Idle
      <3> QED
        BY <2>1, <3>1, EndingKeepsLock DEF SessionTypeOK
    <2>2. CASE RequestRefresh(w)
      BY <2>2, RefreshingKeepsLock
    <2> QED
      BY <2>1, <2>2
  <1>2. /\ effect' \in [Writers -> EffectRecord] /\ effect'[w].applied >= 1
        /\ Effects(w)' <= 1 + Doubt(w)'
        /\ \A v \in Writers : v # w => effect'[v] = effect[v]
    <2>1. effect \in [Writers -> EffectRecord] /\ Effects(w) <= Doubt(w)
      BY DEF SessionTypeOK, OutcomeOpen
    <2>2. /\ effect' \in [Writers -> EffectRecord]
          /\ effect'[w].applied = effect[w].applied + 1
          /\ effect'[w].late = effect[w].late /\ effect'[w].refused = effect[w].refused
      BY <2>1 DEF EffectRecord
    <2> QED
      BY <2>1, <2>2 DEF Effects, Doubt, EffectRecord
  <1>3. /\ told' \in [Writers -> Answers] /\ told'[w] = "ok"
        /\ \A v \in Writers : v # w => told'[v] = told[v]
    BY DEF SessionTypeOK, Answers
  <1>4. SessionTypeOK'
    BY <1>1, <1>2, <1>3 DEF SessionTypeOK, vendorVars
  <1>5. OutcomeOpen'
    BY <1>1, <1>2, <1>3 DEF OutcomeOpen, Effects, Doubt
  <1>6. ToldTheTruth'
    BY <1>2, <1>3 DEF ToldTheTruth, Effects, Doubt
  <1> QED
    BY <1>1, <1>4, <1>5, <1>6

\* Joining the queue leaves its head alone.
LEMMA JoiningKeepsHead ==
  ASSUME NEW q \in Seq(Writers), NEW w \in Writers, q # << >>
  PROVE  Append(q, w) # << >> /\ Head(Append(q, w)) = Head(q)
  BY AppendProperties, HeadTailAppend

\* A new write has told nothing and joins the queue behind its holder.
LEMMA StartWriteKeepsInv ==
  ASSUME SessionInv, SessionAssumption, NEW w \in Writers, StartWrite(w)
  PROVE  SessionInv'
  <1> USE DEF StartWrite, SessionInv
  <1>1. Waiting(w, "queued") \in OpRecord /\ Waiting(w, "queued").pc = "queued" /\ w \in Procs
    BY DEF Waiting, OpRecord, SessionTypeOK, Procs
  <1>2. op' \in [Procs -> OpRecord]
    BY <1>1 DEF SessionTypeOK
  <1>3. \A v \in Writers : op'[v] = IF v = w THEN Waiting(w, "queued") ELSE op[v]
    BY DEF SessionTypeOK, Procs
  <1>4. count' \in Counts
    <2>1. count \in Counts
      BY DEF SessionTypeOK, Counts
    <2> QED
      BY <2>1 DEF Counts
  <1>5. lockQueue' \in Seq(Writers)
    BY DEF SessionTypeOK
  <1>6. lockQueue # << >> => lockQueue' # << >> /\ Head(lockQueue') = Head(lockQueue)
    <2>1. lockQueue \in Seq(Writers) /\ lockQueue' = Append(lockQueue, w)
      BY DEF SessionTypeOK
    <2> QED
      BY <2>1, JoiningKeepsHead
  <1>7. told' \in [Writers -> Answers] /\ effect' \in [Writers -> EffectRecord]
    BY DEF SessionTypeOK, Answers, NoEffect, EffectRecord
  <1>8. SessionTypeOK'
    BY <1>2, <1>4, <1>5, <1>7 DEF SessionTypeOK, vendorVars, haVars, Counts
  <1>9. LockHeld'
    BY <1>1, <1>3, <1>6 DEF LockHeld
  <1>10. /\ effect'[w] = NoEffect /\ told'[w] = "none"
         /\ \A v \in Writers : v # w => effect'[v] = effect[v]
         /\ \A v \in Writers : v # w => told'[v] = told[v]
    BY DEF SessionTypeOK
  <1>11. Effects(w)' = 0 /\ Doubt(w)' = 0 /\ ~ effect'[w].refused
    BY <1>10 DEF Effects, Doubt, NoEffect
  <1>12. OutcomeOpen'
    <2>1. \A v \in Writers : v # w => Effects(v)' = Effects(v) /\ Doubt(v)' = Doubt(v)
      BY <1>10 DEF Effects, Doubt
    <2> QED
      BY <1>1, <1>3, <1>10, <1>11, <2>1 DEF OutcomeOpen
  <1>13. ToldTheTruth'
    <2>1. \A v \in Writers : v # w => Effects(v)' = Effects(v) /\ Doubt(v)' = Doubt(v)
      BY <1>10 DEF Effects, Doubt
    <2> QED
      BY <1>10, <1>11, <2>1 DEF ToldTheTruth
  <1> QED
    BY <1>8, <1>9, <1>12, <1>13

\* The poll goes on, ends well, or starts.
LEMMA PollKeepsInv ==
  ASSUME SessionInv, SessionAssumption, PollAnswered \/ StartPoll
  PROVE  SessionInv'
  <1>1. /\ Poll \in Procs /\ Poll \notin Writers /\ count' \in Counts
        /\ effect \in [Writers -> EffectRecord]
    BY DEF Procs, SessionAssumption, SessionInv, SessionTypeOK, Counts, PollAnswered, StartPoll
  <1>2. {session', token'} \subseteq Nat /\ passwordOK' \in BOOLEAN
    BY DEF SessionInv, SessionTypeOK, PollAnswered, StartPoll, vendorVars
  <1>3. CASE PollAnswered /\ EndPoll(TRUE, FALSE)
    BY <1>1, <1>3, EndPollKeepsInv DEF PollAnswered, Counts
  <1>4. ASSUME NEW r \in OpRecord, op' = [op EXCEPT ![Poll] = r], refreshPending' \in BOOLEAN,
               UNCHANGED <<lockQueue, phase, timer, lastUpdateSuccess, reauth, storedToken,
                           writeVars>>
        PROVE  SessionInv'
    BY <1>1, <1>2, <1>4, MovingOnKeepsInv DEF writeVars
  <1>5. \A n \in Nat, m \in Nat : Request(token, n, m) \in OpRecord
    BY DEF Request, OpRecord, SessionInv, SessionTypeOK
  <1>6. CASE PollAnswered /\ ~ EndPoll(TRUE, FALSE)
    <2>1. op[Poll].req + 1 \in Nat /\ op[Poll].minted \in Nat
      BY <1>1 DEF SessionInv, SessionTypeOK, OpRecord
    <2>2. op' = [op EXCEPT ![Poll] = Request(token, op[Poll].req + 1, op[Poll].minted)]
      BY <1>6 DEF PollAnswered
    <2>3. UNCHANGED <<lockQueue, haVars, writeVars>>
      BY <1>6 DEF PollAnswered
    <2>4. refreshPending' \in BOOLEAN
      BY <2>3 DEF haVars, SessionInv, SessionTypeOK
    <2> QED
      BY <1>4, <1>5, <2>1, <2>2, <2>3, <2>4 DEF haVars
  <1>7. CASE StartPoll
    <2>1. refreshPending' \in BOOLEAN
      BY <1>7 DEF StartPoll, SessionInv, SessionTypeOK
    <2> QED
      BY <1>4, <1>5, <1>7, <2>1 DEF StartPoll
  <1> QED
    BY <1>3, <1>6, <1>7

\* Setting up again replaces the poll, never a write.
LEMMA SetUpKeepsInv ==
  ASSUME SessionInv, SessionAssumption, NEW tok \in Nat, SetUpEntry(tok),
         {session', storedToken'} \subseteq Nat, {passwordOK', reauth'} \subseteq BOOLEAN
  PROVE  SessionInv'
  <1> USE DEF SetUpEntry, SessionInv, writeVars
  <1>1. Request(tok, 1, 0) \in OpRecord
    BY DEF Request, OpRecord
  <1>2. op' \in [Procs -> OpRecord]
    BY <1>1 DEF SessionTypeOK
  <1>3. \A w \in Writers : op'[w] = op[w]
    BY DEF SessionTypeOK, Procs, SessionAssumption
  <1>4. SessionTypeOK'
    BY <1>2 DEF SessionTypeOK
  <1>5. LockHeld' /\ OutcomeOpen' /\ ToldTheTruth'
    BY <1>3 DEF LockHeld, OutcomeOpen, ToldTheTruth, Effects, Doubt
  <1> QED
    BY <1>4, <1>5

\* What other clients, the owner and the clock do leaves the writes alone.
LEMMA EnvironmentKeepsInv ==
  ASSUME SessionInv, SessionAssumption,
         OtherClientLogin \/ ChangePassword \/ ClockTick \/ UNCHANGED vars
  PROVE  SessionInv'
  <1> USE DEF SessionInv, vars, sessionVars, vendorVars, haVars, writeVars
  <1>1. count' \in Counts
    <2>1. count \in Counts
      BY DEF SessionTypeOK, Counts
    <2> QED
      BY <2>1 DEF Counts, OtherClientLogin, ChangePassword, ClockTick
  <1>2. UNCHANGED <<token, op, lockQueue, haVars, writeVars>>
    BY DEF OtherClientLogin, ChangePassword, ClockTick
  <1>3. session' \in Nat /\ passwordOK' \in BOOLEAN
    <2>1. CASE OtherClientLogin
      BY <2>1 DEF OtherClientLogin, SessionTypeOK
    <2>2. CASE ChangePassword
      BY <2>2 DEF ChangePassword, SessionTypeOK
    <2>3. CASE UNCHANGED <<session, passwordOK>>
      BY <2>3 DEF SessionTypeOK
    <2> QED
      BY <2>1, <2>2, <2>3 DEF ClockTick
  <1>4. SessionTypeOK'
    BY <1>1, <1>2, <1>3 DEF SessionTypeOK, Counts
  <1>5. LockHeld' /\ OutcomeOpen' /\ ToldTheTruth'
    BY <1>2 DEF LockHeld, OutcomeOpen, ToldTheTruth, Effects, Doubt
  <1> QED
    BY <1>4, <1>5

\* A late effect was counted when it was left open: it adds nothing.
LEMMA LateEffectKeepsInv ==
  ASSUME SessionInv, NEW w \in Writers, LateEffect(w)
  PROVE  SessionInv'
  <1> USE DEF SessionInv, LateEffect, vendorVars, haVars
  <1>1. effect[w] \in EffectRecord /\ effect \in [Writers -> EffectRecord]
    BY DEF SessionTypeOK
  <1>2. /\ effect' \in [Writers -> EffectRecord]
        /\ effect'[w].applied = effect[w].applied + 1
        /\ effect'[w].late = effect[w].late - 1
        /\ effect'[w].refused = effect[w].refused
        /\ \A v \in Writers : v # w => effect'[v] = effect[v]
    BY <1>1 DEF EffectRecord
  <1>3. ASSUME NEW v \in Writers
        PROVE  /\ Effects(v)' = Effects(v) /\ Doubt(v)' = Doubt(v)
               /\ effect'[v].refused = effect[v].refused
               /\ effect[v].applied >= 1 => effect'[v].applied >= 1
    BY <1>1, <1>2 DEF Effects, Doubt, EffectRecord
  <1>4. SessionTypeOK'
    BY <1>2 DEF SessionTypeOK
  <1>5. LockHeld'
    BY DEF LockHeld
  <1>6. UNCHANGED <<op, told>>
    OBVIOUS
  <1>7. OutcomeOpen'
    <2> SUFFICES ASSUME NEW v \in Writers
                 PROVE  /\ op[v].pc \in {"queued", "request", "login", "minted"} =>
                              told[v] = "none" /\ Effects(v)' <= Doubt(v)'
                        /\ op[v].pc = "queued" => ~ effect'[v].refused
                        /\ op[v].pc = "request" /\ op[v].minted = 0 => ~ effect'[v].refused
                        /\ op[v].pc = "minted" => op[v].minted # 0
                        /\ op[v].pc = "reconcile" => told[v] # "none"
      BY <1>6 DEF OutcomeOpen
    <2>1. Effects(v)' = Effects(v) /\ Doubt(v)' = Doubt(v) /\ effect'[v].refused = effect[v].refused
      BY <1>3
    <2> QED
      BY <2>1 DEF OutcomeOpen
  <1>8. ToldTheTruth'
    <2> SUFFICES ASSUME NEW v \in Writers
                 PROVE  /\ Effects(v)' <= 1 + Doubt(v)'
                        /\ told[v] = "ok" => effect'[v].applied >= 1
                        /\ told[v] \in {"unchanged", "reauth"} => Effects(v)' <= Doubt(v)'
      BY <1>6 DEF ToldTheTruth
    <2>1. /\ Effects(v)' = Effects(v) /\ Doubt(v)' = Doubt(v)
          /\ effect[v].applied >= 1 => effect'[v].applied >= 1
      BY <1>3
    <2> QED
      BY <2>1 DEF ToldTheTruth
  <1> QED
    BY <1>4, <1>5, <1>7, <1>8

\* Every step of the session keeps the invariant.
LEMMA SessionInvInductive ==
  ASSUME SessionInv, SessionAssumption, [Next]_vars
  PROVE  SessionInv'
  <1>1. CASE PollStep
    BY <1>1, PollKeepsInv, ProcStepKeepsInv DEF PollStep, Procs
  <1>2. CASE StartPoll
    BY <1>2, PollKeepsInv
  <1>3. ASSUME NEW w \in Writers, WriterStep(w)
        PROVE  SessionInv'
    BY <1>3, TakeLockKeepsInv, WriteAnsweredKeepsInv, ProcStepKeepsInv DEF WriterStep, Procs
  <1>4. ASSUME NEW w \in Writers, StartWrite(w)
        PROVE  SessionInv'
    BY <1>4, StartWriteKeepsInv
  <1>5. CASE RetrySetup
    BY <1>5, SetUpKeepsInv DEF RetrySetup, vendorVars, SessionInv, SessionTypeOK
  <1>6. CASE UserReauthenticates
    <2>1. session + 1 \in Nat
      BY DEF SessionInv, SessionTypeOK
    <2> QED
      BY <1>6, <2>1, SetUpKeepsInv DEF UserReauthenticates
  <1>7. CASE OtherClientLogin \/ ChangePassword \/ ClockTick \/ UNCHANGED vars
    BY <1>7, EnvironmentKeepsInv
  <1>8. ASSUME NEW w \in Writers, LateEffect(w)
        PROVE  SessionInv'
    BY <1>8, LateEffectKeepsInv
  <1> QED
    BY <1>1, <1>2, <1>3, <1>4, <1>5, <1>6, <1>7, <1>8 DEF Next

\* The variables keep their types: the budget's by its own theorem.
THEOREM SessionTypeCorrect == Spec => []TypeOK
  <1>1. Init => SessionInv
    BY SessionAssumption, InitEstablishesSessionInv
  <1>2. SessionInv /\ [Next]_vars => SessionInv'
    BY SessionAssumption, SessionInvInductive
  <1>3. SessionInv /\ BudgetTypeOK => TypeOK
    BY DEF SessionInv, SessionTypeOK, TypeOK, OpRecord
  <1>4. Spec => []BudgetTypeOK
    BY SessionKeepsTheBudget, BudgetTypeCorrect, PTL
  <1> QED
    BY <1>1, <1>2, <1>3, <1>4, PTL DEF Spec

\* What a write's caller is told is true of the vendor, then and for ever
\* after, in every interleaving of polls, writes, evictions, failures and
\* late effects: "nothing was changed" but for what a request refused for
\* its session may have done, which nobody knows, and no second effect of
\* any other write.
THEOREM UsersAreToldTheTruth == Spec => []ToldTheTruth
  <1>1. Init => SessionInv
    BY SessionAssumption, InitEstablishesSessionInv
  <1>2. SessionInv /\ [Next]_vars => SessionInv'
    BY SessionAssumption, SessionInvInductive
  <1>3. SessionInv => ToldTheTruth
    BY DEF SessionInv
  <1> QED
    BY <1>1, <1>2, <1>3, PTL DEF Spec

----------------------------------------------------------------------------
(* Reauth prompts.                                                         *)

OpensPrompt == ~ reauth /\ reauth'

OwnLoginRejected == op[Poll].pc = "request" /\ op[Poll].minted # 0 /\ op[Poll].tok # session

\* Only an authentication failure of the poll, or rejected credentials,
\* opens a prompt.
LEMMA PromptNeedsAuthError ==
  ASSUME SessionAssumption, NEW p \in Procs, NEW e, Raises(p, e), OpensPrompt
  PROVE  e = "credentials" \/ (p = Poll /\ e = "auth")
  <1>1. CASE p = Poll /\ PollRaises(e)
    BY <1>1 DEF PollRaises, EndPoll, AuthErrors, OpensPrompt
  <1>2. CASE p \in Writers /\ WriteRaises(p, e)
    BY <1>2 DEF WriteRaises, OpensPrompt
  <1> QED
    BY <1>1, <1>2 DEF Raises

\* No step opens a prompt while the password is right, but for the one that
\* sees the poll's own fresh session rejected.
LEMMA PromptStep ==
  ASSUME SessionAssumption, [Next]_vars, OpensPrompt
  PROVE  ~ passwordOK \/ OwnLoginRejected
  <1>1. ASSUME NEW p \in Procs, ProcStep(p)
        PROVE  ~ passwordOK \/ OwnLoginRejected
    <2>1. CASE RequestRejected(p)
      <3>1. CASE op[p].minted # 0 /\ Raises(p, "auth")
        BY <2>1, <3>1, PromptNeedsAuthError DEF RequestRejected, OwnLoginRejected
      <3>2. CASE Raises(p, "throttled")
        BY <3>2, PromptNeedsAuthError
      <3>3. CASE UNCHANGED haVars
        BY <3>3 DEF haVars, OpensPrompt
      <3> QED
        BY <2>1, <3>1, <3>2, <3>3 DEF RequestRejected, Rejected
    <2>2. CASE RequestFails(p) \/ LoginFails(p)
      <3>1. PICK e \in FaultKinds : Raises(p, e)
        BY <2>2 DEF RequestFails, LoginFails
      <3> QED
        BY <3>1, PromptNeedsAuthError DEF SessionAssumption
    <2>3. CASE LoginRejected(p)
      BY <2>3 DEF LoginRejected
    <2>4. CASE LoginAnswered(p) \/ LoginDelivered(p)
      BY <2>4 DEF LoginAnswered, LoginDelivered, haVars, OpensPrompt
    <2> QED
      BY <1>1, <2>1, <2>2, <2>3, <2>4 DEF ProcStep
  <1>2. CASE PollAnswered
    BY <1>2 DEF PollAnswered, EndPoll, haVars, OpensPrompt
  <1>3. CASE StartPoll
    BY <1>3 DEF StartPoll, OpensPrompt
  <1>4. ASSUME NEW w \in Writers, TakeLock(w) \/ WriteAnswered(w) \/ StartWrite(w)
        PROVE  FALSE
    BY <1>4 DEF TakeLock, WriteAnswered, StartWrite, haVars, OpensPrompt
  <1>5. CASE OtherClientLogin \/ ChangePassword \/ RetrySetup \/ UserReauthenticates
    BY <1>5 DEF OtherClientLogin, ChangePassword, RetrySetup, UserReauthenticates, haVars,
         OpensPrompt
  <1>6. CASE ClockTick \/ UNCHANGED vars
    BY <1>6 DEF ClockTick, vars, sessionVars, haVars, OpensPrompt
  <1>7. ~ \E w \in Writers : LateEffect(w)
    BY DEF LateEffect, haVars, OpensPrompt
  <1> QED
    BY <1>1, <1>2, <1>3, <1>4, <1>5, <1>6, <1>7 DEF Next, PollStep, WriterStep, Procs

\* A rate limit, a spent budget, a timeout, a malformed body or a single
\* rejected token never asks the user for a password that is right.
THEOREM PromptsNeedSecondRejection == Spec => PromptNeedsSecondRejection
  <1>1. [Next]_vars =>
          [~ reauth /\ reauth' =>
              \/ ~ passwordOK
              \/ op[Poll].pc = "request" /\ op[Poll].minted # 0 /\ op[Poll].tok # session]_vars
    BY SessionAssumption, PromptStep DEF OpensPrompt, OwnLoginRejected
  <1> QED
    BY <1>1, PTL DEF Spec, PromptNeedsSecondRejection

----------------------------------------------------------------------------
(* Reauth prompts of an account nobody else uses.                          *)

\* What the poll has minted is still the account's session, and what it
\* sends with.
FreshSessionStands ==
    /\ op[Poll].pc = "minted" => op[Poll].minted = session
    /\ op[Poll].pc = "request" /\ op[Poll].minted # 0 =>
          op[Poll].tok = session /\ token = session

PollAlone == SessionTypeOK /\ FreshSessionStands /\ PromptOnlyIfPasswordWrong

\* Where nobody but the poll logs in, what it has minted stands.
LEMMA AloneKeepsSession ==
  ASSUME SessionAssumption, Writers = {}, MaxEvictions = 0,
         SessionTypeOK, FreshSessionStands, [Next]_vars
  PROVE  FreshSessionStands'
  <1> USE DEF FreshSessionStands
  <1>0. Poll \in Procs /\ op[Poll] \in OpRecord /\ \A p \in Procs : p = Poll
    BY DEF Procs, SessionTypeOK
  <1>1. CASE op'[Poll].pc \notin {"minted", "request"}
    BY <1>1
  <1>2. CASE op'[Poll].pc = "request" /\ op'[Poll].minted = 0
    BY <1>2
  <1>3. ASSUME NEW ok, NEW blamed, EndPoll(ok, blamed)
        PROVE  FreshSessionStands'
    BY <1>0, <1>1, <1>3 DEF EndPoll, Idle
  <1>4. ASSUME NEW e, Raises(Poll, e)
        PROVE  FreshSessionStands'
    BY <1>0, <1>1, <1>4 DEF Raises, PollRaises, EndPoll, Idle
  <1>5. CASE RequestRejected(Poll)
    <2>1. CASE op' = [op EXCEPT ![Poll] = Waiting(Poll, "login")]
      BY <1>0, <1>1, <2>1 DEF Waiting, SessionTypeOK, OpRecord
    <2> QED
      BY <1>4, <1>5, <2>1 DEF RequestRejected, Rejected
  <1>6. CASE RequestFails(Poll) \/ LoginRejected(Poll) \/ LoginFails(Poll)
    BY <1>4, <1>6 DEF RequestFails, LoginRejected, LoginFails
  <1>7. CASE LoginAnswered(Poll)
    <2>1. op'[Poll].pc = "minted" /\ op'[Poll].minted = session'
      BY <1>0, <1>7 DEF LoginAnswered, Waiting, SessionTypeOK, OpRecord
    <2> QED
      BY <2>1
  <1>8. CASE LoginDelivered(Poll)
    <2>1. op'[Poll] = Request(op[Poll].minted, 1, op[Poll].minted)
      BY <1>0, <1>8 DEF LoginDelivered, SessionTypeOK
    <2> QED
      BY <1>8, <2>1 DEF LoginDelivered, Request, vendorVars
  <1>9. CASE PollAnswered
    <2>1. CASE op' = [op EXCEPT ![Poll] = Request(token, @.req + 1, @.minted)]
      <3>1. op'[Poll] = Request(token, op[Poll].req + 1, op[Poll].minted)
        BY <1>0, <2>1 DEF SessionTypeOK
      <3> QED
        BY <1>9, <3>1 DEF PollAnswered, Request, vendorVars
    <2> QED
      BY <1>3, <1>9, <2>1 DEF PollAnswered
  <1>10. CASE StartPoll
    BY <1>0, <1>2, <1>10 DEF StartPoll, Request, SessionTypeOK
  <1>11. CASE RetrySetup \/ UserReauthenticates
    BY <1>0, <1>2, <1>11 DEF RetrySetup, UserReauthenticates, SetUpEntry, Request, SessionTypeOK
  <1>12. ~ OtherClientLogin
    BY DEF OtherClientLogin, SessionTypeOK
  <1>13. CASE ChangePassword \/ ClockTick \/ UNCHANGED vars
    BY <1>13 DEF ChangePassword, ClockTick, vars, sessionVars, vendorVars
  <1> QED
    BY <1>0, <1>5, <1>6, <1>7, <1>8, <1>9, <1>10, <1>11, <1>12, <1>13
       DEF Next, PollStep, ProcStep

\* Nothing but the user's answer makes a wrong password right, and that
\* closes the prompt.
LEMMA AlonePrompts ==
  ASSUME SessionAssumption, FreshSessionStands, PromptOnlyIfPasswordWrong, [Next]_vars
  PROVE  PromptOnlyIfPasswordWrong'
  <1> USE DEF PromptOnlyIfPasswordWrong
  <1>1. reauth' => passwordOK' = passwordOK \/ ~ passwordOK'
    BY DEF Next, PollStep, ProcStep, WriterStep, PollAnswered, StartPoll, TakeLock,
       WriteAnswered, StartWrite, RequestRejected, RequestFails, LoginAnswered,
       LoginDelivered, LoginRejected, LoginFails, LateEffect, OtherClientLogin, ChangePassword,
       RetrySetup, UserReauthenticates, ClockTick, vars, sessionVars, vendorVars
  <1>2. OpensPrompt => ~ passwordOK
    BY PromptStep DEF OwnLoginRejected, FreshSessionStands
  <1> QED
    BY <1>1, <1>2, Zenon DEF OpensPrompt

\* "Second failure: the stored credentials really are wrong" is so of an
\* account on which only the poll logs in: it takes the login of a write, or
\* of another client, between a re-login and its retry to open a prompt on a
\* password that is right.
THEOREM PromptsAreRightWhenAlone ==
  ASSUME Writers = {}, MaxEvictions = 0
  PROVE  Spec => []PromptOnlyIfPasswordWrong
  <1>1. Init => SessionInv /\ FreshSessionStands /\ PromptOnlyIfPasswordWrong
    <2> SUFFICES ASSUME Init
                 PROVE  FreshSessionStands /\ PromptOnlyIfPasswordWrong
      BY SessionAssumption, InitEstablishesSessionInv
    <2>1. op[Poll] = Request(storedToken, 1, 0)
      BY DEF Init, Procs
    <2> QED
      BY <2>1 DEF Init, FreshSessionStands, PromptOnlyIfPasswordWrong, Request
  <1>2. SessionInv /\ FreshSessionStands /\ PromptOnlyIfPasswordWrong /\ [Next]_vars =>
          SessionInv' /\ FreshSessionStands' /\ PromptOnlyIfPasswordWrong'
    BY SessionAssumption, SessionInvInductive, AloneKeepsSession, AlonePrompts DEF SessionInv
  <1> QED
    BY <1>1, <1>2, PTL DEF Spec

----------------------------------------------------------------------------
(* The re-read after a failed write.                                       *)

\* What a write that has just failed leaves behind.
RereadDue == refreshPending \/ op[Poll].pc # "idle"

\* A write that raises with an error other than rejected credentials or a
\* malformed body asks for a refresh.
LEMMA RaisingRereads ==
  ASSUME SessionAssumption, SessionTypeOK, NEW w \in Writers, NEW e,
         WriteRaises(w, e), e \notin {"credentials", "malformed"}
  PROVE  RereadDue'
  <1>1. Poll # w /\ Poll \in Procs
    BY DEF Procs, SessionAssumption
  <1> QED
    BY <1>1 DEF WriteRaises, RequestRefresh, RereadDue, Request, SessionTypeOK

\* A step that tells a caller of a failure is that write's own, which raises.
LEMMA FailureIsRaised ==
  ASSUME SessionAssumption, SessionTypeOK, [Next]_vars, NEW w \in Writers,
         told[w] = "none", told'[w] \in {"unknown", "unchanged", "raw"}
  PROVE  \E e \in FaultKinds \cup {"throttled", "auth"} : WriteRaises(w, e)
  <1>1. ASSUME NEW p \in Procs, NEW e, Raises(p, e), e # "credentials"
        PROVE  WriteRaises(w, e)
    <2>1. CASE p = Poll /\ PollRaises(e)
      BY <2>1 DEF PollRaises, EndPoll, writeVars
    <2>2. CASE p \in Writers /\ WriteRaises(p, e)
      <3>1. \E a : told' = [told EXCEPT ![p] = a]
        BY <2>2 DEF WriteRaises
      <3>2. p = w
        BY <3>1 DEF SessionTypeOK
      <3> QED
        BY <2>2, <3>2
    <2> QED
      BY <1>1, <2>1, <2>2 DEF Raises
  <1>2. ASSUME NEW p \in Procs, Raises(p, "credentials")
        PROVE  FALSE
    <2>1. CASE p = Poll /\ PollRaises("credentials")
      BY <2>1 DEF PollRaises, EndPoll, writeVars
    <2>2. CASE p \in Writers /\ WriteRaises(p, "credentials")
      BY <2>2 DEF WriteRaises, SessionTypeOK
    <2> QED
      BY <1>2, <2>1, <2>2 DEF Raises
  <1>3. ASSUME NEW p \in Procs, ProcStep(p)
        PROVE  \E e \in FaultKinds \cup {"throttled", "auth"} : WriteRaises(w, e)
    <2>1. CASE RequestRejected(p)
      BY <1>1, <2>1 DEF RequestRejected, Rejected
    <2>2. CASE RequestFails(p) \/ LoginFails(p)
      <3>1. PICK e \in FaultKinds : Raises(p, e)
        BY <2>2 DEF RequestFails, LoginFails
      <3> QED
        BY <1>1, <3>1 DEF SessionAssumption
    <2>3. CASE LoginRejected(p)
      BY <1>2, <2>3 DEF LoginRejected
    <2>4. CASE LoginAnswered(p) \/ LoginDelivered(p)
      BY <2>4 DEF LoginAnswered, LoginDelivered, writeVars
    <2> QED
      BY <1>3, <2>1, <2>2, <2>3, <2>4 DEF ProcStep
  <1>4. CASE PollAnswered \/ StartPoll
    BY <1>4 DEF PollAnswered, StartPoll, EndPoll, writeVars
  <1>5. ASSUME NEW v \in Writers, TakeLock(v) \/ WriteAnswered(v) \/ StartWrite(v)
        PROVE  FALSE
    BY <1>5 DEF TakeLock, WriteAnswered, StartWrite, writeVars, SessionTypeOK
  <1>6. CASE OtherClientLogin \/ ChangePassword \/ RetrySetup \/ UserReauthenticates
    BY <1>6 DEF OtherClientLogin, ChangePassword, RetrySetup, UserReauthenticates, SetUpEntry,
         writeVars
  <1>7. CASE ClockTick \/ UNCHANGED vars
    BY <1>7 DEF ClockTick, vars, sessionVars, writeVars
  <1>8. ~ \E v \in Writers : LateEffect(v)
    BY DEF LateEffect
  <1> QED
    BY <1>3, <1>4, <1>5, <1>6, <1>7, <1>8 DEF Next, PollStep, WriterStep, Procs

\* "A failed write requests a reconciliation" is so of every failure but one:
\* as long as the vendor's answers are well formed, whoever is told that a
\* write failed, or may have, has a poll under way or due that will show it.
THEOREM WellFormedFailuresReread ==
  ASSUME "malformed" \notin FaultKinds
  PROVE  Spec => FailedWriteRereads
  <1>1. Init => SessionInv
    BY SessionAssumption, InitEstablishesSessionInv
  <1>2. SessionInv /\ [Next]_vars => SessionInv'
    BY SessionAssumption, SessionInvInductive
  <1>3. SessionInv /\ [Next]_vars =>
          [\A w \in Writers :
              told[w] = "none" /\ told'[w] \in {"unknown", "unchanged", "raw"} =>
                  refreshPending' \/ op'[Poll].pc # "idle"]_vars
    <2> SUFFICES ASSUME SessionInv, [Next]_vars, NEW w \in Writers,
                        told[w] = "none", told'[w] \in {"unknown", "unchanged", "raw"}
                 PROVE  RereadDue'
      BY DEF RereadDue
    <2>1. PICK e \in FaultKinds \cup {"throttled", "auth"} : WriteRaises(w, e)
      BY SessionAssumption, FailureIsRaised DEF SessionInv
    <2>2. e \notin {"credentials", "malformed"}
      BY SessionAssumption DEF SessionAssumption
    <2> QED
      BY <2>1, <2>2, SessionAssumption, RaisingRereads DEF SessionInv
  <1> QED
    BY <1>1, <1>2, <1>3, PTL DEF Spec, FailedWriteRereads

============================================================================
