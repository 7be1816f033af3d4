----------------------- MODULE SessionContractProofs -----------------------
(***************************************************************************)
(* The session implements WriteContract: for every set of write platforms, *)
(* each step of the poll, the writes, the vendor and Home Assistant begins *)
(* a call, has its first request refused, answers it truthfully, lets an   *)
(* answered one return, applies late what an answer left open, or leaves   *)
(* every call as it is.                                                    *)
(***************************************************************************)
EXTENDS SessionProofs

\* A step of the contract, or a stutter.
ContractStep == [Contract!Next]_(Contract!contractVars)

\* A step that starts or ends no call and tells nobody anything.
LEMMA QuietStep ==
  ASSUME UNCHANGED writeVars,
         \A w \in Writers : op'[w].pc = "idle" <=> op[w].pc = "idle"
  PROVE  ContractStep
  <1>1. Pending' = Pending
    BY DEF Pending
  <1> QED
    BY <1>1 DEF ContractStep, Contract!contractVars, writeVars

\* The first request of a call is refused, and what it did is in doubt.
LEMMA RefuseStep ==
  ASSUME NEW w \in Writers, NEW x,
         op[w].pc # "idle", told[w] = "none", ~ effect[w].refused,
         x \in Contract!Unknown(Contract!Refused(effect[w])),
         effect' = [effect EXCEPT ![w] = x], UNCHANGED told,
         \A v \in Writers : op'[v].pc = "idle" <=> op[v].pc = "idle"
  PROVE  ContractStep
  <1>1. Pending' = Pending /\ w \in Pending
    BY DEF Pending
  <1>2. Contract!Refuse(w)
    BY <1>1 DEF Contract!Refuse
  <1> QED
    BY <1>2 DEF ContractStep, Contract!Next

\* An answer that is true of the vendor is the contract's.
LEMMA AnswerStep ==
  ASSUME NEW w \in Writers, NEW a, NEW x,
         op[w].pc # "idle", told[w] = "none",
         a \in Contract!FinalAnswers, x \in Contract!Outcomes(a, effect[w]),
         told' = [told EXCEPT ![w] = a],
         effect' = [effect EXCEPT ![w] = x],
         \A v \in Writers : v # w => op'[v] = op[v]
  PROVE  ContractStep
  <1>1. w \in Pending
    BY DEF Pending
  <1>2. Pending' = Pending \/ Pending' = Pending \ {w}
    BY <1>1 DEF Pending
  <1>3. Contract!Answer(w)
    BY <1>1, <1>2 DEF Contract!Answer
  <1> QED
    BY <1>3 DEF ContractStep, Contract!Next

\* The end of a poll lets at most one answered call return, the one that
\* holds the lock.
LEMMA EndPollStep ==
  ASSUME SessionInv, SessionAssumption, NEW ok, NEW blamed, EndPoll(ok, blamed)
  PROVE  ContractStep
  <1> USE DEF SessionInv
  <1>1. UNCHANGED writeVars
    BY DEF EndPoll
  <1>2. \A w \in Writers : op'[w] = IF op[w].pc = "reconcile" THEN Idle ELSE op[w]
    BY DEF EndPoll, Procs, SessionAssumption
  <1>3. CASE \A w \in Writers : op[w].pc # "reconcile"
    BY <1>1, <1>2, <1>3, QuietStep
  <1>4. ASSUME NEW w \in Writers, op[w].pc = "reconcile"
        PROVE  ContractStep
    <2>1. \A v \in Writers : op[v].pc = "reconcile" => v = w
      BY <1>4 DEF LockHeld
    <2>2. w \in Pending /\ told[w] # "none"
      BY <1>4 DEF Pending, OutcomeOpen
    <2>3. Pending' = Pending \ {w}
      BY <1>2, <1>4, <2>1 DEF Pending, Idle
    <2>4. Contract!Return(w)
      BY <1>1, <2>2, <2>3 DEF Contract!Return, writeVars
    <2> QED
      BY <2>4 DEF ContractStep, Contract!Next
  <1> QED
    BY <1>3, <1>4

\* What a request may have done whose outcome is not known, and of which it
\* is known at most that it was refused for its session.
Open(x) == Contract!Unknown(x) \cup Contract!Unknown(Contract!Refused(x))

\* What a process raises is an answer to its call, or the end of a poll.
LEMMA RaisesStep ==
  ASSUME SessionInv, SessionAssumption, NEW p \in Procs, NEW e \in ErrorKinds,
         op[p].pc \in {"request", "login", "minted"},
         Raises(p, e),
         p \in Writers => \/ UNCHANGED effect
                          \/ e \notin {"rate", "credentials"} /\ Leaves(p, Open(effect[p]))
  PROVE  ContractStep
  <1>1. CASE p = Poll
    BY <1>1, EndPollStep DEF Raises, PollRaises, SessionAssumption
  <1>2. CASE p \in Writers
    <2> USE <1>2 DEF SessionInv
    <2>1. WriteRaises(p, e)
      BY DEF Raises, SessionAssumption
    <2>2. told[p] = "none" /\ effect \in [Writers -> EffectRecord]
      BY DEF OutcomeOpen, SessionTypeOK
    <2>3. \A v \in Writers : v # p => op'[v] = op[v]
      <3>1. CASE EndWrite(p)
        BY <3>1, EndingKeepsLock
      <3>2. CASE RequestRefresh(p)
        BY <3>2, RefreshingKeepsLock
      <3> QED
        BY <2>1, <3>1, <3>2 DEF WriteRaises
    <2>4. PICK a \in {"reauth", "raw", "unchanged", "unknown"} :
             /\ told' = [told EXCEPT ![p] = a]
             /\ a \in {"unchanged", "reauth"} => e \in {"rate", "credentials"}
      BY <2>1 DEF WriteRaises, FailureMessage
    <2>5. PICK x \in Open(effect[p]) :
             /\ effect' = [effect EXCEPT ![p] = x]
             /\ e \in {"rate", "credentials"} => x = effect[p]
      <3>1. effect = [effect EXCEPT ![p] = effect[p]] /\ effect[p] \in Open(effect[p])
        BY <2>2 DEF Open, Contract!Unknown
      <3> QED
        BY <3>1 DEF Leaves
    <2>6. a \in Contract!FinalAnswers
      BY <2>4 DEF Contract!FinalAnswers
    <2>7. x \in Contract!Outcomes(a, effect[p])
      <3>1. CASE a \in {"unchanged", "reauth"}
        BY <2>4, <2>5, <3>1 DEF Contract!Outcomes
      <3>2. CASE a \in {"unknown", "raw"}
        BY <2>5, <3>2 DEF Contract!Outcomes, Open
      <3> QED
        BY <2>4, <3>1, <3>2
    <2> QED
      BY <2>2, <2>3, <2>4, <2>5, <2>6, <2>7, AnswerStep
  <1> QED
    BY <1>1, <1>2 DEF Procs

----------------------------------------------------------------------------

\* Whatever a process waits for, what it meets keeps the contract.
LEMMA ProcStepKeepsContract ==
  ASSUME SessionInv, SessionAssumption, NEW p \in Procs, ProcStep(p)
  PROVE  ContractStep
  <1>1. ASSUME NEW r, op' = [op EXCEPT ![p] = r], UNCHANGED writeVars,
               op[p].pc # "idle", r.pc # "idle"
        PROVE  ContractStep
    <2>1. \A w \in Writers : op'[w].pc = "idle" <=> op[w].pc = "idle"
      BY <1>1 DEF SessionInv, SessionTypeOK, Procs
    <2> QED
      BY <1>1, <2>1, QuietStep
  <1>2. CASE RequestRejected(p)
    <2> USE <1>2 DEF RequestRejected
    <2>0. p \in Writers => Leaves(p, Contract!Unknown(Contract!Refused(effect[p])))
      BY DEF Contract!Unknown, Contract!Refused, Unknown, SessionAssumption
    <2>1. CASE Raises(p, "throttled") \/ Raises(p, "auth")
      <3>1. p \in Writers => Leaves(p, Open(effect[p]))
        BY <2>0 DEF Leaves, Open
      <3> QED
        BY <2>1, <3>1, RaisesStep DEF ErrorKinds
    <2>2. CASE /\ op[p].minted = 0
               /\ op' = [op EXCEPT ![p] = Waiting(p, "login")]
               /\ UNCHANGED told
      <3>1. Waiting(p, "login").pc = "login"
        BY DEF Waiting, SessionInv, SessionTypeOK, OpRecord
      <3>2. CASE p = Poll
        BY <1>1, <2>2, <3>1, <3>2 DEF writeVars, SessionAssumption
      <3>3. CASE p \in Writers
        <4>1. told[p] = "none" /\ ~ effect[p].refused
          BY <2>2, <3>3 DEF SessionInv, OutcomeOpen
        <4>2. \A v \in Writers : op'[v].pc = "idle" <=> op[v].pc = "idle"
          BY <2>2, <3>1 DEF SessionInv, SessionTypeOK, Procs
        <4>3. PICK x \in Contract!Unknown(Contract!Refused(effect[p])) :
                effect' = [effect EXCEPT ![p] = x]
          BY <2>0, <3>3 DEF Leaves
        <4> QED
          BY <2>2, <3>3, <4>1, <4>2, <4>3, RefuseStep
      <3> QED
        BY <3>2, <3>3 DEF Procs
    <2> QED
      BY <2>1, <2>2 DEF Rejected
  <1>3. CASE RequestFails(p)
    <2>1. PICK e \in FaultKinds :
            /\ \/ (p = Poll \/ e = "rate") /\ UNCHANGED effect
               \/ p \in Writers /\ e # "rate" /\ Leaves(p, Unknown(effect[p]))
            /\ Raises(p, e)
      BY <1>3 DEF RequestFails
    <2>2. e \in ErrorKinds /\ e # "credentials"
      BY DEF SessionAssumption, ErrorKinds
    <2>3. \/ UNCHANGED effect
          \/ e # "rate" /\ Leaves(p, Open(effect[p]))
      BY <2>1 DEF Leaves, Open, Unknown, Contract!Unknown
    <2> QED
      BY <1>3, <2>1, <2>2, <2>3, RaisesStep DEF RequestFails
  <1>4. CASE LoginAnswered(p)
    <2>1. [Waiting(p, "minted") EXCEPT !.minted = session + 1].pc = "minted"
      BY DEF Waiting, SessionInv, SessionTypeOK, OpRecord
    <2> QED
      BY <1>1, <1>4, <2>1 DEF LoginAnswered
  <1>5. CASE LoginDelivered(p)
    <2>1. Request(op[p].minted, 1, op[p].minted).pc = "request"
      BY DEF Request
    <2> QED
      BY <1>1, <1>5, <2>1 DEF LoginDelivered
  <1>6. CASE LoginRejected(p)
    BY <1>6, RaisesStep DEF LoginRejected, ErrorKinds
  <1>7. CASE LoginFails(p)
    <2>1. PICK e \in FaultKinds : Raises(p, e)
      BY <1>7 DEF LoginFails
    <2>2. e \in ErrorKinds
      BY DEF SessionAssumption, ErrorKinds
    <2> QED
      BY <1>7, <2>1, <2>2, RaisesStep DEF LoginFails
  <1> QED
    BY <1>2, <1>3, <1>4, <1>5, <1>6, <1>7 DEF ProcStep

\* A service call begins, takes its turn, or is answered by the vendor.
LEMMA WriterKeepsContract ==
  ASSUME SessionInv, SessionAssumption, NEW w \in Writers,
         StartWrite(w) \/ TakeLock(w) \/ WriteAnswered(w)
  PROVE  ContractStep
  <1> USE DEF SessionInv
  <1>0. w \in Procs /\ op[w] \in OpRecord
    BY DEF Procs, SessionTypeOK
  <1>1. CASE StartWrite(w)
    <2>1. \A v \in Writers : op'[v] = IF v = w THEN Waiting(w, "queued") ELSE op[v]
      BY <1>1 DEF StartWrite, SessionTypeOK, Procs
    <2>2. Waiting(w, "queued").pc = "queued"
      BY <1>0 DEF Waiting, OpRecord
    <2>3. w \notin Pending /\ Pending' = Pending \cup {w}
      BY <1>1, <2>1, <2>2 DEF StartWrite, Pending
    <2>4. Contract!Begin(w)
      BY <1>1, <2>3 DEF StartWrite, Contract!Begin, NoEffect, Contract!NoEffect
    <2> QED
      BY <2>4 DEF ContractStep, Contract!Next
  <1>2. CASE TakeLock(w)
    <2>1. \A v \in Writers : op'[v] = IF v = w THEN Request(token, 1, 0) ELSE op[v]
      BY <1>2 DEF TakeLock, SessionTypeOK, Procs
    <2>2. \A v \in Writers : op'[v].pc = "idle" <=> op[v].pc = "idle"
      BY <1>2, <2>1 DEF TakeLock, Request
    <2> QED
      BY <1>2, <2>2, QuietStep DEF TakeLock
  <1>3. CASE WriteAnswered(w)
    <2> USE <1>3 DEF WriteAnswered
    <2>1. told[w] = "none" /\ effect \in [Writers -> EffectRecord]
      BY DEF OutcomeOpen, SessionTypeOK
    <2>2. \A v \in Writers : v # w => op'[v] = op[v]
      BY EndingKeepsLock, RefreshingKeepsLock
    <2> DEFINE x == [effect[w] EXCEPT !.applied = @ + 1]
    <2>3. effect' = [effect EXCEPT ![w] = x]
      BY <2>1
    <2>4. "ok" \in Contract!FinalAnswers /\ x \in Contract!Outcomes("ok", effect[w])
      BY DEF Contract!FinalAnswers, Contract!Outcomes
    <2> QED
      BY <2>1, <2>2, <2>3, <2>4, AnswerStep
  <1> QED
    BY <1>1, <1>2, <1>3

\* A late effect is of a request that its call's answer left open.
LEMMA LateEffectKeepsContract ==
  ASSUME NEW w \in Writers, LateEffect(w)
  PROVE  ContractStep
  <1>1. Pending' = Pending
    BY DEF LateEffect, Pending
  <1>2. Contract!LateEffect(w)
    BY <1>1 DEF LateEffect, Contract!LateEffect
  <1> QED
    BY <1>2 DEF ContractStep, Contract!Next

\* What the poll, Home Assistant, the owner and other clients do.
LEMMA OthersKeepContract ==
  ASSUME SessionInv, SessionAssumption,
         \/ PollAnswered \/ StartPoll \/ RetrySetup \/ UserReauthenticates
         \/ OtherClientLogin \/ ChangePassword \/ ClockTick \/ UNCHANGED vars
  PROVE  ContractStep
  <1> USE DEF SessionInv
  <1>1. ASSUME NEW r, op' = [op EXCEPT ![Poll] = r], UNCHANGED writeVars
        PROVE  ContractStep
    <2>1. \A w \in Writers : op'[w] = op[w]
      BY <1>1 DEF SessionTypeOK, Procs, SessionAssumption
    <2> QED
      BY <1>1, <2>1, QuietStep
  <1>2. CASE PollAnswered
    <2>1. CASE EndPoll(TRUE, FALSE)
      BY <2>1, EndPollStep
    <2>2. CASE op' = [op EXCEPT ![Poll] = Request(token, @.req + 1, @.minted)] /\ UNCHANGED writeVars
      BY <1>1, <2>2
    <2> QED
      BY <1>2, <2>1, <2>2 DEF PollAnswered
  <1>3. CASE StartPoll
    BY <1>1, <1>3 DEF StartPoll
  <1>4. CASE RetrySetup \/ UserReauthenticates
    BY <1>1, <1>4 DEF RetrySetup, UserReauthenticates, SetUpEntry
  <1>5. CASE OtherClientLogin \/ ChangePassword \/ ClockTick \/ UNCHANGED vars
    <2>1. UNCHANGED <<op, writeVars>>
      BY <1>5 DEF OtherClientLogin, ChangePassword, ClockTick, vars, sessionVars
    <2> QED
      BY <2>1, QuietStep
  <1> QED
    BY <1>2, <1>3, <1>4, <1>5

\* Every call keeps the promise of WriteContract -- one answer, a second
\* request only after a refused one, and nothing after the answer but the
\* late effect of a request that the answer left open -- for any number of
\* writers, and whatever evictions, re-logins and failures it goes through.
THEOREM SessionKeepsContract == Spec => KeepsContract
  <1>1. Init => SessionInv
    BY SessionAssumption, InitEstablishesSessionInv
  <1>2. SessionInv /\ [Next]_vars => SessionInv'
    BY SessionAssumption, SessionInvInductive
  <1>3. Init => Contract!Init
    <2>1. Init => \A w \in Writers : op[w].pc = "idle"
      BY SessionAssumption DEF Init, Procs, Idle, SessionAssumption
    <2> QED
      BY <2>1 DEF Init, Contract!Init, Pending, NoEffect, Contract!NoEffect
  <1>4. SessionInv /\ [Next]_vars => [Contract!Next]_(Contract!contractVars)
    BY SessionAssumption, ProcStepKeepsContract, WriterKeepsContract, OthersKeepContract,
       LateEffectKeepsContract
       DEF Next, PollStep, WriterStep, Procs, ContractStep
  <1> QED
    BY <1>1, <1>2, <1>3, <1>4, PTL DEF Spec, KeepsContract, Contract!Spec

============================================================================
