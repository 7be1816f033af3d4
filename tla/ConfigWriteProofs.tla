------------------------- MODULE ConfigWriteProofs -------------------------
(***************************************************************************)
(* For every set of platforms, fields, groups and values: a write never    *)
(* blanks a setting at the vendor, and the cache never shows a value that  *)
(* was asked for and refused, whatever polls read and in whatever order    *)
(* writes, polls and late effects follow each other.                       *)
(***************************************************************************)
EXTENDS ConfigWrite, SequenceTheorems, TLAPS

\* Whoever has gone past the queue holds the lock.
LockHeld ==
    \A p \in Platforms :
        op[p].pc \in {"sent", "reconcile"} => lockQueue # << >> /\ Head(lockQueue) = p

\* No write is under way, or still to take effect, whose group was read in
\* part.
WritesAreWhole ==
    /\ \A p \in Platforms : op[p].pc # "idle" => WholeGroup(op[p])
    /\ \A w \in late : WholeGroup(w)

\* What a read of field f may have returned.
Readable(f) == held[f] \cup {Unread[f]}

\* Whatever may reach the cache or the vendor later is something the vendor
\* has taken, but for the group a write is about to send.
NothingFromNowhere ==
    /\ \A f \in Fields : vendor[f] \in held[f] /\ served[f] \in held[f]
    /\ \A f \in Fields : poll.config[f] \in Readable(f)
    /\ \A w \in late, f \in Fields : Group[f] = Group[w.field] => w.config[f] \in held[f]
    /\ \A p \in Platforms :
          op[p].pc # "idle" =>
              \A f \in Fields :
                  Group[f] # Group[op[p].field] => op[p].config[f] \in Readable(f)

ConfigInv ==
    TypeOK /\ LockHeld /\ WritesAreWhole /\ NothingBlanked /\ NothingFromNowhere
           /\ CacheShowsOnlyHeld

----------------------------------------------------------------------------

\* An unread config is a config.
LEMMA UnreadType == Unread \in Config
  BY DEF Unread, Config, Values

LEMMA BoundsType ==
  ASSUME ConfigAssumption
  PROVE  MaxWrites \in Nat /\ MaxFaults \in Nat
  BY DEF ConfigAssumption

\* A write on its own is told from no write by its pc.
LEMMA OpCases ==
  ASSUME TypeOK, NEW p \in Platforms, op[p].pc # "idle"
  PROVE  op[p] \in Write
  BY DEF TypeOK, NoWrite

\* To begin with, everything is as it was read.
LEMMA InitEstablishesConfigInv ==
  ASSUME ConfigAssumption, Init
  PROVE  ConfigInv
  <1> USE DEF Init
  <1>1. vendor \in Config /\ served \in Config /\ cache \in Config
    BY DEF Config, ConfigAssumption
  <1>2. poll \in [pc : {"idle", "reading", "read"}, listed : BOOLEAN, config : Config]
    BY UnreadType DEF NoPoll, Poll
  <1>3. op \in [Platforms -> Write \cup {NoWrite}] /\ lockQueue \in Seq(Platforms)
    OBVIOUS
  <1>4. {asked, held} \subseteq [Fields -> SUBSET (Values \cup {None})]
    BY DEF ConfigAssumption
  <1>5. count \in [writes : 0 .. MaxWrites, faults : 0 .. MaxFaults]
    BY DEF ConfigAssumption
  <1>6. TypeOK
    BY <1>1, <1>2, <1>3, <1>4, <1>5 DEF TypeOK
  <1>7. LockHeld /\ WritesAreWhole
    BY DEF LockHeld, WritesAreWhole, NoWrite
  <1>8. NothingBlanked
    BY DEF NothingBlanked, ConfigAssumption
  <1>9. NothingFromNowhere /\ CacheShowsOnlyHeld
    BY DEF NothingFromNowhere, CacheShowsOnlyHeld, Readable, NoPoll, Poll, NoWrite
  <1> QED
    BY <1>6, <1>7, <1>8, <1>9 DEF ConfigInv

----------------------------------------------------------------------------
(* The vendor.                                                             *)

\* Taking a write adds its group to the history and forgets nothing.
LEMMA HoldGrows ==
  ASSUME TypeOK, NEW w \in Write, Hold(w)
  PROVE  /\ held' \in [Fields -> SUBSET (Values \cup {None})]
         /\ \A f \in Fields : held[f] \subseteq held'[f]
         /\ \A f \in Fields : Group[f] = Group[w.field] => w.config[f] \in held'[f]
  BY DEF TypeOK, Hold, Write, Config

\* A whole group replaces values by values the history has.
LEMMA ApplyIsHonest ==
  ASSUME ConfigInv, NEW w \in Write, WholeGroup(w), Apply(w),
         \A f \in Fields : held[f] \subseteq held'[f],
         \A f \in Fields : Group[f] = Group[w.field] => w.config[f] \in held'[f]
  PROVE  /\ vendor' \in Config /\ served' \in Config
         /\ NothingBlanked'
         /\ \A f \in Fields : vendor'[f] \in held'[f] /\ served'[f] \in held'[f]
  <1> USE DEF ConfigInv, Apply, Stored
  <1>1. vendor \in Config /\ served \in Config /\ w.config \in Config
    BY DEF TypeOK, Write
  <1>2. vendor' \in Config
    BY <1>1 DEF Config
  <1>3. served' \in Config
    BY <1>1, <1>2
  <1>4. NothingBlanked'
    BY DEF NothingBlanked, WholeGroup
  <1>5. \A f \in Fields : vendor'[f] \in held'[f]
    BY DEF NothingFromNowhere
  <1>6. \A f \in Fields : served'[f] \in held'[f]
    BY <1>5 DEF NothingFromNowhere
  <1> QED
    BY <1>2, <1>3, <1>4, <1>5, <1>6

\* Reads catching up, and writes taking effect late, need no write under
\* way to be what it was.
LEMMA VendorKeepsInv ==
  ASSUME ConfigAssumption, ConfigInv, VendorCatchesUp \/ VendorAppliesLate
  PROVE  ConfigInv'
  <1> USE DEF ConfigInv, VendorCatchesUp, VendorAppliesLate
  <1>1. UNCHANGED <<cache, known, available, poll, refreshDue, op, lockQueue, asked, held, count>>
    BY DEF pollVars, writeVars
  <1>2. late' \subseteq late
    OBVIOUS
  <1>3. /\ vendor' \in Config /\ served' \in Config
        /\ NothingBlanked'
        /\ \A f \in Fields : vendor'[f] \in held'[f] /\ served'[f] \in held'[f]
    <2>1. CASE VendorCatchesUp
      BY <1>1, <2>1 DEF TypeOK, NothingBlanked, NothingFromNowhere
    <2>2. CASE VendorAppliesLate
      <3>1. PICK w \in late : Apply(w)
        BY <2>2
      <3>2. w \in Write /\ WholeGroup(w)
        BY DEF TypeOK, WritesAreWhole
      <3>3. \A f \in Fields : Group[f] = Group[w.field] => w.config[f] \in held'[f]
        BY <1>1 DEF NothingFromNowhere
      <3> QED
        BY <1>1, <3>1, <3>2, <3>3, ApplyIsHonest
    <2> QED
      BY <2>1, <2>2
  <1>4. TypeOK'
    BY <1>1, <1>2, <1>3 DEF TypeOK
  <1>5. LockHeld' /\ WritesAreWhole' /\ CacheShowsOnlyHeld'
    BY <1>1, <1>2 DEF LockHeld, WritesAreWhole, WholeGroup, CacheShowsOnlyHeld
  <1>6. NothingFromNowhere'
    BY <1>1, <1>2, <1>3 DEF NothingFromNowhere, Readable
  <1> QED
    BY <1>3, <1>4, <1>5, <1>6

----------------------------------------------------------------------------
(* The writes.                                                             *)

\* A step that starts no write: those under way go on as they were, or end.
WritesGoOn ==
    /\ op' \in [Platforms -> Write \cup {NoWrite}]
    /\ lockQueue' \in Seq(Platforms)
    /\ LockHeld'
    /\ \A p \in Platforms :
          op'[p].pc # "idle" =>
              /\ op[p].pc # "idle"
              /\ op'[p].field = op[p].field /\ op'[p].config = op[p].config

\* Moving a write on keeps what it is about.
LEMMA MovedOn ==
  ASSUME TypeOK, NEW p \in Platforms, op[p].pc # "idle",
         NEW pc \in {"queued", "sent", "reconcile"}
  PROVE  /\ [op EXCEPT ![p].pc = pc] \in [Platforms -> Write \cup {NoWrite}]
         /\ [op EXCEPT ![p].pc = pc][p].pc = pc
         /\ [op EXCEPT ![p].pc = pc][p].field = op[p].field
         /\ [op EXCEPT ![p].pc = pc][p].config = op[p].config
         /\ \A q \in Platforms : q # p => [op EXCEPT ![p].pc = pc][q] = op[q]
  <1> DEFINE r == [op[p] EXCEPT !.pc = pc]
  <1>1. op[p] \in Write
    BY OpCases
  <1>2. r \in Write /\ r.pc = pc /\ r.field = op[p].field /\ r.config = op[p].config
    BY <1>1 DEF Write
  <1>3. [op EXCEPT ![p].pc = pc] = [op EXCEPT ![p] = r]
    BY DEF TypeOK
  <1> HIDE DEF r
  <1> QED
    BY <1>2, <1>3 DEF TypeOK

\* The head of the queue takes the lock.
LEMMA TakeLockGoesOn ==
  ASSUME ConfigInv, NEW p \in Platforms, TakeLock(p)
  PROVE  WritesGoOn
  <1> USE DEF ConfigInv
  <1>1. op' = [op EXCEPT ![p].pc = "sent"] /\ op[p].pc = "queued"
    BY DEF TakeLock
  <1>2. UNCHANGED lockQueue /\ lockQueue # << >> /\ Head(lockQueue) = p
    BY DEF TakeLock
  <1>3. /\ op' \in [Platforms -> Write \cup {NoWrite}]
        /\ op'[p].field = op[p].field /\ op'[p].config = op[p].config
        /\ \A q \in Platforms : q # p => op'[q] = op[q]
    BY <1>1, MovedOn
  <1>4. LockHeld'
    BY <1>2, <1>3 DEF LockHeld
  <1> QED
    BY <1>1, <1>2, <1>3, <1>4 DEF WritesGoOn, TypeOK

\* Its holder gives the lock up.
LEMMA EndWriteGoesOn ==
  ASSUME ConfigInv, NEW p \in Platforms, op[p].pc = "sent", EndWrite(p)
  PROVE  WritesGoOn
  <1> USE DEF ConfigInv, EndWrite
  <1>1. op' \in [Platforms -> Write \cup {NoWrite}]
    BY DEF TypeOK
  <1>2. op'[p].pc = "idle" /\ \A q \in Platforms : q # p => op'[q] = op[q]
    BY DEF TypeOK, NoWrite
  <1>3. lockQueue' \in Seq(Platforms)
    BY DEF TypeOK, LockHeld
  <1>4. LockHeld'
    BY <1>2 DEF LockHeld
  <1> QED
    BY <1>1, <1>2, <1>3, <1>4 DEF WritesGoOn

\* Or keeps it until the poll it asked for has ended.
LEMMA RequestRefreshGoesOn ==
  ASSUME ConfigInv, NEW p \in Platforms, op[p].pc = "sent", RequestRefresh(p)
  PROVE  /\ WritesGoOn
         /\ refreshDue' \in BOOLEAN
         /\ poll' \in {poll, Poll("reading")}
  <1> USE DEF ConfigInv
  <1>1. CASE refreshDue' = TRUE /\ EndWrite(p) /\ UNCHANGED poll
    BY <1>1, EndWriteGoesOn
  <1>2. CASE /\ poll' = Poll("reading")
             /\ op' = [op EXCEPT ![p].pc = "reconcile"]
             /\ UNCHANGED <<lockQueue, refreshDue>>
    <2>1. /\ op' \in [Platforms -> Write \cup {NoWrite}]
          /\ op'[p].field = op[p].field /\ op'[p].config = op[p].config
          /\ \A q \in Platforms : q # p => op'[q] = op[q]
      BY <1>2, MovedOn
    <2>2. LockHeld'
      BY <1>2, <2>1 DEF LockHeld
    <2> QED
      BY <1>2, <2>1, <2>2 DEF WritesGoOn, TypeOK
  <1> QED
    BY <1>1, <1>2 DEF RequestRefresh

\* The end of a poll ends the write that awaited it.
LEMMA EndPollGoesOn ==
  ASSUME ConfigInv, EndPoll
  PROVE  WritesGoOn
  <1> USE DEF ConfigInv, EndPoll
  <1>1. op' \in [Platforms -> Write \cup {NoWrite}]
    BY DEF TypeOK
  <1>2. \A q \in Platforms : op'[q] = IF op[q].pc = "reconcile" THEN NoWrite ELSE op[q]
    OBVIOUS
  <1>3. lockQueue' \in Seq(Platforms)
    BY DEF TypeOK, LockHeld
  <1>4. LockHeld'
    BY <1>2 DEF LockHeld, NoWrite
  <1> QED
    BY <1>1, <1>2, <1>3, <1>4 DEF WritesGoOn, NoWrite

\* Then the writes under way stay whole and honest, however the history
\* grows.
LEMMA WritesStayHonest ==
  ASSUME ConfigInv, WritesGoOn,
         \A f \in Fields : held[f] \subseteq held'[f]
  PROVE  /\ \A p \in Platforms : op'[p].pc # "idle" => WholeGroup(op'[p])
         /\ \A p \in Platforms :
               op'[p].pc # "idle" =>
                   \A f \in Fields :
                       Group[f] # Group[op'[p].field] =>
                           op'[p].config[f] \in held'[f] \cup {Unread[f]}
  <1> USE DEF ConfigInv, WritesGoOn
  <1>1. \A p \in Platforms : op'[p].pc # "idle" => WholeGroup(op'[p])
    BY DEF WritesAreWhole, WholeGroup
  <1>2. ASSUME NEW p \in Platforms, op'[p].pc # "idle",
               NEW f \in Fields, Group[f] # Group[op'[p].field]
        PROVE  op'[p].config[f] \in held'[f] \cup {Unread[f]}
    BY <1>2 DEF NothingFromNowhere, Readable
  <1> QED
    BY <1>1, <1>2

\* What the rest of the state must do for a step that starts no write.
LEMMA OtherwiseInvariant ==
  ASSUME ConfigInv, WritesGoOn,
         \A f \in Fields : held[f] \subseteq held'[f],
         held' \in [Fields -> SUBSET (Values \cup {None})], UNCHANGED asked,
         vendor' \in Config, served' \in Config, NothingBlanked',
         \A f \in Fields : vendor'[f] \in held'[f] /\ served'[f] \in held'[f],
         late' \subseteq Write,
         \A w \in late' : WholeGroup(w),
         \A w \in late', f \in Fields : Group[f] = Group[w.field] => w.config[f] \in held'[f],
         cache' \in Config, CacheShowsOnlyHeld',
         {known', available', refreshDue'} \subseteq BOOLEAN,
         poll' \in [pc : {"idle", "reading", "read"}, listed : BOOLEAN, config : Config],
         \A f \in Fields : poll'.config[f] \in held'[f] \cup {Unread[f]},
         count' \in [writes : 0 .. MaxWrites, faults : 0 .. MaxFaults]
  PROVE  ConfigInv'
  <1>1. TypeOK'
    BY DEF WritesGoOn, ConfigInv, TypeOK
  <1>2. LockHeld'
    BY DEF WritesGoOn
  <1>3. WritesAreWhole' /\ NothingFromNowhere'
    BY WritesStayHonest DEF WritesAreWhole, NothingFromNowhere, Readable
  <1> QED
    BY <1>1, <1>2, <1>3 DEF ConfigInv

\* A fault is counted, within its bound.
LEMMA FaultType ==
  ASSUME ConfigAssumption, TypeOK, Fault \/ UNCHANGED count
  PROVE  count' \in [writes : 0 .. MaxWrites, faults : 0 .. MaxFaults]
  <1>1. count \in [writes : 0 .. MaxWrites, faults : 0 .. MaxFaults]
    BY DEF TypeOK
  <1>2. CASE Fault
    <2>1. count.faults + 1 \in 0 .. MaxFaults
      BY <1>1, <1>2 DEF Fault, ConfigAssumption
    <2> QED
      BY <1>1, <1>2, <2>1 DEF Fault
  <1> QED
    BY <1>1, <1>2

\* What a poll under way has read stays readable.
LEMMA PollStaysHonest ==
  ASSUME ConfigInv, poll' \in {poll, Poll("reading"), NoPoll},
         \A f \in Fields : held[f] \subseteq held'[f]
  PROVE  /\ poll' \in [pc : {"idle", "reading", "read"}, listed : BOOLEAN, config : Config]
         /\ \A f \in Fields : poll'.config[f] \in held'[f] \cup {Unread[f]}
  <1>1. {NoPoll, Poll("reading")} \subseteq
          [pc : {"idle", "reading", "read"}, listed : BOOLEAN, config : Config]
    BY UnreadType DEF NoPoll, Poll
  <1>2. NoPoll.config = Unread /\ Poll("reading").config = Unread
    BY DEF NoPoll, Poll
  <1> QED
    BY <1>1, <1>2 DEF ConfigInv, TypeOK, NothingFromNowhere, Readable

\* Taking the lock touches nothing else.
LEMMA TakeLockKeepsInv ==
  ASSUME ConfigAssumption, ConfigInv, NEW p \in Platforms, TakeLock(p)
  PROVE  ConfigInv'
  <1>1. UNCHANGED <<vendor, served, late, cache, known, available, poll, refreshDue, asked,
                    held, count>>
    BY DEF TakeLock, vendorVars, pollVars
  <1>2. /\ \A w \in late' : WholeGroup(w)
        /\ \A w \in late', f \in Fields : Group[f] = Group[w.field] => w.config[f] \in held'[f]
        /\ CacheShowsOnlyHeld' /\ NothingBlanked'
        /\ \A f \in Fields : vendor'[f] \in held'[f] /\ served'[f] \in held'[f]
    BY <1>1 DEF ConfigInv, WritesAreWhole, NothingFromNowhere, CacheShowsOnlyHeld, NothingBlanked
  <1>3. /\ poll' \in [pc : {"idle", "reading", "read"}, listed : BOOLEAN, config : Config]
        /\ \A f \in Fields : poll'.config[f] \in held'[f] \cup {Unread[f]}
    BY <1>1, PollStaysHonest
  <1> QED
    BY <1>1, <1>2, <1>3, TakeLockGoesOn, OtherwiseInvariant DEF ConfigInv, TypeOK

\* What a write starts from is the cached config, or nothing, but for the
\* field it is about.
LEMMA MutatedType ==
  ASSUME ConfigAssumption, TypeOK, NEW f \in Fields, NEW v \in Asked[f]
  PROVE  /\ Mutated(f, v) \in Config
         /\ v * Scale[f] \in Values
         /\ \A g \in Fields : g # f => Mutated(f, v)[g] \in {cache[g], Unread[g]}
         /\ \/ Mutated(f, v)[f] = v * Scale[f]
            \/ f \in RowFields /\ Mutated(f, v)[f] = v
            \/ Mutated(f, v)[f] = cache[f] /\ Displayed(f) = v
  <1>1. v \in Nat /\ Scale[f] \in Nat
    BY DEF ConfigAssumption, Values
  <1>2. v * Scale[f] \in Nat
    BY <1>1
  <1>3. cache \in Config /\ Unread \in Config
    BY UnreadType DEF TypeOK
  <1>4. \/ SetValue(f, v) = v * Scale[f]
        \/ SetValue(f, v) = cache[f] /\ Displayed(f) = v
    BY DEF SetValue, SetShown, Displayed
  <1> QED
    BY <1>1, <1>2, <1>3, <1>4 DEF Mutated, RowWrite, Config, Values

\* Platform p asks for v in field f.
StartsWith(p, f, v) ==
    LET w == [pc |-> "queued", field |-> f, config |-> Mutated(f, v)]
    IN  /\ RuleKept(w) /\ WholeGroup(w)
        /\ op' = [op EXCEPT ![p] = w]
        /\ asked' = IF Displayed(f) = v THEN asked
                    ELSE [asked EXCEPT ![f] = @ \cup {v * Scale[f]}]

LEMMA StartsSomehow ==
  ASSUME NEW p \in Platforms, StartWrite(p)
  PROVE  /\ \E f \in Fields : \E v \in Asked[f] : StartsWith(p, f, v)
         /\ count.writes < MaxWrites
         /\ count' = [count EXCEPT !.writes = @ + 1]
  <1>1. \E f \in Fields : \E v \in Asked[f] : StartsWith(p, f, v)
    BY DEF StartWrite, StartsWith
  <1>2. count.writes < MaxWrites /\ count' = [count EXCEPT !.writes = @ + 1]
    BY DEF StartWrite
  <1> QED
    BY <1>1, <1>2

\* The write that starts copies the cache; the guard lets it through only
\* if its group is whole.
LEMMA StartWriteKeepsInv ==
  ASSUME ConfigAssumption, ConfigInv, NEW p \in Platforms, StartWrite(p)
  PROVE  ConfigInv'
  <1> USE DEF ConfigInv
  <1>0. PICK f \in Fields : \E v \in Asked[f] : StartsWith(p, f, v)
    BY StartsSomehow
  <1>1. PICK v \in Asked[f] : StartsWith(p, f, v)
    BY <1>0
  <1> DEFINE w == [pc |-> "queued", field |-> f, config |-> Mutated(f, v)]
  <1>2. UNCHANGED <<vendor, served, late, cache, known, available, poll, refreshDue, held>>
    BY DEF StartWrite, vendorVars, pollVars
  <1>3. w \in Write /\ w.pc = "queued" /\ w.field = f
    BY MutatedType DEF Write
  <1>4. \A g \in Fields : g # f => w.config[g] \in {cache[g], Unread[g]}
    BY MutatedType
  <1>5. op' = [op EXCEPT ![p] = w] /\ WholeGroup(w)
    BY <1>1 DEF StartsWith
  <1> HIDE DEF w
  <1>6. /\ op' \in [Platforms -> Write \cup {NoWrite}] /\ op'[p] = w
        /\ \A q \in Platforms : q # p => op'[q] = op[q]
    BY <1>3, <1>5 DEF TypeOK
  <1>7. lockQueue \in Seq(Platforms) /\ lockQueue' = Append(lockQueue, p)
    BY DEF StartWrite, TypeOK
  <1>8. asked' \in [Fields -> SUBSET (Values \cup {None})]
    <2>1. v * Scale[f] \in Values
      BY MutatedType
    <2> QED
      BY <1>1, <2>1 DEF StartsWith, TypeOK
  <1>9. count' \in [writes : 0 .. MaxWrites, faults : 0 .. MaxFaults]
    <2>1. count \in [writes : 0 .. MaxWrites, faults : 0 .. MaxFaults]
      BY DEF TypeOK
    <2>2. count.writes + 1 \in 0 .. MaxWrites /\ count' = [count EXCEPT !.writes = @ + 1]
      BY <2>1, BoundsType, StartsSomehow
    <2> QED
      BY <2>1, <2>2
  <1>10. TypeOK'
    BY <1>2, <1>6, <1>7, <1>8, <1>9, AppendProperties DEF TypeOK
  <1>11. LockHeld'
    <2>1. SUFFICES ASSUME NEW q \in Platforms, op'[q].pc \in {"sent", "reconcile"}
                   PROVE  lockQueue' # << >> /\ Head(lockQueue') = q
      BY DEF LockHeld
    <2>2. q # p
      BY <2>1, <1>3, <1>6
    <2>3. lockQueue # << >> /\ Head(lockQueue) = q
      BY <2>1, <2>2, <1>6 DEF LockHeld
    <2> QED
      BY <2>3, <1>7, AppendProperties, HeadTailAppend
  <1>12. WritesAreWhole'
    BY <1>2, <1>5, <1>6 DEF WritesAreWhole, WholeGroup
  <1>13. \A g \in Fields : Group[g] # Group[w.field] => w.config[g] \in Readable(g)
    BY <1>3, <1>4 DEF CacheShowsOnlyHeld, Readable
  <1>14. NothingFromNowhere'
    BY <1>2, <1>6, <1>13 DEF NothingFromNowhere, Readable
  <1>15. NothingBlanked' /\ CacheShowsOnlyHeld'
    BY <1>2 DEF NothingBlanked, CacheShowsOnlyHeld
  <1> QED
    BY <1>10, <1>11, <1>12, <1>14, <1>15

\* Success is published; whatever is shown after it was accepted or held.
LEMMA WriteAcceptedKeepsInv ==
  ASSUME ConfigAssumption, ConfigInv, NEW p \in Platforms, WriteAccepted(p)
  PROVE  ConfigInv'
  <1> USE DEF ConfigInv
  <1>1. op[p] \in Write /\ WholeGroup(op[p]) /\ op[p].pc = "sent"
    BY OpCases DEF WriteAccepted, WritesAreWhole
  <1>2. /\ held' \in [Fields -> SUBSET (Values \cup {None})]
        /\ \A f \in Fields : held[f] \subseteq held'[f]
        /\ \A f \in Fields : Group[f] = Group[op[p].field] => op[p].config[f] \in held'[f]
    BY <1>1, HoldGrows DEF WriteAccepted
  <1>3. UNCHANGED <<late, known, available, asked>>
    BY DEF WriteAccepted
  <1>4. /\ vendor' \in Config /\ served' \in Config /\ NothingBlanked'
        /\ \A f \in Fields : vendor'[f] \in held'[f] /\ served'[f] \in held'[f]
    <2>1. CASE Apply(op[p])
      BY <1>1, <1>2, <2>1, ApplyIsHonest
    <2>2. CASE UNCHANGED <<vendor, served>>
      BY <1>2, <2>2 DEF TypeOK, NothingBlanked, NothingFromNowhere
    <2> QED
      BY <2>1, <2>2 DEF WriteAccepted
  <1>5. WritesGoOn /\ refreshDue' \in BOOLEAN
        /\ poll' \in {poll, Poll("reading"), NoPoll}
    <2>1. CASE EndWrite(p) /\ UNCHANGED <<poll, refreshDue>>
      BY <1>1, <2>1, EndWriteGoesOn DEF TypeOK
    <2>2. CASE RequestRefresh(p)
      BY <1>1, <2>2, RequestRefreshGoesOn
    <2> QED
      BY <2>1, <2>2 DEF WriteAccepted, Publish
  <1>6. cache' \in Config /\ CacheShowsOnlyHeld'
    <2>1. CASE UNCHANGED cache
      BY <1>2, <2>1 DEF TypeOK, CacheShowsOnlyHeld
    <2>2. CASE cache' = op[p].config
      <3>1. \A f \in Fields : op[p].config[f] \in held'[f] \cup {Unread[f]}
        BY <1>1, <1>2 DEF NothingFromNowhere, Readable
      <3> QED
        BY <1>1, <2>2, <3>1 DEF Write, CacheShowsOnlyHeld
    <2> QED
      BY <2>1, <2>2 DEF WriteAccepted, Publish, Published
  <1>7. /\ poll' \in [pc : {"idle", "reading", "read"}, listed : BOOLEAN, config : Config]
        /\ \A f \in Fields : poll'.config[f] \in held'[f] \cup {Unread[f]}
    BY <1>2, <1>5, PollStaysHonest
  <1>8. count' \in [writes : 0 .. MaxWrites, faults : 0 .. MaxFaults]
    BY FaultType DEF WriteAccepted
  <1>9. /\ \A w \in late' : WholeGroup(w)
        /\ \A w \in late', f \in Fields : Group[f] = Group[w.field] => w.config[f] \in held'[f]
    BY <1>2, <1>3 DEF WritesAreWhole, NothingFromNowhere
  <1>10. late' \subseteq Write /\ {known', available', refreshDue'} \subseteq BOOLEAN
    BY <1>3, <1>5 DEF TypeOK
  <1> QED
    BY <1>2, <1>3, <1>4, <1>5, <1>6, <1>7, <1>8, <1>9, <1>10, OtherwiseInvariant

\* Failure is not shown, and what it may leave to take effect is whole.
LEMMA WriteFailsKeepsInv ==
  ASSUME ConfigAssumption, ConfigInv, NEW p \in Platforms, WriteFails(p)
  PROVE  ConfigInv'
  <1> USE DEF ConfigInv
  <1>1. op[p] \in Write /\ WholeGroup(op[p]) /\ op[p].pc = "sent"
    BY OpCases DEF WriteFails, WritesAreWhole
  <1>2. UNCHANGED <<cache, known, available, asked>>
    BY DEF WriteFails
  <1>3. /\ WritesGoOn /\ refreshDue' \in BOOLEAN
        /\ poll' \in {poll, Poll("reading"), NoPoll}
    <2>1. CASE RequestRefresh(p)
      BY <1>1, <2>1, RequestRefreshGoesOn
    <2>2. CASE GiveUp(p)
      BY <1>1, <2>2, EndWriteGoesOn DEF GiveUp, TypeOK
    <2> QED
      BY <2>1, <2>2 DEF WriteFails
  <1>4. \/ UNCHANGED <<vendor, served, late, held>>
        \/ Apply(op[p]) /\ Hold(op[p]) /\ UNCHANGED late
        \/ late' = late \cup {op[p]} /\ Hold(op[p]) /\ UNCHANGED <<vendor, served>>
    BY DEF WriteFails, vendorVars
  <1>5. /\ held' \in [Fields -> SUBSET (Values \cup {None})]
        /\ \A f \in Fields : held[f] \subseteq held'[f]
        /\ Hold(op[p]) => \A f \in Fields :
              Group[f] = Group[op[p].field] => op[p].config[f] \in held'[f]
    BY <1>1, <1>4, HoldGrows DEF TypeOK
  <1>6. /\ vendor' \in Config /\ served' \in Config /\ NothingBlanked'
        /\ \A f \in Fields : vendor'[f] \in held'[f] /\ served'[f] \in held'[f]
    <2>1. CASE Apply(op[p]) /\ Hold(op[p])
      BY <1>1, <1>5, <2>1, ApplyIsHonest
    <2>2. CASE UNCHANGED <<vendor, served>>
      BY <1>5, <2>2 DEF TypeOK, NothingBlanked, NothingFromNowhere
    <2> QED
      BY <1>4, <2>1, <2>2
  <1>7. /\ late' \subseteq Write
        /\ \A w \in late' : WholeGroup(w)
        /\ \A w \in late', f \in Fields : Group[f] = Group[w.field] => w.config[f] \in held'[f]
    <2>1. CASE UNCHANGED late
      BY <1>5, <2>1 DEF TypeOK, WritesAreWhole, NothingFromNowhere
    <2>2. CASE late' = late \cup {op[p]} /\ Hold(op[p])
      BY <1>1, <1>5, <2>2 DEF TypeOK, WritesAreWhole, NothingFromNowhere
    <2> QED
      BY <1>4, <2>1, <2>2
  <1>8. /\ poll' \in [pc : {"idle", "reading", "read"}, listed : BOOLEAN, config : Config]
        /\ \A f \in Fields : poll'.config[f] \in held'[f] \cup {Unread[f]}
    BY <1>3, <1>5, PollStaysHonest
  <1>9. count' \in [writes : 0 .. MaxWrites, faults : 0 .. MaxFaults]
    BY FaultType DEF WriteFails
  <1>10. cache' \in Config /\ CacheShowsOnlyHeld' /\ {known', available', refreshDue'} \subseteq BOOLEAN
    BY <1>2, <1>3, <1>5 DEF TypeOK, CacheShowsOnlyHeld
  <1> QED
    BY <1>2, <1>3, <1>5, <1>6, <1>7, <1>8, <1>9, <1>10, OtherwiseInvariant

----------------------------------------------------------------------------
(* The poll.                                                               *)

\* A poll reads what the vendor serves, or nothing, and publishes what it
\* has read, however long ago.
LEMMA PollKeepsInv ==
  ASSUME ConfigAssumption, ConfigInv, PollStep
  PROVE  ConfigInv'
  <1> USE DEF ConfigInv
  <1>1. UNCHANGED <<vendor, served, late, asked, held>>
    BY DEF PollStep, StartPoll, PollReads, PollPublishes, PollFails, EndPoll, vendorVars
  <1>2. WritesGoOn
    <2>1. CASE EndPoll
      BY <2>1, EndPollGoesOn
    <2>2. CASE UNCHANGED <<op, lockQueue>>
      BY <2>2 DEF WritesGoOn, TypeOK, LockHeld
    <2> QED
      BY <2>1, <2>2 DEF PollStep, StartPoll, PollReads, PollPublishes, PollFails, writeVars
  <1>3. /\ poll' \in [pc : {"idle", "reading", "read"}, listed : BOOLEAN, config : Config]
        /\ \A f \in Fields : poll'.config[f] \in held'[f] \cup {Unread[f]}
    <2>1. CASE PollReads
      <3>1. PICK listed \in BOOLEAN, config \in {served, Unread, RowOnly} :
              poll' = [pc |-> "read", listed |-> listed, config |-> config]
        BY <2>1 DEF PollReads
      <3>2. config \in Config /\ \A f \in Fields : config[f] \in held[f] \cup {Unread[f]}
        <4>1. served \in Config /\ Unread \in Config
          BY UnreadType DEF TypeOK
        <4>2. RowOnly \in Config /\ \A f \in Fields : RowOnly[f] \in {served[f], Unread[f]}
          BY <4>1 DEF RowOnly, Config
        <4>3. \A f \in Fields : served[f] \in held[f]
          BY DEF NothingFromNowhere
        <4> QED
          BY <4>1, <4>2, <4>3
      <3> QED
        BY <1>1, <3>1, <3>2
    <2>2. CASE poll' \in {Poll("reading"), NoPoll}
      BY <1>1, <2>2, PollStaysHonest
    <2> QED
      BY <2>1, <2>2 DEF PollStep, StartPoll, PollPublishes, PollFails, EndPoll
  <1>4. cache' \in Config /\ CacheShowsOnlyHeld'
    <2>1. CASE UNCHANGED cache
      BY <1>1, <2>1 DEF TypeOK, CacheShowsOnlyHeld
    <2>2. CASE cache' = poll.config
      BY <1>1, <2>2 DEF TypeOK, CacheShowsOnlyHeld, NothingFromNowhere, Readable
    <2> QED
      BY <2>1, <2>2 DEF PollStep, StartPoll, PollReads, PollPublishes, PollFails
  <1>5. {known', available', refreshDue'} \subseteq BOOLEAN
    BY DEF TypeOK, PollStep, StartPoll, PollReads, PollPublishes, PollFails, EndPoll
  <1>6. count' \in [writes : 0 .. MaxWrites, faults : 0 .. MaxFaults]
    BY FaultType DEF PollStep, StartPoll, PollReads, PollPublishes, PollFails
  <1>7. /\ late' \subseteq Write
        /\ \A w \in late' : WholeGroup(w)
        /\ \A w \in late', f \in Fields : Group[f] = Group[w.field] => w.config[f] \in held'[f]
    BY <1>1 DEF TypeOK, WritesAreWhole, NothingFromNowhere
  <1>8. /\ vendor' \in Config /\ served' \in Config /\ NothingBlanked'
        /\ \A f \in Fields : vendor'[f] \in held'[f] /\ served'[f] \in held'[f]
        /\ held' \in [Fields -> SUBSET (Values \cup {None})]
        /\ \A f \in Fields : held[f] \subseteq held'[f]
    BY <1>1 DEF TypeOK, NothingBlanked, NothingFromNowhere
  <1> QED
    BY <1>1, <1>2, <1>3, <1>4, <1>5, <1>6, <1>7, <1>8, OtherwiseInvariant

----------------------------------------------------------------------------

\* Every step keeps the invariant.
LEMMA ConfigInvInductive ==
  ASSUME ConfigAssumption, ConfigInv, [Next]_vars
  PROVE  ConfigInv'
  <1>1. CASE VendorCatchesUp \/ VendorAppliesLate
    BY <1>1, VendorKeepsInv
  <1>2. ASSUME NEW p \in Platforms, StartWrite(p) \/ WriteStep(p)
        PROVE  ConfigInv'
    BY <1>2, StartWriteKeepsInv, TakeLockKeepsInv, WriteAcceptedKeepsInv, WriteFailsKeepsInv
       DEF WriteStep
  <1>3. CASE PollStep
    BY <1>3, PollKeepsInv
  <1>4. CASE UNCHANGED vars
    <2> USE <1>4 DEF ConfigInv, vars, vendorVars, pollVars, writeVars
    <2>1. TypeOK' /\ LockHeld' /\ NothingBlanked' /\ CacheShowsOnlyHeld'
      BY DEF TypeOK, LockHeld, NothingBlanked, CacheShowsOnlyHeld
    <2>2. WritesAreWhole' /\ NothingFromNowhere'
      BY DEF WritesAreWhole, WholeGroup, NothingFromNowhere, Readable
    <2> QED
      BY <2>1, <2>2
  <1> QED
    BY <1>1, <1>2, <1>3, <1>4 DEF Next

\* The variables keep their types.
THEOREM ConfigTypeCorrect == Spec => []TypeOK
  <1>1. Init => ConfigInv
    BY ConfigAssumption, InitEstablishesConfigInv
  <1>2. ConfigInv /\ [Next]_vars => ConfigInv'
    BY ConfigAssumption, ConfigInvInductive
  <1>3. ConfigInv => TypeOK
    BY DEF ConfigInv
  <1> QED
    BY <1>1, <1>2, <1>3, PTL DEF Spec

\* _reject_partial_group is enough: no write blanks a setting, not even one
\* that takes effect late, in any interleaving of polls and writes.
THEOREM NoSettingIsBlanked == Spec => []NothingBlanked
  <1>1. Init => ConfigInv
    BY ConfigAssumption, InitEstablishesConfigInv
  <1>2. ConfigInv /\ [Next]_vars => ConfigInv'
    BY ConfigAssumption, ConfigInvInductive
  <1>3. ConfigInv => NothingBlanked
    BY DEF ConfigInv
  <1> QED
    BY <1>1, <1>2, <1>3, PTL DEF Spec

\* The cache never claims a change that was refused: what it shows of a
\* field the vendor has held or accepted, or is what an absent field reads as.
THEOREM CacheIsHonest == Spec => []CacheShowsOnlyHeld
  <1>1. Init => ConfigInv
    BY ConfigAssumption, InitEstablishesConfigInv
  <1>2. ConfigInv /\ [Next]_vars => ConfigInv'
    BY ConfigAssumption, ConfigInvInductive
  <1>3. ConfigInv => CacheShowsOnlyHeld
    BY DEF ConfigInv
  <1> QED
    BY <1>1, <1>2, <1>3, PTL DEF Spec

----------------------------------------------------------------------------
(* Where the values come from, and the thresholds.                         *)

\* The writes under way.
Sent == {op[p] : p \in {q \in Platforms : op[q].pc # "idle"}}

\* What field f may hold without having drifted.
Wished(f) == asked[f] \cup {Unread[f]}

\* What the vendor was sent, or will be, was wished for, and keeps the rule.
SentInv ==
    /\ NoDrift /\ ThresholdsHeld
    /\ \A w \in Sent : RuleKept(w) /\ \A f \in Fields : w.config[f] \in Wished(f)
    /\ \A w \in late : RuleKept(w)

\* A step that starts no write sends nothing new.
LEMMA NothingNewSent ==
  ASSUME ConfigInv, [Next]_vars, \A p \in Platforms : ~ StartWrite(p)
  PROVE  /\ WritesGoOn /\ asked' = asked
         /\ held' = held \/ \E w \in Sent : Hold(w)
         /\ late' \subseteq late \cup Sent
         /\ vendor' = vendor \/ \E w \in late \cup Sent : vendor' = Stored(w, vendor)
  <1> DEFINE Result ==
               /\ WritesGoOn /\ asked' = asked
               /\ held' = held \/ \E w \in Sent : Hold(w)
               /\ late' \subseteq late \cup Sent
               /\ vendor' = vendor \/ \E w \in late \cup Sent : vendor' = Stored(w, vendor)
  <1>1. ASSUME UNCHANGED <<op, lockQueue>>
        PROVE  WritesGoOn
    BY <1>1 DEF WritesGoOn, ConfigInv, TypeOK, LockHeld
  <1>2. CASE VendorCatchesUp
    BY <1>1, <1>2 DEF VendorCatchesUp, pollVars, writeVars
  <1>3. CASE VendorAppliesLate
    BY <1>1, <1>3 DEF VendorAppliesLate, Apply, pollVars, writeVars
  <1>4. ASSUME NEW p \in Platforms, TakeLock(p)
        PROVE  Result
    <2>1. WritesGoOn
      BY <1>4, TakeLockGoesOn
    <2> QED
      BY <1>4, <2>1 DEF TakeLock, vendorVars, pollVars
  <1>5. ASSUME NEW p \in Platforms, WriteAccepted(p)
        PROVE  Result
    <2>1. op[p] \in Sent /\ op[p].pc = "sent"
      BY <1>5 DEF WriteAccepted, Sent
    <2>2. EndWrite(p) \/ RequestRefresh(p)
      BY <1>5 DEF WriteAccepted, Publish
    <2>3. WritesGoOn
      BY <2>1, <2>2, EndWriteGoesOn, RequestRefreshGoesOn
    <2> QED
      BY <1>5, <2>1, <2>3 DEF WriteAccepted, Apply
  <1>6. ASSUME NEW p \in Platforms, WriteFails(p)
        PROVE  Result
    <2>1. op[p] \in Sent /\ op[p].pc = "sent"
      BY <1>6 DEF WriteFails, Sent
    <2>2. EndWrite(p) \/ RequestRefresh(p)
      BY <1>6 DEF WriteFails, GiveUp
    <2>3. WritesGoOn
      BY <2>1, <2>2, EndWriteGoesOn, RequestRefreshGoesOn
    <2> QED
      BY <1>6, <2>1, <2>3 DEF WriteFails, Apply, vendorVars
  <1>7. CASE PollStep
    <2>1. UNCHANGED <<vendor, served, late, asked, held>>
      BY <1>7 DEF PollStep, StartPoll, PollReads, PollPublishes, PollFails, EndPoll, vendorVars
    <2>2. EndPoll \/ UNCHANGED <<op, lockQueue>>
      BY <1>7 DEF PollStep, StartPoll, PollReads, PollPublishes, PollFails, writeVars
    <2> QED
      BY <1>1, <2>1, <2>2, EndPollGoesOn
  <1>8. CASE UNCHANGED vars
    BY <1>1, <1>8 DEF vars, vendorVars, pollVars, writeVars
  <1> QED
    BY <1>2, <1>3, <1>4, <1>5, <1>6, <1>7, <1>8 DEF Next, WriteStep

\* The vendor takes a pair as a whole, or keeps the one it has.
LEMMA PairsStayWhole ==
  ASSUME ConfigAssumption, ThresholdsHeld, NEW w, RuleKept(w),
         vendor' = Stored(w, vendor)
  PROVE  ThresholdsHeld'
  <1> SUFFICES ASSUME NEW pair \in Thresholds
               PROVE  WaterPair(vendor'[pair[1]], vendor'[pair[2]])
    BY DEF ThresholdsHeld
  <1>1. pair[1] \in Fields /\ pair[2] \in Fields /\ Group[pair[1]] = Group[pair[2]]
    BY DEF ConfigAssumption
  <1>2. CASE Group[pair[1]] = Group[w.field]
    <2>1. vendor'[pair[1]] = w.config[pair[1]] /\ vendor'[pair[2]] = w.config[pair[2]]
      BY <1>1, <1>2 DEF Stored
    <2> QED
      BY <1>2, <2>1 DEF RuleKept
  <1>3. CASE Group[pair[1]] # Group[w.field]
    <2>1. vendor'[pair[1]] = vendor[pair[1]] /\ vendor'[pair[2]] = vendor[pair[2]]
      BY <1>1, <1>3 DEF Stored
    <2> QED
      BY <2>1 DEF ThresholdsHeld
  <1> QED
    BY <1>2, <1>3

\* The field that is set keeps its stored value if it shows what was asked.
LEMMA MutatedField ==
  ASSUME ConfigAssumption, TypeOK, NEW f \in Fields, NEW v \in Asked[f]
  PROVE  Mutated(f, v)[f] = IF Displayed(f) = v THEN cache[f] ELSE v * Scale[f]
  <1>1. v \in Nat /\ v # None /\ Scale[f] \in Nat \ {0} /\ (f \in RowFields => Scale[f] = 1)
    BY DEF ConfigAssumption, Values
  <1>2. cache \in Config /\ cache[f] \in Nat \cup {None} /\ Unread \in Config
    BY UnreadType DEF TypeOK, Config, Values
  <1>3. CASE f \in RowFields
    <2>1. cache[f] # None => Displayed(f) = cache[f]
      BY <1>1, <1>2, <1>3 DEF Displayed, Shown
    <2>2. cache[f] = None => Displayed(f) = None
      BY DEF Displayed
    <2>3. Mutated(f, v)[f] = v /\ v * Scale[f] = v
      BY <1>1, <1>2, <1>3 DEF Mutated, RowWrite, Config
    <2> QED
      BY <2>1, <2>2, <2>3, <1>1
  <1>4. CASE f \notin RowFields
    <2>1. Mutated(f, v)[f] = SetValue(f, v)
      BY <1>2, <1>4 DEF Mutated, RowWrite, Config
    <2>2. SetValue(f, v) = IF Displayed(f) = v THEN cache[f] ELSE v * Scale[f]
      BY <1>1 DEF SetValue, SetShown, Displayed
    <2> QED
      BY <2>1, <2>2
  <1> QED
    BY <1>3, <1>4

LEMMA StartKeepsSentInv ==
  ASSUME ConfigAssumption, ConfigInv, SentInv, NEW p \in Platforms, StartWrite(p)
  PROVE  SentInv'
  <1>1. PICK f \in Fields : \E v \in Asked[f] : StartsWith(p, f, v)
    BY StartsSomehow
  <1>2. PICK v \in Asked[f] : StartsWith(p, f, v)
    BY <1>1
  <1> DEFINE w == [pc |-> "queued", field |-> f, config |-> Mutated(f, v)]
  <1>3. /\ RuleKept(w) /\ op' = [op EXCEPT ![p] = w]
        /\ asked' = IF Displayed(f) = v THEN asked
                    ELSE [asked EXCEPT ![f] = @ \cup {v * Scale[f]}]
    BY <1>2 DEF StartsWith
  <1>4. w.config = Mutated(f, v)
    OBVIOUS
  <1> HIDE DEF w
  <1>5. UNCHANGED <<vendor, late, cache, held>>
    BY DEF StartWrite, vendorVars, pollVars
  <1>6. /\ \A g \in Fields : asked[g] \subseteq asked'[g]
        /\ Displayed(f) # v => v * Scale[f] \in asked'[f]
    BY <1>3 DEF ConfigInv, TypeOK
  <1>7. \A g \in Fields : cache[g] \in Wished(g)
    BY DEF ConfigInv, CacheShowsOnlyHeld, SentInv, NoDrift, Wished
  <1>8. \A g \in Fields : w.config[g] \in Wished(g)'
    <2>1. SUFFICES ASSUME NEW g \in Fields
                   PROVE  w.config[g] \in asked'[g] \cup {Unread[g]}
      BY DEF Wished
    <2>2. CASE g # f
      <3>1. w.config[g] \in {cache[g], Unread[g]}
        BY <1>4, <2>2, MutatedType DEF ConfigInv
      <3> QED
        BY <3>1, <1>6, <1>7 DEF Wished
    <2>3. CASE g = f
      <3>1. w.config[g] = IF Displayed(f) = v THEN cache[f] ELSE v * Scale[f]
        BY <1>4, <2>3, MutatedField DEF ConfigInv
      <3> QED
        BY <3>1, <2>3, <1>6, <1>7 DEF Wished
    <2> QED
      BY <2>2, <2>3
  <1>9. Sent' \subseteq Sent \cup {w}
    BY <1>3 DEF Sent, ConfigInv, TypeOK
  <1>10. \A x \in Sent' : RuleKept(x) /\ \A g \in Fields : x.config[g] \in Wished(g)'
    BY <1>3, <1>6, <1>8, <1>9 DEF SentInv, Wished
  <1>11. NoDrift' /\ ThresholdsHeld' /\ \A x \in late' : RuleKept(x)
    BY <1>5, <1>6 DEF SentInv, NoDrift, ThresholdsHeld
  <1> QED
    BY <1>10, <1>11 DEF SentInv, RuleKept

LEMMA NextSentInv ==
  ASSUME ConfigAssumption, ConfigInv, SentInv, [Next]_vars
  PROVE  SentInv'
  <1>1. CASE \E p \in Platforms : StartWrite(p)
    BY <1>1, StartKeepsSentInv
  <1>2. CASE \A p \in Platforms : ~ StartWrite(p)
    <2>1. /\ WritesGoOn /\ asked' = asked
          /\ held' = held \/ \E w \in Sent : Hold(w)
          /\ late' \subseteq late \cup Sent
          /\ vendor' = vendor \/ \E w \in late \cup Sent : vendor' = Stored(w, vendor)
      BY <1>2, NothingNewSent
    <2>2. \A x \in Sent' : \E w \in Sent : x.field = w.field /\ x.config = w.config
      <3>1. SUFFICES ASSUME NEW p \in Platforms, op'[p].pc # "idle"
                     PROVE  \E w \in Sent : /\ op'[p].field = w.field
                                           /\ op'[p].config = w.config
        BY DEF Sent
      <3>2. /\ op[p].pc # "idle"
            /\ op'[p].field = op[p].field /\ op'[p].config = op[p].config
        BY <2>1, <3>1 DEF WritesGoOn
      <3>3. op[p] \in Sent
        BY <3>2 DEF Sent
      <3> QED
        BY <3>2, <3>3
    <2>3. \A w \in late \cup Sent : RuleKept(w)
      BY DEF SentInv
    <2>4. \A x \in Sent' : RuleKept(x) /\ \A f \in Fields : x.config[f] \in Wished(f)'
      BY <2>1, <2>2 DEF SentInv, RuleKept, Wished
    <2>5. NoDrift'
      <3>1. \A w \in Sent, f \in Fields : w.config[f] \in Wished(f)
        BY DEF SentInv
      <3>2. \A f \in Fields : held'[f] \subseteq held[f] \cup {w.config[f] : w \in Sent}
        BY <2>1 DEF Hold
      <3> QED
        BY <2>1, <3>1, <3>2 DEF SentInv, NoDrift, Wished
    <2>6. ThresholdsHeld'
      <3>1. CASE vendor' = vendor
        BY <3>1 DEF SentInv, ThresholdsHeld
      <3>2. ASSUME NEW w \in late \cup Sent, vendor' = Stored(w, vendor)
            PROVE  ThresholdsHeld'
        BY <2>3, <3>2, PairsStayWhole DEF SentInv
      <3> QED
        BY <2>1, <3>1, <3>2
    <2>7. \A w \in late' : RuleKept(w)
      BY <2>1, <2>3
    <2> QED
      BY <2>4, <2>5, <2>6, <2>7 DEF SentInv, RuleKept
  <1> QED
    BY <1>1, <1>2

\* To begin with nothing was sent.
LEMMA InitSentInv ==
  ASSUME ConfigAssumption, Init
  PROVE  SentInv
  <1>1. Sent = {} /\ late = {}
    BY DEF Init, Sent, NoWrite
  <1>2. NoDrift
    BY DEF Init, NoDrift
  <1>3. ThresholdsHeld
    BY DEF Init, ThresholdsHeld, ConfigAssumption
  <1> QED
    BY <1>1, <1>2, <1>3 DEF SentInv

\* _unchanged_keeps_raw is enough: the vendor is never sent a rounding of
\* what it held, however stale the copy a write was built from.
THEOREM SettingsDoNotDrift == Spec => []NoDrift
  <1>1. Init => ConfigInv /\ SentInv
    BY ConfigAssumption, InitEstablishesConfigInv, InitSentInv
  <1>2. ConfigInv /\ SentInv /\ [Next]_vars => ConfigInv' /\ SentInv'
    BY ConfigAssumption, ConfigInvInductive, NextSentInv
  <1>3. SentInv => NoDrift
    BY DEF SentInv
  <1> QED
    BY <1>1, <1>2, <1>3, PTL DEF Spec

\* What nobody chose, among the vendor's settings, is the 0 that from_api
\* gives an absent field of its own kind.
ChosenUnlessDefault ==
    \A f \in Fields : vendor[f] \in asked[f] \/ (f \in ZeroDefault /\ vendor[f] = 0)

\* "It is the only outcome that never loses a setting" is so of every field
\* that from_api reads as None when it is absent: the vendor holds what it
\* held first or what a user chose.  A field that reads as 0 may become 0, and
\* nothing else that nobody chose.
THEOREM OnlyDefaultsAreUnchosen == Spec => []ChosenUnlessDefault
  <1>1. Init => ConfigInv /\ SentInv
    BY ConfigAssumption, InitEstablishesConfigInv, InitSentInv
  <1>2. ConfigInv /\ SentInv /\ [Next]_vars => ConfigInv' /\ SentInv'
    BY ConfigAssumption, ConfigInvInductive, NextSentInv
  <1>3. ConfigInv /\ SentInv => ChosenUnlessDefault
    <2> SUFFICES ASSUME ConfigInv, SentInv, NEW f \in Fields
                 PROVE  vendor[f] \in asked[f] \/ (f \in ZeroDefault /\ vendor[f] = 0)
      BY DEF ChosenUnlessDefault
    <2>1. vendor[f] \in asked[f] \/ vendor[f] = Unread[f]
      BY DEF ConfigInv, NothingFromNowhere, SentInv, NoDrift
    <2>2. vendor[f] # None
      BY DEF ConfigInv, NothingBlanked
    <2>3. Unread[f] = IF f \in ZeroDefault THEN 0 ELSE None
      BY DEF Unread
    <2> QED
      BY <2>1, <2>2, <2>3, Zenon
  <1> QED
    BY <1>1, <1>2, <1>3, PTL DEF Spec

\* So if from_api read every absent field as None, no setting would ever be
\* one that nobody chose.
THEOREM OnlyChosenIfAbsentIsNone ==
  ASSUME ZeroDefault = {}
  PROVE  Spec => []VendorHoldsOnlyChosen
  <1>1. ChosenUnlessDefault => VendorHoldsOnlyChosen
    BY DEF ChosenUnlessDefault, VendorHoldsOnlyChosen
  <1> QED
    BY <1>1, OnlyDefaultsAreUnchosen, PTL

\* The two thresholds at the vendor are always a pair it would take, although
\* they are set one at a time.
THEOREM ThresholdsAreAPair == Spec => []ThresholdsHeld
  <1>1. Init => ConfigInv /\ SentInv
    BY ConfigAssumption, InitEstablishesConfigInv, InitSentInv
  <1>2. ConfigInv /\ SentInv /\ [Next]_vars => ConfigInv' /\ SentInv'
    BY ConfigAssumption, ConfigInvInductive, NextSentInv
  <1>3. SentInv => ThresholdsHeld
    BY DEF SentInv
  <1> QED
    BY <1>1, <1>2, <1>3, PTL DEF Spec

----------------------------------------------------------------------------
(* The conversions that the values pass through, for every number the      *)
(* vendor may send.                                                        *)

\* Setting the value on display sends the stored seconds back unchanged,
\* however many of them the display leaves out.
THEOREM NoOpKeepsRaw ==
  ASSUME NEW scale \in Nat \ {0}, NEW raw \in Nat
  PROVE  SetShown(scale, raw, Shown(scale, raw)) = raw
  BY DEF SetShown

\* The quotient of a multiple.
LEMMA MultipleDivides ==
  ASSUME NEW scale \in Nat \ {0}, NEW value \in Nat
  PROVE  (value * scale) \div scale = value
  OBVIOUS

\* What is set is what is shown afterwards.
THEOREM SetIsShown ==
  ASSUME NEW scale \in Nat \ {0}, NEW raw \in Nat, NEW value \in Nat
  PROVE  Shown(scale, SetShown(scale, raw, value)) = value
  BY MultipleDivides DEF SetShown, Shown

\* A time of day survives the wire, and any number of minutes is a time of
\* day, a day's worth of minutes apart at most.
THEOREM TimesRoundTrip ==
  /\ \A t \in Time : MinutesToTime(TimeToMinutes(t)) = t
  /\ \A m \in Nat : MinutesToTime(m) \in Time /\ TimeToMinutes(MinutesToTime(m)) = m % 1440
  <1> USE DEF MinutesPerHour, HoursPerDay
  <1>1. ASSUME NEW t \in Time
        PROVE  MinutesToTime(TimeToMinutes(t)) = t
    <2>1. t = [hour |-> t.hour, minute |-> t.minute] /\ t.hour \in 0 .. 23 /\ t.minute \in 0 .. 59
      BY DEF Time
    <2>2. ((t.hour * 60 + t.minute) \div 60) % 24 = t.hour
      BY <2>1
    <2>3. (t.hour * 60 + t.minute) % 60 = t.minute
      BY <2>1
    <2> QED
      BY <2>1, <2>2, <2>3 DEF MinutesToTime, TimeToMinutes
  <1>2. ASSUME NEW m \in Nat
        PROVE  MinutesToTime(m) \in Time /\ TimeToMinutes(MinutesToTime(m)) = m % 1440
    <2>1. (m \div 60) % 24 \in 0 .. 23 /\ m % 60 \in 0 .. 59
      OBVIOUS
    <2>2. ((m \div 60) % 24) * 60 + (m % 60) = m % 1440
      OBVIOUS
    <2> QED
      BY <2>1, <2>2 DEF MinutesToTime, TimeToMinutes, Time
  <1> QED
    BY <1>1, <1>2

\* A bowl's size is read back as the option that was chosen, and a device
\* type that is not understood is none of the options.
THEOREM SizesRoundTrip ==
  ASSUME None \notin BowlSizes
  PROVE  /\ \A inches \in BowlSizes : BowlSizeOption(DeviceTypeOf(inches)) = inches
         /\ \A deviceType : BowlSizeOption(deviceType) # None =>
               BowlSizeInches(deviceType) = BowlSizeOption(deviceType)
  BY DEF BowlSizes, BowlSizeOption, BowlSizeInches, DeviceTypeOf, DeviceType7Inch,
     DeviceType9Inch

\* The filter's life is between nothing and the whole, and nothing is divided
\* by the zero that stands for an untracked filter.
THEOREM FilterLifeIsAShare ==
  ASSUME NEW canUse \in Nat, NEW used \in Nat, None \notin Nat,
         FilterLife(canUse, used) # None
  PROVE  LET life == FilterLife(canUse, used)
         IN  life.whole > 0 /\ life.left \in 0 .. life.whole
  BY DEF FilterLife, FilterSecondsLeft

\* From any pair of thresholds the builder takes, the user gets to any other
\* with the two single-field writes in one of the two orders.
THEOREM ThresholdsReachable ==
  ASSUME NEW min \in Nat, NEW max \in Nat, NEW newMin \in Nat, NEW newMax \in Nat,
         WaterPair(min, max), WaterPair(newMin, newMax)
  PROVE  WaterPair(newMin, max) \/ WaterPair(min, newMax)
  BY DEF WaterPair

\* What whole hours leave of a number of seconds.
LEMMA RestOfHours ==
  ASSUME NEW n \in Nat
  PROVE  n \div 3600 \in Int /\ n - 3600 * (n \div 3600) \in 0 .. 3599
  OBVIOUS

\* The offset that is sent is less than an hour off, and never beyond it.
THEOREM OffsetTruncated ==
  ASSUME NEW seconds \in Int
  PROVE  LET rest == seconds - SecondsPerHour * OffsetHours(seconds)
         IN  /\ rest \in -3599 .. 3599
             /\ seconds >= 0 => rest >= 0
             /\ seconds <= 0 => rest <= 0
  <1> DEFINE r == seconds - SecondsPerHour * OffsetHours(seconds)
  <1>1. seconds > 0 => r \in 0 .. 3599
    <2> SUFFICES ASSUME seconds > 0 PROVE r \in 0 .. 3599
      OBVIOUS
    <2>1. OffsetHours(seconds) = seconds \div 3600
      BY DEF OffsetHours, SecondsPerHour
    <2> QED
      BY <2>1, RestOfHours DEF SecondsPerHour
  <1>2. seconds = 0 => r = 0
    <2> SUFFICES ASSUME seconds = 0 PROVE r = 0
      OBVIOUS
    <2>1. OffsetHours(seconds) = 0
      BY DEF OffsetHours, SecondsPerHour
    <2> QED
      BY <2>1 DEF SecondsPerHour
  <1>3. seconds < 0 => r \in -3599 .. 0
    <2> SUFFICES ASSUME seconds < 0 PROVE r \in -3599 .. 0
      OBVIOUS
    <2> DEFINE h == (- seconds) \div 3600
    <2>1. OffsetHours(seconds) = - h
      BY DEF OffsetHours, SecondsPerHour
    <2>2. h \in Int /\ (- seconds) - 3600 * h \in 0 .. 3599
      BY RestOfHours
    <2> HIDE DEF h
    <2> QED
      BY <2>1, <2>2 DEF SecondsPerHour
  <1> HIDE DEF r
  <1>4. /\ r \in -3599 .. 3599
        /\ seconds >= 0 => r >= 0
        /\ seconds <= 0 => r <= 0
    <2>1. r \in -3599 .. 3599
      BY <1>1, <1>2, <1>3
    <2>2. ASSUME seconds >= 0 PROVE r >= 0
      <3>1. CASE seconds > 0
        <4>1. r \in 0 .. 3599
          BY <1>1, <3>1
        <4> QED
          BY <4>1
      <3>2. CASE seconds = 0
        <4>1. r = 0
          BY <1>2, <3>2
        <4> QED
          BY <4>1
      <3> QED
        BY <2>2, <3>1, <3>2
    <2>3. ASSUME seconds <= 0 PROVE r <= 0
      <3>1. CASE seconds < 0
        <4>1. r \in -3599 .. 0
          BY <1>3, <3>1
        <4> QED
          BY <4>1
      <3>2. CASE seconds = 0
        <4>1. r = 0
          BY <1>2, <3>2
        <4> QED
          BY <4>1
      <3> QED
        BY <2>3, <3>1, <3>2
    <2> QED
      BY <2>1, <2>2, <2>3
  <1> QED
    BY <1>4, Zenon DEF r

============================================================================
